------------------------------ MODULE VaultFiles ------------------------------
(***************************************************************************)
(* Vault files travelling between the five programs.  A user locks texts   *)
(* on any of them, takes the result away as a file, a line of text or a    *)
(* recovery sheet, rotates the phrase on the command line, and opens what  *)
(* is left on any program; files are altered, truncated and spliced on the *)
(* way.  Notification envelopes and chat messages copied out of a locked   *)
(* conversation travel the same way.  Command-line runs are atomic here;   *)
(* QevCli breaks them into steps.                                          *)
(***************************************************************************)
EXTENDS VaultPrograms

CONSTANTS
  Phrases,        \* what a user may type as a phrase
  NonAscii,       \* those of them with a character outside ASCII
  Secrets,        \* what a user may lock: text, phrase and mode
  MaxMade,        \* bound: locked or rewrapped things
  MaxFiles,       \* bound: files around
  MaxTampers      \* bound: alterations on the way

\* Every program refuses an empty text, an empty phrase and another mode before
\* it makes anything: such a lock leaves nothing behind.
ASSUME SecretsAreLockable ==
  \A s \in Secrets : s.text # "" /\ s.typed # "" /\ s.mode \in Modes

Pages == {"site", "landing", "desktop"}

VARIABLES
  page,      \* per page: the salt and wrap nonce on display, the last result
  files,     \* the files, text lines and sheets around
  next,      \* source of fresh random values
  tampers,   \* alterations so far
  made,      \* history: what the programs locked, with text and phrase
  shown      \* the last attempt to open something

filesVars == <<page, files, next, tampers, made, shown>>

None == [none |-> TRUE]

\* A page hands the typed phrase to the codec as it is.  The command line
\* reads bytes in raw mode and makes each byte a character: what it hears
\* differs from what was typed outside ASCII.
HeardBy(program, typed) ==
  [typed |-> typed, latin |-> program = "cli" /\ typed \in NonAscii]

FilesInit ==
  /\ page = [p \in Pages |->
               LET first == CASE p = "site" -> 1 [] p = "landing" -> 3 [] p = "desktop" -> 5
               IN [salt |-> first, nonce |-> first + 1, result |-> None]]
  /\ files = {}
  /\ next = 7
  /\ tampers = 0
  /\ made = {}
  /\ shown = None

\* Opening changes nothing else, so a behaviour ends with the first attempt:
\* no attempt is lost, and the others are made in other behaviours.
Unopened == shown = None /\ shown' = None

IsVault(v) == "schema" \in DOMAIN v      \* and not a chat envelope
Made(by, v, text, heard, from) ==
  [by |-> by, vault |-> v, text |-> text, heard |-> heard, from |-> from]

Rnd(salt, nonce) == [salt |-> salt, wrapNonce |-> nonce,
                     contentNonce |-> next, key |-> <<next + 1>>]

---------------------------------------------------------------------------
\* Locking on a page: the salt and the wrap nonce on display are used, and
\* replaced once the vault is made.

RenewedNot(p, v) == [page[p] EXCEPT !.result = v]
Renewed(p, v) == [salt |-> next + 2, nonce |-> next + 3, result |-> v]

PageLock(p, EncryptV2(_,_,_,_,_,_)) ==
  \E s \in Secrets :
    LET heard == HeardBy(p, s.typed)
        preset == LockPresets.quick
        err == FirstError(EncryptChecks(s.text, heard, s.mode, preset))
        v == EncryptV2(s.text, heard, s.mode, preset, "now",
                       Rnd(page[p].salt, page[p].nonce))
    IN /\ Cardinality(made) < MaxMade
       /\ err = "none"
       /\ made' = made \cup {Made(p, v, s.text, heard, None)}
       /\ page' = [page EXCEPT ![p] = Renewed(p, v)]
       /\ next' = next + 4
       /\ Unopened
       /\ UNCHANGED <<files, tampers>>

SiteLockOldFormat == PageLock("site", SiteEncryptV1)
SiteLock == PageLock("site", SiteEncryptV2)
LandingLock == PageLock("landing", LandingEncryptV2)
DesktopLock == PageLock("desktop", DesktopEncryptV2)

\* The buttons of the result panel: the .vault.json file, the line of text
\* and the recovery sheet, each with the whole vault in it.
PageExport(p, form) ==
  /\ page[p].result # None
  /\ Cardinality(files) < MaxFiles
  /\ files' = files \cup {[form |-> form, vault |-> page[p].result]}
  /\ Unopened
  /\ UNCHANGED <<page, next, tampers, made>>

SiteDownload == PageExport("site", "json")
SiteCopyText == PageExport("site", "line")
SiteRecoverySheet == PageExport("site", "sheet")
LandingDownload == PageExport("landing", "json")
LandingCopyText == PageExport("landing", "line")
LandingRecoverySheet == PageExport("landing", "sheet")
DesktopDownload == PageExport("desktop", "json")
DesktopCopyText == PageExport("desktop", "line")
DesktopRecoverySheet == PageExport("desktop", "sheet")

\* The other programs draw everything fresh and write the file at once.
DirectLock(program, EncryptV2(_,_,_,_,_,_)) ==
  \E s \in Secrets :
    LET heard == HeardBy(program, s.typed)
        preset == LockPresets.quick
        err == FirstError(EncryptChecks(s.text, heard, s.mode, preset))
        v == EncryptV2(s.text, heard, s.mode, preset, "now", Rnd(next + 2, next + 3))
    IN /\ Cardinality(made) < MaxMade /\ Cardinality(files) < MaxFiles
       /\ err = "none"
       /\ made' = made \cup {Made(program, v, s.text, heard, None)}
       /\ files' = files \cup {[form |-> "json", vault |-> v]}
       /\ next' = next + 4
       /\ Unopened
       /\ UNCHANGED <<page, tampers>>

CliLock == DirectLock("cli", CliEncryptV2)
ProofLockLock ==
  LET Encrypt(text, heard, mode, preset, now, rnd) ==
        ProofLockEncryptV2(text, heard, preset, now, rnd)
  IN DirectLock("proofLock", Encrypt)

Becomes(f, g) == files' = (files \ {f}) \cup {g}

\* qev rewrap FILE: writes the new vault over the file.  Only the wrapped key
\* is read and replaced, so whatever else became of the file on the way, what
\* is locked under the new phrase from here on is what its key was made for.
WithKeyOf(v) == {h \in made : IsVault(h.vault) /\ h.vault.wrapped = v.wrapped}
CliRewrap(f) ==
  \E old, new \in Phrases :
    LET Rewrap(v) == CliRewrapV2(v, HeardBy("cli", old), HeardBy("cli", new))
        r == Rewrap(f.vault)
    IN /\ f.form = "json"
       /\ r.ok
       /\ Cardinality(made) < MaxMade
       /\ Becomes(f, [f EXCEPT !.vault = r.vault])
       /\ made' = made \cup {Made("cli", Rewrap(h.vault).vault, h.text,
                                  HeardBy("cli", new), h.vault) : h \in WithKeyOf(f.vault)}
       /\ Unopened
       /\ UNCHANGED <<page, next, tampers>>

---------------------------------------------------------------------------
\* What arrives from elsewhere

\* A vault of the first format, from before the programs wrote the second.
LegacyVault ==
  \E s \in Secrets :
    LET heard == HeardBy("site", s.typed)
        v == SiteEncryptV1(s.text, heard, s.mode, LockPresets.quick, "now", Rnd(next + 2, 0))
    IN /\ Cardinality(made) < MaxMade /\ Cardinality(files) < MaxFiles
       /\ made' = made \cup {Made("site", v, s.text, heard, None)}
       /\ files' = files \cup {[form |-> "json", vault |-> v]}
       /\ next' = next + 4
       /\ Unopened
       /\ UNCHANGED <<page, tampers>>

\* A notification envelope, published by the QNotify page and saved as a file.
NotifyArrives ==
  \E s \in Secrets :
    LET heard == HeardBy("notify", s.typed)
        v == NotifyEncryptMessage(s.text, heard, "now", Rnd(next + 2, next + 3))
    IN /\ Cardinality(made) < MaxMade /\ Cardinality(files) < MaxFiles
       /\ made' = made \cup {Made("notify", v, s.text, heard, None)}
       /\ files' = files \cup {[form |-> "json", vault |-> v]}
       /\ next' = next + 4
       /\ Unopened
       /\ UNCHANGED <<page, tampers>>

\* "Copy envelope" on a bubble of a locked conversation.
CopyChatEnvelope ==
  \E s \in Secrets :
    LET heard == HeardBy("desktop", s.typed)
        env == ChatEnvelope(s.text, heard, {"a", "b"}, next)
    IN /\ Cardinality(made) < MaxMade /\ Cardinality(files) < MaxFiles
       /\ made' = made \cup {Made("chat", env, s.text, heard, None)}
       /\ files' = files \cup {[form |-> "chat", vault |-> env]}
       /\ next' = next + 1
       /\ Unopened
       /\ UNCHANGED <<page, tampers>>

---------------------------------------------------------------------------
\* Damage on the way

\* Other values a field may be given, still of the right type.
Altered(v, f) ==
  CASE f = "schema" -> {[v EXCEPT !.schema = x] : x \in {"V1", "V2", "V3"}}
    [] f = "version" -> {[v EXCEPT !.version = "0.0.0"]}
    [] f = "created" -> {[v EXCEPT !.created = "earlier"]}
    [] f = "mode" -> {[v EXCEPT !.mode = x] : x \in Modes \cup {"other"}}
    [] f = "ops" -> {[v EXCEPT !.ops = x] : x \in {MinOps - 1, MaxOps, MaxOps + 1}}
    [] f = "mem" -> {[v EXCEPT !.mem = x] : x \in {MinMem, MaxMem + 1}}
    [] f = "salt" -> {[v EXCEPT !.salt = 0]}
    [] f = "wrapNonce" -> {[v EXCEPT !.wrapNonce = 0]}
    [] f = "contentNonce" -> {[v EXCEPT !.contentNonce = 0]}
    [] f = "kdfAlg" -> {[v EXCEPT !.kdfAlg = "scrypt"]}
    [] f = "wrapped" -> {[v EXCEPT !.wrapped.intact = FALSE]}
    [] f = "ct" -> {[v EXCEPT !.ct.intact = FALSE]}

Fields == {"schema", "version", "created", "mode", "ops", "mem", "salt", "wrapNonce",
           "contentNonce", "kdfAlg", "wrapped", "ct"}

\* A field removed or cut short, or taken from another file.
Lacking(v) == {[v EXCEPT !.missing = @ \cup {f}] : f \in {"version", "salt", "wrapped", "ct"}}
CutShort(v) == {[v EXCEPT !.short = @ \cup {f}] : f \in {"salt", "wrapNonce", "wrapped", "ct"}}
Spliced(v, w) ==
  {[v EXCEPT !.wrapped = w.wrapped], [v EXCEPT !.ct = w.ct],
   [v EXCEPT !.ct = w.ct, !.contentNonce = w.contentNonce],
   [w EXCEPT !.wrapped = v.wrapped, !.wrapNonce = v.wrapNonce],
   [v EXCEPT !.salt = w.salt]}
JsonVaults == {f.vault : f \in {g \in files : g.form = "json"}}
Damaged(v) == Lacking(v) \cup CutShort(v) \cup (UNION {Altered(v, f) : f \in Fields})
              \cup (UNION {Spliced(v, w) : w \in JsonVaults})

Tamper(f) ==
  /\ tampers < MaxTampers
  /\ f.form = "json"
  /\ \E v \in Damaged(f.vault) \ {f.vault} : Becomes(f, [f EXCEPT !.vault = v])
  /\ tampers' = tampers + 1
  /\ Unopened
  /\ UNCHANGED <<page, next, made>>

\* Part of a file, a line or a sheet is lost: it does not parse any more.
Truncate(f) ==
  /\ tampers < MaxTampers
  /\ f.form # "cut"
  /\ Becomes(f, [f EXCEPT !.form = "cut"])
  /\ tampers' = tampers + 1
  /\ Unopened
  /\ UNCHANGED <<page, next, made>>

---------------------------------------------------------------------------
\* Opening

Show(program, f, typed, res) ==
  /\ shown = None
  /\ shown' = [by |-> program, form |-> f.form, vault |-> f.vault,
               typed |-> typed, heard |-> HeardBy(program, typed), res |-> res]
  /\ UNCHANGED <<page, files, next, tampers, made>>

\* The decrypt form of a page: a chat envelope is recognised first, then the
\* three forms of a vault (recovery sheet, text line, JSON) are tried.
PageOpen(p, f, Decrypt(_, _)) ==
  \E typed \in Phrases :
    LET heard == HeardBy(p, typed)
    IN Show(p, f, typed, CASE f.form = "chat" -> DecryptChatEnvelope(f.vault, heard)
                           [] f.form \in {"json", "line", "sheet"} -> Decrypt(f.vault, heard)
                           [] f.form = "cut" -> Refused("parse"))

SiteOpen(f) == PageOpen("site", f, SiteDecryptVault)
LandingOpen(f) == PageOpen("landing", f, LandingDecryptVault)
DesktopOpen(f) == PageOpen("desktop", f, DesktopDecryptVault)

\* qev unlock and the proof-lock page parse JSON only; a chat envelope is
\* JSON without a known schema.
JsonOpen(program, f, Decrypt(_, _)) ==
  \E typed \in Phrases :
    LET heard == HeardBy(program, typed)
    IN Show(program, f, typed, CASE f.form = "json" -> Decrypt(f.vault, heard)
                                 [] f.form = "chat" -> Unsupported(f.vault)
                                 [] OTHER -> Refused("parse"))

CliUnlock(f) == JsonOpen("cli", f, CliDecryptV2)
ProofLockOpen(f) == JsonOpen("proofLock", f, ProofLockDecryptV2)

FilesNext ==
  \/ SiteLock \/ LandingLock \/ DesktopLock \/ CliLock \/ ProofLockLock
  \/ SiteDownload \/ SiteCopyText \/ SiteRecoverySheet
  \/ LandingDownload \/ LandingCopyText \/ LandingRecoverySheet
  \/ DesktopDownload \/ DesktopCopyText \/ DesktopRecoverySheet
  \/ LegacyVault \/ NotifyArrives \/ CopyChatEnvelope
  \/ \E f \in files :
       \/ CliRewrap(f) \/ Tamper(f) \/ Truncate(f)
       \/ SiteOpen(f) \/ LandingOpen(f) \/ DesktopOpen(f)
       \/ CliUnlock(f) \/ ProofLockOpen(f)

FilesSpec == FilesInit /\ [][FilesNext]_filesVars

---------------------------------------------------------------------------
\* Properties

\* All that a vault file says of itself next to its ciphertexts.
Announced(v) == {"schema", "version", "created", "mode", "kdfAlg", "ops", "mem", "salt",
                 "contentAlg", "contentNonce"}
                \cup (IF v.form = "aead" THEN {} ELSE {"wrapAlg", "wrapNonce"})
SameFields(v, w) == v.form = w.form /\ \A f \in Announced(v) : v[f] = w[f]

\* The types of the state; pages lock in the second format.
FilesTypeOK ==
  /\ \A p \in Pages : page[p].result = None \/ page[p].result.schema = "V2"
  /\ Cardinality(files) <= MaxFiles
  /\ \A f \in files : f.form \in {"json", "line", "sheet", "chat", "cut"}
  /\ next \in Nat /\ tampers \in 0..MaxTampers

\* Whatever a program shows as the content was locked as one text under the
\* phrase that opened it, and every field next to it is as it was locked
\* (a notification envelope binds no fields, only its content): damage and
\* splicing end in a refusal, never in another text or other metadata.
OnlyTheTruth ==
  shown # None /\ shown.res.ok =>
    \E m \in made :
      /\ m.text = shown.res.text
      /\ m.heard = shown.heard
      /\ IsVault(m.vault) = IsVault(shown.vault)
      /\ IsVault(m.vault) /\ shown.vault.schema # "NOTIFY" =>
           SameFields(m.vault, shown.vault)

\* Which schemas each program reads.
Reads(program, v) ==
  IF ~IsVault(v) THEN program \in Pages
  ELSE CASE v.schema = "V2" -> TRUE
         [] v.schema = "V1" -> program \in Pages
         [] OTHER -> program \in {"site", "landing"}

\* What was locked on any program and arrived undamaged opens on every program
\* that reads its schema and its form, under the phrase the program hears.
AnyProgramOpens ==
  shown # None =>
    \A m \in made :
      (/\ shown.vault = m.vault /\ shown.heard = m.heard
       /\ Reads(shown.by, m.vault)
       /\ shown.form \in {"json", "chat"} \cup (IF shown.by \in Pages
                                                THEN {"line", "sheet"} ELSE {}))
      => shown.res.ok /\ shown.res.text = m.text

\* "The content was tampered with" is said only when the phrase is right: the
\* wrapped key of the file is whole and was sealed under the phrase given.
BlamesContentRightly ==
  shown # None /\ shown.res.err = "content" =>
    /\ shown.vault.wrapped.intact
    /\ shown.vault.wrapped.key[1] = shown.heard

\* After a rewrap the new file refuses the old phrase, and carries the same
\* ciphertext as before: what was rotated is only the wrapped key.
RotatedPhraseIsGone ==
  \A m \in made : m.from # None =>
    /\ m.vault.ct = m.from.ct
    /\ \A h \in made : h.vault = m.from =>
         /\ h.heard # m.heard
         /\ CliDecryptV2(m.vault, h.heard) = Refused("auth")

\* No two different contents are ever sealed under one key and one nonce, over
\* all programs and rewraps, whatever is on display when a page locks.
Ciphers(m) == IF IsVault(m.vault) THEN <<m.vault.wrapped, m.vault.ct>> ELSE <<m.vault.ct>>
NoncesAreFresh ==
  \A m, n \in made : \A i \in DOMAIN Ciphers(m), j \in DOMAIN Ciphers(n) :
    LET c == Ciphers(m)[i]
        d == Ciphers(n)[j]
    IN c.key = d.key /\ c.nonce = d.nonce => c = d

=============================================================================
