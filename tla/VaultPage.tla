------------------------------- MODULE VaultPage -------------------------------
(***************************************************************************)
(* The vault page itself: its two forms, the tasks their submit handlers   *)
(* defer with setTimeout, file readers and clipboard promises, with        *)
(* the user typing and clicking in between.  The three copies of the page  *)
(* differ in their codec (VaultPrograms); a behaviour shows one copy and   *)
(* one of its two forms, which share no field.                             *)
(***************************************************************************)
EXTENDS VaultPrograms

CONSTANTS
  Messages,     \* texts a user may type
  Inputs,       \* what a user may paste or pick: files and their form
  Strengths,    \* key strengths the user tries, of those on offer
  MaxLocks,     \* bound: submissions of the encrypt form
  MaxOpens,     \* bound: submissions of the decrypt form
  MaxRenewals   \* bound: clicks on the two regenerate buttons

\* parseVaultInput tries three forms, after looking for a chat envelope.
ASSUME InputsHaveForms ==
  \A i \in Inputs : i.form \in {"json", "line", "sheet", "chat", "cut"}

ASSUME StrengthsAreOffered == Strengths \subseteq DOMAIN LockPresets

Pages == {"site", "landing", "desktop"}

VARIABLES
  where,        \* the copy and the form this behaviour is about
  vaultLoaded,  \* init: "loading", "ready" or "failed"
  enc,          \* the encrypt form
  dec,          \* the decrypt form
  next,         \* source of fresh random values
  made          \* history: the vaults locked, with what was in the form

vaultPageVars == <<where, vaultLoaded, enc, dec, next, made>>

Nothing == [none |-> TRUE]

---------------------------------------------------------------------------
\* The strength of a phrase, from the features the estimator looks at

Least(a, b) == IF a <= b THEN a ELSE b
SeparatorBonus(p) == (IF p.seps >= 3 THEN 1 ELSE 0) + (IF p.seps >= 4 THEN 1 ELSE 0)
PasswordStrength(p) ==
  LET length == Cardinality({n \in {8, 12, 16, 24} : p.len >= n})
      plus == length + Least(p.classes, 2) + SeparatorBonus(p)
      minus == (IF p.triple THEN 2 ELSE 0) + (IF p.common THEN 4 ELSE 0)
      score == IF minus > plus THEN 0 ELSE plus - minus
      capped == IF p.len < 8 THEN Least(score, 1) ELSE score
      token == IF p.len < 12 /\ p.seps = 0 THEN Least(capped, 2) ELSE capped
  IN IF p.len = 0 THEN 0 ELSE Least(token, 7)

Phrase(word, len, classes, seps, triple, common) ==
  [word |-> word, len |-> len, classes |-> classes, seps |-> seps,
   triple |-> triple, common |-> common]
NoPhrase == Phrase("", 0, 0, 0, FALSE, FALSE)
TypedPhrases == {NoPhrase, Phrase("weak", 13, 2, 0, FALSE, TRUE),
                 Phrase("right", 21, 2, 3, FALSE, FALSE)}

\* Four words joined by "-" and two digits; a first word may be on the list of
\* common beginnings, and no word has a letter three times in a row.  The
\* shortest such phrase is the weakest.
GeneratedPhrases == {Phrase("generated", 18, 3, 4, FALSE, common) : common \in BOOLEAN}

Weak(p) == PasswordStrength(p) < MinStrength
HeardOf(p) == [typed |-> p.word, latin |-> FALSE]

---------------------------------------------------------------------------
VaultPageInit ==
  /\ where \in [copy : Pages, form : {"encrypt", "decrypt"}]
  /\ vaultLoaded = "loading"
  /\ enc = [message |-> "", phrase |-> NoPhrase, mode |-> "self", preset |-> "strong",
            nonce |-> 0, salt |-> 0, off |-> TRUE, status |-> "", tasks |-> 0,
            sent |-> 0, renewed |-> 0, json |-> Nothing, buttons |-> Nothing, copying |-> {}]
  /\ dec = [input |-> Nothing, phrase |-> NoPhrase, off |-> TRUE, status |-> "",
            tasks |-> 0, sent |-> 0, reading |-> {}, text |-> "", tried |-> Nothing]
  /\ next = 1
  /\ made = {}

\* The self-test of each copy runs its own codec.
SelfTest(EncryptV2(_,_,_,_,_,_), EncryptV1(_,_,_,_,_,_), Decrypt(_,_)) ==
  LET rnd == [salt |-> 0, wrapNonce |-> 0, contentNonce |-> 0, key |-> <<0>>]
      V2(t, p) == EncryptV2(t, p, "self", LockPresets.quick, "now", rnd)
      V1(t, p) == EncryptV1(t, p, "self", LockPresets.quick, "now", rnd)
  IN SelfTestWith(V2, V1, Decrypt)
SiteSelfTest == SelfTest(SiteEncryptV2, SiteEncryptV1, SiteDecryptVault)
LandingSelfTest == SelfTest(LandingEncryptV2, LandingEncryptV1, LandingDecryptVault)
DesktopSelfTest == SelfTest(DesktopEncryptV2, DesktopEncryptV1, DesktopDecryptVault)

\* The gate of the encrypt button, refreshed whenever the phrase changes.
Gated(e) == [e EXCEPT !.off = Weak(e.phrase)]
RegenerateNonce(e, n) == [e EXCEPT !.nonce = n]
RegenerateSaltNot(e, n) == e
RegenerateSalt(e, n) == [e EXCEPT !.salt = n]

LoadPage(copy, works) ==
  /\ vaultLoaded = "loading" /\ where.copy = copy
  /\ \E sodiumLoads \in BOOLEAN :
       IF sodiumLoads /\ works
       THEN /\ vaultLoaded' = "ready"
            /\ enc' = Gated(RegenerateSalt(RegenerateNonce([enc EXCEPT !.mode = "self"], next),
                                           next + 1))
            /\ dec' = [dec EXCEPT !.off = FALSE]
            /\ next' = next + 2
       ELSE vaultLoaded' = "failed" /\ UNCHANGED <<enc, dec, next>>
  /\ UNCHANGED <<where, made>>
LoadSite == LoadPage("site", SiteSelfTest)
LoadLanding == LoadPage("landing", LandingSelfTest)
LoadDesktop == LoadPage("desktop", DesktopSelfTest)

Using(form) == vaultLoaded = "ready" /\ where.form = form

---------------------------------------------------------------------------
\* The encrypt form

\* Once the last task has run, editing on shows nothing new.
Edits(e) == (enc.sent < MaxLocks \/ enc.tasks > 0)
            /\ enc' = e /\ UNCHANGED <<where, vaultLoaded, dec, next, made>>

TypeMessage == /\ Using("encrypt")
               /\ \E m \in Messages : Edits([enc EXCEPT !.message = m])
TypePhrase == /\ Using("encrypt")
              /\ \E p \in TypedPhrases : Edits(Gated([enc EXCEPT !.phrase = p]))
GeneratePassphrase == /\ Using("encrypt")
                      /\ \E p \in GeneratedPhrases : Edits(Gated([enc EXCEPT !.phrase = p]))
SetMode == /\ Using("encrypt")
           /\ \E m \in Modes : Edits([enc EXCEPT !.mode = m])
SetLockStrength == /\ Using("encrypt")
                   /\ \E k \in Strengths : Edits([enc EXCEPT !.preset = k])

Renew(renewed) ==
  /\ Using("encrypt") /\ enc.renewed < MaxRenewals
  /\ enc' = [renewed EXCEPT !.renewed = @ + 1]
  /\ next' = next + 1
  /\ UNCHANGED <<where, vaultLoaded, dec, made>>
ClickRegenNonce == Renew(RegenerateNonce(enc, next))
ClickRegenSalt == Renew(RegenerateSalt(enc, next))

\* The submit handler only disables its button; the work is a later task.
SubmitEncrypt ==
  /\ Using("encrypt") /\ ~enc.off /\ enc.sent < MaxLocks
  /\ Edits([enc EXCEPT !.off = TRUE, !.status = "Encrypting", !.tasks = @ + 1,
                       !.sent = @ + 1])

\* The task reads the form as it is by then, checks the strength once more,
\* locks, clears the form, renews what is on display, fills the result panel
\* and binds its buttons to this vault.  Its "finally" enables the button.
EncryptTask(copy, EncryptV2(_,_,_,_,_,_)) ==
  LET preset == LockPresets[enc.preset]
      heard == HeardOf(enc.phrase)
      err == IF Weak(enc.phrase) THEN "weak"
             ELSE FirstError(EncryptChecks(enc.message, heard, enc.mode, preset))
      vault == EncryptV2(enc.message, heard, enc.mode, preset, "now",
                         [salt |-> enc.salt, wrapNonce |-> enc.nonce,
                          contentNonce |-> next, key |-> <<next + 1>>])
      cleared == [enc EXCEPT !.message = "", !.phrase = NoPhrase, !.json = vault,
                             !.buttons = vault, !.status = "Locked!"]
  IN /\ Using("encrypt") /\ where.copy = copy /\ enc.tasks > 0
     /\ enc' = [(IF err = "none" THEN RegenerateSalt(RegenerateNonce(cleared, next + 2), next + 3)
                 ELSE [enc EXCEPT !.status = err])
                EXCEPT !.tasks = @ - 1, !.off = FALSE]
     /\ IF err = "none"
        THEN /\ made' = made \cup {[vault |-> vault, message |-> enc.message,
                                    phrase |-> enc.phrase, mode |-> enc.mode]}
             /\ next' = next + 4
        ELSE UNCHANGED <<made, next>>
     /\ UNCHANGED <<where, vaultLoaded, dec>>
SiteEncryptTask == EncryptTask("site", SiteEncryptV2)
LandingEncryptTask == EncryptTask("landing", LandingEncryptV2)
DesktopEncryptTask == EncryptTask("desktop", DesktopEncryptV2)

\* The copy button starts a promise, whose outcome is shown when it settles.
Copy == /\ Using("encrypt") /\ enc.buttons # Nothing
        /\ enc.sent < MaxLocks
        /\ Edits([enc EXCEPT !.copying = @ \cup {enc.buttons}])
CopySettles ==
  /\ Using("encrypt")
  /\ \E v \in enc.copying, said \in {"Copied", "Could not copy"} :
       /\ enc' = [enc EXCEPT !.copying = @ \ {v}, !.status = said]
       /\ UNCHANGED <<where, vaultLoaded, dec, next, made>>

---------------------------------------------------------------------------
\* The decrypt form

Changes(d) == dec' = d /\ UNCHANGED <<where, vaultLoaded, enc, next, made>>

PasteInput == /\ Using("decrypt") /\ dec.sent < MaxOpens
              /\ \E i \in Inputs : Changes([dec EXCEPT !.input = i])
TypeDecryptPhrase ==
  /\ Using("decrypt") /\ dec.sent < MaxOpens
  /\ \E p \in TypedPhrases : Changes([dec EXCEPT !.phrase = p])

\* A picked or dropped file is read asynchronously, and two may be under way.
LoadFileIntoTextarea ==
  /\ Using("decrypt") /\ dec.sent < MaxOpens
  /\ \E i \in Inputs : Changes([dec EXCEPT !.reading = @ \cup {i}])
ReaderLoads ==
  /\ Using("decrypt")
  /\ \E i \in dec.reading :
       Changes([dec EXCEPT !.reading = @ \ {i}, !.input = i, !.status = "Loaded"])
ReaderFails ==
  /\ Using("decrypt")
  /\ \E i \in dec.reading :
       Changes([dec EXCEPT !.reading = @ \ {i}, !.status = "Could not read file"])

SubmitDecrypt ==
  /\ Using("decrypt") /\ ~dec.off /\ dec.sent < MaxOpens
  /\ Changes([dec EXCEPT !.off = TRUE, !.status = "Decrypting", !.tasks = @ + 1,
                         !.sent = @ + 1])

\* The form of the input decides: a chat envelope is recognised first, then
\* recovery sheet, text line and JSON are parsed.
ParseAndDecrypt(i, heard, Decrypt(_,_)) ==
  CASE i = Nothing -> Refused("empty")
    [] i # Nothing /\ i.form = "chat" -> DecryptChatEnvelope(i.vault, heard)
    [] i # Nothing /\ i.form \in {"json", "line", "sheet"} -> Decrypt(i.vault, heard)
    [] i # Nothing /\ i.form = "cut" -> Refused("parse")

Outcome(done, r) ==
  IF r.ok THEN [done EXCEPT !.phrase = NoPhrase, !.text = r.text, !.status = "Decrypted"]
  ELSE [done EXCEPT !.status = r.err]
DecryptTask(copy, Decrypt(_,_)) ==
  LET r == ParseAndDecrypt(dec.input, HeardOf(dec.phrase), Decrypt)
      done == [dec EXCEPT !.tasks = @ - 1, !.off = FALSE,
                          !.tried = [input |-> dec.input, word |-> dec.phrase.word]]
  IN /\ Using("decrypt") /\ where.copy = copy /\ dec.tasks > 0
     /\ Changes(Outcome(done, r))
SiteDecryptTask == DecryptTask("site", SiteDecryptVault)
LandingDecryptTask == DecryptTask("landing", LandingDecryptVault)
DesktopDecryptTask == DecryptTask("desktop", DesktopDecryptVault)

VaultPageNext ==
  \/ LoadSite \/ LoadLanding \/ LoadDesktop
  \/ TypeMessage \/ TypePhrase \/ GeneratePassphrase \/ SetMode \/ SetLockStrength
  \/ ClickRegenNonce \/ ClickRegenSalt \/ SubmitEncrypt
  \/ SiteEncryptTask \/ LandingEncryptTask \/ DesktopEncryptTask
  \/ Copy \/ CopySettles
  \/ PasteInput \/ TypeDecryptPhrase \/ LoadFileIntoTextarea \/ ReaderLoads \/ ReaderFails
  \/ SubmitDecrypt \/ SiteDecryptTask \/ LandingDecryptTask \/ DesktopDecryptTask

VaultPageSpec == VaultPageInit /\ [][VaultPageNext]_vaultPageVars

---------------------------------------------------------------------------
\* Properties

\* The types of the state.
VaultPageTypeOK ==
  /\ vaultLoaded \in {"loading", "ready", "failed"}
  /\ enc.mode \in Modes /\ enc.preset \in DOMAIN LockPresets
  /\ enc.sent \in 0..MaxLocks /\ enc.tasks \in 0..MaxLocks
  /\ dec.sent \in 0..MaxOpens /\ dec.tasks \in 0..MaxOpens

\* Whatever was typed, generated or switched between a submit and its task,
\* each vault is locked under a phrase strong enough, in the mode on the form,
\* and with a salt and nonces that no other vault of the page has; what is on
\* display for the next one has not been used.
LockedAsShown ==
  \A m \in made :
    /\ ~Weak(m.phrase) /\ m.vault.mode = m.mode
    /\ m.vault.ct.body = m.message /\ m.vault.wrapped.key[1] = HeardOf(m.phrase)
    /\ \A o \in made \ {m} :
         {m.vault.salt, m.vault.wrapNonce, m.vault.contentNonce}
           \cap {o.vault.salt, o.vault.wrapNonce, o.vault.contentNonce} = {}
    /\ m.vault.salt # enc.salt /\ m.vault.wrapNonce # enc.nonce

\* A phrase from the generator is always strong enough to lock with.
GeneratedMayLock ==
  vaultLoaded = "ready" /\ enc.tasks = 0 /\ enc.phrase.word = "generated" => ~enc.off

\* "Decrypted successfully" stands next to the content of the input that was
\* tried last, never next to the content of an earlier one, though files are
\* read and fields edited while the task waits.
SuccessIsOfLastTry ==
  dec.status = "Decrypted" =>
    /\ dec.tried.input # Nothing /\ dec.tried.input.form # "cut"
    /\ dec.text = dec.tried.input.vault.ct.body

\* What the page shows and offers is true of what it has done.
PageKeepsItsWord == LockedAsShown /\ GeneratedMayLock /\ SuccessIsOfLastTry

=============================================================================
