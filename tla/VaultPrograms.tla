---------------------------- MODULE VaultPrograms ----------------------------
(***************************************************************************)
(* The programs that implement the vault formats, function by function:    *)
(*   site       public-site/vault/chat.js, the hosted page                 *)
(*   landing    landing/vault/chat.js, the copy on the landing site        *)
(*   desktop    tauri-app/ui/chat.js, the copy inside the desktop app      *)
(*   cli        qev-cli/lib, the command line                              *)
(*   proofLock  proof-lock-web/src/qev.ts, the proof-lock page             *)
(*   notify     landing/notify/notify.js, notification envelopes only      *)
(* The copies are maintained by hand.  Where they agree the definitions    *)
(* below name the same operator of VaultFormat; a drift of one copy is a   *)
(* change of that copy's definitions alone.                                *)
(***************************************************************************)
EXTENDS VaultFormat

Unsupported(v) == Refused("unsupported")

---------------------------------------------------------------------------
\* The hosted page

SiteAADV2(v) == BuildAADV2(v)
SiteEncryptV1(text, heard, mode, preset, now, rnd) ==
  EncryptV1With("0.28.1", text, heard, mode, preset, now, rnd)
SiteEncryptV2(text, heard, mode, preset, now, rnd) ==
  EncryptV2With(SiteAADV2, "0.28.1", text, heard, mode, preset, now, rnd)
SiteDecryptV1(v, heard) == DecryptV1With(v, heard)
SiteDecryptV2(v, heard) == DecryptV2With(ValidateV2(v), SiteAADV2(v), v, heard)
SiteDecryptNotify(v, heard) == DecryptNotifyWith(v, heard)
SiteDecryptVault(v, heard) ==
  CASE v.schema = "V2" -> SiteDecryptV2(v, heard)
    [] v.schema = "V1" -> SiteDecryptV1(v, heard)
    [] v.schema = "NOTIFY" -> SiteDecryptNotify(v, heard)
    [] OTHER -> Unsupported(v)

---------------------------------------------------------------------------
\* The landing copy

LandingAADDrifted(v) == BuildAADV1(v)
LandingAADV2(v) == BuildAADV2(v)
LandingEncryptV1(text, heard, mode, preset, now, rnd) ==
  EncryptV1With("0.28.1", text, heard, mode, preset, now, rnd)
LandingEncryptV2(text, heard, mode, preset, now, rnd) ==
  EncryptV2With(LandingAADV2, "0.28.1", text, heard, mode, preset, now, rnd)
LandingDecryptV1(v, heard) == DecryptV1With(v, heard)
LandingDecryptV2(v, heard) == DecryptV2With(ValidateV2(v), LandingAADV2(v), v, heard)
LandingDecryptNotify(v, heard) == DecryptNotifyWith(v, heard)
LandingDecryptVault(v, heard) ==
  CASE v.schema = "V2" -> LandingDecryptV2(v, heard)
    [] v.schema = "V1" -> LandingDecryptV1(v, heard)
    [] v.schema = "NOTIFY" -> LandingDecryptNotify(v, heard)
    [] OTHER -> Unsupported(v)

---------------------------------------------------------------------------
\* The desktop copy does not know notification envelopes

DesktopAADV2(v) == BuildAADV2(v)
DesktopEncryptV1(text, heard, mode, preset, now, rnd) ==
  EncryptV1With("0.28.1", text, heard, mode, preset, now, rnd)
DesktopEncryptV2(text, heard, mode, preset, now, rnd) ==
  EncryptV2With(DesktopAADV2, "0.28.1", text, heard, mode, preset, now, rnd)
DesktopDecryptV1(v, heard) == DecryptV1With(v, heard)
DesktopDecryptV2(v, heard) == DecryptV2With(ValidateV2(v), DesktopAADV2(v), v, heard)
DesktopDecryptVault(v, heard) ==
  CASE v.schema = "V2" -> DesktopDecryptV2(v, heard)
    [] v.schema = "V1" -> DesktopDecryptV1(v, heard)
    [] OTHER -> Unsupported(v)

---------------------------------------------------------------------------
\* The command line and the proof-lock page write and read V2 only

CliAADV2(v) == BuildAADV2(v)
CliEncryptV2(text, heard, mode, preset, now, rnd) ==
  EncryptV2With(CliAADV2, "0.30.0", text, heard, mode, preset, now, rnd)
CliDecryptV2(v, heard) == DecryptV2With(CliValidateV2(v), CliAADV2(v), v, heard)

\* A new phrase for an old vault: the vault key is unwrapped with the old
\* phrase and wrapped again, with the same salt, cost and nonce; nothing else
\* of the vault changes.  The result says why it failed or is the new vault.
CliRewrapUnchecked(v, old, new) ==
  CliValidateV2(v) \o PhraseCheck(old) \o PhraseCheck(new)
  \o << <<v.short \cap {"salt", "wrapped"} # {}, "malformed">> >>
CliRewrapChecks(v, old, new) ==
  CliValidateV2(v) \o PhraseCheck(old) \o PhraseCheck(new)
  \o << <<old = new, "same">>, <<v.short \cap {"salt", "wrapped"} # {}, "malformed">> >>
CliRewrapKey(v, old, new) == KdfKey(new, v.salt, v.ops, v.mem)
CliRewrapV2(v, old, new) ==
  LET err == FirstError(CliRewrapChecks(v, old, new))
      oldKey == KdfKey(old, v.salt, v.ops, v.mem)
      aad == CliAADV2(v)
  IN IF err # "none" THEN [ok |-> FALSE, vault |-> v, err |-> err]
     ELSE IF "wrapNonce" \in v.short \/ ~Opens(v.wrapped, oldKey, v.wrapNonce, aad)
          THEN [ok |-> FALSE, vault |-> v, err |-> "auth"]
     ELSE [ok |-> TRUE, err |-> "none", vault |->
             [v EXCEPT !.wrapped = Seal(CliRewrapKey(v, old, new), v.wrapNonce, aad,
                                        v.wrapped.body)]]

ProofLockAADV2(v) == BuildAADV2(v)
ProofLockEncryptV2(text, heard, preset, now, rnd) ==
  EncryptV2With(ProofLockAADV2, "0.30.0", text, heard, "self", preset, now, rnd)
ProofLockDecryptV2(v, heard) ==
  DecryptV2With(ProofLockValidateV2(v), ProofLockAADV2(v), v, heard)

---------------------------------------------------------------------------
\* The QNotify page, landing/notify/notify.js, seals notification envelopes:
\* two layers like V2, but what binds them are two literal strings.  It opens
\* them without checking anything beyond what it decodes.

NotifyPreset == [ops |-> 2, mem |-> 64]     \* libsodium's INTERACTIVE
NotifyEncryptMessage(text, heard, now, rnd) ==
  LET s == [Skeleton("NOTIFY", "wrapped", "", now, "none", NotifyPreset, rnd)
            EXCEPT !.wrapAlg = "xchacha20poly1305-ietf", !.wrapAad = "wrap",
                   !.contentAlg = "xchacha20poly1305-ietf", !.contentAad = "content",
                   !.missing = {"version", "mode"}]
      wrapKey == KdfKey(heard, s.salt, s.ops, s.mem)
  IN WithCiphertexts(s, Seal(wrapKey, s.wrapNonce, <<s.wrapAad>>, rnd.key),
                        Seal(rnd.key, s.contentNonce, <<s.contentAad>>, text))
NotifyDecryptMessage(env, heard) ==
  IF env.schema # "NOTIFY" THEN Unsupported(env)
  ELSE IF (env.missing \cup env.short)
            \cap {"kdf", "salt", "wrapNonce", "wrapped", "contentNonce", "ct"} # {}
       THEN Refused("malformed")
  ELSE OpenTwoLayers(env, heard, <<env.wrapAad>>, <<env.contentAad>>)

---------------------------------------------------------------------------
\* What the desktop chat copies out of a locked conversation, and how a page
\* opens it: a key of the phrase and the sorted pair of identities, no
\* additional data.

ChatKey(heard, ids) == <<heard, ids>>
ChatEnvelope(text, heard, ids, nonce) ==
  [ids |-> ids, nonce |-> nonce, ct |-> Seal(ChatKey(heard, ids), nonce, <<>>, text),
   missing |-> {}]
DecryptChatEnvelope(env, heard) ==
  LET err == FirstError(<< <<env.missing # {}, "malformed">> >> \o PhraseCheck(heard))
  IN IF err # "none" THEN Refused(err)
     ELSE IF Opens(env.ct, ChatKey(heard, env.ids), env.nonce, <<>>)
          THEN Plain(env.ct.body) ELSE Refused("auth")

\* The self-test that must pass before a page enables its forms: a round trip
\* of both formats, a wrong phrase and a flipped ciphertext byte refused.
SelfTestWith(EncryptV2(_,_), EncryptV1(_,_), Decrypt(_,_)) ==
  LET Heard(p) == [typed |-> p, latin |-> FALSE]
      v2 == EncryptV2("test", Heard("self-test"))
      v1 == EncryptV1("test", Heard("self-test"))
      flipped == [v2 EXCEPT !.ct.intact = FALSE]
  IN /\ v2.schema = "V2" /\ v1.schema = "V1"
     /\ Decrypt(v2, Heard("self-test")) = Plain("test")
     /\ ~Decrypt(v2, Heard("wrong")).ok
     /\ ~Decrypt(flipped, Heard("self-test")).ok
     /\ Decrypt(v1, Heard("self-test")) = Plain("test")
=============================================================================
