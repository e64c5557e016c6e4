----------------------------- MODULE VaultFormat -----------------------------
(***************************************************************************)
(* The vault file formats and the codecs of the five JavaScript programs   *)
(* that read and write them.  Cryptography is symbolic: a key is a tuple,  *)
(* a ciphertext is a record that opens only under the key, the nonce and   *)
(* the additional data it was sealed with.  A vault is a record of its     *)
(* fields and of what is wrong with them: "missing" are the fields that    *)
(* are absent or of a wrong type, "short" those that decode to a wrong     *)
(* length, "form" tells which sections the object has.                     *)
(* Everything here is a pure operator; VaultFiles holds the state.         *)
(***************************************************************************)
EXTENDS Naturals, Sequences, FiniteSets

MinOps == 1
MaxOps == 10
MinMem == 8        \* MiB
MaxMem == 256      \* MiB
MinStrength == 3

LockPresets == [quick  |-> [ops |-> 1, mem |-> 32],
                strong |-> [ops |-> 4, mem |-> 96],
                vault  |-> [ops |-> 6, mem |-> 128]]

Modes == {"self", "share"}

---------------------------------------------------------------------------
\* Symbolic cryptography (libsodium, external)

KdfKey(heard, salt, ops, mem) == <<heard, salt, ops, mem>>
Seal(key, nonce, aad, body) ==
  [key |-> key, nonce |-> nonce, aad |-> aad, body |-> body, intact |-> TRUE]
Opens(c, key, nonce, aad) ==
  c.intact /\ c.key = key /\ c.nonce = nonce /\ c.aad = aad

\* The checks of a validator in the order of the code; the first that fails
\* is the error the user sees.
FirstError(checks) ==
  LET failing == {i \in DOMAIN checks : checks[i][1]}
  IN IF failing = {} THEN "none"
     ELSE checks[CHOOSE i \in failing : \A j \in failing : i <= j][2]

Plain(text) == [ok |-> TRUE, text |-> text, err |-> "none"]
Refused(err) == [ok |-> FALSE, text |-> "", err |-> err]

---------------------------------------------------------------------------
\* Additional data: every field but the wrapped key and the ciphertext

BuildAADV1(v) == <<v.contentAlg, v.contentNonce, v.created, v.kdfAlg, v.mem,
                   v.ops, v.salt, v.mode, v.schema, v.version>>
BuildAADV2NoMode(v) == BuildAADV1([v EXCEPT !.mode = ""]) \o <<v.wrapAlg, v.wrapNonce>>
BuildAADV2(v) == BuildAADV1(v) \o <<v.wrapAlg, v.wrapNonce>>

---------------------------------------------------------------------------
\* Validation: <<what is wrong, the kind of error>>, in the code's order

KdfCapChecks(v) ==
  << <<"kdf" \in v.missing, "malformed">>,
     <<v.kdfAlg # "argon2id", "unsupported">>,
     <<v.ops \notin MinOps..MaxOps, "range">>,
     <<v.mem \notin MinMem..MaxMem, "range">>,
     <<"salt" \in v.missing, "malformed">> >>

CommonChecks(v) ==
  << <<"version" \in v.missing, "malformed">>,
     <<"created" \in v.missing, "malformed">>,
     <<v.mode \notin Modes, "malformed">> >> \o KdfCapChecks(v)

ContentChecks(v, alg) ==
  << <<v.contentAlg # alg, "unsupported">>,
     <<"contentNonce" \in v.missing, "malformed">>,
     <<"ct" \in v.missing, "malformed">> >>

WrapChecks(v, alg) ==
  << <<v.wrapAlg # alg, "unsupported">>,
     <<"wrapNonce" \in v.missing, "malformed">>,
     <<"wrapped" \in v.missing, "malformed">> >>

ValidateV1(v) ==
  CommonChecks(v) \o << <<v.schema # "V1", "unsupported">>,
                        <<v.form # "aead", "unsupported">> >>
                  \o ContentChecks(v, "XChaCha20-Poly1305")

ValidateV2(v) ==
  CommonChecks(v) \o << <<v.schema # "V2", "unsupported">>,
                        <<v.form # "wrapped", "unsupported">> >>
                  \o WrapChecks(v, "XChaCha20-Poly1305")
                  \o ContentChecks(v, "XChaCha20-Poly1305")

\* A notification envelope has no mode and no version, and brings its
\* additional data as literal strings.
ValidateNotify(v) ==
  << <<v.schema # "NOTIFY", "unsupported">>,
     <<"created" \in v.missing, "malformed">> >>
  \o KdfCapChecks(v)
  \o << <<v.form # "wrapped", "unsupported">>,
        <<"wrapAad" \in v.missing, "malformed">> >>
  \o WrapChecks(v, "xchacha20poly1305-ietf")
  \o << <<"contentAad" \in v.missing, "malformed">> >>
  \o ContentChecks(v, "xchacha20poly1305-ietf")

\* The command line checks the schema first, and wants non-empty strings.
CliValidateV2(v) ==
  << <<v.schema # "V2", "unsupported">> >> \o CommonChecks(v)
  \o << <<v.form # "wrapped", "malformed">> >>
  \o WrapChecks(v, "XChaCha20-Poly1305") \o ContentChecks(v, "XChaCha20-Poly1305")

\* The proof-lock page does not check the cost of the key derivation.
ProofLockValidateV2(v) ==
  << <<v.schema # "V2", "unsupported">>,
     <<"version" \in v.missing, "malformed">>,
     <<"created" \in v.missing, "malformed">>,
     <<v.mode \notin Modes, "malformed">>,
     <<"kdf" \in v.missing \/ v.kdfAlg # "argon2id", "malformed">>,
     <<v.form # "wrapped" \/ v.wrapAlg # "XChaCha20-Poly1305", "malformed">>,
     <<v.contentAlg # "XChaCha20-Poly1305", "malformed">>,
     <<v.missing \cap {"salt", "wrapNonce", "wrapped", "contentNonce", "ct"} # {},
       "malformed">> >>

PhraseCheck(heard) == << <<heard.typed = "", "phrase">> >>
LengthChecks(v, fields) == << <<v.short \cap fields # {}, "malformed">>,
                              <<"ct" \in v.long, "large">> >>

---------------------------------------------------------------------------
\* Decryption

OpenTwoLayersOneError(v, heard, wrapAad, contentAad) ==
  IF /\ Opens(v.wrapped, KdfKey(heard, v.salt, v.ops, v.mem), v.wrapNonce, wrapAad)
     /\ Opens(v.ct, v.wrapped.body, v.contentNonce, contentAad)
  THEN Plain(v.ct.body) ELSE Refused("content")
OpenTwoLayers(v, heard, wrapAad, contentAad) ==
  LET wrapKey == KdfKey(heard, v.salt, v.ops, v.mem) IN
  IF ~Opens(v.wrapped, wrapKey, v.wrapNonce, wrapAad) THEN Refused("auth")
  ELSE IF ~Opens(v.ct, v.wrapped.body, v.contentNonce, contentAad)
       THEN Refused("content")
       ELSE Plain(v.ct.body)

V2Lengths(v) == LengthChecks(v, {"salt", "wrapNonce", "contentNonce", "wrapped", "ct"})

DecryptV2With(validate, aad, v, heard) ==
  LET err == FirstError(validate \o PhraseCheck(heard) \o V2Lengths(v))
  IN IF err # "none" THEN Refused(err) ELSE OpenTwoLayers(v, heard, aad, aad)

DecryptV1With(v, heard) ==
  LET err == FirstError(ValidateV1(v) \o PhraseCheck(heard)
                        \o LengthChecks(v, {"salt", "contentNonce", "ct"}))
      key == KdfKey(heard, v.salt, v.ops, v.mem)
  IN IF err # "none" THEN Refused(err)
     ELSE IF Opens(v.ct, key, v.contentNonce, BuildAADV1(v)) THEN Plain(v.ct.body)
     ELSE Refused("auth")

DecryptNotifyWith(v, heard) ==
  LET err == FirstError(ValidateNotify(v) \o PhraseCheck(heard) \o V2Lengths(v))
  IN IF err # "none" THEN Refused(err)
     ELSE OpenTwoLayers(v, heard, <<v.wrapAad>>, <<v.contentAad>>)

---------------------------------------------------------------------------
\* Encryption.  rnd: the salt, the two nonces and the vault key to use.

EncryptChecks(text, heard, mode, preset) ==
  << <<text = "", "empty">>, <<heard.typed = "", "phrase">>,
     <<mode \notin Modes, "mode">>,
     <<preset.ops \notin MinOps..MaxOps, "range">>,
     <<preset.mem \notin MinMem..MaxMem, "range">>,
     <<text = "oversized", "large">> >>

NoCipher == Seal(<<>>, 0, <<>>, <<>>)    \* "" until it is filled in

Skeleton(schema, form, version, now, mode, preset, rnd) ==
  [schema |-> schema, form |-> form, version |-> version, created |-> now,
   mode |-> mode, kdfAlg |-> "argon2id", ops |-> preset.ops, mem |-> preset.mem,
   salt |-> rnd.salt, wrapAlg |-> "XChaCha20-Poly1305", wrapNonce |-> rnd.wrapNonce,
   wrapAad |-> "", contentAad |-> "",
   contentAlg |-> "XChaCha20-Poly1305", contentNonce |-> rnd.contentNonce,
   wrapped |-> NoCipher, ct |-> NoCipher,
   missing |-> {}, short |-> {}, long |-> {}]

WithCiphertexts(s, wrapped, ct) == [s EXCEPT !.wrapped = wrapped, !.ct = ct]

EncryptV2With(AAD(_), version, text, heard, mode, preset, now, rnd) ==
  LET s == Skeleton("V2", "wrapped", version, now, mode, preset, rnd)
      wrapKey == KdfKey(heard, rnd.salt, preset.ops, preset.mem)
  IN WithCiphertexts(s, Seal(wrapKey, rnd.wrapNonce, AAD(s), rnd.key),
                        Seal(rnd.key, rnd.contentNonce, AAD(s), text))

EncryptV1With(version, text, heard, mode, preset, now, rnd) ==
  LET s == Skeleton("V1", "aead", version, now, mode, preset, rnd)
      key == KdfKey(heard, rnd.salt, preset.ops, preset.mem)
  IN WithCiphertexts(s, NoCipher, Seal(key, rnd.contentNonce, BuildAADV1(s), text))

=============================================================================
