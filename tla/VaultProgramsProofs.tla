------------------------- MODULE VaultProgramsProofs --------------------------
(***************************************************************************)
(* What the five programs' codecs do, for any vault, any phrase and any    *)
(* damage: what a validator accepts, what an answer says, which fields a   *)
(* ciphertext is bound to, that a vault any program locked opens in every  *)
(* program that reads its format under the phrase it was locked with and   *)
(* under no other, and what rewrap makes of one.                           *)
(***************************************************************************)
EXTENDS VaultPrograms, QueuesProofs

\* The checks of a validator: what is wrong, and the error.
Errors == {"unsupported", "malformed", "range", "large", "phrase", "same"}
Check == BOOLEAN \X Errors
Passing(s) == s \in Seq(Check) /\ \A i \in 1..Len(s) : s[i][1] = FALSE

\* A vault whose checks all pass has no error, and no other.
LEMMA PassingMeansNone ==
  ASSUME NEW s \in Seq(Check)
  PROVE  Passing(s) <=> FirstError(s) = "none"
<1> DEFINE failing == {i \in DOMAIN s : s[i][1]}
<1>1. DOMAIN s = 1..Len(s) /\ Len(s) \in Nat /\ \A i \in 1..Len(s) : s[i] \in Check
  BY LenProperties
<1>2. \A i \in 1..Len(s) : s[i][1] \in BOOLEAN /\ s[i][2] # "none"
  BY <1>1 DEF Check, Errors
<1>3. CASE failing = {}
  <2>1. \A i \in 1..Len(s) : s[i][1] = FALSE
    BY <1>1, <1>2, <1>3
  <2> QED
    BY <1>3, <2>1 DEF Passing, FirstError
<1>4. CASE failing # {}
  <2>1. PICK b \in failing : \A j \in failing : b <= j
    <3>1. failing \subseteq Nat
      BY <1>1
    <3> HIDE DEF failing
    <3> QED
      BY <1>4, <3>1, LeastNumber
  <2>2. (CHOOSE i \in failing : \A j \in failing : i <= j) \in failing
    BY <2>1
  <2>3. FirstError(s) # "none"
    <3>1. FirstError(s) = s[CHOOSE i \in failing : \A j \in failing : i <= j][2]
      BY <1>4 DEF FirstError
    <3> QED
      BY <1>1, <1>2, <2>2, <3>1
  <2> QED
    BY <1>1, <2>1, <2>3 DEF Passing
<1> QED
  BY <1>3, <1>4

\* The first that fails is the error.
LEMMA FirstThatFails ==
  ASSUME NEW s \in Seq(Check), NEW i \in 1..Len(s), s[i][1] = TRUE,
         \A j \in 1..Len(s) : j < i => s[j][1] = FALSE
  PROVE  FirstError(s) = s[i][2]
<1> DEFINE failing == {j \in DOMAIN s : s[j][1]}
<1>1. DOMAIN s = 1..Len(s) /\ Len(s) \in Nat
  BY LenProperties
<1>2. i \in failing /\ \A j \in failing : i <= j
  BY <1>1
<1>3. (CHOOSE k \in failing : \A j \in failing : k <= j) = i
  <2>1. \A k \in failing : (\A j \in failing : k <= j) => k = i
    BY <1>1, <1>2
  <2> QED
    BY <1>2, <2>1
<1> QED
  BY <1>2, <1>3 DEF FirstError

\* Checks one after the other pass when each part does.
LEMMA PassingTogether ==
  ASSUME NEW s \in Seq(Check), NEW t \in Seq(Check)
  PROVE  s \o t \in Seq(Check) /\ (Passing(s \o t) <=> Passing(s) /\ Passing(t))
<1>1. /\ s \o t \in Seq(Check) /\ Len(s \o t) = Len(s) + Len(t)
      /\ Len(s) \in Nat /\ Len(t) \in Nat
      /\ \A i \in 1..(Len(s) + Len(t)) : (s \o t)[i] = IF i <= Len(s) THEN s[i] ELSE t[i - Len(s)]
  BY ConcatProperties, LenProperties
<1>2. ASSUME Passing(s \o t) PROVE Passing(s) /\ Passing(t)
  <2>1. \A i \in 1..Len(s) : i \in 1..(Len(s) + Len(t)) /\ i <= Len(s)
    BY <1>1
  <2>2. \A i \in 1..Len(t) : /\ i + Len(s) \in 1..(Len(s) + Len(t)) /\ ~(i + Len(s) <= Len(s))
                             /\ i + Len(s) - Len(s) = i
    BY <1>1
  <2>3. \A i \in 1..Len(s) : s[i][1] = FALSE
    BY <1>1, <1>2, <2>1 DEF Passing
  <2>4. \A i \in 1..Len(t) : t[i][1] = FALSE
    BY <1>1, <1>2, <2>2 DEF Passing
  <2> QED
    BY <2>3, <2>4 DEF Passing
<1>3. ASSUME Passing(s), Passing(t) PROVE Passing(s \o t)
  <2>1. \A i \in 1..(Len(s) + Len(t)) : i <= Len(s) => i \in 1..Len(s)
    BY <1>1
  <2>2. \A i \in 1..(Len(s) + Len(t)) : ~(i <= Len(s)) => i - Len(s) \in 1..Len(t)
    BY <1>1
  <2> QED
    BY <1>1, <1>3, <2>1, <2>2 DEF Passing
<1> QED
  BY <1>1, <1>2, <1>3

-------------------------------------------------------------------------------
\* Lists of checks.
LEMMA CheckIs ==
  ASSUME NEW b \in BOOLEAN, NEW e \in Errors
  PROVE  <<b, e>> \in Check /\ (<<b, e>>[1] = FALSE <=> ~b) /\ (<<b, e>>[1] = TRUE <=> b)
  BY DEF Check

LEMMA OneCheck ==
  ASSUME NEW A \in BOOLEAN, NEW a \in Errors
  PROVE  << <<A, a>> >> \in Seq(Check) /\ (Passing(<< <<A, a>> >>) <=> ~A)
<1>1. \A x \in Check : <<x>> \in Seq(Check) /\ (Passing(<<x>>) <=> x[1] = FALSE)
  BY DEF Passing
<1> QED
  BY <1>1, CheckIs

LEMMA TwoChecks ==
  ASSUME NEW A \in BOOLEAN, NEW a \in Errors, NEW B \in BOOLEAN, NEW b \in Errors
  PROVE  /\ << <<A, a>>, <<B, b>> >> \in Seq(Check)
         /\ Passing(<< <<A, a>>, <<B, b>> >>) <=> ~A /\ ~B
<1>1. \A x, y \in Check : /\ <<x, y>> \in Seq(Check)
                          /\ Passing(<<x, y>>) <=> x[1] = FALSE /\ y[1] = FALSE
  BY DEF Passing
<1> QED
  BY <1>1, CheckIs

LEMMA ThreeChecks ==
  ASSUME NEW A \in BOOLEAN, NEW a \in Errors, NEW B \in BOOLEAN, NEW b \in Errors,
         NEW C \in BOOLEAN, NEW c \in Errors
  PROVE  /\ << <<A, a>>, <<B, b>>, <<C, c>> >> \in Seq(Check)
         /\ Passing(<< <<A, a>>, <<B, b>>, <<C, c>> >>) <=> ~A /\ ~B /\ ~C
<1>1. \A x, y, z \in Check :
        /\ <<x, y, z>> \in Seq(Check)
        /\ Passing(<<x, y, z>>) <=> x[1] = FALSE /\ y[1] = FALSE /\ z[1] = FALSE
  BY DEF Passing
<1> QED
  BY <1>1, CheckIs

LEMMA FiveChecks ==
  ASSUME NEW a \in Check, NEW b \in Check, NEW c \in Check, NEW d \in Check, NEW e \in Check
  PROVE  /\ <<a, b, c, d, e>> \in Seq(Check)
         /\ Passing(<<a, b, c, d, e>>) <=> /\ a[1] = FALSE /\ b[1] = FALSE /\ c[1] = FALSE
                                           /\ d[1] = FALSE /\ e[1] = FALSE
  BY DEF Passing

LEMMA EightChecks ==
  ASSUME NEW a \in Check, NEW b \in Check, NEW c \in Check, NEW d \in Check, NEW e \in Check,
         NEW f \in Check, NEW g \in Check, NEW h \in Check
  PROVE  /\ <<a, b, c, d, e, f, g, h>> \in Seq(Check)
         /\ Passing(<<a, b, c, d, e, f, g, h>>) <=>
              /\ a[1] = FALSE /\ b[1] = FALSE /\ c[1] = FALSE /\ d[1] = FALSE
              /\ e[1] = FALSE /\ f[1] = FALSE /\ g[1] = FALSE /\ h[1] = FALSE
<1>1. /\ <<a, b, c, d, e>> \in Seq(Check)
      /\ Passing(<<a, b, c, d, e>>) <=> /\ a[1] = FALSE /\ b[1] = FALSE /\ c[1] = FALSE
                                        /\ d[1] = FALSE /\ e[1] = FALSE
  BY FiveChecks, Zenon
<1>2. /\ <<f, g, h>> \in Seq(Check)
      /\ Passing(<<f, g, h>>) <=> f[1] = FALSE /\ g[1] = FALSE /\ h[1] = FALSE
  BY DEF Passing
<1>3. <<a, b, c, d, e, f, g, h>> = <<a, b, c, d, e>> \o <<f, g, h>>
  OBVIOUS
<1> QED
  BY <1>1, <1>2, <1>3, PassingTogether

\* What each group of checks asks of a vault.
LEMMA LengthChecksAre ==
  ASSUME NEW v, NEW fields
  PROVE  /\ LengthChecks(v, fields) \in Seq(Check)
         /\ v.short = {} /\ v.long = {} => Passing(LengthChecks(v, fields))
<1>1. /\ (v.short \cap fields # {}) \in BOOLEAN /\ ("ct" \in v.long) \in BOOLEAN
      /\ "malformed" \in Errors /\ "large" \in Errors
  BY DEF Errors
<1>2. /\ LengthChecks(v, fields) \in Seq(Check)
      /\ Passing(LengthChecks(v, fields)) <=> ~(v.short \cap fields # {}) /\ ~("ct" \in v.long)
  BY <1>1, TwoChecks, Zenon DEF LengthChecks
<1> QED
  BY <1>2

\* What passes the validators, whichever program wrote it.
SoundCost(v) ==
  /\ v.kdfAlg = "argon2id" /\ v.ops \in MinOps..MaxOps /\ v.mem \in MinMem..MaxMem
Whole(v) == v.missing \subseteq {"version", "mode"} /\ v.short = {} /\ v.long = {}
SoundHeader(v) == SoundCost(v) /\ Whole(v) /\ v.missing = {} /\ v.mode \in Modes

LEMMA KdfChecksAre ==
  ASSUME NEW v
  PROVE  /\ KdfCapChecks(v) \in Seq(Check)
         /\ SoundCost(v) /\ Whole(v) => Passing(KdfCapChecks(v))
<1> DEFINE A == "kdf" \in v.missing
           B == v.kdfAlg # "argon2id"
           C == v.ops \notin MinOps..MaxOps
           D == v.mem \notin MinMem..MaxMem
           E == "salt" \in v.missing
           a == <<A, "malformed">>
           b == <<B, "unsupported">>
           c == <<C, "range">>
           d == <<D, "range">>
           e == <<E, "malformed">>
<1>0. /\ A \in BOOLEAN /\ B \in BOOLEAN /\ C \in BOOLEAN /\ D \in BOOLEAN /\ E \in BOOLEAN
      /\ "malformed" \in Errors /\ "range" \in Errors /\ "unsupported" \in Errors
  BY DEF Errors
<1>1. SoundCost(v) /\ Whole(v) => ~A /\ ~B /\ ~C /\ ~D /\ ~E
  BY DEF SoundCost, Whole
<1>2. KdfCapChecks(v) = <<a, b, c, d, e>>
  BY DEF KdfCapChecks
<1> HIDE DEF A, B, C, D, E
<1>3. /\ a \in Check /\ (a[1] = FALSE <=> ~A) /\ b \in Check /\ (b[1] = FALSE <=> ~B)
      /\ c \in Check /\ (c[1] = FALSE <=> ~C) /\ d \in Check /\ (d[1] = FALSE <=> ~D)
      /\ e \in Check /\ (e[1] = FALSE <=> ~E)
  BY <1>0, CheckIs
<1> HIDE DEF a, b, c, d, e
<1>4. /\ <<a, b, c, d, e>> \in Seq(Check)
      /\ Passing(<<a, b, c, d, e>>) <=> /\ a[1] = FALSE /\ b[1] = FALSE /\ c[1] = FALSE
                                        /\ d[1] = FALSE /\ e[1] = FALSE
  BY <1>3, FiveChecks, Zenon
<1> QED
  BY <1>1, <1>2, <1>3, <1>4

LEMMA WrapChecksAre ==
  ASSUME NEW v, NEW alg
  PROVE  /\ WrapChecks(v, alg) \in Seq(Check)
         /\ v.wrapAlg = alg /\ Whole(v) => Passing(WrapChecks(v, alg))
<1>1. /\ (v.wrapAlg # alg) \in BOOLEAN /\ ("wrapNonce" \in v.missing) \in BOOLEAN
      /\ ("wrapped" \in v.missing) \in BOOLEAN
      /\ "malformed" \in Errors /\ "unsupported" \in Errors
  BY DEF Errors
<1>2. /\ WrapChecks(v, alg) \in Seq(Check)
      /\ Passing(WrapChecks(v, alg)) <=>
           ~(v.wrapAlg # alg) /\ ~("wrapNonce" \in v.missing) /\ ~("wrapped" \in v.missing)
  BY <1>1, ThreeChecks, Zenon DEF WrapChecks
<1> QED
  BY <1>2 DEF Whole

LEMMA ContentChecksAre ==
  ASSUME NEW v, NEW alg
  PROVE  /\ ContentChecks(v, alg) \in Seq(Check)
         /\ v.contentAlg = alg /\ Whole(v) => Passing(ContentChecks(v, alg))
<1>1. /\ (v.contentAlg # alg) \in BOOLEAN /\ ("contentNonce" \in v.missing) \in BOOLEAN
      /\ ("ct" \in v.missing) \in BOOLEAN
      /\ "malformed" \in Errors /\ "unsupported" \in Errors
  BY DEF Errors
<1>2. /\ ContentChecks(v, alg) \in Seq(Check)
      /\ Passing(ContentChecks(v, alg)) <=>
           ~(v.contentAlg # alg) /\ ~("contentNonce" \in v.missing) /\ ~("ct" \in v.missing)
  BY <1>1, ThreeChecks, Zenon DEF ContentChecks
<1> QED
  BY <1>2 DEF Whole

LEMMA CommonChecksAre ==
  ASSUME NEW v
  PROVE  /\ CommonChecks(v) \in Seq(Check)
         /\ SoundHeader(v) => Passing(CommonChecks(v))
<1> DEFINE first == << <<"version" \in v.missing, "malformed">>,
                       <<"created" \in v.missing, "malformed">>,
                       <<v.mode \notin Modes, "malformed">> >>
<1>1. /\ ("version" \in v.missing) \in BOOLEAN /\ ("created" \in v.missing) \in BOOLEAN
      /\ (v.mode \notin Modes) \in BOOLEAN /\ "malformed" \in Errors
  BY DEF Errors
<1>2. /\ first \in Seq(Check)
      /\ Passing(first) <=>
           ~("version" \in v.missing) /\ ~("created" \in v.missing) /\ ~(v.mode \notin Modes)
  BY <1>1, ThreeChecks, Zenon
<1>3. SoundHeader(v) => Passing(first)
  BY <1>2 DEF SoundHeader
<1>4. CommonChecks(v) = first \o KdfCapChecks(v)
  BY DEF CommonChecks
<1> HIDE DEF first
<1> QED
  BY <1>2, <1>3, <1>4, KdfChecksAre, PassingTogether DEF SoundHeader

\* A phrase that is empty is never tried.
Speaks(heard) == heard.typed # ""

\* An empty phrase is refused before anything is opened.
LEMMA PhraseCheckIs ==
  ASSUME NEW h
  PROVE  /\ PhraseCheck(h) \in Seq(Check) /\ Len(PhraseCheck(h)) # 0
         /\ Passing(PhraseCheck(h)) <=> Speaks(h)
         /\ ~Speaks(h) => PhraseCheck(h)[1][1] = TRUE /\ PhraseCheck(h)[1][2] = "phrase"
<1> DEFINE empty == h.typed = ""
<1>1. empty \in BOOLEAN /\ "phrase" \in Errors
  BY DEF Errors
<1>2. PhraseCheck(h) = << <<empty, "phrase">> >>
  BY DEF PhraseCheck
<1>3. ~empty <=> Speaks(h)
  BY DEF Speaks
<1> HIDE DEF empty
<1>4. PhraseCheck(h) \in Seq(Check) /\ (Passing(PhraseCheck(h)) <=> ~empty)
  BY <1>1, <1>2, OneCheck, Zenon
<1>5. empty => <<empty, "phrase">>[1] = TRUE /\ <<empty, "phrase">>[2] = "phrase"
  BY <1>1, CheckIs
<1>6. Len(PhraseCheck(h)) # 0 /\ PhraseCheck(h)[1] = <<empty, "phrase">>
  BY <1>2
<1> QED
  BY <1>3, <1>4, <1>5, <1>6

\* Checks that pass leave the error to those that follow them.
LEMMA FirstFailure ==
  ASSUME NEW s \in Seq(Check), Passing(s), NEW t \in Seq(Check), Len(t) # 0, t[1][1] = TRUE,
         NEW u \in Seq(Check)
  PROVE  FirstError((s \o t) \o u) = t[1][2]
<1>1. /\ s \o t \in Seq(Check) /\ Len(s \o t) = Len(s) + Len(t)
      /\ Len(s) \in Nat /\ Len(t) \in Nat /\ Len(u) \in Nat
      /\ \A i \in 1..(Len(s) + Len(t)) : (s \o t)[i] = IF i <= Len(s) THEN s[i] ELSE t[i - Len(s)]
  BY ConcatProperties, LenProperties
<1> DEFINE r == (s \o t) \o u
<1>2. /\ r \in Seq(Check) /\ Len(r) = Len(s) + Len(t) + Len(u)
      /\ \A i \in 1..(Len(s) + Len(t)) : r[i] = (s \o t)[i]
  BY <1>1, ConcatProperties
<1> HIDE DEF r
<1> DEFINE i == Len(s) + 1
<1>3. i \in 1..(Len(s) + Len(t)) /\ ~(i <= Len(s)) /\ i - Len(s) = 1 /\ i \in 1..Len(r)
  BY <1>1, <1>2
<1>4. r[i] = t[1]
  BY <1>1, <1>2, <1>3
<1>5. ASSUME NEW j \in 1..Len(r), j < i PROVE r[j][1] = FALSE
  <2>1. j \in 1..(Len(s) + Len(t)) /\ j <= Len(s) /\ j \in 1..Len(s)
    BY <1>1, <1>2, <1>5
  <2> QED
    BY <1>1, <1>2, <2>1 DEF Passing
<1> HIDE DEF i
<1>6. r[i][1] = TRUE /\ i \in 1..Len(r)
  BY <1>3, <1>4
<1>7. FirstError(r) = r[i][2]
  BY <1>2, <1>5, <1>6, FirstThatFails
<1> QED
  BY <1>4, <1>7 DEF r

-------------------------------------------------------------------------------
\* The validators.  What each lets through has the schema and the form it
\* reads, and a vault as a program makes it passes.
LEMMA SchemaChecksAre ==
  ASSUME NEW v, NEW schema, NEW form
  PROVE  /\ << <<v.schema # schema, "unsupported">>, <<v.form # form, "unsupported">> >> \in Seq(Check)
         /\ Passing(<< <<v.schema # schema, "unsupported">>, <<v.form # form, "unsupported">> >>)
              <=> v.schema = schema /\ v.form = form
<1>1. /\ (v.schema # schema) \in BOOLEAN /\ (v.form # form) \in BOOLEAN
      /\ "unsupported" \in Errors
  BY DEF Errors
<1> QED
  BY <1>1, TwoChecks, Zenon

\* A validator takes every whole vault of its format, and nothing of another.
Passes(v, checks, schema, form, alg) ==
  /\ checks \in Seq(Check)
  /\ Passing(checks) => v.schema = schema /\ v.form = form
  /\ /\ v.schema = schema /\ v.form = form /\ v.wrapAlg = alg /\ v.contentAlg = alg
     /\ SoundHeader(v)
     => Passing(checks)

Cipher == "XChaCha20-Poly1305"

LEMMA ValidateV1Is ==
  ASSUME NEW v
  PROVE  Passes(v, ValidateV1(v), "V1", "aead", Cipher)
<1> DEFINE schema == << <<v.schema # "V1", "unsupported">>, <<v.form # "aead", "unsupported">> >>
<1>1. schema \in Seq(Check) /\ (Passing(schema) <=> v.schema = "V1" /\ v.form = "aead")
  BY SchemaChecksAre, Zenon
<1>2. ValidateV1(v) = CommonChecks(v) \o schema \o ContentChecks(v, Cipher)
  BY DEF ValidateV1, Cipher
<1>3. /\ ContentChecks(v, Cipher) \in Seq(Check)
      /\ v.contentAlg = Cipher /\ SoundHeader(v) => Passing(ContentChecks(v, Cipher))
  BY ContentChecksAre DEF SoundHeader
<1> HIDE DEF schema
<1>4. /\ CommonChecks(v) \o schema \in Seq(Check)
      /\ Passing(CommonChecks(v) \o schema) <=> Passing(CommonChecks(v)) /\ Passing(schema)
  BY <1>1, CommonChecksAre, PassingTogether
<1>5. /\ ValidateV1(v) \in Seq(Check)
      /\ Passing(ValidateV1(v)) <=> /\ Passing(CommonChecks(v)) /\ Passing(schema)
                                    /\ Passing(ContentChecks(v, Cipher))
  BY <1>2, <1>3, <1>4, PassingTogether
<1> QED
  BY <1>1, <1>3, <1>5, CommonChecksAre DEF Passes

LEMMA LayerChecksAre ==
  ASSUME NEW v, NEW alg
  PROVE  /\ WrapChecks(v, alg) \in Seq(Check) /\ ContentChecks(v, alg) \in Seq(Check)
         /\ v.wrapAlg = alg /\ v.contentAlg = alg /\ Whole(v)
              => Passing(WrapChecks(v, alg)) /\ Passing(ContentChecks(v, alg))
  BY WrapChecksAre, ContentChecksAre

LEMMA ValidateV2Is ==
  ASSUME NEW v
  PROVE  Passes(v, ValidateV2(v), "V2", "wrapped", Cipher)
<1> DEFINE schema == << <<v.schema # "V2", "unsupported">>, <<v.form # "wrapped", "unsupported">> >>
<1>1. schema \in Seq(Check) /\ (Passing(schema) <=> v.schema = "V2" /\ v.form = "wrapped")
  BY SchemaChecksAre, Zenon
<1>2. ValidateV2(v) = CommonChecks(v) \o schema \o WrapChecks(v, Cipher) \o ContentChecks(v, Cipher)
  BY DEF ValidateV2, Cipher
<1> HIDE DEF schema
<1>3. /\ CommonChecks(v) \o schema \in Seq(Check)
      /\ Passing(CommonChecks(v) \o schema) <=> Passing(CommonChecks(v)) /\ Passing(schema)
  BY <1>1, CommonChecksAre, PassingTogether
<1>4. /\ CommonChecks(v) \o schema \o WrapChecks(v, Cipher) \in Seq(Check)
      /\ Passing(CommonChecks(v) \o schema \o WrapChecks(v, Cipher)) <=>
           Passing(CommonChecks(v)) /\ Passing(schema) /\ Passing(WrapChecks(v, Cipher))
  BY <1>3, LayerChecksAre, PassingTogether
<1>5. /\ ValidateV2(v) \in Seq(Check)
      /\ Passing(ValidateV2(v)) <=>
           /\ Passing(CommonChecks(v)) /\ Passing(schema)
           /\ Passing(WrapChecks(v, Cipher)) /\ Passing(ContentChecks(v, Cipher))
  <2>1. ContentChecks(v, Cipher) \in Seq(Check)
    BY LayerChecksAre
  <2> QED
    BY <1>2, <1>4, <2>1, PassingTogether
<1> QED
  BY <1>1, <1>5, CommonChecksAre, LayerChecksAre DEF Passes, SoundHeader

LEMMA CliValidateV2Is ==
  ASSUME NEW v
  PROVE  Passes(v, CliValidateV2(v), "V2", "wrapped", Cipher)
<1> DEFINE schema == << <<v.schema # "V2", "unsupported">> >>
           form == << <<v.form # "wrapped", "malformed">> >>
<1>0. /\ (v.schema # "V2") \in BOOLEAN /\ (v.form # "wrapped") \in BOOLEAN
      /\ "unsupported" \in Errors /\ "malformed" \in Errors
  BY DEF Errors
<1>1. /\ schema \in Seq(Check) /\ (Passing(schema) <=> v.schema = "V2")
      /\ form \in Seq(Check) /\ (Passing(form) <=> v.form = "wrapped")
  BY <1>0, OneCheck, Zenon
<1>2. CliValidateV2(v) =
        schema \o CommonChecks(v) \o form \o WrapChecks(v, Cipher) \o ContentChecks(v, Cipher)
  BY DEF CliValidateV2, Cipher
<1> HIDE DEF schema, form
<1>3. /\ schema \o CommonChecks(v) \in Seq(Check)
      /\ Passing(schema \o CommonChecks(v)) <=> Passing(schema) /\ Passing(CommonChecks(v))
  BY <1>1, CommonChecksAre, PassingTogether
<1>4. /\ schema \o CommonChecks(v) \o form \in Seq(Check)
      /\ Passing(schema \o CommonChecks(v) \o form) <=>
           Passing(schema) /\ Passing(CommonChecks(v)) /\ Passing(form)
  BY <1>1, <1>3, PassingTogether
<1>5. /\ schema \o CommonChecks(v) \o form \o WrapChecks(v, Cipher) \in Seq(Check)
      /\ Passing(schema \o CommonChecks(v) \o form \o WrapChecks(v, Cipher)) <=>
           /\ Passing(schema) /\ Passing(CommonChecks(v)) /\ Passing(form)
           /\ Passing(WrapChecks(v, Cipher))
  BY <1>4, LayerChecksAre, PassingTogether
<1>6. /\ CliValidateV2(v) \in Seq(Check)
      /\ Passing(CliValidateV2(v)) <=>
           /\ Passing(schema) /\ Passing(CommonChecks(v)) /\ Passing(form)
           /\ Passing(WrapChecks(v, Cipher)) /\ Passing(ContentChecks(v, Cipher))
  <2>1. ContentChecks(v, Cipher) \in Seq(Check)
    BY LayerChecksAre
  <2>2. PICK front : front = schema \o CommonChecks(v) \o form \o WrapChecks(v, Cipher)
    OBVIOUS
  <2>3. /\ front \in Seq(Check)
        /\ Passing(front) <=> /\ Passing(schema) /\ Passing(CommonChecks(v)) /\ Passing(form)
                              /\ Passing(WrapChecks(v, Cipher))
    BY <1>5, <2>2
  <2>4. CliValidateV2(v) = front \o ContentChecks(v, Cipher)
    BY <1>2, <2>2
  <2> QED
    BY <2>1, <2>3, <2>4, PassingTogether
<1> QED
  BY <1>1, <1>6, CommonChecksAre, LayerChecksAre DEF Passes, SoundHeader

LEMMA ProofLockValidateV2Is ==
  ASSUME NEW v
  PROVE  Passes(v, ProofLockValidateV2(v), "V2", "wrapped", Cipher)
<1> DEFINE A == v.schema # "V2"
           B == "version" \in v.missing
           C == "created" \in v.missing
           D == v.mode \notin Modes
           E == "kdf" \in v.missing \/ v.kdfAlg # "argon2id"
           F == v.form # "wrapped" \/ v.wrapAlg # Cipher
           G == v.contentAlg # Cipher
           H == v.missing \cap {"salt", "wrapNonce", "wrapped", "contentNonce", "ct"} # {}
           a == <<A, "unsupported">>
           b == <<B, "malformed">>
           c == <<C, "malformed">>
           d == <<D, "malformed">>
           e == <<E, "malformed">>
           f == <<F, "malformed">>
           g == <<G, "malformed">>
           h == <<H, "malformed">>
<1>0. /\ A \in BOOLEAN /\ B \in BOOLEAN /\ C \in BOOLEAN /\ D \in BOOLEAN
      /\ E \in BOOLEAN /\ F \in BOOLEAN /\ G \in BOOLEAN /\ H \in BOOLEAN
      /\ "unsupported" \in Errors /\ "malformed" \in Errors
  BY DEF Errors
<1>1. /\ ~A /\ ~F => v.schema = "V2" /\ v.form = "wrapped"
      /\ /\ v.schema = "V2" /\ v.form = "wrapped" /\ v.wrapAlg = Cipher /\ v.contentAlg = Cipher
         /\ SoundHeader(v)
         => ~A /\ ~B /\ ~C /\ ~D /\ ~E /\ ~F /\ ~G /\ ~H
  BY DEF SoundHeader, SoundCost
<1>2. ProofLockValidateV2(v) = <<a, b, c, d, e, f, g, h>>
  BY DEF ProofLockValidateV2, Cipher
<1> HIDE DEF A, B, C, D, E, F, G, H
<1>3. /\ a \in Check /\ (a[1] = FALSE <=> ~A) /\ b \in Check /\ (b[1] = FALSE <=> ~B)
      /\ c \in Check /\ (c[1] = FALSE <=> ~C) /\ d \in Check /\ (d[1] = FALSE <=> ~D)
  BY <1>0, CheckIs
<1>4. /\ e \in Check /\ (e[1] = FALSE <=> ~E) /\ f \in Check /\ (f[1] = FALSE <=> ~F)
      /\ g \in Check /\ (g[1] = FALSE <=> ~G) /\ h \in Check /\ (h[1] = FALSE <=> ~H)
  BY <1>0, CheckIs
<1> HIDE DEF a, b, c, d, e, f, g, h
<1>5. /\ <<a, b, c, d, e, f, g, h>> \in Seq(Check)
      /\ Passing(<<a, b, c, d, e, f, g, h>>) <=>
           /\ a[1] = FALSE /\ b[1] = FALSE /\ c[1] = FALSE /\ d[1] = FALSE
           /\ e[1] = FALSE /\ f[1] = FALSE /\ g[1] = FALSE /\ h[1] = FALSE
  BY <1>3, <1>4, EightChecks, Zenon
<1> QED
  BY <1>1, <1>2, <1>3, <1>4, <1>5 DEF Passes

\* An envelope of the QNotify page has no version and no mode.
LEMMA ValidateNotifyIs ==
  ASSUME NEW v
  PROVE  /\ ValidateNotify(v) \in Seq(Check)
         /\ /\ v.schema = "NOTIFY" /\ v.form = "wrapped" /\ SoundCost(v) /\ Whole(v)
            /\ v.wrapAlg = "xchacha20poly1305-ietf" /\ v.contentAlg = "xchacha20poly1305-ietf"
            => Passing(ValidateNotify(v))
<1> DEFINE alg == "xchacha20poly1305-ietf"
           first == << <<v.schema # "NOTIFY", "unsupported">>, <<"created" \in v.missing, "malformed">> >>
           second == << <<v.form # "wrapped", "unsupported">>, <<"wrapAad" \in v.missing, "malformed">> >>
           third == << <<"contentAad" \in v.missing, "malformed">> >>
           sound == /\ v.schema = "NOTIFY" /\ v.form = "wrapped" /\ SoundCost(v) /\ Whole(v)
                    /\ v.wrapAlg = alg /\ v.contentAlg = alg
           S(list) == list \in Seq(Check) /\ (sound => Passing(list))
<1>0. /\ (v.schema # "NOTIFY") \in BOOLEAN /\ ("created" \in v.missing) \in BOOLEAN
      /\ (v.form # "wrapped") \in BOOLEAN /\ ("wrapAad" \in v.missing) \in BOOLEAN
      /\ ("contentAad" \in v.missing) \in BOOLEAN
      /\ "unsupported" \in Errors /\ "malformed" \in Errors
  BY DEF Errors
<1>1. /\ first \in Seq(Check)
      /\ Passing(first) <=> ~(v.schema # "NOTIFY") /\ ~("created" \in v.missing)
  BY <1>0, TwoChecks, Zenon
<1>2. /\ second \in Seq(Check)
      /\ Passing(second) <=> ~(v.form # "wrapped") /\ ~("wrapAad" \in v.missing)
  BY <1>0, TwoChecks, Zenon
<1>3. third \in Seq(Check) /\ (Passing(third) <=> ~("contentAad" \in v.missing))
  BY <1>0, OneCheck, Zenon
<1>4. sound => /\ v.schema = "NOTIFY" /\ v.form = "wrapped" /\ ~("created" \in v.missing)
               /\ ~("wrapAad" \in v.missing) /\ ~("contentAad" \in v.missing)
  BY DEF Whole
<1>5. ValidateNotify(v) = first \o KdfCapChecks(v) \o second \o WrapChecks(v, alg) \o third
                            \o ContentChecks(v, alg)
  BY DEF ValidateNotify
<1>6. S(KdfCapChecks(v)) /\ S(WrapChecks(v, alg)) /\ S(ContentChecks(v, alg))
  BY KdfChecksAre, LayerChecksAre
<1>7. S(first) /\ S(second) /\ S(third)
  BY <1>1, <1>2, <1>3, <1>4
<1> HIDE DEF first, second, third, sound, alg
<1>8. S(first \o KdfCapChecks(v))
  BY <1>6, <1>7, PassingTogether
<1>9. S(first \o KdfCapChecks(v) \o second)
  BY <1>7, <1>8, PassingTogether
<1>10. S(first \o KdfCapChecks(v) \o second \o WrapChecks(v, alg))
  BY <1>6, <1>9, PassingTogether
<1>11. S(first \o KdfCapChecks(v) \o second \o WrapChecks(v, alg) \o third)
  BY <1>7, <1>10, PassingTogether
<1>12. S(ValidateNotify(v))
  BY <1>5, <1>6, <1>11, PassingTogether
<1> QED
  BY <1>12 DEF sound, alg

-------------------------------------------------------------------------------
\* What a decryptor answers.

\* An error is one of those named above, or none.
LEMMA ErrorsOfChecks ==
  ASSUME NEW s \in Seq(Check)
  PROVE  FirstError(s) \in Errors \cup {"none"}
<1> DEFINE failing == {i \in DOMAIN s : s[i][1]}
<1>1. DOMAIN s = 1..Len(s) /\ Len(s) \in Nat /\ \A i \in 1..Len(s) : s[i][2] \in Errors
  BY LenProperties DEF Check
<1>2. CASE failing = {}
  BY <1>2 DEF FirstError
<1>3. CASE failing # {}
  <2>1. failing \subseteq Nat
    BY <1>1
  <2>2. PICK b \in failing : \A j \in failing : b <= j
    <3> HIDE DEF failing
    <3> QED
      BY <1>3, <2>1, LeastNumber
  <2>3. (CHOOSE i \in failing : \A j \in failing : i <= j) \in failing
    BY <2>2
  <2>4. FirstError(s) = s[CHOOSE i \in failing : \A j \in failing : i <= j][2]
    BY <1>3 DEF FirstError
  <2> QED
    BY <1>1, <2>3, <2>4
<1> QED
  BY <1>2, <1>3

\* The error of a decryption: what the validator says, then the phrase, then
\* the lengths.
LEMMA Judged ==
  ASSUME NEW validate \in Seq(Check), NEW heard, NEW lengths \in Seq(Check), NEW err,
         err = FirstError(validate \o PhraseCheck(heard) \o lengths)
  PROVE  /\ err \in Errors \cup {"none"}
         /\ err = "none" <=> Passing(validate) /\ Speaks(heard) /\ Passing(lengths)
         /\ Passing(validate) /\ ~Speaks(heard) => err = "phrase"
<1>1. PICK phrase : phrase = PhraseCheck(heard)
  OBVIOUS
<1>2. /\ phrase \in Seq(Check) /\ Len(phrase) # 0 /\ (Passing(phrase) <=> Speaks(heard))
      /\ ~Speaks(heard) => phrase[1][1] = TRUE /\ phrase[1][2] = "phrase"
  BY <1>1, PhraseCheckIs
<1>3. /\ validate \o phrase \in Seq(Check)
      /\ Passing(validate \o phrase) <=> Passing(validate) /\ Passing(phrase)
  BY <1>2, PassingTogether
<1>4. /\ validate \o phrase \o lengths \in Seq(Check)
      /\ Passing(validate \o phrase \o lengths) <=> Passing(validate \o phrase) /\ Passing(lengths)
  BY <1>3, PassingTogether
<1>5. err = FirstError(validate \o phrase \o lengths)
  BY <1>1
<1>6. err \in Errors \cup {"none"}
  BY <1>4, <1>5, ErrorsOfChecks
<1>7. err = "none" <=> Passing(validate \o phrase \o lengths)
  BY <1>4, <1>5, PassingMeansNone
<1>8. Passing(validate) /\ ~Speaks(heard) => err = "phrase"
  BY <1>2, <1>5, FirstFailure
<1> QED
  BY <1>2, <1>3, <1>4, <1>6, <1>7, <1>8

\* Two layers: the vault key under the phrase, the content under the vault key.
KeyOpens(v, heard, aad) == Opens(v.wrapped, KdfKey(heard, v.salt, v.ops, v.mem), v.wrapNonce, aad)
TextOpens(v, aad) == Opens(v.ct, v.wrapped.body, v.contentNonce, aad)
\* The two layers: the key under the phrase, the text under the key.
Layers(v, heard, wrapAad, contentAad) ==
  IF ~KeyOpens(v, heard, wrapAad) THEN Refused("auth")
  ELSE IF ~TextOpens(v, contentAad) THEN Refused("content") ELSE Plain(v.ct.body)

Judgement(r, err, otherwise) == r = IF err # "none" THEN Refused(err) ELSE otherwise

\* What each decryption answers: its error, or what its layers say.
LEMMA V2Answers ==
  ASSUME NEW validate \in Seq(Check), NEW aad, NEW v, NEW heard, NEW r,
         r = DecryptV2With(validate, aad, v, heard)
  PROVE  \E err \in Errors \cup {"none"} :
           /\ Judgement(r, err, Layers(v, heard, aad, aad))
           /\ err = "none" => Passing(validate)
           /\ Passing(validate) /\ v.short = {} /\ v.long = {} =>
                IF Speaks(heard) THEN err = "none" ELSE err = "phrase"
<1>1. V2Lengths(v) \in Seq(Check) /\ (v.short = {} /\ v.long = {} => Passing(V2Lengths(v)))
  BY LengthChecksAre DEF V2Lengths
<1>2. PICK err : err = FirstError(validate \o PhraseCheck(heard) \o V2Lengths(v))
  OBVIOUS
<1>3. /\ err \in Errors \cup {"none"}
      /\ err = "none" <=> Passing(validate) /\ Speaks(heard) /\ Passing(V2Lengths(v))
      /\ Passing(validate) /\ ~Speaks(heard) => err = "phrase"
  BY <1>1, <1>2, Judged
<1>4. Judgement(r, err, Layers(v, heard, aad, aad))
  BY <1>2 DEF DecryptV2With, OpenTwoLayers, Layers, KeyOpens, TextOpens, Judgement
<1> QED
  BY <1>1, <1>3, <1>4

LEMMA NotifyAnswers ==
  ASSUME NEW v, NEW heard, NEW r, r = DecryptNotifyWith(v, heard)
  PROVE  \E err \in Errors \cup {"none"} :
           /\ Judgement(r, err, Layers(v, heard, <<v.wrapAad>>, <<v.contentAad>>))
           /\ Passing(ValidateNotify(v)) /\ v.short = {} /\ v.long = {} /\ Speaks(heard)
                => err = "none"
<1>1. V2Lengths(v) \in Seq(Check) /\ (v.short = {} /\ v.long = {} => Passing(V2Lengths(v)))
  BY LengthChecksAre DEF V2Lengths
<1>2. PICK err : err = FirstError(ValidateNotify(v) \o PhraseCheck(heard) \o V2Lengths(v))
  OBVIOUS
<1>3. /\ err \in Errors \cup {"none"}
      /\ err = "none" <=> Passing(ValidateNotify(v)) /\ Speaks(heard) /\ Passing(V2Lengths(v))
  BY <1>1, <1>2, ValidateNotifyIs, Judged
<1>4. Judgement(r, err, Layers(v, heard, <<v.wrapAad>>, <<v.contentAad>>))
  BY <1>2 DEF DecryptNotifyWith, OpenTwoLayers, Layers, KeyOpens, TextOpens, Judgement
<1> QED
  BY <1>1, <1>3, <1>4

\* One layer in the first format.
LayerV1(v, heard) ==
  IF Opens(v.ct, KdfKey(heard, v.salt, v.ops, v.mem), v.contentNonce, BuildAADV1(v))
  THEN Plain(v.ct.body) ELSE Refused("auth")

LEMMA V1Answers ==
  ASSUME NEW v, NEW heard, NEW r, r = DecryptV1With(v, heard)
  PROVE  \E err \in Errors \cup {"none"} :
           /\ Judgement(r, err, LayerV1(v, heard))
           /\ err = "none" => Passing(ValidateV1(v))
           /\ Passing(ValidateV1(v)) /\ v.short = {} /\ v.long = {} /\ Speaks(heard)
                => err = "none"
<1> DEFINE lengths == LengthChecks(v, {"salt", "contentNonce", "ct"})
<1>1. lengths \in Seq(Check) /\ (v.short = {} /\ v.long = {} => Passing(lengths))
  BY LengthChecksAre
<1>2. PICK err : err = FirstError(ValidateV1(v) \o PhraseCheck(heard) \o lengths)
  OBVIOUS
<1>3. r = IF err # "none" THEN Refused(err) ELSE LayerV1(v, heard)
  BY <1>2 DEF DecryptV1With, LayerV1
<1> HIDE DEF lengths
<1>4. /\ err \in Errors \cup {"none"}
      /\ err = "none" <=> Passing(ValidateV1(v)) /\ Speaks(heard) /\ Passing(lengths)
  BY <1>1, <1>2, ValidateV1Is, Judged DEF Passes
<1> QED
  BY <1>1, <1>3, <1>4 DEF Judgement

LEMMA ChatAnswers ==
  ASSUME NEW env, NEW heard, NEW r, r = DecryptChatEnvelope(env, heard)
  PROVE  \E err \in Errors \cup {"none"} :
           /\ Judgement(r, err, IF Opens(env.ct, ChatKey(heard, env.ids), env.nonce, <<>>)
                                THEN Plain(env.ct.body) ELSE Refused("auth"))
           /\ env.missing = {} /\ Speaks(heard) => err = "none"
<1> DEFINE whole == << <<env.missing # {}, "malformed">> >>
<1>0. (env.missing # {}) \in BOOLEAN /\ "malformed" \in Errors
  BY DEF Errors
<1>1. whole \in Seq(Check) /\ (Passing(whole) <=> ~(env.missing # {}))
  BY <1>0, OneCheck, Zenon
<1>2. PICK err : err = FirstError(whole \o PhraseCheck(heard))
  OBVIOUS
<1>3. Judgement(r, err, IF Opens(env.ct, ChatKey(heard, env.ids), env.nonce, <<>>)
                        THEN Plain(env.ct.body) ELSE Refused("auth"))
  BY <1>2 DEF DecryptChatEnvelope, Judgement
<1> HIDE DEF whole
<1>4. PhraseCheck(heard) \in Seq(Check) /\ (Passing(PhraseCheck(heard)) <=> Speaks(heard))
  BY PhraseCheckIs
<1>5. /\ whole \o PhraseCheck(heard) \in Seq(Check)
      /\ Passing(whole \o PhraseCheck(heard)) <=> Passing(whole) /\ Speaks(heard)
  BY <1>1, <1>4, PassingTogether
<1>6. err \in Errors \cup {"none"}
  BY <1>2, <1>5, ErrorsOfChecks
<1>7. err = "none" <=> Passing(whole \o PhraseCheck(heard))
  BY <1>2, <1>5, PassingMeansNone
<1> QED
  BY <1>1, <1>3, <1>5, <1>6, <1>7

-------------------------------------------------------------------------------
\* What binds a vault.  The additional data of the formats have different
\* lengths, so that no ciphertext of one opens in another.
LEMMA BoundV1 ==
  ASSUME NEW v
  PROVE  /\ Len(BuildAADV1(v)) = 10 /\ \E S : BuildAADV1(v) \in Seq(S)
         /\ BuildAADV1(v)[1] = v.contentAlg /\ BuildAADV1(v)[2] = v.contentNonce
         /\ BuildAADV1(v)[3] = v.created /\ BuildAADV1(v)[4] = v.kdfAlg
         /\ BuildAADV1(v)[5] = v.mem /\ BuildAADV1(v)[6] = v.ops
         /\ BuildAADV1(v)[7] = v.salt /\ BuildAADV1(v)[8] = v.mode
         /\ BuildAADV1(v)[9] = v.schema /\ BuildAADV1(v)[10] = v.version
<1>1. BuildAADV1(v) \in Seq({v.contentAlg, v.contentNonce, v.created, v.kdfAlg, v.mem, v.ops,
                             v.salt, v.mode, v.schema, v.version})
  BY DEF BuildAADV1
<1>2. Len(BuildAADV1(v)) = 10
  BY DEF BuildAADV1
<1>3. /\ BuildAADV1(v)[1] = v.contentAlg /\ BuildAADV1(v)[2] = v.contentNonce
      /\ BuildAADV1(v)[3] = v.created /\ BuildAADV1(v)[4] = v.kdfAlg
      /\ BuildAADV1(v)[5] = v.mem /\ BuildAADV1(v)[6] = v.ops
      /\ BuildAADV1(v)[7] = v.salt /\ BuildAADV1(v)[8] = v.mode
      /\ BuildAADV1(v)[9] = v.schema /\ BuildAADV1(v)[10] = v.version
  BY DEF BuildAADV1
<1> QED
  BY <1>1, <1>2, <1>3

\* Each field a vault is bound to can be read off its additional data.
LEMMA BoundV2 ==
  ASSUME NEW v
  PROVE  /\ Len(BuildAADV2(v)) = 12
         /\ \A i \in 1..10 : BuildAADV2(v)[i] = BuildAADV1(v)[i]
         /\ BuildAADV2(v)[11] = v.wrapAlg /\ BuildAADV2(v)[12] = v.wrapNonce
<1>1. PICK front, S : front = BuildAADV1(v) /\ front \in Seq(S)
  BY BoundV1
<1>2. PICK back : back = <<v.wrapAlg, v.wrapNonce>>
  OBVIOUS
<1>3. back \in Seq({v.wrapAlg, v.wrapNonce}) /\ Len(back) = 2
      /\ back[1] = v.wrapAlg /\ back[2] = v.wrapNonce
  BY <1>2
<1>4. PICK T : front \in Seq(T) /\ back \in Seq(T)
  <2>1. front \in Seq(S \cup {v.wrapAlg, v.wrapNonce})
    BY <1>1
  <2>2. back \in Seq(S \cup {v.wrapAlg, v.wrapNonce})
    BY <1>3
  <2> QED
    BY <2>1, <2>2
<1>5. Len(front) = 10
  BY <1>1, BoundV1
<1>6. /\ Len(front \o back) = 12
      /\ \A i \in 1..12 : (front \o back)[i] = IF i <= 10 THEN front[i] ELSE back[i - 10]
  <2>1. /\ Len(front \o back) = Len(front) + Len(back)
        /\ \A i \in 1..(Len(front) + Len(back)) :
             (front \o back)[i] = IF i <= Len(front) THEN front[i] ELSE back[i - Len(front)]
    BY <1>4, ConcatProperties
  <2>2. Len(front) + Len(back) = 12
    BY <1>3, <1>5
  <2> QED
    BY <1>5, <2>1, <2>2
<1>7. BuildAADV2(v) = front \o back
  BY <1>1, <1>2 DEF BuildAADV2
<1>8. \A i \in 1..10 : (front \o back)[i] = front[i]
  <2> SUFFICES ASSUME NEW i \in 1..10 PROVE (front \o back)[i] = front[i]
    OBVIOUS
  <2>1. i \in 1..12 /\ i <= 10
    OBVIOUS
  <2> QED
    BY <1>6, <2>1
<1>9. (front \o back)[11] = back[1] /\ (front \o back)[12] = back[2]
  <2>1. (front \o back)[11] = back[11 - 10] /\ (front \o back)[12] = back[12 - 10]
    BY <1>6
  <2>2. 11 - 10 = 1 /\ 12 - 10 = 2
    OBVIOUS
  <2> QED
    BY <2>1, <2>2
<1> QED
  BY <1>1, <1>3, <1>6, <1>7, <1>8, <1>9

\* The additional data of V2, V1, notification envelopes and chat messages
\* never agree.
LEMMA FormatsApart ==
  ASSUME NEW v, NEW w, NEW x
  PROVE  /\ BuildAADV2(v) # BuildAADV1(w) /\ BuildAADV2(v) # <<x>> /\ BuildAADV2(v) # <<>>
         /\ BuildAADV1(v) # <<x>> /\ BuildAADV1(v) # <<>> /\ <<x>> # <<>>
<1>1. Len(<<x>>) = 1 /\ Len(<<>>) = 0
  OBVIOUS
<1>2. Len(BuildAADV1(v)) = 10 /\ Len(BuildAADV1(w)) = 10 /\ Len(BuildAADV2(v)) = 12
  BY BoundV1, BoundV2
<1>3. 12 # 10 /\ 12 # 1 /\ 12 # 0 /\ 10 # 1 /\ 10 # 0 /\ 1 # 0
  OBVIOUS
<1>4. \A s, t : Len(s) # Len(t) => s # t
  OBVIOUS
<1> QED
  BY <1>1, <1>2, <1>3, <1>4, Zenon

\* Vaults that are bound alike agree on all that they are bound to.
LEMMA SameBindingV1 ==
  ASSUME NEW v, NEW w, BuildAADV1(v) = BuildAADV1(w)
  PROVE  /\ v.contentAlg = w.contentAlg /\ v.contentNonce = w.contentNonce
         /\ v.created = w.created /\ v.kdfAlg = w.kdfAlg
         /\ v.mem = w.mem /\ v.ops = w.ops
         /\ v.salt = w.salt /\ v.mode = w.mode
         /\ v.schema = w.schema /\ v.version = w.version
  BY BoundV1

LEMMA SameBinding ==
  ASSUME NEW v, NEW w, BuildAADV2(v) = BuildAADV2(w)
  PROVE  /\ v.contentAlg = w.contentAlg /\ v.contentNonce = w.contentNonce
         /\ v.created = w.created /\ v.kdfAlg = w.kdfAlg
         /\ v.mem = w.mem /\ v.ops = w.ops
         /\ v.salt = w.salt /\ v.mode = w.mode
         /\ v.schema = w.schema /\ v.version = w.version
         /\ v.wrapAlg = w.wrapAlg /\ v.wrapNonce = w.wrapNonce
<1>1. \A i \in 1..10 : BuildAADV1(v)[i] = BuildAADV1(w)[i]
  <2> SUFFICES ASSUME NEW i \in 1..10 PROVE BuildAADV1(v)[i] = BuildAADV1(w)[i]
    OBVIOUS
  <2>1. BuildAADV2(v)[i] = BuildAADV1(v)[i]
    BY BoundV2
  <2>2. BuildAADV2(w)[i] = BuildAADV1(w)[i]
    BY BoundV2
  <2> QED
    BY <2>1, <2>2, Zenon
<1>2. /\ BuildAADV1(v)[1] = BuildAADV1(w)[1] /\ BuildAADV1(v)[2] = BuildAADV1(w)[2]
      /\ BuildAADV1(v)[3] = BuildAADV1(w)[3] /\ BuildAADV1(v)[4] = BuildAADV1(w)[4]
      /\ BuildAADV1(v)[5] = BuildAADV1(w)[5] /\ BuildAADV1(v)[6] = BuildAADV1(w)[6]
      /\ BuildAADV1(v)[7] = BuildAADV1(w)[7] /\ BuildAADV1(v)[8] = BuildAADV1(w)[8]
      /\ BuildAADV1(v)[9] = BuildAADV1(w)[9] /\ BuildAADV1(v)[10] = BuildAADV1(w)[10]
  BY <1>1
<1> QED
  BY <1>2, BoundV1, BoundV2

-------------------------------------------------------------------------------
\* Vaults as the programs make them.
VaultFields ==
  {"schema", "form", "version", "created", "mode", "kdfAlg", "ops", "mem", "salt", "wrapAlg",
   "wrapNonce", "wrapAad", "contentAad", "contentAlg", "contentNonce", "wrapped", "ct",
   "missing", "short", "long"}
IsRecord(v) == DOMAIN v = VaultFields
\* All but its ciphertexts are the same in two vaults.
SameHeader(v, w) == \A f \in VaultFields \ {"wrapped", "ct"} : v[f] = w[f]

\* A ciphertext may be replaced without a change to what binds it.
LEMMA HeaderBinds ==
  ASSUME NEW v, NEW w, SameHeader(v, w)
  PROVE  BuildAADV1(v) = BuildAADV1(w) /\ BuildAADV2(v) = BuildAADV2(w)
<1>1. /\ v.contentAlg = w.contentAlg /\ v.contentNonce = w.contentNonce /\ v.created = w.created
      /\ v.kdfAlg = w.kdfAlg /\ v.mem = w.mem /\ v.ops = w.ops
  BY DEF SameHeader, VaultFields
<1>2. /\ v.salt = w.salt /\ v.mode = w.mode /\ v.schema = w.schema /\ v.version = w.version
      /\ v.wrapAlg = w.wrapAlg /\ v.wrapNonce = w.wrapNonce
  BY DEF SameHeader, VaultFields
<1> QED
  BY <1>1, <1>2 DEF BuildAADV2, BuildAADV1

LEMMA FilledIn ==
  ASSUME NEW s, IsRecord(s), NEW w, NEW c, NEW v, v = WithCiphertexts(s, w, c)
  PROVE  /\ IsRecord(v) /\ v.wrapped = w /\ v.ct = c /\ SameHeader(v, s)
         /\ \A x : [v EXCEPT !.wrapped = x] = WithCiphertexts(s, x, c)
<1>1. v = [[s EXCEPT !.wrapped = w] EXCEPT !.ct = c]
  BY DEF WithCiphertexts
<1>2. DOMAIN v = DOMAIN s /\ \A f \in DOMAIN s : f # "wrapped" /\ f # "ct" => v[f] = s[f]
  BY <1>1
<1>3. v.wrapped = w /\ v.ct = c
  BY <1>1 DEF IsRecord, VaultFields
<1>4. ASSUME NEW x PROVE [v EXCEPT !.wrapped = x] = WithCiphertexts(s, x, c)
  <2>1. WithCiphertexts(s, x, c) = [[s EXCEPT !.wrapped = x] EXCEPT !.ct = c]
    BY DEF WithCiphertexts
  <2> QED
    BY <1>1, <2>1 DEF IsRecord, VaultFields
<1> QED
  BY <1>2, <1>3, <1>4 DEF IsRecord, SameHeader

\* What every vault of the second format carries next to its ciphertexts.
V2Header(v) ==
  /\ IsRecord(v) /\ v.schema = "V2" /\ v.form = "wrapped"
  /\ v.wrapAlg = Cipher /\ v.contentAlg = Cipher /\ SoundHeader(v) /\ v.short = {} /\ v.long = {}
\* A vault of the second format, locked under a phrase; key is the vault key.
V2Vault(v, heard, text, key) ==
  /\ V2Header(v)
  /\ v.wrapped = Seal(KdfKey(heard, v.salt, v.ops, v.mem), v.wrapNonce, BuildAADV2(v), key)
  /\ v.ct = Seal(key, v.contentNonce, BuildAADV2(v), text)
\* One of the first format,
V1Vault(v, heard, text) ==
  /\ IsRecord(v) /\ v.schema = "V1" /\ v.form = "aead"
  /\ v.wrapAlg = Cipher /\ v.contentAlg = Cipher /\ SoundHeader(v) /\ Speaks(heard)
  /\ v.wrapped = NoCipher
  /\ v.ct = Seal(KdfKey(heard, v.salt, v.ops, v.mem), v.contentNonce, BuildAADV1(v), text)
\* and an envelope of the QNotify page.
NotifyVault(v, heard, text, key) ==
  /\ IsRecord(v) /\ v.schema = "NOTIFY" /\ v.form = "wrapped"
  /\ v.wrapAlg = "xchacha20poly1305-ietf" /\ v.contentAlg = "xchacha20poly1305-ietf"
  /\ SoundCost(v) /\ Whole(v) /\ v.wrapAad = "wrap" /\ v.contentAad = "content" /\ Speaks(heard)
  /\ v.wrapped = Seal(KdfKey(heard, v.salt, v.ops, v.mem), v.wrapNonce, <<"wrap">>, key)
  /\ v.ct = Seal(key, v.contentNonce, <<"content">>, text)

\* A lock strength within the limits the validators accept.
SoundPreset(p) == p.ops \in MinOps..MaxOps /\ p.mem \in MinMem..MaxMem

LEMMA SkeletonIs ==
  ASSUME NEW schema, NEW form, NEW version, NEW now, NEW mode, NEW preset, NEW rnd, NEW s,
         s = Skeleton(schema, form, version, now, mode, preset, rnd)
  PROVE  /\ IsRecord(s) /\ s.schema = schema /\ s.form = form /\ s.mode = mode
         /\ s.kdfAlg = "argon2id" /\ s.ops = preset.ops /\ s.mem = preset.mem /\ s.salt = rnd.salt
         /\ s.wrapAlg = Cipher /\ s.wrapNonce = rnd.wrapNonce /\ s.contentAlg = Cipher
         /\ s.contentNonce = rnd.contentNonce /\ s.missing = {} /\ s.short = {} /\ s.long = {}
<1>1. IsRecord(s)
  BY DEF IsRecord, Skeleton, VaultFields
<1>2. /\ s.schema = schema /\ s.form = form /\ s.mode = mode
      /\ s.kdfAlg = "argon2id" /\ s.ops = preset.ops /\ s.mem = preset.mem /\ s.salt = rnd.salt
  BY DEF Skeleton
<1>3. /\ s.wrapAlg = Cipher /\ s.wrapNonce = rnd.wrapNonce /\ s.contentAlg = Cipher
      /\ s.contentNonce = rnd.contentNonce /\ s.missing = {} /\ s.short = {} /\ s.long = {}
  BY DEF Skeleton, Cipher
<1> QED
  BY <1>1, <1>2, <1>3

\* encryptV1 makes a whole vault of the first format (chat.js).
LEMMA V1IsMade ==
  ASSUME NEW version, NEW text, NEW heard, Speaks(heard), NEW mode \in Modes, NEW preset,
         SoundPreset(preset), NEW now, NEW rnd, NEW v,
         v = EncryptV1With(version, text, heard, mode, preset, now, rnd)
  PROVE  V1Vault(v, heard, text) /\ v.salt = rnd.salt /\ v.contentNonce = rnd.contentNonce
<1>0. PICK s : s = Skeleton("V1", "aead", version, now, mode, preset, rnd)
  OBVIOUS
<1>1. /\ IsRecord(s) /\ s.schema = "V1" /\ s.form = "aead" /\ s.mode = mode
      /\ s.kdfAlg = "argon2id" /\ s.ops = preset.ops /\ s.mem = preset.mem /\ s.salt = rnd.salt
      /\ s.wrapAlg = Cipher /\ s.wrapNonce = rnd.wrapNonce /\ s.contentAlg = Cipher
      /\ s.contentNonce = rnd.contentNonce /\ s.missing = {} /\ s.short = {} /\ s.long = {}
  BY <1>0, SkeletonIs
<1>2. /\ IsRecord(v) /\ SameHeader(v, s) /\ v.wrapped = NoCipher
      /\ v.ct = Seal(KdfKey(heard, rnd.salt, preset.ops, preset.mem), rnd.contentNonce,
                     BuildAADV1(s), text)
  <2>1. v = WithCiphertexts(s, NoCipher,
              Seal(KdfKey(heard, rnd.salt, preset.ops, preset.mem), rnd.contentNonce,
                   BuildAADV1(s), text))
    BY <1>0 DEF EncryptV1With
  <2> QED
    BY <1>1, <2>1, FilledIn
<1>3. BuildAADV1(v) = BuildAADV1(s)
  BY <1>2, HeaderBinds
<1>4. /\ v.schema = s.schema /\ v.form = s.form /\ v.mode = s.mode /\ v.kdfAlg = s.kdfAlg
      /\ v.ops = s.ops /\ v.mem = s.mem /\ v.salt = s.salt
  BY <1>2 DEF SameHeader, VaultFields
<1>5. /\ v.wrapAlg = s.wrapAlg /\ v.contentAlg = s.contentAlg
      /\ v.contentNonce = s.contentNonce /\ v.missing = s.missing /\ v.short = s.short
      /\ v.long = s.long
  BY <1>2 DEF SameHeader, VaultFields
<1>6. SoundHeader(v)
  BY <1>1, <1>4, <1>5 DEF SoundHeader, SoundCost, Whole, SoundPreset
<1> QED
  BY <1>1, <1>2, <1>3, <1>4, <1>5, <1>6 DEF V1Vault

\* encryptMessage makes a whole envelope (notify.js).
LEMMA NotifyIsMade ==
  ASSUME NEW text, NEW heard, Speaks(heard), NEW now, NEW rnd, NEW v,
         v = NotifyEncryptMessage(text, heard, now, rnd)
  PROVE  /\ NotifyVault(v, heard, text, rnd.key) /\ v.salt = rnd.salt
         /\ v.contentNonce = rnd.contentNonce
<1>0. PICK b : b = Skeleton("NOTIFY", "wrapped", "", now, "none", NotifyPreset, rnd)
  OBVIOUS
<1>1. /\ IsRecord(b) /\ b.schema = "NOTIFY" /\ b.form = "wrapped"
      /\ b.kdfAlg = "argon2id" /\ b.ops = 2 /\ b.mem = 64 /\ b.salt = rnd.salt
      /\ b.wrapNonce = rnd.wrapNonce /\ b.contentNonce = rnd.contentNonce
      /\ b.short = {} /\ b.long = {}
  <2>1. PICK version, mode, preset : version = "" /\ mode = "none" /\ preset = NotifyPreset
    OBVIOUS
  <2>2. preset.ops = 2 /\ preset.mem = 64
    BY <2>1 DEF NotifyPreset
  <2>3. b = Skeleton("NOTIFY", "wrapped", version, now, mode, preset, rnd)
    BY <1>0, <2>1
  <2>4. /\ IsRecord(b) /\ b.schema = "NOTIFY" /\ b.form = "wrapped"
        /\ b.kdfAlg = "argon2id" /\ b.ops = preset.ops /\ b.mem = preset.mem
        /\ b.salt = rnd.salt /\ b.wrapNonce = rnd.wrapNonce
        /\ b.contentNonce = rnd.contentNonce /\ b.short = {} /\ b.long = {}
    BY <2>3, SkeletonIs
  <2> QED
    BY <2>2, <2>4
<1>2. PICK s : s = [b EXCEPT !.wrapAlg = "xchacha20poly1305-ietf", !.wrapAad = "wrap",
                   !.contentAlg = "xchacha20poly1305-ietf", !.contentAad = "content",
                   !.missing = {"version", "mode"}]
  OBVIOUS
<1>3. IsRecord(s)
  BY <1>1, <1>2 DEF IsRecord
<1>4. /\ s.wrapAlg = "xchacha20poly1305-ietf" /\ s.wrapAad = "wrap"
      /\ s.contentAlg = "xchacha20poly1305-ietf" /\ s.contentAad = "content"
      /\ s.missing = {"version", "mode"}
  BY <1>1, <1>2 DEF IsRecord, VaultFields
<1>5. \A f \in VaultFields \ {"wrapAlg", "wrapAad", "contentAlg", "contentAad", "missing"} : s[f] = b[f]
  BY <1>1, <1>2 DEF IsRecord
<1>6. /\ s.schema = "NOTIFY" /\ s.form = "wrapped" /\ s.kdfAlg = "argon2id" /\ s.ops = 2
      /\ s.mem = 64 /\ s.salt = rnd.salt /\ s.wrapNonce = rnd.wrapNonce
      /\ s.contentNonce = rnd.contentNonce /\ s.short = {} /\ s.long = {}
  BY <1>1, <1>5 DEF VaultFields
<1>7. /\ IsRecord(v) /\ SameHeader(v, s)
      /\ v.wrapped = Seal(KdfKey(heard, s.salt, s.ops, s.mem), s.wrapNonce, <<s.wrapAad>>, rnd.key)
      /\ v.ct = Seal(rnd.key, s.contentNonce, <<s.contentAad>>, text)
  <2>1. v = WithCiphertexts(s,
              Seal(KdfKey(heard, s.salt, s.ops, s.mem), s.wrapNonce, <<s.wrapAad>>, rnd.key),
              Seal(rnd.key, s.contentNonce, <<s.contentAad>>, text))
    BY <1>0, <1>2 DEF NotifyEncryptMessage
  <2> QED
    BY <1>3, <2>1, FilledIn
<1>8. /\ v.schema = s.schema /\ v.form = s.form /\ v.kdfAlg = s.kdfAlg
      /\ v.ops = s.ops /\ v.mem = s.mem /\ v.salt = s.salt /\ v.wrapAad = s.wrapAad
  BY <1>7 DEF SameHeader, VaultFields
<1>9. /\ v.wrapAlg = s.wrapAlg /\ v.contentAlg = s.contentAlg /\ v.wrapNonce = s.wrapNonce
      /\ v.contentNonce = s.contentNonce /\ v.missing = s.missing /\ v.short = s.short
      /\ v.long = s.long /\ v.contentAad = s.contentAad
  BY <1>7 DEF SameHeader, VaultFields
<1>10. SoundCost(v) /\ Whole(v)
  BY <1>4, <1>6, <1>8, <1>9 DEF SoundCost, Whole, MinOps, MaxOps, MinMem, MaxMem
<1> QED
  BY <1>4, <1>6, <1>7, <1>8, <1>9, <1>10 DEF NotifyVault

-------------------------------------------------------------------------------
\* A key tells the phrase, the salt and the cost it was derived from.
LEMMA OneKeyPerPhrase ==
  ASSUME NEW h, NEW g, NEW s, NEW t, NEW o, NEW p, NEW m, NEW n
  PROVE  /\ KdfKey(h, s, o, m) = KdfKey(g, t, p, n) => h = g /\ s = t /\ o = p /\ m = n
         /\ KdfKey(h, s, o, m)[1] = h
  BY DEF KdfKey

\* What was locked under a phrase opens under that phrase, and is refused
\* under any other as it should be (chat.js decryptVaultV2, vault.js, qev.ts).
LEMMA V2Opens ==
  ASSUME NEW v, NEW heard, NEW text, NEW key, V2Vault(v, heard, text, key), NEW validate,
         Passes(v, validate, "V2", "wrapped", Cipher), NEW tried, NEW r,
         r = DecryptV2With(validate, BuildAADV2(v), v, tried)
  PROVE  r = IF ~Speaks(tried) THEN Refused("phrase")
             ELSE IF tried = heard THEN Plain(text) ELSE Refused("auth")
<1>1. validate \in Seq(Check) /\ Passing(validate) /\ v.short = {} /\ v.long = {}
  BY DEF V2Vault, V2Header, Passes
<1>2. PICK err \in Errors \cup {"none"} :
        /\ Judgement(r, err, Layers(v, tried, BuildAADV2(v), BuildAADV2(v)))
        /\ Passing(validate) /\ v.short = {} /\ v.long = {} =>
             IF Speaks(tried) THEN err = "none" ELSE err = "phrase"
  BY <1>1, V2Answers
<1>3. /\ v.wrapped = Seal(KdfKey(heard, v.salt, v.ops, v.mem), v.wrapNonce, BuildAADV2(v), key)
      /\ v.ct = Seal(key, v.contentNonce, BuildAADV2(v), text)
  BY DEF V2Vault
<1>4. KeyOpens(v, tried, BuildAADV2(v)) <=> tried = heard
  BY <1>3, OneKeyPerPhrase DEF KeyOpens, Opens, Seal
<1>5. TextOpens(v, BuildAADV2(v)) /\ v.ct.body = text
  BY <1>3 DEF TextOpens, Opens, Seal
<1>6. Layers(v, tried, BuildAADV2(v), BuildAADV2(v)) =
        IF tried = heard THEN Plain(text) ELSE Refused("auth")
  BY <1>4, <1>5 DEF Layers
<1> QED
  BY <1>1, <1>2, <1>6 DEF Judgement

\* So does one of the first format (decryptVaultV1),
LEMMA V1Opens ==
  ASSUME NEW v, NEW heard, NEW text, V1Vault(v, heard, text), NEW r, r = DecryptV1With(v, heard)
  PROVE  r = Plain(text)
<1>1. Passing(ValidateV1(v)) /\ v.short = {} /\ v.long = {} /\ Speaks(heard)
  BY ValidateV1Is DEF V1Vault, Passes, SoundHeader, Whole
<1>2. PICK err : Judgement(r, err, LayerV1(v, heard)) /\ err = "none"
  BY <1>1, V1Answers
<1>3. v.ct = Seal(KdfKey(heard, v.salt, v.ops, v.mem), v.contentNonce, BuildAADV1(v), text)
  BY DEF V1Vault
<1>4. LayerV1(v, heard) = Plain(text)
  BY <1>3 DEF LayerV1, Opens, Seal
<1> QED
  BY <1>2, <1>4 DEF Judgement

\* and an envelope (decryptNotifyEnvelope).
LEMMA NotifyOpens ==
  ASSUME NEW v, NEW heard, NEW text, NEW key, NotifyVault(v, heard, text, key), NEW r,
         r = DecryptNotifyWith(v, heard)
  PROVE  r = Plain(text)
<1>1. Passing(ValidateNotify(v)) /\ v.short = {} /\ v.long = {} /\ Speaks(heard)
  BY ValidateNotifyIs DEF NotifyVault, Whole
<1>2. PICK err : /\ Judgement(r, err, Layers(v, heard, <<v.wrapAad>>, <<v.contentAad>>))
                 /\ err = "none"
  BY <1>1, NotifyAnswers
<1>3. /\ v.wrapped = Seal(KdfKey(heard, v.salt, v.ops, v.mem), v.wrapNonce, <<v.wrapAad>>, key)
      /\ v.ct = Seal(key, v.contentNonce, <<v.contentAad>>, text)
  BY DEF NotifyVault
<1>4. KeyOpens(v, heard, <<v.wrapAad>>) /\ TextOpens(v, <<v.contentAad>>) /\ v.ct.body = text
  BY <1>3 DEF KeyOpens, TextOpens, Opens, Seal
<1> QED
  BY <1>2, <1>4 DEF Judgement, Layers

\* A rewrap that is done found the key of the vault under the old phrase, and
\* put it under a new one that is another and not empty (rewrap.js:32-117).
LEMMA RewrapIs ==
  ASSUME NEW v, NEW old, NEW new, NEW r, r = CliRewrapV2(v, old, new)
  PROVE  /\ r.ok => /\ Passing(CliValidateV2(v)) /\ Speaks(new) /\ old # new
                    /\ KeyOpens(v, old, BuildAADV2(v))
                    /\ r.vault = [v EXCEPT !.wrapped =
                         Seal(KdfKey(new, v.salt, v.ops, v.mem), v.wrapNonce, BuildAADV2(v),
                              v.wrapped.body)]
         /\ /\ Passing(CliValidateV2(v)) /\ v.short = {} /\ Speaks(old) /\ Speaks(new)
            /\ old # new /\ KeyOpens(v, old, BuildAADV2(v))
            => r.ok
<1> DEFINE same == old = new
           short == v.short \cap {"salt", "wrapped"} # {}
           last == << <<same, "same">>, <<short, "malformed">> >>
           checks == CliRewrapChecks(v, old, new)
           opens == KeyOpens(v, old, BuildAADV2(v))
           clipped == "wrapNonce" \in v.short
           whole == [v EXCEPT !.wrapped =
                       Seal(KdfKey(new, v.salt, v.ops, v.mem), v.wrapNonce, BuildAADV2(v),
                            v.wrapped.body)]
<1>1. last \in Seq(Check) /\ (Passing(last) <=> ~same /\ ~short)
  <2>1. same \in BOOLEAN /\ short \in BOOLEAN /\ "same" \in Errors /\ "malformed" \in Errors
    BY DEF Errors
  <2> QED
    BY <2>1, TwoChecks, Zenon
<1>2. checks = CliValidateV2(v) \o PhraseCheck(old) \o PhraseCheck(new) \o last
  BY DEF CliRewrapChecks
<1>3. v.short = {} => ~short /\ ~clipped
  OBVIOUS
<1> HIDE DEF last, short
<1>4. /\ checks \in Seq(Check)
      /\ Passing(checks) <=>
           Passing(CliValidateV2(v)) /\ Speaks(old) /\ Speaks(new) /\ ~same /\ ~short
  <2>1. /\ CliValidateV2(v) \in Seq(Check) /\ PhraseCheck(old) \in Seq(Check)
        /\ PhraseCheck(new) \in Seq(Check) /\ (Passing(PhraseCheck(old)) <=> Speaks(old))
        /\ Passing(PhraseCheck(new)) <=> Speaks(new)
    BY CliValidateV2Is, PhraseCheckIs DEF Passes
  <2>2. PICK a : a = CliValidateV2(v) \o PhraseCheck(old)
    OBVIOUS
  <2>3. a \in Seq(Check) /\ (Passing(a) <=> Passing(CliValidateV2(v)) /\ Speaks(old))
    BY <2>1, <2>2, PassingTogether
  <2>4. PICK b : b = a \o PhraseCheck(new)
    OBVIOUS
  <2>5. b \in Seq(Check) /\ (Passing(b) <=> Passing(a) /\ Speaks(new))
    BY <2>1, <2>3, <2>4, PassingTogether
  <2>6. checks = b \o last
    BY <1>2, <2>2, <2>4
  <2> HIDE DEF same, checks
  <2> QED
    BY <1>1, <2>3, <2>5, <2>6, PassingTogether
<1>5. PICK err : err = FirstError(checks)
  OBVIOUS
<1>6. r = IF err # "none" THEN [ok |-> FALSE, vault |-> v, err |-> err]
          ELSE IF clipped \/ ~opens THEN [ok |-> FALSE, vault |-> v, err |-> "auth"]
          ELSE [ok |-> TRUE, err |-> "none", vault |-> whole]
  BY <1>5 DEF CliRewrapV2, CliRewrapKey, CliAADV2, KeyOpens
<1>7. err = "none" <=> Passing(checks)
  BY <1>4, <1>5, PassingMeansNone
<1> HIDE DEF checks, opens, clipped, whole
<1>8. /\ r.ok <=> err = "none" /\ ~clipped /\ opens
      /\ err = "none" /\ ~clipped /\ opens => r.vault = whole
  BY <1>6
<1> QED
  BY <1>3, <1>4, <1>7, <1>8 DEF opens, whole, same

\* A whole vault is rewrapped for the phrase it was locked under, and only so.
LEMMA V2Rewraps ==
  ASSUME NEW v, NEW heard, NEW text, NEW key, V2Vault(v, heard, text, key), NEW old, NEW new,
         NEW r, r = CliRewrapV2(v, old, new)
  PROVE  /\ r.ok => old = heard /\ Speaks(new) /\ old # new
         /\ old = heard /\ Speaks(old) /\ Speaks(new) /\ old # new => r.ok
         /\ r.ok => /\ V2Vault(r.vault, new, text, key) /\ SameHeader(r.vault, v)
                    /\ r.vault.ct = v.ct
<1>1. Passing(CliValidateV2(v)) /\ v.short = {} /\ IsRecord(v)
  BY CliValidateV2Is DEF V2Vault, V2Header, Passes
<1>2. /\ v.wrapped = Seal(KdfKey(heard, v.salt, v.ops, v.mem), v.wrapNonce, BuildAADV2(v), key)
      /\ v.ct = Seal(key, v.contentNonce, BuildAADV2(v), text)
  BY DEF V2Vault
<1>3. KeyOpens(v, old, BuildAADV2(v)) <=> old = heard
  BY <1>2, OneKeyPerPhrase DEF KeyOpens, Opens, Seal
<1>4. v.wrapped.body = key
  BY <1>2 DEF Seal
<1>5. PICK w : w = Seal(KdfKey(new, v.salt, v.ops, v.mem), v.wrapNonce, BuildAADV2(v), key)
  OBVIOUS
<1>6. ASSUME r.ok
      PROVE  /\ Speaks(new) /\ r.vault = [v EXCEPT !.wrapped = w]
             /\ V2Vault(r.vault, new, text, key) /\ SameHeader(r.vault, v) /\ r.vault.ct = v.ct
  <2>1. r.vault = [v EXCEPT !.wrapped = w] /\ Speaks(new)
    BY <1>4, <1>5, <1>6, RewrapIs
  <2>2. /\ IsRecord(r.vault) /\ r.vault.wrapped = w
        /\ \A f \in VaultFields \ {"wrapped"} : r.vault[f] = v[f]
    BY <1>1, <2>1 DEF IsRecord, VaultFields
  <2>3. SameHeader(r.vault, v) /\ r.vault.ct = v.ct
    BY <2>2 DEF SameHeader, VaultFields
  <2>4. BuildAADV2(r.vault) = BuildAADV2(v)
    BY <2>3, HeaderBinds
  <2>5. /\ r.vault.schema = v.schema /\ r.vault.form = v.form /\ r.vault.mode = v.mode
        /\ r.vault.kdfAlg = v.kdfAlg /\ r.vault.ops = v.ops /\ r.vault.mem = v.mem
        /\ r.vault.salt = v.salt
    BY <2>2 DEF VaultFields
  <2>6. /\ r.vault.wrapAlg = v.wrapAlg /\ r.vault.wrapNonce = v.wrapNonce
        /\ r.vault.contentAlg = v.contentAlg /\ r.vault.contentNonce = v.contentNonce
        /\ r.vault.missing = v.missing /\ r.vault.short = v.short /\ r.vault.long = v.long
    BY <2>2 DEF VaultFields
  <2>7. V2Header(r.vault)
    BY <2>2, <2>5, <2>6 DEF V2Vault, V2Header, SoundHeader, SoundCost, Whole
  <2>8. V2Vault(r.vault, new, text, key)
    BY <1>2, <1>5, <2>1, <2>2, <2>3, <2>4, <2>5, <2>6, <2>7 DEF V2Vault
  <2> QED
    BY <2>1, <2>3, <2>8
<1> QED
  BY <1>1, <1>3, <1>5, <1>6, RewrapIs

\* What the five programs lock.
Lockings(text, heard, mode, preset, now, rnd) ==
  {SiteEncryptV2(text, heard, mode, preset, now, rnd),
   LandingEncryptV2(text, heard, mode, preset, now, rnd),
   DesktopEncryptV2(text, heard, mode, preset, now, rnd),
   CliEncryptV2(text, heard, mode, preset, now, rnd),
   ProofLockEncryptV2(text, heard, preset, now, rnd)}
\* Each makes a whole vault of the second format, under the phrase it was
\* given, with the salt and the nonce that were drawn.
LEMMA ProgramsLock ==
  ASSUME NEW text, NEW heard, NEW mode \in Modes, NEW preset, SoundPreset(preset), NEW now,
         NEW rnd, NEW v \in Lockings(text, heard, mode, preset, now, rnd)
  PROVE  /\ V2Vault(v, heard, text, rnd.key) /\ v.salt = rnd.salt
         /\ v.contentNonce = rnd.contentNonce
<1>1. PICK version, m : \E s :
        /\ m \in Modes /\ s = Skeleton("V2", "wrapped", version, now, m, preset, rnd)
        /\ v = WithCiphertexts(s,
                 Seal(KdfKey(heard, rnd.salt, preset.ops, preset.mem), rnd.wrapNonce,
                      BuildAADV2(s), rnd.key),
                 Seal(rnd.key, rnd.contentNonce, BuildAADV2(s), text))
  <2>1. "self" \in Modes
    BY DEF Modes
  <2> QED
    BY <2>1
       DEF Lockings, SiteEncryptV2, LandingEncryptV2, DesktopEncryptV2, CliEncryptV2,
           ProofLockEncryptV2, EncryptV2With, SiteAADV2, LandingAADV2, DesktopAADV2, CliAADV2,
           ProofLockAADV2
<1>2. PICK s :
        /\ m \in Modes /\ s = Skeleton("V2", "wrapped", version, now, m, preset, rnd)
        /\ v = WithCiphertexts(s,
                 Seal(KdfKey(heard, rnd.salt, preset.ops, preset.mem), rnd.wrapNonce,
                      BuildAADV2(s), rnd.key),
                 Seal(rnd.key, rnd.contentNonce, BuildAADV2(s), text))
  BY <1>1
<1>3. /\ IsRecord(s) /\ s.schema = "V2" /\ s.form = "wrapped" /\ s.mode = m
      /\ s.kdfAlg = "argon2id" /\ s.ops = preset.ops /\ s.mem = preset.mem /\ s.salt = rnd.salt
      /\ s.wrapAlg = Cipher /\ s.wrapNonce = rnd.wrapNonce /\ s.contentAlg = Cipher
      /\ s.contentNonce = rnd.contentNonce /\ s.missing = {} /\ s.short = {} /\ s.long = {}
  BY <1>2, SkeletonIs
<1>4. /\ IsRecord(v) /\ SameHeader(v, s)
      /\ v.wrapped = Seal(KdfKey(heard, rnd.salt, preset.ops, preset.mem), rnd.wrapNonce,
                          BuildAADV2(s), rnd.key)
      /\ v.ct = Seal(rnd.key, rnd.contentNonce, BuildAADV2(s), text)
  BY <1>2, <1>3, FilledIn
<1>5. BuildAADV2(v) = BuildAADV2(s)
  BY <1>4, HeaderBinds
<1>6. /\ v.schema = s.schema /\ v.form = s.form /\ v.mode = s.mode /\ v.kdfAlg = s.kdfAlg
      /\ v.ops = s.ops /\ v.mem = s.mem /\ v.salt = s.salt
  BY <1>4 DEF SameHeader, VaultFields
<1>7. /\ v.wrapAlg = s.wrapAlg /\ v.wrapNonce = s.wrapNonce /\ v.contentAlg = s.contentAlg
      /\ v.contentNonce = s.contentNonce /\ v.missing = s.missing /\ v.short = s.short
      /\ v.long = s.long
  BY <1>4 DEF SameHeader, VaultFields
<1>8. SoundHeader(v)
  BY <1>2, <1>3, <1>6, <1>7 DEF SoundHeader, SoundCost, Whole, SoundPreset
<1> QED
  BY <1>3, <1>4, <1>5, <1>6, <1>7, <1>8 DEF V2Vault, V2Header

\* The lock strength the models lock with is within the limits.
LEMMA QuickIsSound == SoundPreset(LockPresets.quick)
<1>1. LockPresets.quick.ops = 1 /\ LockPresets.quick.mem = 32
  BY DEF LockPresets
<1> QED
  BY <1>1 DEF SoundPreset, MinOps, MaxOps, MinMem, MaxMem
===============================================================================
