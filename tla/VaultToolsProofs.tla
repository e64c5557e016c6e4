--------------------------- MODULE VaultToolsProofs ---------------------------
(***************************************************************************)
(* What the vault tools promise.                                           *)
(*                                                                         *)
(* First the command line, for any files, terminals and phrases, any keys  *)
(* typed, any number of runs, kills and failed writes: a file it said it   *)
(* wrote opens under the phrase confirmed for it, or is torn where two     *)
(* terminals wrote it at once; files are only replaced on purpose, and a   *)
(* failure is explained as it was.  It rests on two facts about the codec, *)
(* that a vault locked under a phrase opens under that phrase and no       *)
(* other, and that what rewrap makes of it is locked under the new one,    *)
(* and on one about files: who writes a file that nobody else has open     *)
(* finds it empty (Alone).                                                 *)
(*                                                                         *)
(* Then vault files between the five programs, with damage on the way.     *)
(***************************************************************************)
EXTENDS QevCli, VaultFiles, VaultProgramsProofs

-------------------------------------------------------------------------------
\* Lists of phrases.  They hold whatever was typed, so of no set named here.
IsList(s) == \E S : s \in Seq(S)

\* A list that has grown, and the list that is empty.
LEMMA ListGrows ==
  ASSUME NEW s, IsList(s), NEW x
  PROVE  /\ IsList(Append(s, x)) /\ Len(s) \in Nat /\ Len(Append(s, x)) = Len(s) + 1
         /\ \A i \in 1..Len(s) : Append(s, x)[i] = s[i]
         /\ Append(s, x)[Len(s) + 1] = x
<1>1. PICK S : s \in Seq(S)
  BY DEF IsList
<1>2. Len(s) \in Nat /\ s \in [1..Len(s) -> S]
  BY <1>1, LenProperties
<1>3. s \in Seq(S \cup {x})
  BY <1>2
<1>4. Append(s, x) \in Seq(S \cup {x})
  BY <1>3, AppendProperties
<1> QED
  BY <1>2, <1>3, <1>4, AppendProperties DEF IsList

LEMMA NoList == IsList(<<>>) /\ Len(<<>>) = 0
  BY DEF IsList

LEMMA EmptyList ==
  ASSUME NEW s, IsList(s)
  PROVE  Len(s) \in Nat /\ (Len(s) = 0 <=> s = <<>>)
  BY LenProperties, EmptySeq DEF IsList

-------------------------------------------------------------------------------
\* A process, and what an action leaves of it.
ProcessFields == {"cmd", "file", "out", "stdin", "pc", "text", "vault", "buf", "phrases", "said",
                  "doubt"}
IsProcess(p) == DOMAIN p = ProcessFields
Keeps(p, q, changed) == IsProcess(q) /\ \A f \in ProcessFields \ changed : q[f] = p[f]

\* A vault that was locked under a phrase, whoever wrote it.
LockedUnder(v, text, phrase) ==
  phrase # "" /\ text \in Texts /\ \E key : V2Vault(v, Typed(phrase), text, key)
NoPhrase(p) == p = ""

\* A phrase is heard as it was typed.
LEMMA TypedIs ==
  ASSUME NEW p, NEW q
  PROVE  /\ Speaks(Typed(p)) <=> ~NoPhrase(p)
         /\ Typed(p) = Typed(q) <=> p = q
  BY DEF Speaks, Typed, NoPhrase

\* qev lock makes one,
LEMMA LockedIs ==
  ASSUME NEW text \in Texts, NEW phrase, ~NoPhrase(phrase), NEW n
  PROVE  LockedUnder(Locked(text, phrase, n), text, phrase)
<1>1. PICK v, heard, mode, now, preset, rnd :
        /\ v = CliEncryptV2(text, heard, mode, preset, now, rnd)
        /\ v = Locked(text, phrase, n) /\ heard = Typed(phrase) /\ mode \in Modes
        /\ preset = LockPresets.quick
  BY DEF Locked, Modes
<1>2. v \in Lockings(text, heard, mode, preset, now, rnd) /\ SoundPreset(preset)
  BY <1>1, QuickIsSound DEF Lockings
<1>3. V2Vault(v, heard, text, rnd.key)
  BY <1>1, <1>2, ProgramsLock
<1> QED
  BY <1>1, <1>3 DEF LockedUnder, NoPhrase

\* qev unlock opens it under that phrase, and refuses any other as it should
\* (vault.js, crypto.js),
LEMMA LockedOpens ==
  ASSUME NEW v, NEW text, NEW phrase, LockedUnder(v, text, phrase), NEW tried
  PROVE  CliDecryptV2(v, Typed(tried)) =
           IF NoPhrase(tried) THEN Refused("phrase")
           ELSE IF tried = phrase THEN Plain(text) ELSE Refused("auth")
<1>1. PICK heard, key, try :
        V2Vault(v, heard, text, key) /\ heard = Typed(phrase) /\ try = Typed(tried)
  BY DEF LockedUnder
<1>2. PICK checks, r :
        /\ checks = CliValidateV2(v)
        /\ r = CliDecryptV2(v, try) /\ r = DecryptV2With(checks, BuildAADV2(v), v, try)
  BY DEF CliDecryptV2, CliAADV2
<1>3. Passes(v, checks, "V2", "wrapped", Cipher)
  BY <1>2, CliValidateV2Is
<1>4. r = IF ~Speaks(try) THEN Refused("phrase")
          ELSE IF try = heard THEN Plain(text) ELSE Refused("auth")
  BY <1>1, <1>2, <1>3, V2Opens
<1> QED
  BY <1>1, <1>2, <1>4, TypedIs

\* and qev rewrap, if it is done, makes of it one that is locked under another
\* phrase, not empty (rewrap.js:32-117).
LEMMA LockedRewraps ==
  ASSUME NEW v, NEW text, NEW phrase, LockedUnder(v, text, phrase), NEW old, NEW new, NEW r,
         r = CliRewrapV2(v, Typed(old), Typed(new)), r.ok
  PROVE  old = phrase /\ ~NoPhrase(new) /\ new # old /\ LockedUnder(r.vault, text, new)
<1>1. PICK heard, key, f, g :
        V2Vault(v, heard, text, key) /\ heard = Typed(phrase) /\ f = Typed(old) /\ g = Typed(new)
  BY DEF LockedUnder
<1>2. r = CliRewrapV2(v, f, g)
  BY <1>1
<1>3. f = heard /\ Speaks(g) /\ f # g /\ V2Vault(r.vault, g, text, key)
  BY <1>1, <1>2, V2Rewraps
<1> QED
  BY <1>1, <1>3, TypedIs DEF LockedUnder, NoPhrase

\* What is true of every process that was started.
Commands == {"lock", "unlock", "rewrap"}
Points == {"read", "ask", "prompt", "asked", "write", "writing", "ok", "failed"}
Sound(p) ==
  IsProcess(p) /\ p.cmd \in Commands /\ (p.cmd # "lock" => p.file \in Files) /\ IsList(p.phrases)
\* It has as many phrases as it asked for,
Counts(p) ==
  /\ p.pc \in Points
  /\ p.pc = "read" => p.phrases = <<>>
  /\ p.pc \in {"ask", "prompt"} => Len(p.phrases) < PhrasesAsked(p.cmd)
  /\ p.pc \in {"asked", "write", "writing"} => Len(p.phrases) = PhrasesAsked(p.cmd)
\* holds a vault as it was locked, with its text,
HasRead(p) ==
  p.pc \in {"ask", "prompt", "asked"} =>
    IF p.cmd = "lock" THEN p.text \in Texts
    ELSE \E phrase : LockedUnder(p.vault, p.text, phrase)
\* writes what opens under the phrase it confirmed,
HasMade(p) ==
  p.pc \in {"write", "writing"} =>
    /\ p.cmd # "unlock" /\ Confirmed(p) /\ LockedUnder(p.vault, p.text, New(p))
    /\ p.cmd = "rewrap" => p.phrases[1] # New(p)
\* and says of a failure what is so.
Unread == {"unreadable", "not JSON"}
Explains(p) ==
  p.pc = "failed" =>
    /\ p.said \in Unread => p.doubt
    /\ p.cmd = "unlock" /\ p.phrases # <<>> =>
         /\ p.vault.wrapped.key[1] # Typed(p.phrases[1])
         /\ p.said = IF p.phrases[1] = "" THEN "unknown" ELSE "authentication failed"
ProcOK(p) == Sound(p) /\ Counts(p) /\ HasRead(p) /\ HasMade(p) /\ Explains(p)

\* How often each command asks.
LEMMA AskedIs ==
  ASSUME NEW cmd \in Commands
  PROVE  PhrasesAsked(cmd) \in 1..3 /\ (cmd = "unlock" => PhrasesAsked(cmd) = 1)
         /\ (cmd = "lock" => PhrasesAsked(cmd) = 2) /\ (cmd = "rewrap" => PhrasesAsked(cmd) = 3)
  BY DEF Commands, PhrasesAsked

\* A process that was started, and one that has ended.
LEMMA Begins ==
  ASSUME NEW cmd \in Commands, NEW file, cmd # "lock" => file \in Files, NEW out, NEW stdin,
         NEW p, p = Process(cmd, file, out, stdin)
  PROVE  ProcOK(p) /\ p # Nothing /\ p.pc # "writing"
<1>1. /\ IsProcess(p) /\ p.cmd = cmd /\ p.file = file /\ p.pc = "read" /\ p.phrases = <<>>
  BY DEF Process, IsProcess, ProcessFields
<1>2. p # Nothing
  BY <1>1 DEF IsProcess, ProcessFields, Nothing
<1> QED
  BY <1>1, <1>2, NoList DEF ProcOK, Sound, Counts, HasRead, HasMade, Explains, Points

\* A process ends.
LEMMA Ends ==
  ASSUME NEW p, Sound(p), NEW how \in {"ok", "failed"}, NEW said, NEW q, q = End(p, how, said),
         how = "failed" /\ said \in Unread => p.doubt,
         how = "failed" /\ p.cmd = "unlock" /\ p.phrases # <<>> =>
           /\ p.vault.wrapped.key[1] # Typed(p.phrases[1])
           /\ said = IF p.phrases[1] = "" THEN "unknown" ELSE "authentication failed"
  PROVE  ProcOK(q) /\ q # Nothing /\ q.pc # "writing"
<1>0. IsProcess(p)
  BY DEF Sound
<1>1. q.pc = how /\ q.said = said /\ Keeps(p, q, {"pc", "said"})
  BY <1>0 DEF IsProcess, Keeps, ProcessFields, End
<1>2. /\ IsProcess(q) /\ q.cmd = p.cmd /\ q.file = p.file /\ q.phrases = p.phrases
      /\ q.vault = p.vault /\ q.doubt = p.doubt
  BY <1>1 DEF Keeps, ProcessFields
<1>3. q # Nothing
  BY <1>2 DEF IsProcess, ProcessFields, Nothing
<1>4. Sound(q)
  BY <1>2 DEF Sound
<1>5. Explains(q)
  BY <1>1, <1>2 DEF Explains
<1>6. Counts(q) /\ HasRead(q) /\ HasMade(q)
  BY <1>1 DEF Counts, HasRead, HasMade, Points
<1> QED
  BY <1>1, <1>3, <1>4, <1>5, <1>6 DEF ProcOK

\* The text of a vault is in its content.
LEMMA VaultIs ==
  ASSUME NEW v, NEW text, NEW phrase, LockedUnder(v, text, phrase)
  PROVE  v.ct.body = text /\ v.wrapped.key[1] = Typed(phrase)
         /\ Opens(v.wrapped, KdfKey(Typed(phrase), v.salt, v.ops, v.mem), v.wrapNonce, CliAADV2(v))
<1>1. PICK heard, key : V2Vault(v, heard, text, key) /\ heard = Typed(phrase)
  BY DEF LockedUnder
<1>2. /\ v.wrapped = Seal(KdfKey(heard, v.salt, v.ops, v.mem), v.wrapNonce, BuildAADV2(v), key)
      /\ v.ct = Seal(key, v.contentNonce, BuildAADV2(v), text)
  BY <1>1 DEF V2Vault
<1>3. v.ct.body = text /\ v.wrapped.key = KdfKey(heard, v.salt, v.ops, v.mem)
  BY <1>2 DEF Seal
<1>4. v.wrapped.key[1] = heard
  BY <1>3, OneKeyPerPhrase
<1>5. Opens(v.wrapped, KdfKey(heard, v.salt, v.ops, v.mem), v.wrapNonce, CliAADV2(v))
  BY <1>2 DEF Seal, Opens, CliAADV2
<1> QED
  BY <1>1, <1>3, <1>4, <1>5

\* It goes on with what it holds, which stays as sound.
Rest == {"cmd", "file", "phrases"}
LEMMA GoesOn ==
  ASSUME NEW p, ProcOK(p), NEW q, Keeps(p, q, ProcessFields \ Rest),
         q.pc \notin {"ok", "failed"}, Counts(q), HasRead(q), HasMade(q)
  PROVE  ProcOK(q) /\ q # Nothing
<1>1. IsProcess(q) /\ q.cmd = p.cmd /\ q.file = p.file /\ q.phrases = p.phrases
  BY DEF Keeps, ProcessFields, Rest
<1>2. Sound(q)
  BY <1>1 DEF ProcOK, Sound
<1>3. q # Nothing
  BY <1>1 DEF IsProcess, ProcessFields, Nothing
<1> QED
  BY <1>2, <1>3 DEF ProcOK, Explains

\* It has read what it locks, or the vault it opens.
LEMMA ReadsPlaintext ==
  ASSUME NEW p, ProcOK(p), p.pc = "read", p.cmd = "lock", NEW text \in Texts, NEW q,
         q = [p EXCEPT !.text = text, !.pc = "ask"]
  PROVE  ProcOK(q) /\ q # Nothing /\ q.pc # "writing"
<1>1. /\ q.pc = "ask" /\ q.cmd = "lock" /\ q.phrases = <<>> /\ q.text = text
      /\ Keeps(p, q, ProcessFields \ Rest)
  BY DEF ProcOK, Sound, Counts, Keeps, IsProcess, ProcessFields, Rest
<1>2. Counts(q) /\ HasRead(q) /\ HasMade(q)
  <2>1. Len(q.phrases) = 0 /\ PhrasesAsked(q.cmd) = 2
    BY <1>1, NoList, AskedIs DEF Commands
  <2> QED
    BY <1>1, <2>1 DEF Counts, HasRead, HasMade, Points
<1> QED
  BY <1>1, <1>2, GoesOn

LEMMA ReadsVault ==
  ASSUME NEW p, ProcOK(p), p.pc = "read", p.cmd # "lock",
         NEW v, NEW text, NEW phrase, LockedUnder(v, text, phrase), NEW doubt, NEW q,
         q = [[p EXCEPT !.doubt = doubt] EXCEPT !.vault = v, !.pc = "ask", !.text = v.ct.body]
  PROVE  ProcOK(q) /\ q # Nothing /\ q.pc # "writing"
<1>1. v.ct.body = text
  BY VaultIs
<1>2. /\ q.pc = "ask" /\ q.vault = v /\ q.text = text /\ q.phrases = <<>>
      /\ q.cmd = p.cmd /\ Keeps(p, q, ProcessFields \ Rest)
  BY <1>1 DEF ProcOK, Sound, Counts, Keeps, IsProcess, ProcessFields, Rest
<1>3. Counts(q) /\ HasRead(q) /\ HasMade(q)
  <2>1. Len(q.phrases) = 0 /\ PhrasesAsked(q.cmd) \in 1..3
    BY <1>2, NoList, AskedIs DEF ProcOK, Sound
  <2> QED
    BY <1>2, <2>1 DEF Counts, HasRead, HasMade, Points
<1> QED
  BY <1>2, <1>3, GoesOn

\* Prompting, typing and opening the output change neither phrases nor vault.
LEMMA StaysSo ==
  ASSUME NEW p, ProcOK(p), NEW q, Keeps(p, q, {"pc", "buf"}),
         \/ q.pc = p.pc /\ q.pc \in {"ask", "prompt", "asked", "write", "writing"}
         \/ p.pc = "ask" /\ q.pc = "prompt"
         \/ p.pc = "write" /\ q.pc = "writing"
  PROVE  ProcOK(q) /\ q # Nothing /\ q.out = p.out
<1>1. /\ q.cmd = p.cmd /\ q.vault = p.vault /\ q.text = p.text /\ q.phrases = p.phrases
      /\ q.out = p.out /\ Keeps(p, q, ProcessFields \ Rest)
  BY DEF Keeps, ProcessFields, Rest
<1>2. New(q) = New(p) /\ (Confirmed(p) => Confirmed(q))
  BY <1>1 DEF New, Confirmed
<1>3. Counts(p) /\ HasRead(p) /\ HasMade(p)
  BY DEF ProcOK
<1>4. Counts(q)
  BY <1>1, <1>3 DEF Counts, Points
<1>5. HasRead(q)
  BY <1>1, <1>3 DEF HasRead
<1>6. HasMade(q)
  BY <1>1, <1>2, <1>3 DEF HasMade
<1> QED
  BY <1>1, <1>4, <1>5, <1>6, GoesOn

\* A phrase is complete: there is another to ask for, or there are all.
LEMMA TakesPhrase ==
  ASSUME NEW p, ProcOK(p), p.pc = "prompt", NEW buf, NEW q,
         q = [p EXCEPT !.phrases = Append(p.phrases, buf), !.buf = "",
                !.pc = IF Len(p.phrases) + 1 < PhrasesAsked(p.cmd) THEN "ask" ELSE "asked"]
  PROVE  ProcOK(q) /\ q # Nothing /\ q.pc # "writing"
<1>1. PICK pc, phrases : /\ pc = IF Len(p.phrases) + 1 < PhrasesAsked(p.cmd) THEN "ask" ELSE "asked"
                         /\ phrases = Append(p.phrases, buf)
  OBVIOUS
<1>2. /\ IsProcess(q) /\ q.pc = pc /\ q.phrases = phrases /\ q.cmd = p.cmd /\ q.file = p.file
      /\ q.vault = p.vault /\ q.text = p.text
  BY <1>1 DEF ProcOK, Sound, IsProcess, ProcessFields
<1>3. IsList(p.phrases) /\ p.cmd \in Commands /\ Len(p.phrases) < PhrasesAsked(p.cmd)
  BY DEF ProcOK, Sound, Counts
<1>4. IsList(phrases) /\ Len(p.phrases) \in Nat /\ Len(phrases) = Len(p.phrases) + 1
  BY <1>1, <1>3, ListGrows
<1>5. PhrasesAsked(p.cmd) \in 1..3
  BY <1>3, AskedIs
<1>6. Sound(q)
  BY <1>2, <1>4 DEF ProcOK, Sound
<1>7. pc \in {"ask", "asked"} /\ (pc = "ask" => Len(phrases) < PhrasesAsked(p.cmd))
      /\ (pc = "asked" => Len(phrases) = PhrasesAsked(p.cmd))
  BY <1>1, <1>3, <1>4, <1>5
<1>8. Counts(q)
  BY <1>2, <1>7 DEF Counts, Points
<1>9. HasRead(q)
  BY <1>2 DEF ProcOK, HasRead
<1>10. HasMade(q) /\ Explains(q) /\ q.pc # "writing"
  BY <1>2, <1>7 DEF HasMade, Explains
<1>11. q # Nothing
  BY <1>2 DEF IsProcess, ProcessFields, Nothing
<1> QED
  BY <1>6, <1>8, <1>9, <1>10, <1>11 DEF ProcOK

\* It has made the vault it is going to write.
LEMMA Makes ==
  ASSUME NEW p, ProcOK(p), p.pc = "asked", p.cmd # "unlock", Confirmed(p),
         NEW v, LockedUnder(v, p.text, New(p)), p.cmd = "rewrap" => p.phrases[1] # New(p),
         NEW q, q = [p EXCEPT !.vault = v, !.pc = "write"]
  PROVE  ProcOK(q) /\ q # Nothing /\ q.pc # "writing"
<1>1. /\ q.pc = "write" /\ q.vault = v /\ q.cmd = p.cmd /\ q.text = p.text
      /\ q.phrases = p.phrases /\ Keeps(p, q, ProcessFields \ Rest)
  BY DEF ProcOK, Sound, Keeps, IsProcess, ProcessFields, Rest
<1>2. New(q) = New(p) /\ Confirmed(q)
  BY <1>1 DEF New, Confirmed
<1>3. Counts(q)
  BY <1>1 DEF ProcOK, Counts, Points
<1>4. HasRead(q) /\ HasMade(q)
  BY <1>1, <1>2 DEF HasRead, HasMade
<1> QED
  BY <1>1, <1>3, <1>4, GoesOn

-------------------------------------------------------------------------------
\* What is true of the files: all are whole vaults, or torn.
FileOK(d) ==
  \/ d = Absent \/ (\E n \in Nat : d = Torn(n))
  \/ \E v, text, phrase : d = Intact(v) /\ LockedUnder(v, text, phrase)
\* A file that is not being written and was not cut short is as the user was
\* told, or two terminals met in it.
Told(d, told_f) == \E v : d = Intact(v) /\ LockedUnder(v, told_f.text, told_f.phrase)
Kept(f) ==
  told[f] # Nothing /\ f \notin cut /\ ~BeingWritten(f)
    => Told(disk[f], told[f]) \/ (f \in shared /\ disk[f].kind = "torn")
\* Who writes a file that nobody else has open finds it empty.
Writing(t, f) == At(t, "writing") /\ proc[t].out = f
Alone(f) ==
  f \notin shared => \A t \in Terminals : Writing(t, f) =>
    disk[f] = Torn(0) /\ \A s \in Terminals : Writing(s, f) => s = t

\* The invariant of the command line.
CliInv ==
  /\ DOMAIN disk = Files /\ DOMAIN told = Files /\ DOMAIN proc = Terminals
  /\ \A f \in Files : FileOK(disk[f]) /\ Kept(f) /\ Alone(f)
  /\ \A t \in Terminals : proc[t] = Nothing \/ ProcOK(proc[t])

\* One file from earlier days is locked as the user was told.
LEMMA CliInitInv == CliInit => CliInv
<1> SUFFICES ASSUME CliInit PROVE CliInv
  OBVIOUS
<1>1. PICK f \in Files :
        /\ disk = [g \in Files |-> IF g = f THEN Intact(Locked("short", "a", 0)) ELSE Absent]
        /\ told = [g \in Files |-> IF g = f THEN [text |-> "short", phrase |-> "a"] ELSE Nothing]
  BY DEF CliInit
<1>2. proc = [t \in Terminals |-> Nothing]
  BY DEF CliInit
<1>3. LockedUnder(Locked("short", "a", 0), "short", "a")
  <2>1. PICK text, phrase, n : text = "short" /\ phrase = "a" /\ n = 0
    OBVIOUS
  <2>2. LockedUnder(Locked(text, phrase, n), text, phrase)
    BY <2>1, LockedIs, TextsHaveSizes DEF NoPhrase
  <2> QED
    BY <2>1, <2>2
<1>4. ASSUME NEW g \in Files PROVE FileOK(disk[g]) /\ Kept(g) /\ Alone(g)
  <2>0. Alone(g)
    BY <1>2 DEF Alone, Writing, At
  <2>1. CASE g = f
    BY <1>1, <1>3, <2>0, <2>1 DEF FileOK, Kept, Told
  <2>2. CASE g # f
    BY <1>1, <2>0, <2>2 DEF FileOK, Kept
  <2> QED
    BY <2>1, <2>2
<1> QED
  BY <1>1, <1>2, <1>4 DEF CliInv

\* A step of one process that does not write leaves the files as they are.
LEMMA OneGoesOn ==
  ASSUME CliInv, NEW t \in Terminals, NEW q, proc' = [proc EXCEPT ![t] = q],
         q = Nothing \/ (ProcOK(q) /\ q.pc # "writing"), UNCHANGED <<disk, told, cut, shared>>,
         proc[t] = Nothing \/ proc[t].pc # "writing"
  PROVE  CliInv'
<1>1. /\ DOMAIN proc' = Terminals /\ proc'[t] = q
      /\ \A s \in Terminals : s # t => proc'[s] = proc[s]
  BY DEF CliInv
<1>2. \A s \in Terminals : proc'[s] = Nothing \/ ProcOK(proc'[s])
  BY <1>1 DEF CliInv
<1>3. ASSUME NEW f, NEW s \in Terminals PROVE Writing(s, f)' <=> Writing(s, f)
  BY <1>1 DEF Writing, At
<1>4. ASSUME NEW f \in Files PROVE Kept(f)' /\ Alone(f)'
  <2>1. Kept(f) /\ Alone(f)
    BY DEF CliInv
  <2>2. BeingWritten(f)' <=> BeingWritten(f)
    BY <1>3 DEF BeingWritten, Writing
  <2>3. Kept(f)'
    BY <2>1, <2>2 DEF Kept
  <2>4. Alone(f)'
    BY <1>3, <2>1 DEF Alone
  <2> QED
    BY <2>3, <2>4
<1> QED
  BY <1>1, <1>2, <1>4 DEF CliInv

\* A process at a point is one that was started.
LEMMA AtIs ==
  ASSUME CliInv, NEW t \in Terminals, NEW pc, At(t, pc)
  PROVE  proc[t] # Nothing /\ proc[t].pc = pc /\ ProcOK(proc[t]) /\ Sound(proc[t])
  BY DEF CliInv, At, ProcOK

\* Each step of a process keeps the invariant.
LEMMA StartInv ==
  ASSUME CliInv, NEW t \in Terminals, Start(t)
  PROVE  CliInv'
<1>1. PICK cmd \in Commands, file \in Files \cup {Stdout}, out \in Files \cup {Stdout},
        stdin \in Stdins :
        /\ cmd # "lock" => file # Stdout
        /\ proc' = [proc EXCEPT ![t] = Process(cmd, file, out, stdin)]
  BY DEF Start, Commands
<1>2. PICK q : q = Process(cmd, file, out, stdin)
  OBVIOUS
<1>3. ProcOK(q) /\ q.pc # "writing"
  BY <1>1, <1>2, Begins
<1>4. proc[t] = Nothing \/ proc[t].pc # "writing"
  BY DEF Start, Running
<1>5. UNCHANGED <<disk, told, cut, shared>>
  BY DEF Start
<1> QED
  BY <1>1, <1>2, <1>3, <1>4, <1>5, OneGoesOn

LEMMA ReadPlaintextInv ==
  ASSUME CliInv, NEW t \in Terminals, ReadPlaintext(t)
  PROVE  CliInv'
<1>1. PICK p : p = proc[t]
  OBVIOUS
<1>2. p.pc = "read" /\ p.cmd = "lock" /\ ProcOK(p) /\ Sound(p)
  BY <1>1, AtIs DEF ReadPlaintext
<1>3. PICK text \in Texts \cup {""} :
        proc' = [proc EXCEPT ![t] = IF text = "" THEN End(p, "failed", "empty")
                                    ELSE [p EXCEPT !.text = text, !.pc = "ask"]]
  BY <1>1 DEF ReadPlaintext
<1>4. PICK q : /\ q = IF text = "" THEN End(p, "failed", "empty")
                        ELSE [p EXCEPT !.text = text, !.pc = "ask"]
               /\ proc' = [proc EXCEPT ![t] = q]
  BY <1>3
<1>5. ProcOK(q) /\ q.pc # "writing"
  <2>1. CASE text = ""
    <3>1. q = End(p, "failed", "empty") /\ p.phrases = <<>>
      BY <1>2, <1>4, <2>1 DEF ProcOK, Counts
    <3> QED
      BY <1>2, <3>1, Ends DEF Unread
  <2>2. CASE text # ""
    <3>1. text \in Texts /\ q = [p EXCEPT !.text = text, !.pc = "ask"]
      BY <1>3, <1>4, <2>2
    <3> QED
      BY <1>2, <3>1, ReadsPlaintext
  <2> QED
    BY <2>1, <2>2
<1>6. UNCHANGED <<disk, told, cut, shared>>
  BY DEF ReadPlaintext
<1> QED
  BY <1>1, <1>2, <1>4, <1>5, <1>6, OneGoesOn

\* A file that is missing or torn was in doubt.
LEMMA UnreadIsDoubted ==
  ASSUME CliInv, NEW f \in Files, disk[f].kind \in {"absent", "torn"}
  PROVE  InDoubt(f)
<1>1. Kept(f)
  BY DEF CliInv
<1>2. ~Told(disk[f], told[f])
  <2>1. PICK d : d = disk[f] /\ d.kind \in {"absent", "torn"}
    OBVIOUS
  <2>2. ASSUME NEW v PROVE d # Intact(v)
    BY <2>1 DEF Intact
  <2> QED
    BY <2>1, <2>2 DEF Told
<1> QED
  BY <1>1, <1>2 DEF Kept, InDoubt

LEMMA ReadVaultInv ==
  ASSUME CliInv, NEW t \in Terminals, ReadVault(t)
  PROVE  CliInv'
<1>1. PICK p, f, doubt, r :
        /\ p = proc[t] /\ f = disk[p.file] /\ doubt = InDoubt(p.file)
        /\ r = [p EXCEPT !.doubt = doubt]
  OBVIOUS
<1>2. p.pc = "read" /\ p.cmd # "lock" /\ ProcOK(p) /\ Sound(p) /\ p.file \in Files
  BY <1>1, AtIs DEF ReadVault, Sound
<1>3. FileOK(f) /\ p.phrases = <<>>
  BY <1>1, <1>2 DEF CliInv, ProcOK, Counts
<1>4. PICK q : /\ q = CASE f.kind = "absent" -> End(r, "failed", "unreadable")
                        [] f.kind = "torn" -> End(r, "failed", "not JSON")
                        [] f.kind = "vault" -> [r EXCEPT !.vault = f.vault, !.pc = "ask",
                                                         !.text = f.vault.ct.body]
               /\ proc' = [proc EXCEPT ![t] = q]
  BY <1>1 DEF ReadVault
<1>5. Sound(r) /\ r.doubt = doubt /\ r.phrases = <<>> /\ r.cmd = p.cmd
  BY <1>1, <1>2, <1>3 DEF Sound, IsProcess, ProcessFields
<1>6. ProcOK(q) /\ q.pc # "writing"
  <2>1. CASE f.kind \in {"absent", "torn"}
    <3>1. doubt
      BY <1>1, <1>2, <2>1, UnreadIsDoubted
    <3>2. PICK said : q = End(r, "failed", said)
      BY <1>4, <2>1
    <3> QED
      BY <1>5, <3>1, <3>2, Ends
  <2>2. CASE f.kind \notin {"absent", "torn"}
    <3>1. PICK v, text, phrase : f = Intact(v) /\ LockedUnder(v, text, phrase)
      BY <1>3, <2>2 DEF FileOK, Absent, Torn
    <3>2. f.vault = v /\ f.kind = "vault"
      BY <3>1 DEF Intact
    <3>3. q = [[p EXCEPT !.doubt = doubt] EXCEPT !.vault = v, !.pc = "ask", !.text = v.ct.body]
      BY <1>1, <1>4, <3>2
    <3> QED
      BY <1>2, <3>1, <3>3, ReadsVault
  <2> QED
    BY <2>1, <2>2
<1>7. UNCHANGED <<disk, told, cut, shared>>
  BY DEF ReadVault
<1> QED
  BY <1>1, <1>2, <1>4, <1>6, <1>7, OneGoesOn

LEMMA AskInv ==
  ASSUME CliInv, NEW t \in Terminals, Ask(t)
  PROVE  CliInv'
<1>1. PICK p : p = proc[t]
  OBVIOUS
<1>2. p.pc = "ask" /\ ProcOK(p) /\ Sound(p)
  BY <1>1, AtIs DEF Ask
<1>3. PICK q : /\ q = IF p.stdin = "tty" THEN [p EXCEPT !.pc = "prompt", !.buf = ""]
                      ELSE End(p, "failed", "not a terminal")
               /\ proc' = [proc EXCEPT ![t] = q]
  BY <1>1 DEF Ask
<1>4. ProcOK(q) /\ q.pc # "writing"
  <2>1. CASE p.stdin = "tty"
    <3>1. q.pc = "prompt" /\ Keeps(p, q, {"pc", "buf"})
      BY <1>2, <1>3, <2>1 DEF Sound, Keeps, IsProcess, ProcessFields
    <3> QED
      BY <1>2, <3>1, StaysSo
  <2>2. CASE p.stdin # "tty"
    <3>1. p.cmd = "unlock" => p.phrases = <<>>
      <4>1. Counts(p) /\ p.cmd \in Commands /\ IsList(p.phrases)
        BY <1>2 DEF ProcOK, Sound
      <4>2. p.cmd = "unlock" => Len(p.phrases) < 1
        BY <1>2, <4>1, AskedIs DEF Counts
      <4> QED
        BY <4>1, <4>2, EmptyList
    <3>2. q = End(p, "failed", "not a terminal")
      BY <1>3, <2>2
    <3> QED
      BY <1>2, <3>1, <3>2, Ends DEF Unread
  <2> QED
    BY <2>1, <2>2
<1>5. UNCHANGED <<disk, told, cut, shared>>
  BY DEF Ask
<1> QED
  BY <1>1, <1>2, <1>3, <1>4, <1>5, OneGoesOn

LEMMA KeysInv ==
  ASSUME CliInv, NEW t \in Terminals, Keys(t)
  PROVE  CliInv'
<1>1. PICK p : p = proc[t]
  OBVIOUS
<1>2. p.pc = "prompt" /\ ProcOK(p) /\ Sound(p)
  BY <1>1, AtIs DEF Keys
<1>3. PICK buf, q :
        /\ \/ q = p
           \/ q = [p EXCEPT !.buf = buf]
           \/ q = End(p, "failed", "aborted")
           \/ q = [p EXCEPT !.phrases = Append(p.phrases, buf), !.buf = "",
                     !.pc = IF Len(p.phrases) + 1 < PhrasesAsked(p.cmd) THEN "ask" ELSE "asked"]
        /\ proc' = [proc EXCEPT ![t] = q]
  BY <1>1 DEF Keys
<1>4. ProcOK(q) /\ q.pc # "writing"
  <2>1. CASE q = p
    BY <1>2, <2>1
  <2>2. CASE q = [p EXCEPT !.buf = buf]
    <3>1. q.pc = "prompt" /\ Keeps(p, q, {"pc", "buf"})
      BY <1>2, <2>2 DEF Sound, Keeps, IsProcess, ProcessFields
    <3> QED
      BY <1>2, <3>1, StaysSo
  <2>3. CASE q = End(p, "failed", "aborted")
    <3>1. Counts(p) /\ p.cmd \in Commands /\ IsList(p.phrases)
      BY <1>2 DEF ProcOK, Sound
    <3>2. p.cmd = "unlock" => Len(p.phrases) < 1
      BY <1>2, <3>1, AskedIs DEF Counts
    <3>3. p.cmd = "unlock" => p.phrases = <<>>
      BY <3>1, <3>2, EmptyList
    <3> QED
      BY <1>2, <2>3, <3>3, Ends DEF Unread
  <2>4. CASE q = [p EXCEPT !.phrases = Append(p.phrases, buf), !.buf = "",
                    !.pc = IF Len(p.phrases) + 1 < PhrasesAsked(p.cmd) THEN "ask" ELSE "asked"]
    BY <1>2, <2>4, TakesPhrase
  <2> QED
    BY <1>3, <2>1, <2>2, <2>3, <2>4
<1>5. UNCHANGED <<disk, told, cut, shared>>
  BY DEF Keys
<1> QED
  BY <1>1, <1>2, <1>3, <1>4, <1>5, OneGoesOn

\* The phrases are used: what opens is what was locked, and only the phrase
\* it was locked under opens it.
LEMMA DeriveInv ==
  ASSUME CliInv, NEW t \in Terminals, Derive(t)
  PROVE  CliInv'
<1>1. PICK p, old, new, runsNow : p = proc[t] /\ old = p.phrases[1] /\ new = New(p) /\ runsNow = runs
  OBVIOUS
<1>2. p.pc = "asked" /\ ProcOK(p) /\ Sound(p) /\ p.cmd \in Commands
  BY <1>1, AtIs DEF Derive, Sound
<1>3. /\ p.cmd # "lock" => \E phrase : LockedUnder(p.vault, p.text, phrase)
      /\ p.cmd = "lock" => p.text \in Texts
  BY <1>2 DEF ProcOK, HasRead
<1>5. PICK q : proc' = [proc EXCEPT ![t] = q]
  BY Zenon DEF Derive
<1>4. q = proc'[t]
  BY <1>5 DEF CliInv
<1>6. ProcOK(q) /\ q.pc # "writing"
  <2>1. CASE p.cmd = "unlock"
    <3>1. PICK phrase, v, text :
            v = p.vault /\ text = p.text /\ LockedUnder(v, text, phrase)
      BY <1>3, <2>1
    <3>2. PICK r : r = CliDecryptV2(v, Typed(old))
      OBVIOUS
    <3>3. r = IF NoPhrase(old) THEN Refused("phrase")
              ELSE IF old = phrase THEN Plain(text) ELSE Refused("auth")
      BY <3>1, <3>2, LockedOpens
    <3>4. q = IF r.ok THEN End([p EXCEPT !.text = r.text], "ok", "opened")
              ELSE End(p, "failed", Category(r.err))
      BY <1>1, <1>4, <1>5, <2>1, <3>1, <3>2 DEF Derive, Old, CliInv
    <3>5. CASE r.ok
      <4>1. PICK p1 : p1 = [p EXCEPT !.text = r.text]
        OBVIOUS
      <4>2. Sound(p1)
        BY <1>2, <4>1 DEF Sound, IsProcess, ProcessFields
      <4> QED
        BY <3>4, <3>5, <4>1, <4>2, Ends
    <3>6. CASE ~r.ok
      <4>1. p.vault.wrapped.key[1] = Typed(phrase)
        BY <3>1, VaultIs, Zenon
      <4>2. old # phrase
        BY <3>1, <3>3, <3>6 DEF Plain, NoPhrase, LockedUnder
      <4>3. Typed(old) # Typed(phrase)
        BY <4>2, TypedIs
      <4>4. Category(r.err) = IF old = "" THEN "unknown" ELSE "authentication failed"
        BY <3>3, <4>2 DEF Category, Refused, NoPhrase
      <4>5. q = End(p, "failed", Category(r.err))
        BY <3>4, <3>6
      <4> QED
        BY <1>1, <1>2, <4>1, <4>3, <4>4, <4>5, Ends DEF Unread
    <3> QED
      BY <3>5, <3>6
  <2>2. CASE p.cmd # "unlock" /\ ~Confirmed(p)
    <3>1. q = End(p, "failed", "mismatch")
      BY <1>1, <1>4, <1>5, <2>2 DEF Derive, CliInv
    <3> QED
      BY <1>2, <2>2, <3>1, Ends DEF Unread
  <2>3. CASE p.cmd = "lock" /\ Confirmed(p)
    <3>1. q = IF new = "" THEN End(p, "failed", "no phrase")
              ELSE [p EXCEPT !.vault = Locked(p.text, new, runsNow), !.pc = "write"]
      BY <1>1, <1>4, <1>5, <2>3 DEF Derive, CliInv
    <3>2. CASE new = ""
      BY <1>2, <2>3, <3>1, <3>2, Ends DEF Unread
    <3>3. CASE new # ""
      <4>1. PICK v : v = Locked(p.text, new, runsNow)
        OBVIOUS
      <4>2. LockedUnder(v, p.text, New(p))
        <5>1. PICK text \in Texts : text = p.text
          BY <1>3, <2>3
        <5>2. LockedUnder(Locked(text, new, runsNow), text, new)
          BY <3>3, LockedIs DEF NoPhrase
        <5> QED
          BY <1>1, <4>1, <5>1, <5>2
      <4>3. q = [p EXCEPT !.vault = v, !.pc = "write"]
        BY <3>1, <3>3, <4>1
      <4> QED
        BY <1>2, <2>3, <4>2, <4>3, Makes
    <3> QED
      BY <3>2, <3>3
  <2>4. CASE p.cmd = "rewrap" /\ Confirmed(p)
    <3>1. PICK phrase, w, text :
            w = p.vault /\ text = p.text /\ LockedUnder(w, text, phrase)
      BY <1>3, <2>4
    <3>2. PICK r : r = CliRewrapV2(w, Typed(old), Typed(new))
      OBVIOUS
    <3>3. q = IF r.ok THEN [p EXCEPT !.vault = r.vault, !.pc = "write"]
              ELSE End(p, "failed", Category(r.err))
      BY <1>1, <1>4, <1>5, <2>4, <3>1, <3>2 DEF Derive, Old, CliInv
    <3>4. CASE r.ok
      <4>1. old = phrase /\ new # old /\ LockedUnder(r.vault, text, new)
        BY <3>1, <3>2, <3>4, LockedRewraps
      <4>2. PICK v : v = r.vault
        OBVIOUS
      <4>3. LockedUnder(v, p.text, New(p)) /\ p.phrases[1] # New(p)
        BY <1>1, <3>1, <4>1, <4>2
      <4>4. q = [p EXCEPT !.vault = v, !.pc = "write"]
        BY <3>3, <3>4, <4>2
      <4> QED
        BY <1>2, <2>4, <4>3, <4>4, Makes
    <3>5. CASE ~r.ok
      <4>1. q = End(p, "failed", Category(r.err))
        BY <3>3, <3>5
      <4>2. Category(r.err) \notin Unread
        BY DEF Category, Unread
      <4>3. PICK said : said = Category(r.err)
        OBVIOUS
      <4> QED
        BY <1>2, <2>4, <4>1, <4>2, <4>3, Ends
    <3> QED
      BY <3>4, <3>5
  <2> QED
    BY <1>2, <2>1, <2>2, <2>3, <2>4 DEF Commands
<1>7. UNCHANGED <<disk, told, cut, shared>>
  BY DEF Derive
<1> QED
  BY <1>1, <1>2, <1>5, <1>6, <1>7, OneGoesOn

\* What was locked is printed, or the file for it cannot be opened.
LEMMA PrintVaultInv ==
  ASSUME CliInv, NEW t \in Terminals, PrintVault(t)
  PROVE  CliInv'
<1>1. PICK p, q : p = proc[t] /\ q = End(p, "ok", "printed")
  OBVIOUS
<1>2. p.pc = "write" /\ ProcOK(p) /\ Sound(p)
  BY <1>1, AtIs DEF PrintVault
<1>3. proc' = [proc EXCEPT ![t] = q] /\ UNCHANGED <<disk, told, cut, shared>>
  BY <1>1 DEF PrintVault
<1>4. ProcOK(q) /\ q.pc # "writing"
  BY <1>1, <1>2, Ends
<1> QED
  BY <1>1, <1>2, <1>3, <1>4, OneGoesOn

LEMMA OpenFailsInv ==
  ASSUME CliInv, NEW t \in Terminals, OpenFails(t)
  PROVE  CliInv'
<1>1. PICK p, q : p = proc[t] /\ q = End(p, "failed", "could not write")
  OBVIOUS
<1>2. p.pc = "write" /\ ProcOK(p) /\ Sound(p)
  BY <1>1, AtIs DEF OpenFails
<1>3. p.cmd # "unlock"
  BY <1>2 DEF ProcOK, HasMade
<1>4. proc' = [proc EXCEPT ![t] = q] /\ UNCHANGED <<disk, told, cut, shared>>
  BY <1>1 DEF OpenFails
<1>5. ProcOK(q) /\ q.pc # "writing"
  BY <1>1, <1>2, <1>3, Ends DEF Unread
<1> QED
  BY <1>1, <1>2, <1>4, <1>5, OneGoesOn

\* A step that touches one file leaves the others.
LEMMA OneWrites ==
  ASSUME CliInv, NEW t \in Terminals, NEW q, proc' = [proc EXCEPT ![t] = q],
         q = Nothing \/ (ProcOK(q) /\ (q.pc = "writing" => q.out = proc[t].out)),
         NEW file, proc[t].out = file,
         DOMAIN disk' = Files, DOMAIN told' = Files,
         \A f \in Files : f # file =>
           /\ disk'[f] = disk[f] /\ told'[f] = told[f]
           /\ (f \in cut' <=> f \in cut) /\ (f \in shared' <=> f \in shared),
         file \in Files => FileOK(disk'[file]) /\ Kept(file)' /\ Alone(file)'
  PROVE  CliInv'
<1>1. /\ DOMAIN proc' = Terminals /\ proc'[t] = q
      /\ \A s \in Terminals : s # t => proc'[s] = proc[s]
  BY DEF CliInv
<1>2. \A s \in Terminals : proc'[s] = Nothing \/ ProcOK(proc'[s])
  BY <1>1 DEF CliInv
<1>3. ASSUME NEW f \in Files, f # file PROVE FileOK(disk'[f]) /\ Kept(f)' /\ Alone(f)'
  <2>1. ASSUME NEW s \in Terminals PROVE Writing(s, f)' <=> Writing(s, f)
    BY <1>1, <1>3 DEF Writing, At
  <2>2. BeingWritten(f)' <=> BeingWritten(f)
    BY <2>1 DEF BeingWritten, Writing
  <2>3. FileOK(disk[f]) /\ Kept(f) /\ Alone(f)
    BY DEF CliInv
  <2>4. FileOK(disk'[f]) /\ Kept(f)'
    BY <1>3, <2>2, <2>3 DEF Kept
  <2>5. Alone(f)'
    BY <1>3, <2>1, <2>3 DEF Alone
  <2> QED
    BY <2>4, <2>5
<1>4. \A f \in Files : FileOK(disk'[f]) /\ Kept(f)' /\ Alone(f)'
  BY <1>3
<1> QED
  BY <1>1, <1>2, <1>4 DEF CliInv

\* The file is emptied,
LEMMA OpenOutputInv ==
  ASSUME CliInv, NEW t \in Terminals, OpenOutput(t)
  PROVE  CliInv'
<1>1. PICK p, q : p = proc[t] /\ q = [p EXCEPT !.pc = "writing"]
  OBVIOUS
<1>2. p.pc = "write" /\ ProcOK(p) /\ Sound(p)
  BY <1>1, AtIs DEF OpenOutput, OpensSo
<1>3. proc' = [proc EXCEPT ![t] = q]
  BY <1>1 DEF OpenOutput, OpensSo
<1>4. q.pc = "writing" /\ Keeps(p, q, {"pc", "buf"})
  BY <1>1, <1>2 DEF Sound, Keeps, IsProcess, ProcessFields
<1>5. ProcOK(q) /\ q # Nothing /\ q.out = p.out
  BY <1>2, <1>4, StaysSo
<1>6. BeingWritten(p.out)'
  BY <1>3, <1>4, <1>5 DEF BeingWritten, At, CliInv
<1>7. /\ disk' = [disk EXCEPT ![p.out] = Torn(0)] /\ told' = told /\ cut' = cut
      /\ shared' = IF BeingWritten(p.out) THEN shared \cup {p.out} ELSE shared \ {p.out}
  BY <1>1 DEF OpenOutput, OpensSo
<1>8. ASSUME p.out \in Files PROVE FileOK(disk'[p.out]) /\ Kept(p.out)' /\ Alone(p.out)'
  <2>1. disk'[p.out] = Torn(0)
    BY <1>7, <1>8 DEF CliInv
  <2>2. FileOK(disk'[p.out]) /\ Kept(p.out)'
    BY <1>6, <2>1 DEF FileOK, Kept
  <2>3. Alone(p.out)'
    <3>1. SUFFICES ASSUME ~BeingWritten(p.out), NEW s \in Terminals, Writing(s, p.out)'
                   PROVE  s = t
      BY <1>7, <2>1 DEF Alone
    <3>2. s # t => Writing(s, p.out)
      BY <1>3, <3>1 DEF Writing, At, CliInv
    <3> QED
      BY <3>1, <3>2 DEF BeingWritten, Writing
  <2> QED
    BY <2>2, <2>3
<1>9. /\ DOMAIN disk' = Files /\ DOMAIN told' = Files
      /\ \A f \in Files : f # p.out =>
           /\ disk'[f] = disk[f] /\ told'[f] = told[f]
           /\ (f \in cut' <=> f \in cut) /\ (f \in shared' <=> f \in shared)
  BY <1>7 DEF CliInv
<1> QED
  BY <1>1, <1>3, <1>5, <1>8, <1>9, OneWrites

\* and written: with the vault, or around it if another was there before.
LEMMA OverIs ==
  ASSUME NEW d, FileOK(d), NEW v, NEW text, NEW phrase, LockedUnder(v, text, phrase)
  PROVE  /\ FileOK(Over(d, v)) /\ (Over(d, v) = Intact(v) \/ Over(d, v).kind = "torn")
         /\ (d = Torn(0) => Over(d, v) = Intact(v))
         /\ d.size \in Nat /\ Size(v) \in Nat
<1>1. ASSUME NEW w, NEW t, NEW p, LockedUnder(w, t, p) PROVE Size(w) \in Nat
  <2>1. w.ct.body = t /\ t \in Texts
    BY <1>1, VaultIs DEF LockedUnder
  <2> QED
    BY <2>1, TextsHaveSizes DEF Size
<1>2. Size(v) \in Nat
  BY <1>1
<1>3. d.size \in Nat
  BY <1>1 DEF FileOK, Absent, Torn, Intact
<1>4. FileOK(Intact(v)) /\ FileOK(Torn(d.size)) /\ Torn(d.size).kind = "torn"
  BY <1>3 DEF FileOK, Torn
<1>5. d = Torn(0) => d.size = 0
  BY DEF Torn
<1> QED
  BY <1>2, <1>3, <1>4, <1>5 DEF Over

LEMMA WriteInv ==
  ASSUME CliInv, NEW t \in Terminals, Write(t)
  PROVE  CliInv'
<1>1. PICK p, q : p = proc[t] /\ q = End(p, "ok", "wrote")
  OBVIOUS
<1>2. p.pc = "writing" /\ ProcOK(p) /\ Sound(p) /\ Writing(t, p.out)
  BY <1>1, AtIs DEF Write, Writing
<1>3. proc' = [proc EXCEPT ![t] = q]
  BY <1>1 DEF Write
<1>4. ProcOK(q) /\ q.pc # "writing"
  BY <1>1, <1>2, Ends
<1>5. PICK v, text, phrase :
        v = p.vault /\ text = p.text /\ phrase = New(p) /\ LockedUnder(v, text, phrase)
  BY <1>2 DEF ProcOK, HasMade
<1>6. /\ disk' = [disk EXCEPT ![p.out] = Over(disk[p.out], v)]
      /\ told' = [told EXCEPT ![p.out] = [text |-> text, phrase |-> phrase]]
      /\ cut' = cut \ {p.out} /\ shared' = shared
  BY <1>1, <1>5 DEF Write
<1>7. ASSUME p.out \in Files PROVE FileOK(disk'[p.out]) /\ Kept(p.out)' /\ Alone(p.out)'
  <2>1. PICK d : d = disk[p.out] /\ FileOK(d) /\ Alone(p.out)
    BY <1>7 DEF CliInv
  <2>2. /\ disk'[p.out] = Over(d, v)
        /\ told'[p.out].text = text /\ told'[p.out].phrase = phrase
    BY <1>6, <1>7, <2>1 DEF CliInv
  <2>3. FileOK(Over(d, v)) /\ (Over(d, v) = Intact(v) \/ Over(d, v).kind = "torn")
        /\ (d = Torn(0) => Over(d, v) = Intact(v))
    BY <1>5, <2>1, OverIs
  <2>4. Over(d, v) = Intact(v) => Told(disk'[p.out], told'[p.out])
    BY <1>5, <2>2 DEF Told
  <2>5. p.out \notin shared => d = Torn(0)
    BY <1>2, <2>1 DEF Alone
  <2>6. Kept(p.out)'
    BY <1>6, <2>2, <2>3, <2>4, <2>5 DEF Kept
  <2>7. Alone(p.out)'
    <3>1. SUFFICES ASSUME p.out \notin shared, NEW s \in Terminals, Writing(s, p.out)'
                   PROVE  FALSE
      BY <1>6 DEF Alone
    <3>2. s # t /\ Writing(s, p.out)
      BY <1>3, <1>4, <3>1 DEF Writing, At, CliInv
    <3> QED
      BY <1>2, <2>1, <3>1, <3>2 DEF Alone
  <2> QED
    BY <2>2, <2>3, <2>6, <2>7
<1>8. /\ DOMAIN disk' = Files /\ DOMAIN told' = Files
      /\ \A f \in Files : f # p.out =>
           /\ disk'[f] = disk[f] /\ told'[f] = told[f]
           /\ (f \in cut' <=> f \in cut) /\ (f \in shared' <=> f \in shared)
  BY <1>6 DEF CliInv
<1> QED
  BY <1>1, <1>3, <1>4, <1>7, <1>8, OneWrites

\* A write that is cut short leaves the file with one writer less.
LEMMA OneGivesUp ==
  ASSUME CliInv, NEW t \in Terminals, NEW p, p = proc[t], p # Nothing, p.pc = "writing",
         NEW q, q = Nothing \/ (ProcOK(q) /\ q.pc # "writing"), proc' = [proc EXCEPT ![t] = q],
         NEW d, p.out \in Files => FileOK(d) /\ disk'[p.out] = d,
         DOMAIN disk' = Files, \A f \in Files : f # p.out => disk'[f] = disk[f],
         cut' = cut \cup {p.out}, UNCHANGED <<told, shared>>
  PROVE  CliInv'
<1>1. ASSUME p.out \in Files PROVE FileOK(disk'[p.out]) /\ Kept(p.out)' /\ Alone(p.out)'
  <2>1. FileOK(disk'[p.out]) /\ Kept(p.out)'
    BY <1>1 DEF Kept, CliInv
  <2>2. Alone(p.out)'
    <3>1. SUFFICES ASSUME p.out \notin shared, NEW s \in Terminals, Writing(s, p.out)'
                   PROVE  FALSE
      BY DEF Alone
    <3>2. s # t /\ Writing(s, p.out) /\ Writing(t, p.out)
      BY <3>1 DEF Writing, At, CliInv
    <3>3. Alone(p.out)
      BY <1>1 DEF CliInv
    <3> QED
      BY <3>1, <3>2, <3>3 DEF Alone
  <2> QED
    BY <2>1, <2>2
<1>2. /\ DOMAIN disk' = Files /\ DOMAIN told' = Files
      /\ \A f \in Files : f # p.out =>
           /\ disk'[f] = disk[f] /\ told'[f] = told[f]
           /\ (f \in cut' <=> f \in cut) /\ (f \in shared' <=> f \in shared)
  BY DEF CliInv
<1> QED
  BY <1>1, <1>2, OneWrites

LEMMA WriteFailsInv ==
  ASSUME CliInv, NEW t \in Terminals, WriteFails(t)
  PROVE  CliInv'
<1>1. PICK p, q : p = proc[t] /\ q = End(p, "failed", "could not write")
  OBVIOUS
<1>2. p.pc = "writing" /\ p # Nothing /\ ProcOK(p) /\ Sound(p)
  BY <1>1, AtIs DEF WriteFails
<1>3. p.cmd # "unlock" /\ LockedUnder(p.vault, p.text, New(p))
  BY <1>2 DEF ProcOK, HasMade
<1>4. ProcOK(q) /\ q.pc # "writing"
  BY <1>1, <1>2, <1>3, Ends DEF Unread
<1>5. PICK n \in disk[p.out].size .. (Size(p.vault) - 1) : disk' = [disk EXCEPT ![p.out] = Torn(n)]
  BY <1>1 DEF WriteFails
<1>6. p.out \in Files => FileOK(Torn(n))
  <2>1. SUFFICES ASSUME p.out \in Files PROVE n \in Nat
    BY DEF FileOK
  <2>2. PICK d, size : d = disk[p.out] /\ size = Size(p.vault) /\ FileOK(d)
    BY <2>1 DEF CliInv
  <2>3. d.size \in Nat /\ size \in Nat
    BY <1>3, <2>2, OverIs
  <2> QED
    BY <1>5, <2>2, <2>3
<1>7. /\ proc' = [proc EXCEPT ![t] = q] /\ cut' = cut \cup {p.out} /\ UNCHANGED <<told, shared>>
  BY <1>1 DEF WriteFails
<1>8. PICK d : d = Torn(n)
  OBVIOUS
<1>9. /\ DOMAIN disk' = Files /\ \A f \in Files : f # p.out => disk'[f] = disk[f]
      /\ p.out \in Files => disk'[p.out] = d
  BY <1>5, <1>8 DEF CliInv
<1> QED
  BY <1>1, <1>2, <1>4, <1>6, <1>7, <1>8, <1>9, OneGivesUp

LEMMA KilledInv ==
  ASSUME CliInv, NEW t \in Terminals, Killed(t)
  PROVE  CliInv'
<1>1. PICK p, d : p = proc[t] /\ d = disk[p.out]
  OBVIOUS
<1>2. /\ proc' = [proc EXCEPT ![t] = Nothing] /\ p # Nothing /\ UNCHANGED <<told, shared>>
  BY <1>1 DEF Killed, Running
<1>3. CASE ~At(t, "writing")
  <2>1. UNCHANGED <<disk, told, cut, shared>> /\ p.pc # "writing"
    BY <1>1, <1>2, <1>3 DEF Killed, At
  <2> QED
    BY <1>1, <1>2, <2>1, OneGoesOn
<1>4. CASE At(t, "writing")
  <2>1. p.pc = "writing" /\ ProcOK(p)
    BY <1>1, <1>4, AtIs
  <2>2. LockedUnder(p.vault, p.text, New(p))
    BY <2>1 DEF ProcOK, HasMade
  <2>3. PICK e : /\ e = d \/ e = Over(d, p.vault)
                 /\ DOMAIN disk' = Files /\ \A f \in Files : f # p.out => disk'[f] = disk[f]
                 /\ p.out \in Files => disk'[p.out] = e
                 /\ cut' = cut \cup {p.out}
    BY <1>1, <1>4 DEF Killed, CliInv
  <2>4. p.out \in Files => FileOK(e)
    BY <1>1, <2>2, <2>3, OverIs DEF CliInv
  <2> QED
    BY <1>1, <1>2, <2>1, <2>3, <2>4, OneGivesUp
<1> QED
  BY <1>3, <1>4

LEMMA CliStepInv == CliInv /\ [CliNext]_cliVars => CliInv'
<1> SUFFICES ASSUME CliInv, [CliNext]_cliVars PROVE CliInv'
  OBVIOUS
<1>1. CASE UNCHANGED cliVars
  BY <1>1 DEF cliVars, CliInv, Kept, Alone, Writing, BeingWritten, At
<1>2. CASE CliNext
  <2>1. PICK t \in Terminals :
          \/ Start(t) \/ ReadPlaintext(t) \/ ReadVault(t) \/ Ask(t) \/ Keys(t)
          \/ Derive(t) \/ PrintVault(t) \/ OpenOutput(t) \/ Write(t)
          \/ OpenFails(t) \/ WriteFails(t) \/ Killed(t)
    BY <1>2 DEF CliNext
  <2> QED
    BY <2>1, StartInv, ReadPlaintextInv, ReadVaultInv, AskInv, KeysInv, DeriveInv,
       PrintVaultInv, OpenOutputInv, WriteInv, OpenFailsInv, WriteFailsInv, KilledInv
<1> QED
  BY <1>1, <1>2

-------------------------------------------------------------------------------
\* What follows from it.
LEMMA InvKeepsWord == CliInv => QevKeepsItsWord
<1> SUFFICES ASSUME CliInv PROVE QevKeepsItsWord
  OBVIOUS
<1>1. WrittenFilesOpen
  <2> SUFFICES ASSUME NEW f \in Files, Told(disk[f], told[f])
               PROVE  /\ disk[f].kind = "vault"
                      /\ CliDecryptV2(disk[f].vault, Typed(told[f].phrase)) = Plain(told[f].text)
    BY DEF WrittenFilesOpen, CliInv, Kept
  <2>1. PICK v : disk[f] = Intact(v) /\ LockedUnder(v, told[f].text, told[f].phrase)
    BY DEF Told
  <2>2. disk[f].kind = "vault" /\ disk[f].vault = v
    BY <2>1 DEF Intact
  <2>3. PICK text, phrase : text = told[f].text /\ phrase = told[f].phrase
    OBVIOUS
  <2>4. CliDecryptV2(v, Typed(phrase)) = Plain(text)
    <3>1. LockedUnder(v, text, phrase) /\ ~NoPhrase(phrase)
      BY <2>1, <2>3 DEF LockedUnder, NoPhrase
    <3> QED
      BY <3>1, LockedOpens
  <2> QED
    BY <2>2, <2>3, <2>4, Zenon
<1>2. FailureIsExplained
  BY DEF CliInv, ProcOK, Explains, Unread, FailureIsExplained
<1> QED
  BY <1>1, <1>2 DEF QevKeepsItsWord

\* What a step may do to a file.
OnPurpose(f) ==
  \E t \in Terminals :
    /\ (At(t, "write") \/ At(t, "writing")) /\ proc[t].out = f
    /\ New(proc[t]) # ""
    /\ proc[t].phrases[Len(proc[t].phrases) - 1] = New(proc[t])
    /\ proc[t].cmd = "rewrap" =>
         /\ proc[t].phrases[1] # New(proc[t])
         /\ Opens(proc[t].vault.wrapped,
                  KdfKey(Typed(New(proc[t])), proc[t].vault.salt,
                         proc[t].vault.ops, proc[t].vault.mem),
                  proc[t].vault.wrapNonce, CliAADV2(proc[t].vault))

\* A process about to write has asked for it.
LEMMA WriterIsOnPurpose ==
  ASSUME CliInv, NEW t \in Terminals, At(t, "write") \/ At(t, "writing")
  PROVE  OnPurpose(proc[t].out)
<1>1. PICK p : p = proc[t]
  OBVIOUS
<1>2. ProcOK(p) /\ p.pc \in {"write", "writing"}
  BY <1>1, AtIs DEF At
<1>3. /\ Confirmed(p) /\ LockedUnder(p.vault, p.text, New(p))
      /\ p.cmd = "rewrap" => p.phrases[1] # New(p)
  BY <1>2 DEF ProcOK, HasMade
<1>4. Opens(p.vault.wrapped, KdfKey(Typed(New(p)), p.vault.salt, p.vault.ops, p.vault.mem),
            p.vault.wrapNonce, CliAADV2(p.vault))
  BY <1>3, VaultIs
<1> QED
  BY <1>1, <1>3, <1>4 DEF OnPurpose, Confirmed, LockedUnder

LEMMA StepOnPurpose ==
  ASSUME CliInv, [CliNext]_cliVars, NEW f \in Files, disk'[f] # disk[f]
  PROVE  OnPurpose(f)
<1>1. CliNext
  BY DEF cliVars
<1>2. PICK t \in Terminals : OpenOutput(t) \/ Write(t) \/ WriteFails(t) \/ Killed(t)
  BY <1>1 DEF CliNext, Start, ReadPlaintext, ReadVault, Ask, Keys, Derive, PrintVault, OpenFails
<1>3. (At(t, "write") \/ At(t, "writing")) /\ proc[t].out = f
  BY <1>2 DEF OpenOutput, OpensSo, Write, WriteFails, Killed, CliInv
<1> QED
  BY <1>3, WriterIsOnPurpose

-------------------------------------------------------------------------------
\* A file that qev said it wrote opens with the phrase confirmed for it and
\* gives back its text, whatever other runs did since, unless a write into it
\* is under way or was cut short; where two wrote it at once it may be torn,
\* but never opens as anything else.  And what qev says of a failure is so:
\* only a file in doubt is called missing or no JSON, and a refused phrase is
\* not the one the vault was locked under.
THEOREM CliKeepsItsWord == CliSpec => []QevKeepsItsWord
<1>1. CliSpec => []CliInv
  BY CliInitInv, CliStepInv, PTL DEF CliSpec
<1> QED
  BY <1>1, InvKeepsWord, PTL

\* A file is replaced only under a phrase typed the same way twice, and by
\* rewrap only under another than the old one, which opens what is written.
THEOREM CliReplacesOnPurpose == CliSpec => ReplacedOnPurpose
<1>1. CliSpec => []CliInv
  BY CliInitInv, CliStepInv, PTL DEF CliSpec
<1>2. CliInv /\ [CliNext]_cliVars => [\A f \in Files : disk'[f] # disk[f] => OnPurpose(f)]_cliVars
  BY StepOnPurpose
<1>3. [][CliNext]_cliVars /\ []CliInv => [][\A f \in Files : disk'[f] # disk[f] => OnPurpose(f)]_cliVars
  BY <1>2, PTL
<1> QED
  BY <1>1, <1>3, PTL DEF CliSpec, ReplacedOnPurpose, OnPurpose

-------------------------------------------------------------------------------
(***************************************************************************)
(* Vault files between the programs.  What is shown is the truth because   *)
(* of what a file can be made of (FileIsOf): whatever was altered, cut or  *)
(* spliced, a ciphertext that still opens was made by a program, and what  *)
(* it is bound to names the vault it was made for.  What is known of the   *)
(* history (HistoryInv) is that every vault was locked under the phrase it *)
(* says, that no salt and no nonce was drawn twice but by rewraps of one   *)
(* vault (Kin), and that a rewrap has its vault there.                     *)
(***************************************************************************)
\* The history: every record is of a vault, an envelope or a chat message as a
\* program makes it, of the text and under the phrase it says.
VaultKey(v) == <<v.contentNonce + 1>>
MadeV2(m) == V2Vault(m.vault, m.heard, m.text, VaultKey(m.vault))
MadeV1(m) == V1Vault(m.vault, m.heard, m.text)
MadeNotify(m) == NotifyVault(m.vault, m.heard, m.text, VaultKey(m.vault))
MadeChat(m) == \E n \in Nat : m.vault = ChatEnvelope(m.text, m.heard, {"a", "b"}, n)
MadeSo(m) ==
  Speaks(m.heard) /\ (MadeV2(m) \/ MadeV1(m) \/ MadeNotify(m) \/ MadeChat(m))
\* What it drew is not drawn again.
Drawn(m, bound) ==
  IF IsVault(m.vault)
  THEN /\ m.vault.salt \in Nat /\ m.vault.salt < bound
       /\ m.vault.contentNonce \in Nat /\ m.vault.contentNonce < bound
  ELSE m.vault.nonce \in Nat /\ m.vault.nonce < bound

\* Two records that share a salt or a content nonce are of one vault, before
\* and after rewraps.
Kin(m, n) ==
  /\ IsVault(m.vault) /\ IsVault(n.vault)
       /\ (m.vault.salt = n.vault.salt \/ m.vault.contentNonce = n.vault.contentNonce)
     => SameHeader(m.vault, n.vault) /\ m.vault.ct = n.vault.ct /\ m.text = n.text
  /\ ~IsVault(m.vault) /\ ~IsVault(n.vault) /\ m.vault.nonce = n.vault.nonce
     => m.vault = n.vault

\* A rewrap is of a vault in the history, and under another phrase.
OfHistory(m, history) ==
  m.from # None =>
    /\ MadeV2(m)
    /\ \E h \in history : /\ MadeV2(h) /\ h.vault = m.from /\ h.heard # m.heard
                          /\ m.vault.ct = h.vault.ct

\* Whatever became of a file, what of it can still open was made by a program.
Vaults(history) == {m \in history : IsVault(m.vault)}
Known(c, ciphers) == "intact" \in DOMAIN c /\ (c.intact = FALSE \/ c \in ciphers)
OfParts(v, history) ==
  /\ IsRecord(v)
  /\ Known(v.wrapped, {m.vault.wrapped : m \in Vaults(history)})
  /\ Known(v.ct, {m.vault.ct : m \in Vaults(history)})
FileIsOf(f, history) ==
  /\ DOMAIN f = {"form", "vault"} /\ f.form \in {"json", "line", "sheet", "chat", "cut"}
  /\ f.form \in {"json", "line", "sheet"} => OfParts(f.vault, history)
  /\ f.form = "chat" => \E m \in history : MadeChat(m) /\ f.vault = m.vault

\* The salts on display are fresh, and a result is a vault the page made.
PageIsOf(p, history) ==
  /\ page[p].salt \in Nat /\ page[p].salt < next
  /\ \A m \in Vaults(history) : m.vault.salt # page[p].salt
  /\ page[p].result # None => \E m \in history : MadeV2(m) /\ page[p].result = m.vault

\* What is true of the history, of the pages, and of all together.
HistoryInv ==
  /\ \A m \in made : MadeSo(m) /\ Drawn(m, next) /\ OfHistory(m, made)
  /\ \A m, n \in made : Kin(m, n)
PagesInv ==
  /\ DOMAIN page = Pages /\ \A p \in Pages : PageIsOf(p, made)
  /\ \A p, q \in Pages : p # q => page[p].salt # page[q].salt
FilesInv ==
  /\ next \in Nat
  /\ HistoryInv
  /\ PagesInv
  /\ \A f \in files : FileIsOf(f, made)

-------------------------------------------------------------------------------
\* The kinds of records are told apart by what they hold.
LEMMA KindsAre ==
  ASSUME NEW m, MadeSo(m)
  PROVE  /\ IsVault(m.vault) => /\ IsRecord(m.vault) /\ (MadeV2(m) \/ MadeV1(m) \/ MadeNotify(m))
                                /\ (m.vault.schema = "V2" <=> MadeV2(m))
                                /\ (m.vault.schema = "V1" <=> MadeV1(m))
                                /\ (m.vault.schema = "NOTIFY" <=> MadeNotify(m))
         /\ ~IsVault(m.vault) => MadeChat(m)
         /\ MadeV2(m) \/ MadeV1(m) \/ MadeNotify(m) => IsVault(m.vault)
         /\ MadeChat(m) => ~IsVault(m.vault)
<1>1. MadeChat(m) => ~IsVault(m.vault)
  BY DEF MadeChat, ChatEnvelope, IsVault
<1>2. /\ MadeV2(m) => IsRecord(m.vault) /\ m.vault.schema = "V2"
      /\ MadeV1(m) => IsRecord(m.vault) /\ m.vault.schema = "V1"
      /\ MadeNotify(m) => IsRecord(m.vault) /\ m.vault.schema = "NOTIFY"
  BY DEF MadeV2, V2Vault, V2Header, MadeV1, V1Vault, MadeNotify, NotifyVault
<1>3. IsRecord(m.vault) => IsVault(m.vault)
  BY DEF IsRecord, VaultFields, IsVault
<1> QED
  BY <1>1, <1>2, <1>3 DEF MadeSo

\* The ciphertexts of each kind.
LEMMA V2Parts ==
  ASSUME NEW m, MadeV2(m)
  PROVE  /\ m.vault.wrapped.key = KdfKey(m.heard, m.vault.salt, m.vault.ops, m.vault.mem)
         /\ m.vault.wrapped.aad = BuildAADV2(m.vault) /\ m.vault.wrapped.body = VaultKey(m.vault)
         /\ m.vault.wrapped.nonce = m.vault.wrapNonce
         /\ m.vault.wrapped.intact = TRUE /\ "intact" \in DOMAIN m.vault.wrapped
         /\ m.vault.ct.key = VaultKey(m.vault) /\ m.vault.ct.aad = BuildAADV2(m.vault)
         /\ m.vault.ct.body = m.text /\ m.vault.ct.nonce = m.vault.contentNonce
         /\ m.vault.ct.intact = TRUE /\ "intact" \in DOMAIN m.vault.ct
  BY DEF MadeV2, V2Vault, Seal

LEMMA V1Parts ==
  ASSUME NEW m, MadeV1(m)
  PROVE  /\ m.vault.wrapped = NoCipher /\ m.vault.wrapped.key = <<>>
         /\ m.vault.wrapped.aad = <<>> /\ "intact" \in DOMAIN m.vault.wrapped
         /\ m.vault.ct.key = KdfKey(m.heard, m.vault.salt, m.vault.ops, m.vault.mem)
         /\ m.vault.ct.aad = BuildAADV1(m.vault) /\ m.vault.ct.body = m.text
         /\ m.vault.ct.nonce = m.vault.contentNonce
         /\ m.vault.ct.intact = TRUE /\ "intact" \in DOMAIN m.vault.ct
<1>1. /\ NoCipher.key = <<>> /\ NoCipher.aad = <<>> /\ "intact" \in DOMAIN NoCipher
  BY DEF NoCipher, Seal
<1> QED
  BY <1>1 DEF MadeV1, V1Vault, Seal

LEMMA NotifyParts ==
  ASSUME NEW m, MadeNotify(m)
  PROVE  /\ m.vault.wrapped.key = KdfKey(m.heard, m.vault.salt, m.vault.ops, m.vault.mem)
         /\ m.vault.wrapped.aad = <<"wrap">> /\ m.vault.wrapped.body = VaultKey(m.vault)
         /\ m.vault.wrapped.nonce = m.vault.wrapNonce
         /\ "intact" \in DOMAIN m.vault.wrapped
         /\ m.vault.ct.key = VaultKey(m.vault) /\ m.vault.ct.aad = <<"content">>
         /\ m.vault.ct.body = m.text /\ m.vault.ct.nonce = m.vault.contentNonce
         /\ "intact" \in DOMAIN m.vault.ct
  BY DEF MadeNotify, NotifyVault, Seal

\* Keys of different kinds differ in length.
LEMMA KeysApart ==
  ASSUME NEW h, NEW s, NEW o, NEW n, NEW v, NEW g, NEW ids
  PROVE  /\ KdfKey(h, s, o, n) # VaultKey(v) /\ KdfKey(h, s, o, n) # <<>>
         /\ KdfKey(h, s, o, n) # ChatKey(g, ids) /\ VaultKey(v) # ChatKey(g, ids)
         /\ VaultKey(v) # <<>> /\ ChatKey(g, ids) # <<>>
  BY DEF KdfKey, VaultKey, ChatKey

\* Vaults of one key are of one content nonce, and so of one text.
LEMMA SameVaultKey ==
  ASSUME NEW v, NEW w, VaultKey(v) = VaultKey(w), v.contentNonce \in Nat, w.contentNonce \in Nat
  PROVE  v.contentNonce = w.contentNonce
<1>1. v.contentNonce + 1 = w.contentNonce + 1
  BY DEF VaultKey
<1> QED
  BY <1>1

-------------------------------------------------------------------------------
\* What opens a file of the second format was made as one vault, under the
\* phrase and with every field the file has.
LEMMA V2Truth ==
  ASSUME HistoryInv, NEW v, OfParts(v, made), NEW heard, KeyOpens(v, heard, BuildAADV2(v))
  PROVE  \E m \in made :
           /\ MadeV2(m) /\ m.heard = heard /\ BuildAADV2(m.vault) = BuildAADV2(v)
           /\ m.vault.wrapped = v.wrapped
           /\ TextOpens(v, BuildAADV2(v)) => v.ct.body = m.text
<1>1. /\ v.wrapped.intact /\ v.wrapped.key = KdfKey(heard, v.salt, v.ops, v.mem)
      /\ v.wrapped.aad = BuildAADV2(v)
  BY DEF KeyOpens, Opens
<1>2. PICK m \in made : IsVault(m.vault) /\ v.wrapped = m.vault.wrapped
  BY <1>1 DEF OfParts, Known, Vaults
<1>3. MadeSo(m)
  BY DEF HistoryInv
<1>4. MadeV2(m)
  <2>1. MadeV1(m) => m.vault.wrapped.aad = <<>>
    BY V1Parts
  <2>2. MadeNotify(m) => m.vault.wrapped.aad = <<"wrap">>
    BY NotifyParts
  <2>3. BuildAADV2(v) # <<>> /\ BuildAADV2(v) # <<"wrap">>
    BY FormatsApart
  <2> QED
    BY <1>1, <1>2, <1>3, <2>1, <2>2, <2>3, KindsAre
<1>5. m.heard = heard /\ BuildAADV2(m.vault) = BuildAADV2(v) /\ v.wrapped.body = VaultKey(m.vault)
  <2>1. /\ m.vault.wrapped.key = KdfKey(m.heard, m.vault.salt, m.vault.ops, m.vault.mem)
        /\ m.vault.wrapped.aad = BuildAADV2(m.vault) /\ m.vault.wrapped.body = VaultKey(m.vault)
    BY <1>4, V2Parts
  <2>2. KdfKey(heard, v.salt, v.ops, v.mem)
          = KdfKey(m.heard, m.vault.salt, m.vault.ops, m.vault.mem)
    BY <1>1, <1>2, <2>1
  <2>3. m.heard = heard
    BY <2>2, OneKeyPerPhrase
  <2> QED
    BY <1>1, <1>2, <2>1, <2>3
<1>6. ASSUME TextOpens(v, BuildAADV2(v)) PROVE v.ct.body = m.text
  <2>1. v.ct.intact /\ v.ct.key = VaultKey(m.vault) /\ v.ct.aad = BuildAADV2(v)
    BY <1>5, <1>6 DEF TextOpens, Opens
  <2>2. PICK n \in made : IsVault(n.vault) /\ v.ct = n.vault.ct
    BY <2>1 DEF OfParts, Known, Vaults
  <2>3. MadeSo(n)
    BY DEF HistoryInv
  <2>4. MadeV2(n)
    <3>1. MadeV1(n) => n.vault.ct.aad = BuildAADV1(n.vault)
      BY V1Parts
    <3>2. MadeNotify(n) => n.vault.ct.aad = <<"content">>
      BY NotifyParts
    <3>3. BuildAADV2(v) # BuildAADV1(n.vault) /\ BuildAADV2(v) # <<"content">>
      BY FormatsApart
    <3> QED
      BY <2>1, <2>2, <2>3, <3>1, <3>2, <3>3, KindsAre
  <2>5. VaultKey(n.vault) = VaultKey(m.vault) /\ v.ct.body = n.text
    BY <2>1, <2>2, <2>4, V2Parts
  <2>6. n.vault.contentNonce = m.vault.contentNonce
    BY <1>2, <2>2, <2>5, SameVaultKey DEF HistoryInv, Drawn
  <2>7. n.text = m.text
    BY <1>2, <2>2, <2>6 DEF HistoryInv, Kin
  <2> QED
    BY <2>5, <2>7
<1> QED
  BY <1>2, <1>4, <1>5, <1>6

LEMMA NotifyTruth ==
  ASSUME HistoryInv, NEW v, OfParts(v, made), NEW heard, NEW x, NEW y,
         KeyOpens(v, heard, <<x>>), TextOpens(v, <<y>>)
  PROVE  \E m \in made : IsVault(m.vault) /\ m.heard = heard /\ v.ct.body = m.text
<1>1. /\ v.wrapped.intact /\ v.wrapped.key = KdfKey(heard, v.salt, v.ops, v.mem)
      /\ v.wrapped.aad = <<x>>
  BY DEF KeyOpens, Opens
<1>2. PICK m \in made : IsVault(m.vault) /\ v.wrapped = m.vault.wrapped
  BY <1>1 DEF OfParts, Known, Vaults
<1>3. MadeSo(m)
  BY DEF HistoryInv
<1>4. MadeNotify(m)
  <2>1. MadeV1(m) => m.vault.wrapped.aad = <<>>
    BY V1Parts
  <2>2. MadeV2(m) => m.vault.wrapped.aad = BuildAADV2(m.vault)
    BY V2Parts
  <2>3. BuildAADV2(m.vault) # <<x>> /\ <<x>> # <<>>
    BY FormatsApart
  <2> QED
    BY <1>1, <1>2, <1>3, <2>1, <2>2, <2>3, KindsAre
<1>5. m.heard = heard /\ v.wrapped.body = VaultKey(m.vault)
  BY <1>1, <1>2, <1>4, NotifyParts, OneKeyPerPhrase
<1>6. v.ct.intact /\ v.ct.key = VaultKey(m.vault) /\ v.ct.aad = <<y>>
  BY <1>5 DEF TextOpens, Opens
<1>7. PICK n \in made : IsVault(n.vault) /\ v.ct = n.vault.ct
  BY <1>6 DEF OfParts, Known, Vaults
<1>8. MadeSo(n)
  BY DEF HistoryInv
<1>9. MadeNotify(n)
  <2>1. MadeV1(n) => n.vault.ct.aad = BuildAADV1(n.vault)
    BY V1Parts
  <2>2. MadeV2(n) => n.vault.ct.aad = BuildAADV2(n.vault)
    BY V2Parts
  <2>3. BuildAADV2(n.vault) # <<y>> /\ BuildAADV1(n.vault) # <<y>>
    BY FormatsApart
  <2> QED
    BY <1>6, <1>7, <1>8, <2>1, <2>2, <2>3, KindsAre
<1>10. VaultKey(n.vault) = VaultKey(m.vault) /\ v.ct.body = n.text
  BY <1>6, <1>7, <1>9, NotifyParts
<1>11. n.vault.contentNonce = m.vault.contentNonce
  BY <1>2, <1>7, <1>10, SameVaultKey DEF HistoryInv, Drawn
<1>12. n.text = m.text
  BY <1>2, <1>7, <1>11 DEF HistoryInv, Kin
<1> QED
  BY <1>2, <1>5, <1>10, <1>12

LEMMA V1Truth ==
  ASSUME HistoryInv, NEW v, OfParts(v, made), NEW heard,
         Opens(v.ct, KdfKey(heard, v.salt, v.ops, v.mem), v.contentNonce, BuildAADV1(v))
  PROVE  \E m \in made : /\ MadeV1(m) /\ m.heard = heard /\ v.ct.body = m.text
                         /\ BuildAADV1(m.vault) = BuildAADV1(v)
<1>1. /\ v.ct.intact /\ v.ct.key = KdfKey(heard, v.salt, v.ops, v.mem) /\ v.ct.aad = BuildAADV1(v)
  BY DEF Opens
<1>2. PICK m \in made : IsVault(m.vault) /\ v.ct = m.vault.ct
  BY <1>1 DEF OfParts, Known, Vaults
<1>3. MadeSo(m)
  BY DEF HistoryInv
<1>4. MadeV1(m)
  <2>1. MadeV2(m) \/ MadeNotify(m) => m.vault.ct.key = VaultKey(m.vault)
    BY V2Parts, NotifyParts
  <2>2. KdfKey(heard, v.salt, v.ops, v.mem) # VaultKey(m.vault)
    BY KeysApart
  <2> QED
    BY <1>1, <1>2, <1>3, <2>1, <2>2, KindsAre
<1>5. /\ m.vault.ct.key = KdfKey(m.heard, m.vault.salt, m.vault.ops, m.vault.mem)
      /\ m.vault.ct.aad = BuildAADV1(m.vault) /\ m.vault.ct.body = m.text
  BY <1>4, V1Parts
<1>6. KdfKey(heard, v.salt, v.ops, v.mem)
        = KdfKey(m.heard, m.vault.salt, m.vault.ops, m.vault.mem)
  BY <1>1, <1>2, <1>5
<1>7. m.heard = heard
  BY <1>6, OneKeyPerPhrase
<1> QED
  BY <1>1, <1>2, <1>4, <1>5, <1>7

-------------------------------------------------------------------------------
\* No two contents under one key and nonce.
LEMMA SameSaltSameKin ==
  ASSUME HistoryInv, NEW m \in made, NEW n \in made, IsVault(m.vault), IsVault(n.vault),
         \/ m.vault.salt = n.vault.salt \/ m.vault.contentNonce = n.vault.contentNonce
  PROVE  /\ SameHeader(m.vault, n.vault) /\ m.vault.ct = n.vault.ct
         /\ m.vault.schema = n.vault.schema /\ m.vault.wrapNonce = n.vault.wrapNonce
         /\ BuildAADV2(m.vault) = BuildAADV2(n.vault) /\ VaultKey(m.vault) = VaultKey(n.vault)
<1>1. SameHeader(m.vault, n.vault) /\ m.vault.ct = n.vault.ct
  BY DEF HistoryInv, Kin
<1>2. /\ m.vault.schema = n.vault.schema /\ m.vault.wrapNonce = n.vault.wrapNonce
      /\ m.vault.contentNonce = n.vault.contentNonce
  BY <1>1 DEF SameHeader, VaultFields
<1> QED
  BY <1>1, <1>2, HeaderBinds DEF VaultKey

\* The wrapped keys of the history,
WrapKey(m) == KdfKey(m.heard, m.vault.salt, m.vault.ops, m.vault.mem)
LEMMA WrapsAre ==
  ASSUME HistoryInv, NEW m \in made, IsVault(m.vault)
  PROVE  IF MadeV1(m) THEN m.vault.wrapped = NoCipher /\ m.vault.wrapped.key = <<>>
         ELSE /\ m.vault.wrapped.key = WrapKey(m)
              /\ m.vault.wrapped = Seal(WrapKey(m), m.vault.wrapNonce,
                                       IF m.vault.schema = "V2" THEN BuildAADV2(m.vault)
                                       ELSE <<"wrap">>, VaultKey(m.vault))
<1>1. MadeSo(m)
  BY DEF HistoryInv
<1>2. CASE MadeV1(m)
  BY <1>2, V1Parts
<1>3. CASE MadeV2(m)
  <2>1. ~MadeV1(m) /\ m.vault.schema = "V2"
    BY <1>1, <1>3, KindsAre
  <2> QED
    BY <1>3, <2>1 DEF MadeV2, V2Vault, WrapKey, Seal
<1>4. CASE MadeNotify(m)
  <2>1. ~MadeV1(m) /\ m.vault.schema # "V2"
    BY <1>1, <1>4, KindsAre
  <2> QED
    BY <1>4, <2>1 DEF MadeNotify, NotifyVault, WrapKey, Seal
<1> QED
  BY <1>1, <1>2, <1>3, <1>4, KindsAre

\* and its contents.
LEMMA ContentsAre ==
  ASSUME HistoryInv, NEW m \in made
  PROVE  /\ IsVault(m.vault) => m.vault.ct.key =
              IF MadeV1(m) THEN WrapKey(m) ELSE VaultKey(m.vault)
         /\ ~IsVault(m.vault) => /\ m.vault.ct.key = ChatKey(m.heard, {"a", "b"})
                                 /\ m.vault.ct.nonce = m.vault.nonce
<1>1. MadeSo(m)
  BY DEF HistoryInv
<1>2. CASE IsVault(m.vault)
  <2>1. MadeV1(m) => m.vault.ct.key = WrapKey(m)
    BY V1Parts DEF WrapKey
  <2>2. ~MadeV1(m) => m.vault.ct.key = VaultKey(m.vault)
    BY <1>1, <1>2, KindsAre, V2Parts, NotifyParts
  <2> QED
    BY <1>2, <2>1, <2>2
<1>3. CASE ~IsVault(m.vault)
  <2>1. MadeChat(m)
    BY <1>1, <1>3, KindsAre
  <2> QED
    BY <1>3, <2>1 DEF MadeChat, ChatEnvelope, Seal
<1> QED
  BY <1>2, <1>3

LEMMA WrapKeysApart ==
  ASSUME NEW m, NEW n, WrapKey(m) = WrapKey(n)
  PROVE  m.vault.salt = n.vault.salt /\ m.heard = n.heard
  BY OneKeyPerPhrase DEF WrapKey

LEMMA WrapsAreFresh ==
  ASSUME HistoryInv, NEW m \in made, NEW n \in made, IsVault(m.vault), IsVault(n.vault),
         m.vault.wrapped.key = n.vault.wrapped.key
  PROVE  m.vault.wrapped = n.vault.wrapped
<1>1. WrapKey(m) # <<>> /\ WrapKey(n) # <<>>
  BY KeysApart DEF WrapKey
<1>2. CASE MadeV1(m)
  BY <1>1, <1>2, WrapsAre
<1>3. CASE ~MadeV1(m)
  <2>1. ~MadeV1(n) /\ WrapKey(m) = WrapKey(n)
    BY <1>1, <1>3, WrapsAre
  <2>2. m.vault.salt = n.vault.salt
    BY <2>1, WrapKeysApart
  <2>3. /\ m.vault.schema = n.vault.schema /\ m.vault.wrapNonce = n.vault.wrapNonce
        /\ BuildAADV2(m.vault) = BuildAADV2(n.vault) /\ VaultKey(m.vault) = VaultKey(n.vault)
    BY <2>2, SameSaltSameKin
  <2> QED
    BY <1>3, <2>1, <2>3, WrapsAre
<1> QED
  BY <1>2, <1>3

LEMMA ContentsAreFresh ==
  ASSUME HistoryInv, NEW m \in made, NEW n \in made, m.vault.ct.key = n.vault.ct.key,
         m.vault.ct.nonce = n.vault.ct.nonce
  PROVE  m.vault.ct = n.vault.ct
<1>1. /\ WrapKey(m) # VaultKey(n.vault) /\ WrapKey(n) # VaultKey(m.vault)
      /\ WrapKey(m) # ChatKey(n.heard, {"a", "b"}) /\ WrapKey(n) # ChatKey(m.heard, {"a", "b"})
      /\ VaultKey(m.vault) # ChatKey(n.heard, {"a", "b"})
      /\ VaultKey(n.vault) # ChatKey(m.heard, {"a", "b"})
  BY KeysApart DEF WrapKey
<1>2. CASE IsVault(m.vault)
  <2>1. IsVault(n.vault)
    BY <1>1, <1>2, ContentsAre
  <2>2. \/ WrapKey(m) = WrapKey(n) \/ VaultKey(m.vault) = VaultKey(n.vault)
    BY <1>1, <1>2, <2>1, ContentsAre
  <2>3. m.vault.contentNonce \in Nat /\ n.vault.contentNonce \in Nat
    BY <1>2, <2>1 DEF HistoryInv, Drawn
  <2>4. m.vault.salt = n.vault.salt \/ m.vault.contentNonce = n.vault.contentNonce
    BY <2>2, <2>3, SameVaultKey, WrapKeysApart
  <2> QED
    BY <1>2, <2>1, <2>4, SameSaltSameKin
<1>3. CASE ~IsVault(m.vault)
  <2>1. ~IsVault(n.vault)
    BY <1>1, <1>3, ContentsAre
  <2>2. m.vault.nonce = n.vault.nonce
    BY <1>3, <2>1, ContentsAre
  <2> QED
    BY <1>3, <2>1, <2>2 DEF HistoryInv, Kin
<1> QED
  BY <1>2, <1>3

\* So no key and nonce seal two contents.
LEMMA FreshNonces == HistoryInv => NoncesAreFresh
<1> SUFFICES ASSUME HistoryInv, NEW m \in made, NEW n \in made,
                    NEW i \in DOMAIN Ciphers(m), NEW j \in DOMAIN Ciphers(n),
                    Ciphers(m)[i].key = Ciphers(n)[j].key, Ciphers(m)[i].nonce = Ciphers(n)[j].nonce
             PROVE  Ciphers(m)[i] = Ciphers(n)[j]
  BY DEF NoncesAreFresh
<1>1. /\ IF i = 1 /\ IsVault(m.vault) THEN Ciphers(m)[i] = m.vault.wrapped
         ELSE Ciphers(m)[i] = m.vault.ct
      /\ IF j = 1 /\ IsVault(n.vault) THEN Ciphers(n)[j] = n.vault.wrapped
         ELSE Ciphers(n)[j] = n.vault.ct
  BY DEF Ciphers
<1>2. \A a, b \in made : IsVault(a.vault) => a.vault.wrapped.key # b.vault.ct.key
  <2> SUFFICES ASSUME NEW a \in made, NEW b \in made, IsVault(a.vault),
                      a.vault.wrapped.key = b.vault.ct.key
               PROVE  FALSE
    OBVIOUS
  <2>1. /\ WrapKey(a) # VaultKey(b.vault) /\ WrapKey(a) # ChatKey(b.heard, {"a", "b"})
        /\ <<>> # VaultKey(b.vault) /\ <<>> # ChatKey(b.heard, {"a", "b"}) /\ <<>> # WrapKey(b)
    BY KeysApart DEF WrapKey
  <2>2. IsVault(b.vault) /\ MadeV1(b) /\ ~MadeV1(a) /\ WrapKey(a) = WrapKey(b)
    BY <2>1, WrapsAre, ContentsAre
  <2>3. a.vault.schema = b.vault.schema
    BY <2>2, WrapKeysApart, SameSaltSameKin
  <2> QED
    BY <2>2, <2>3, KindsAre DEF HistoryInv
<1> QED
  BY <1>1, <1>2, WrapsAreFresh, ContentsAreFresh

-------------------------------------------------------------------------------
\* A vault has one phrase at a time; after a rewrap it is another.
LEMMA RotatedIsGone == HistoryInv => RotatedPhraseIsGone
<1> SUFFICES ASSUME HistoryInv, NEW m \in made, m.from # None
             PROVE  /\ m.vault.ct = m.from.ct
                    /\ \A h \in made : h.vault = m.from =>
                         /\ h.heard # m.heard
                         /\ CliDecryptV2(m.vault, h.heard) = Refused("auth")
  BY DEF RotatedPhraseIsGone
<1>1. MadeV2(m)
  BY DEF HistoryInv, OfHistory
<1>2. PICK g \in made : /\ MadeV2(g) /\ g.vault = m.from /\ g.heard # m.heard
                        /\ m.vault.ct = g.vault.ct
  BY DEF HistoryInv, OfHistory
<1>3. ASSUME NEW h \in made, h.vault = m.from
      PROVE  h.heard # m.heard /\ CliDecryptV2(m.vault, h.heard) = Refused("auth")
  <2>1. MadeSo(h) /\ MadeSo(g)
    BY DEF HistoryInv
  <2>2. MadeV2(h)
    BY <1>2, <1>3, <2>1, KindsAre
  <2>3. WrapKey(h) = WrapKey(g)
    BY <1>2, <1>3, <2>2, V2Parts DEF WrapKey
  <2>4. h.heard # m.heard
    BY <1>2, <2>3, WrapKeysApart
  <2>5. CliDecryptV2(m.vault, h.heard)
          = DecryptV2With(CliValidateV2(m.vault), BuildAADV2(m.vault), m.vault, h.heard)
    BY DEF CliDecryptV2, CliAADV2
  <2>6. Speaks(h.heard)
    BY <2>1 DEF MadeSo
  <2>7. CliDecryptV2(m.vault, h.heard) = Refused("auth")
    BY <1>1, <2>4, <2>5, <2>6, CliValidateV2Is, V2Opens DEF MadeV2
  <2> QED
    BY <2>4, <2>7
<1> QED
  BY <1>2, <1>3

-------------------------------------------------------------------------------
\* Opening a file: what is shown is the truth, the content is blamed only under
\* the right phrase, and what arrived whole opens.
Truthful(v, heard, r) ==
  /\ r.ok => \E m \in made :
       /\ m.text = r.text /\ m.heard = heard /\ IsVault(m.vault)
       /\ v.schema # "NOTIFY" => SameFields(m.vault, v)
  /\ r.err = "content" => v.wrapped.intact /\ v.wrapped.key[1] = heard
OpensWhole(v, heard, r) == \A m \in made : v = m.vault /\ heard = m.heard => r = Plain(m.text)

\* What an answer holds.
LEMMA Answers ==
  ASSUME NEW text, NEW err
  PROVE  /\ Plain(text).ok /\ Plain(text).text = text /\ Plain(text).err = "none"
         /\ ~Refused(err).ok /\ Refused(err).err = err
         /\ "content" \notin Errors \cup {"none"}
  BY DEF Plain, Refused, Errors

\* The content is blamed, or the text shown, only when the key opened.
LEMMA LayersAre ==
  ASSUME NEW v, NEW heard, NEW x, NEW y, NEW r, NEW err \in Errors \cup {"none"},
         Judgement(r, err, Layers(v, heard, x, y))
  PROVE  /\ r.ok => /\ err = "none" /\ KeyOpens(v, heard, x) /\ TextOpens(v, y)
                    /\ r.text = v.ct.body
         /\ r.err = "content" => KeyOpens(v, heard, x)
  BY Answers DEF Judgement, Layers

\* A key that opens was sealed under that very phrase.
LEMMA RightPhrase ==
  ASSUME NEW v, NEW heard, NEW x, KeyOpens(v, heard, x)
  PROVE  v.wrapped.intact /\ v.wrapped.key[1] = heard
  BY OneKeyPerPhrase DEF KeyOpens, Opens

\* What opens in each format was made so, and under that phrase.
LEMMA V2Right ==
  ASSUME HistoryInv, NEW v, OfParts(v, made), NEW validate,
         Passes(v, validate, "V2", "wrapped", Cipher), NEW heard, NEW r,
         r = DecryptV2With(validate, BuildAADV2(v), v, heard)
  PROVE  Truthful(v, heard, r) /\ (v.schema = "V2" => OpensWhole(v, heard, r))
<1>1. PICK err \in Errors \cup {"none"} :
        /\ Judgement(r, err, Layers(v, heard, BuildAADV2(v), BuildAADV2(v)))
        /\ err = "none" => Passing(validate)
  BY V2Answers DEF Passes
<1>2. ASSUME r.ok
      PROVE  \E m \in made : /\ m.text = r.text /\ m.heard = heard /\ IsVault(m.vault)
                             /\ SameFields(m.vault, v)
  <2>1. /\ KeyOpens(v, heard, BuildAADV2(v)) /\ TextOpens(v, BuildAADV2(v))
        /\ r.text = v.ct.body /\ Passing(validate)
    BY <1>1, <1>2, LayersAre
  <2>2. v.form = "wrapped"
    BY <2>1 DEF Passes
  <2>3. PICK m \in made : /\ MadeV2(m) /\ m.heard = heard /\ BuildAADV2(m.vault) = BuildAADV2(v)
                          /\ v.ct.body = m.text
    BY <2>1, V2Truth
  <2>4. m.vault.form = "wrapped"
    BY <2>3 DEF MadeV2, V2Vault, V2Header
  <2>5. SameFields(m.vault, v)
    <3>1. m.vault.form # "aead" /\ m.vault.form = v.form
      BY <2>2, <2>4
    <3> QED
      BY <2>3, <3>1, SameBinding DEF SameFields, Announced
  <2>6. IsVault(m.vault)
    BY <2>3, KindsAre DEF HistoryInv
  <2> QED
    BY <2>1, <2>3, <2>5, <2>6
<1>3. r.err = "content" => v.wrapped.intact /\ v.wrapped.key[1] = heard
  BY <1>1, LayersAre, RightPhrase
<1>4. ASSUME v.schema = "V2", NEW m \in made, v = m.vault, heard = m.heard PROVE r = Plain(m.text)
  <2>1. MadeSo(m) /\ IsVault(v)
    BY DEF HistoryInv, OfParts, IsRecord, VaultFields, IsVault
  <2>2. MadeV2(m) /\ Speaks(heard)
    BY <1>4, <2>1, KindsAre DEF MadeSo
  <2>3. V2Vault(v, heard, m.text, VaultKey(v))
    BY <1>4, <2>2 DEF MadeV2
  <2> QED
    BY <2>2, <2>3, V2Opens
<1> QED
  BY <1>2, <1>3, <1>4 DEF Truthful, OpensWhole

LEMMA V1Right ==
  ASSUME HistoryInv, NEW v, OfParts(v, made), NEW heard, NEW r, r = DecryptV1With(v, heard)
  PROVE  Truthful(v, heard, r) /\ (v.schema = "V1" => OpensWhole(v, heard, r))
<1>1. PICK err \in Errors \cup {"none"} :
        Judgement(r, err, LayerV1(v, heard)) /\ (err = "none" => Passing(ValidateV1(v)))
  BY V1Answers
<1>2. ASSUME r.ok
      PROVE  \E m \in made : /\ m.text = r.text /\ m.heard = heard /\ IsVault(m.vault)
                             /\ SameFields(m.vault, v)
  <2>1. /\ Opens(v.ct, KdfKey(heard, v.salt, v.ops, v.mem), v.contentNonce, BuildAADV1(v))
        /\ r.text = v.ct.body /\ Passing(ValidateV1(v))
    BY <1>1, <1>2, Answers DEF Judgement, LayerV1
  <2>2. v.form = "aead"
    BY <2>1, ValidateV1Is DEF Passes
  <2>3. PICK m \in made : /\ MadeV1(m) /\ m.heard = heard /\ v.ct.body = m.text
                          /\ BuildAADV1(m.vault) = BuildAADV1(v)
    BY <2>1, V1Truth
  <2>4. m.vault.form = "aead"
    BY <2>3 DEF MadeV1, V1Vault
  <2>5. SameFields(m.vault, v)
    BY <2>2, <2>3, <2>4, SameBindingV1 DEF SameFields, Announced
  <2>6. IsVault(m.vault)
    BY <2>3, KindsAre DEF HistoryInv
  <2> QED
    BY <2>1, <2>3, <2>5, <2>6
<1>3. r.err # "content"
  BY <1>1, Answers DEF Judgement, LayerV1, Errors
<1>4. ASSUME v.schema = "V1", NEW m \in made, v = m.vault, heard = m.heard PROVE r = Plain(m.text)
  <2>1. MadeSo(m) /\ IsVault(v)
    BY DEF HistoryInv, OfParts, IsRecord, VaultFields, IsVault
  <2>2. MadeV1(m)
    BY <1>4, <2>1, KindsAre
  <2>3. V1Vault(v, heard, m.text)
    BY <1>4, <2>2 DEF MadeV1
  <2> QED
    BY <2>3, V1Opens
<1> QED
  BY <1>2, <1>3, <1>4 DEF Truthful, OpensWhole

LEMMA NotifyRight ==
  ASSUME HistoryInv, NEW v, OfParts(v, made), v.schema = "NOTIFY", NEW heard, NEW r,
         r = DecryptNotifyWith(v, heard)
  PROVE  Truthful(v, heard, r) /\ OpensWhole(v, heard, r)
<1>1. PICK err \in Errors \cup {"none"} :
        Judgement(r, err, Layers(v, heard, <<v.wrapAad>>, <<v.contentAad>>))
  BY NotifyAnswers
<1>2. r.ok => \E m \in made : m.text = r.text /\ m.heard = heard /\ IsVault(m.vault)
  BY <1>1, LayersAre, NotifyTruth
<1>3. r.err = "content" => v.wrapped.intact /\ v.wrapped.key[1] = heard
  BY <1>1, LayersAre, RightPhrase
<1>4. ASSUME NEW m \in made, v = m.vault, heard = m.heard PROVE r = Plain(m.text)
  <2>1. MadeSo(m) /\ IsVault(v)
    BY DEF HistoryInv, OfParts, IsRecord, VaultFields, IsVault
  <2>2. MadeNotify(m)
    BY <1>4, <2>1, KindsAre
  <2>3. NotifyVault(v, heard, m.text, VaultKey(v))
    BY <1>4, <2>2 DEF MadeNotify
  <2> QED
    BY <2>3, NotifyOpens
<1> QED
  BY <1>2, <1>3, <1>4 DEF Truthful, OpensWhole

\* The five programs.  A schema that a program does not read it refuses.
LEMMA NotRead ==
  ASSUME NEW v, NEW heard, NEW err, err # "content"
  PROVE  Truthful(v, heard, Refused(err))
  BY Answers DEF Truthful

\* Every program answers truthfully, and opens what arrived whole.
LEMMA ProgramsAnswer ==
  ASSUME HistoryInv, NEW v, OfParts(v, made), NEW heard
  PROVE  /\ Truthful(v, heard, SiteDecryptVault(v, heard))
         /\ Truthful(v, heard, LandingDecryptVault(v, heard))
         /\ Truthful(v, heard, DesktopDecryptVault(v, heard))
         /\ Truthful(v, heard, CliDecryptV2(v, heard))
         /\ Truthful(v, heard, ProofLockDecryptV2(v, heard))
         /\ v.schema = "V2" => /\ OpensWhole(v, heard, SiteDecryptVault(v, heard))
                               /\ OpensWhole(v, heard, LandingDecryptVault(v, heard))
                               /\ OpensWhole(v, heard, DesktopDecryptVault(v, heard))
                               /\ OpensWhole(v, heard, CliDecryptV2(v, heard))
                               /\ OpensWhole(v, heard, ProofLockDecryptV2(v, heard))
         /\ v.schema = "V1" => /\ OpensWhole(v, heard, SiteDecryptVault(v, heard))
                               /\ OpensWhole(v, heard, LandingDecryptVault(v, heard))
                               /\ OpensWhole(v, heard, DesktopDecryptVault(v, heard))
         /\ v.schema = "NOTIFY" => /\ OpensWhole(v, heard, SiteDecryptVault(v, heard))
                                   /\ OpensWhole(v, heard, LandingDecryptVault(v, heard))
<1> DEFINE v2 == DecryptV2With(ValidateV2(v), BuildAADV2(v), v, heard)
           v1 == DecryptV1With(v, heard)
           nt == DecryptNotifyWith(v, heard)
           no == Refused("unsupported")
<1>1. /\ Truthful(v, heard, v2) /\ (v.schema = "V2" => OpensWhole(v, heard, v2))
      /\ Truthful(v, heard, v1) /\ (v.schema = "V1" => OpensWhole(v, heard, v1))
      /\ v.schema = "NOTIFY" => Truthful(v, heard, nt) /\ OpensWhole(v, heard, nt)
      /\ Truthful(v, heard, no)
  BY ValidateV2Is, V2Right, V1Right, NotifyRight, NotRead
<1>2. /\ SiteDecryptVault(v, heard) = IF v.schema = "V2" THEN v2 ELSE IF v.schema = "V1" THEN v1
                                      ELSE IF v.schema = "NOTIFY" THEN nt ELSE no
      /\ LandingDecryptVault(v, heard) = IF v.schema = "V2" THEN v2 ELSE IF v.schema = "V1" THEN v1
                                         ELSE IF v.schema = "NOTIFY" THEN nt ELSE no
      /\ DesktopDecryptVault(v, heard) = IF v.schema = "V2" THEN v2 ELSE IF v.schema = "V1" THEN v1
                                         ELSE no
  <2>1. /\ SiteDecryptV2(v, heard) = v2 /\ SiteDecryptV1(v, heard) = v1
        /\ SiteDecryptNotify(v, heard) = nt
    BY DEF SiteDecryptV2, SiteAADV2, SiteDecryptV1, SiteDecryptNotify
  <2>2. /\ LandingDecryptV2(v, heard) = v2 /\ LandingDecryptV1(v, heard) = v1
        /\ LandingDecryptNotify(v, heard) = nt
    BY DEF LandingDecryptV2, LandingAADV2, LandingDecryptV1, LandingDecryptNotify
  <2>3. DesktopDecryptV2(v, heard) = v2 /\ DesktopDecryptV1(v, heard) = v1
    BY DEF DesktopDecryptV2, DesktopAADV2, DesktopDecryptV1
  <2> HIDE DEF v2, v1, nt
  <2> QED
    BY <2>1, <2>2, <2>3
       DEF SiteDecryptVault, LandingDecryptVault, DesktopDecryptVault, Unsupported
<1>3. /\ CliDecryptV2(v, heard) = DecryptV2With(CliValidateV2(v), BuildAADV2(v), v, heard)
      /\ ProofLockDecryptV2(v, heard) = DecryptV2With(ProofLockValidateV2(v), BuildAADV2(v), v, heard)
  BY DEF CliDecryptV2, CliAADV2, ProofLockDecryptV2, ProofLockAADV2
<1>4. /\ Truthful(v, heard, CliDecryptV2(v, heard)) /\ Truthful(v, heard, ProofLockDecryptV2(v, heard))
      /\ v.schema = "V2" => /\ OpensWhole(v, heard, CliDecryptV2(v, heard))
                            /\ OpensWhole(v, heard, ProofLockDecryptV2(v, heard))
  BY <1>3, CliValidateV2Is, ProofLockValidateV2Is, V2Right
<1> HIDE DEF v2, v1, nt, no
<1>5. v.schema = "V1" => v.schema # "V2"
  OBVIOUS
<1>6. v.schema = "NOTIFY" => v.schema # "V2" /\ v.schema # "V1"
  OBVIOUS
<1>7. /\ Truthful(v, heard, SiteDecryptVault(v, heard))
      /\ Truthful(v, heard, LandingDecryptVault(v, heard))
      /\ Truthful(v, heard, DesktopDecryptVault(v, heard))
  BY <1>1, <1>2
<1> QED
  BY <1>1, <1>2, <1>4, <1>5, <1>6, <1>7

\* A chat message opens under its phrase only (decryptChatEnvelope).
LEMMA ChatRight ==
  ASSUME HistoryInv, NEW n \in made, MadeChat(n), NEW env, env = n.vault, NEW heard, NEW r,
         r = DecryptChatEnvelope(env, heard)
  PROVE  /\ r.ok => r.text = n.text /\ heard = n.heard
         /\ r.err # "content"
         /\ OpensWhole(env, heard, r)
<1>1. PICK err \in Errors \cup {"none"} :
        /\ Judgement(r, err, IF Opens(env.ct, ChatKey(heard, env.ids), env.nonce, <<>>)
                             THEN Plain(env.ct.body) ELSE Refused("auth"))
        /\ env.missing = {} /\ Speaks(heard) => err = "none"
  BY ChatAnswers
<1>2. ASSUME NEW m \in made, env = m.vault
      PROVE  /\ env.ct = Seal(ChatKey(m.heard, env.ids), env.nonce, <<>>, m.text)
             /\ env.missing = {} /\ Speaks(m.heard)
  <2>1. MadeSo(m) /\ MadeSo(n)
    BY DEF HistoryInv
  <2>2. MadeChat(m)
    BY <1>2, <2>1, KindsAre
  <2> QED
    BY <1>2, <2>1, <2>2 DEF MadeChat, ChatEnvelope, MadeSo
<1>3. \A g, h, ids : ChatKey(g, ids) = ChatKey(h, ids) => g = h
  BY DEF ChatKey
<1>4. r.ok => r.text = n.text /\ heard = n.heard
  <2>0. env.ct = Seal(ChatKey(n.heard, env.ids), env.nonce, <<>>, n.text)
    BY <1>2
  <2>1. /\ env.ct.key = ChatKey(n.heard, env.ids) /\ env.ct.body = n.text
    BY <2>0 DEF Seal
  <2> QED
    BY <1>1, <1>3, <2>1, Answers DEF Judgement, Opens
<1>5. r.err # "content"
  BY <1>1, Answers DEF Judgement, Errors
<1>6. ASSUME NEW m \in made, env = m.vault, heard = m.heard PROVE r = Plain(m.text)
  <2>1. /\ env.ct = Seal(ChatKey(heard, env.ids), env.nonce, <<>>, m.text)
        /\ env.missing = {} /\ Speaks(heard)
    BY <1>2, <1>6
  <2>2. Opens(env.ct, ChatKey(heard, env.ids), env.nonce, <<>>) /\ env.ct.body = m.text
    BY <2>1 DEF Opens, Seal
  <2> QED
    BY <1>1, <2>1, <2>2 DEF Judgement
<1> QED
  BY <1>4, <1>5, <1>6 DEF OpensWhole

\* An attempt to open a file that ends as the properties ask.
Forms(program) == {"json", "chat"} \cup (IF program \in Pages THEN {"line", "sheet"} ELSE {})
EndsWell(program, f, heard, r) ==
  /\ r.ok => \E m \in made :
       /\ m.text = r.text /\ m.heard = heard /\ IsVault(m.vault) = IsVault(f.vault)
       /\ IsVault(m.vault) /\ f.vault.schema # "NOTIFY" => SameFields(m.vault, f.vault)
  /\ r.err = "content" => f.vault.wrapped.intact /\ f.vault.wrapped.key[1] = heard
  /\ Reads(program, f.vault) /\ f.form \in Forms(program) => OpensWhole(f.vault, heard, r)

\* If it does, what is shown is as promised.
LEMMA Showing ==
  ASSUME NEW program, NEW f, NEW typed, NEW r, Show(program, f, typed, r),
         EndsWell(program, f, HeardBy(program, typed), r)
  PROVE  OnlyTheTruth' /\ AnyProgramOpens' /\ BlamesContentRightly'
<1> DEFINE heard == HeardBy(program, typed)
<1>1. /\ shown' = [by |-> program, form |-> f.form, vault |-> f.vault,
                   typed |-> typed, heard |-> heard, res |-> r]
      /\ made' = made
  BY DEF Show
<1>2. /\ shown'.by = program /\ shown'.form = f.form /\ shown'.vault = f.vault
      /\ shown'.heard = heard /\ shown'.res = r
  BY <1>1
<1> HIDE DEF heard
<1>3. OnlyTheTruth'
  BY <1>1, <1>2 DEF OnlyTheTruth, EndsWell, heard
<1>4. BlamesContentRightly'
  BY <1>2 DEF BlamesContentRightly, EndsWell, heard
<1>5. AnyProgramOpens'
  <2> SUFFICES ASSUME NEW m \in made, f.vault = m.vault, heard = m.heard,
                      Reads(program, m.vault), f.form \in Forms(program)
               PROVE  r.ok /\ r.text = m.text
    BY <1>1, <1>2 DEF AnyProgramOpens, Forms
  <2>1. r = Plain(m.text)
    BY DEF EndsWell, OpensWhole, heard
  <2> QED
    BY <2>1, Answers
<1> QED
  BY <1>3, <1>4, <1>5

\* A vault, whole or not, opened by the program's codec.
LEMMA VaultEndsWell ==
  ASSUME HistoryInv, NEW program, NEW f, FileIsOf(f, made), f.form \in {"json", "line", "sheet"},
         NEW heard, NEW r, Truthful(f.vault, heard, r),
         Reads(program, f.vault) => OpensWhole(f.vault, heard, r)
  PROVE  EndsWell(program, f, heard, r)
<1>1. IsVault(f.vault)
  BY DEF FileIsOf, OfParts, IsRecord, VaultFields, IsVault
<1> QED
  BY <1>1 DEF EndsWell, Truthful

\* What does not parse says nothing.
LEMMA CutEndsWell ==
  ASSUME NEW program, NEW f, NEW heard, NEW err, err # "content",
         f.form \notin Forms(program) \/ ~Reads(program, f.vault)
  PROVE  EndsWell(program, f, heard, Refused(err))
  BY Answers DEF EndsWell

\* A chat message, recognised by its fields.
LEMMA ChatEndsWell ==
  ASSUME HistoryInv, NEW program, NEW f, FileIsOf(f, made), f.form = "chat", NEW heard
  PROVE  EndsWell(program, f, heard, DecryptChatEnvelope(f.vault, heard))
<1> DEFINE r == DecryptChatEnvelope(f.vault, heard)
<1>1. PICK n \in made : MadeChat(n) /\ f.vault = n.vault
  BY DEF FileIsOf
<1>2. ~IsVault(n.vault)
  BY <1>1, KindsAre DEF HistoryInv
<1>3. /\ r.ok => r.text = n.text /\ heard = n.heard
      /\ r.err # "content" /\ OpensWhole(f.vault, heard, r)
  BY <1>1, ChatRight
<1> HIDE DEF r
<1>4. EndsWell(program, f, heard, r)
  BY <1>1, <1>2, <1>3 DEF EndsWell
<1> QED
  BY <1>4 DEF r

\* What is promised of what is shown.
ShownWell == OnlyTheTruth /\ AnyProgramOpens /\ BlamesContentRightly
\* The pages read every form a file comes in,
LEMMA PageShows ==
  ASSUME FilesInv, NEW f \in files, NEW p \in Pages, NEW typed, NEW answer, NEW r,
         f.form \in {"json", "line", "sheet"} =>
           /\ Truthful(f.vault, HeardBy(p, typed), answer)
           /\ Reads(p, f.vault) => OpensWhole(f.vault, HeardBy(p, typed), answer),
         r = CASE f.form = "chat" -> DecryptChatEnvelope(f.vault, HeardBy(p, typed))
               [] f.form \in {"json", "line", "sheet"} -> answer
               [] f.form = "cut" -> Refused("parse"),
         Show(p, f, typed, r)
  PROVE  ShownWell'
<1> DEFINE heard == HeardBy(p, typed)
<1>1. HistoryInv /\ FileIsOf(f, made)
  BY DEF FilesInv
<1>2. f.form \in {"json", "line", "sheet", "chat", "cut"}
  BY <1>1 DEF FileIsOf
<1> HIDE DEF heard
<1>3. EndsWell(p, f, heard, r)
  <2>1. CASE f.form = "chat"
    <3>1. r = DecryptChatEnvelope(f.vault, heard)
      BY <2>1 DEF heard
    <3> QED
      BY <1>1, <2>1, <3>1, ChatEndsWell
  <2>2. CASE f.form \in {"json", "line", "sheet"}
    <3>1. r = answer
      BY <2>2
    <3> QED
      BY <1>1, <2>2, <3>1, VaultEndsWell DEF heard
  <2>3. CASE f.form = "cut"
    <3>1. r = Refused("parse")
      BY <2>3
    <3>2. f.form \notin Forms(p)
      BY <2>3 DEF Forms
    <3> QED
      BY <3>1, <3>2, CutEndsWell
  <2> QED
    BY <1>2, <2>1, <2>2, <2>3
<1> QED
  BY <1>3, Showing DEF ShownWell, heard

\* the command line and the proof-lock page JSON only.
LEMMA JsonShows ==
  ASSUME FilesInv, NEW f \in files, NEW p, p \notin Pages, NEW typed, NEW answer, NEW r,
         f.form = "json" =>
           /\ Truthful(f.vault, HeardBy(p, typed), answer)
           /\ Reads(p, f.vault) => OpensWhole(f.vault, HeardBy(p, typed), answer),
         r = CASE f.form = "json" -> answer
               [] f.form = "chat" -> Unsupported(f.vault)
               [] OTHER -> Refused("parse"),
         Show(p, f, typed, r)
  PROVE  ShownWell'
<1> DEFINE heard == HeardBy(p, typed)
<1>1. HistoryInv /\ FileIsOf(f, made)
  BY DEF FilesInv
<1> HIDE DEF heard
<1>2. EndsWell(p, f, heard, r)
  <2>1. CASE f.form = "chat"
    <3>1. r = Refused("unsupported")
      BY <2>1 DEF Unsupported
    <3>2. PICK n \in made : MadeChat(n) /\ f.vault = n.vault
      BY <1>1, <2>1 DEF FileIsOf
    <3>3. ~Reads(p, f.vault)
      BY <1>1, <3>2, KindsAre DEF HistoryInv, Reads
    <3> QED
      BY <3>1, <3>3, CutEndsWell
  <2>2. CASE f.form = "json"
    <3>1. r = answer
      BY <2>2
    <3> QED
      BY <1>1, <2>2, <3>1, VaultEndsWell DEF heard
  <2>3. CASE f.form \notin {"json", "chat"}
    <3>1. r = Refused("parse")
      BY <2>3
    <3>2. f.form \notin Forms(p)
      BY <2>3 DEF Forms
    <3> QED
      BY <3>1, <3>2, CutEndsWell
  <2> QED
    BY <2>1, <2>2, <2>3
<1> QED
  BY <1>2, Showing DEF ShownWell, heard

\* No program makes a vault of another schema.
LEMMA NoOtherSchema ==
  ASSUME HistoryInv, NEW v, IsVault(v), v.schema \notin {"V1", "V2", "NOTIFY"}, NEW heard, NEW r
  PROVE  OpensWhole(v, heard, r)
  BY KindsAre DEF OpensWhole, HistoryInv

\* Every program reads what its format list says.
LEMMA ProgramsRead ==
  ASSUME HistoryInv, NEW v, OfParts(v, made), IsVault(v), NEW heard
  PROVE  /\ Reads("site", v) => OpensWhole(v, heard, SiteDecryptVault(v, heard))
         /\ Reads("landing", v) => OpensWhole(v, heard, LandingDecryptVault(v, heard))
         /\ Reads("desktop", v) => OpensWhole(v, heard, DesktopDecryptVault(v, heard))
         /\ Reads("cli", v) => OpensWhole(v, heard, CliDecryptV2(v, heard))
         /\ Reads("proofLock", v) => OpensWhole(v, heard, ProofLockDecryptV2(v, heard))
<1>1. CASE v.schema = "V2"
  BY <1>1, ProgramsAnswer
<1>2. CASE v.schema = "V1"
  <2>1. ~Reads("cli", v) /\ ~Reads("proofLock", v)
    BY <1>2 DEF Reads, Pages
  <2> QED
    BY <1>2, <2>1, ProgramsAnswer
<1>3. CASE v.schema = "NOTIFY"
  <2>1. ~Reads("desktop", v) /\ ~Reads("cli", v) /\ ~Reads("proofLock", v)
    BY <1>3 DEF Reads
  <2> QED
    BY <1>3, <2>1, ProgramsAnswer
<1>4. CASE v.schema \notin {"V1", "V2", "NOTIFY"}
  BY <1>4, NoOtherSchema
<1> QED
  BY <1>1, <1>2, <1>3, <1>4

\* The five ways to open a file.
LEMMA OpenedSo ==
  ASSUME FilesInv, NEW f \in files,
         SiteOpen(f) \/ LandingOpen(f) \/ DesktopOpen(f) \/ CliUnlock(f) \/ ProofLockOpen(f)
  PROVE  ShownWell'
<1>1. /\ HistoryInv
      /\ f.form \in {"json", "line", "sheet"} => OfParts(f.vault, made) /\ IsVault(f.vault)
  BY DEF FilesInv, FileIsOf, OfParts, IsRecord, VaultFields, IsVault
<1>2. CASE SiteOpen(f)
  <2>1. PICK typed \in Phrases : \E r :
          /\ Show("site", f, typed, r)
          /\ r = CASE f.form = "chat" -> DecryptChatEnvelope(f.vault, HeardBy("site", typed))
                   [] f.form \in {"json", "line", "sheet"}
                        -> SiteDecryptVault(f.vault, HeardBy("site", typed))
                   [] f.form = "cut" -> Refused("parse")
    BY <1>2 DEF SiteOpen, PageOpen
  <2>2. f.form \in {"json", "line", "sheet"} =>
          /\ Truthful(f.vault, HeardBy("site", typed), SiteDecryptVault(f.vault, HeardBy("site", typed)))
          /\ Reads("site", f.vault) =>
               OpensWhole(f.vault, HeardBy("site", typed), SiteDecryptVault(f.vault, HeardBy("site", typed)))
    BY <1>1, ProgramsAnswer, ProgramsRead
  <2>3. "site" \in Pages
    BY DEF Pages
  <2> QED
    BY <2>1, <2>2, <2>3, PageShows
<1>3. CASE LandingOpen(f)
  <2>1. PICK typed \in Phrases : \E r :
          /\ Show("landing", f, typed, r)
          /\ r = CASE f.form = "chat" -> DecryptChatEnvelope(f.vault, HeardBy("landing", typed))
                   [] f.form \in {"json", "line", "sheet"}
                        -> LandingDecryptVault(f.vault, HeardBy("landing", typed))
                   [] f.form = "cut" -> Refused("parse")
    BY <1>3 DEF LandingOpen, PageOpen
  <2>2. f.form \in {"json", "line", "sheet"} =>
          /\ Truthful(f.vault, HeardBy("landing", typed), LandingDecryptVault(f.vault, HeardBy("landing", typed)))
          /\ Reads("landing", f.vault) =>
               OpensWhole(f.vault, HeardBy("landing", typed), LandingDecryptVault(f.vault, HeardBy("landing", typed)))
    BY <1>1, ProgramsAnswer, ProgramsRead
  <2>3. "landing" \in Pages
    BY DEF Pages
  <2> QED
    BY <2>1, <2>2, <2>3, PageShows
<1>4. CASE DesktopOpen(f)
  <2>1. PICK typed \in Phrases : \E r :
          /\ Show("desktop", f, typed, r)
          /\ r = CASE f.form = "chat" -> DecryptChatEnvelope(f.vault, HeardBy("desktop", typed))
                   [] f.form \in {"json", "line", "sheet"}
                        -> DesktopDecryptVault(f.vault, HeardBy("desktop", typed))
                   [] f.form = "cut" -> Refused("parse")
    BY <1>4 DEF DesktopOpen, PageOpen
  <2>2. f.form \in {"json", "line", "sheet"} =>
          /\ Truthful(f.vault, HeardBy("desktop", typed), DesktopDecryptVault(f.vault, HeardBy("desktop", typed)))
          /\ Reads("desktop", f.vault) =>
               OpensWhole(f.vault, HeardBy("desktop", typed), DesktopDecryptVault(f.vault, HeardBy("desktop", typed)))
    BY <1>1, ProgramsAnswer, ProgramsRead
  <2>3. "desktop" \in Pages
    BY DEF Pages
  <2> QED
    BY <2>1, <2>2, <2>3, PageShows
<1>5. CASE CliUnlock(f)
  <2>1. PICK typed \in Phrases : \E r :
          /\ Show("cli", f, typed, r)
          /\ r = CASE f.form = "json" -> CliDecryptV2(f.vault, HeardBy("cli", typed))
                   [] f.form = "chat" -> Unsupported(f.vault)
                   [] OTHER -> Refused("parse")
    BY <1>5 DEF CliUnlock, JsonOpen
  <2>2. f.form \in {"json", "line", "sheet"} =>
          /\ Truthful(f.vault, HeardBy("cli", typed), CliDecryptV2(f.vault, HeardBy("cli", typed)))
          /\ Reads("cli", f.vault) =>
               OpensWhole(f.vault, HeardBy("cli", typed), CliDecryptV2(f.vault, HeardBy("cli", typed)))
    BY <1>1, ProgramsAnswer, ProgramsRead
  <2>3. "cli" \notin Pages
    BY DEF Pages
  <2> QED
    BY <2>1, <2>2, <2>3, JsonShows
<1>6. CASE ProofLockOpen(f)
  <2>1. PICK typed \in Phrases : \E r :
          /\ Show("proofLock", f, typed, r)
          /\ r = CASE f.form = "json" -> ProofLockDecryptV2(f.vault, HeardBy("proofLock", typed))
                   [] f.form = "chat" -> Unsupported(f.vault)
                   [] OTHER -> Refused("parse")
    BY <1>6 DEF ProofLockOpen, JsonOpen
  <2>2. f.form \in {"json", "line", "sheet"} =>
          /\ Truthful(f.vault, HeardBy("proofLock", typed), ProofLockDecryptV2(f.vault, HeardBy("proofLock", typed)))
          /\ Reads("proofLock", f.vault) =>
               OpensWhole(f.vault, HeardBy("proofLock", typed), ProofLockDecryptV2(f.vault, HeardBy("proofLock", typed)))
    BY <1>1, ProgramsAnswer, ProgramsRead
  <2>3. "proofLock" \notin Pages
    BY DEF Pages
  <2> QED
    BY <2>1, <2>2, <2>3, JsonShows
<1> QED
  BY <1>2, <1>3, <1>4, <1>5, <1>6

-------------------------------------------------------------------------------
\* The invariant is kept.  What was known of a file is known of it later.
LEMMA FilesGrow ==
  ASSUME NEW old, NEW new, old \subseteq new, NEW f, FileIsOf(f, old)
  PROVE  FileIsOf(f, new)
  BY DEF FileIsOf, OfParts, Known, Vaults

LEMMA DrawnBefore ==
  ASSUME NEW m, NEW low \in Nat, NEW high \in Nat, low <= high, Drawn(m, low)
  PROVE  Drawn(m, high)
  BY DEF Drawn

LEMMA OfHistoryGrows ==
  ASSUME NEW old, NEW new, old \subseteq new, NEW m, OfHistory(m, old)
  PROVE  OfHistory(m, new)
  BY DEF OfHistory

\* A record of what no one made before.
Fresh(m) ==
  \A n \in made :
    /\ IsVault(m.vault) /\ IsVault(n.vault) =>
         n.vault.salt # m.vault.salt /\ n.vault.contentNonce # m.vault.contentNonce
    /\ ~IsVault(m.vault) /\ ~IsVault(n.vault) => n.vault.nonce # m.vault.nonce

\* Then the history is as sound with it.
LEMMA HistoryGrows ==
  ASSUME HistoryInv, next \in Nat, next' \in Nat, next <= next',
         NEW m, MadeSo(m), Drawn(m, next'), m.from = None, Fresh(m), made' = made \cup {m}
  PROVE  HistoryInv'
<1>1. ASSUME NEW n \in made' PROVE MadeSo(n) /\ Drawn(n, next') /\ OfHistory(n, made')
  <2>1. CASE n \in made
    BY <2>1, DrawnBefore, OfHistoryGrows DEF HistoryInv
  <2>2. CASE n = m
    BY <2>2 DEF OfHistory
  <2> QED
    BY <2>1, <2>2
<1>2. ASSUME NEW n \in made' PROVE Kin(m, n) /\ Kin(n, m)
  <2>1. CASE n \in made
    BY <2>1 DEF Fresh, Kin
  <2>2. CASE n = m
    BY <2>2 DEF Kin, SameHeader
  <2> QED
    BY <2>1, <2>2
<1>3. \A n, k \in made' : Kin(n, k)
  BY <1>2 DEF HistoryInv
<1> QED
  BY <1>1, <1>3 DEF HistoryInv

\* What was drawn before is below what is drawn next.
LEMMA FreshFrom ==
  ASSUME HistoryInv, next \in Nat, NEW m,
         IF IsVault(m.vault)
         THEN /\ \A n \in Vaults(made) : n.vault.salt # m.vault.salt
              /\ m.vault.contentNonce = next
         ELSE m.vault.nonce = next
  PROVE  Fresh(m)
<1> SUFFICES ASSUME NEW n \in made
             PROVE  /\ IsVault(m.vault) /\ IsVault(n.vault) =>
                         /\ n.vault.salt # m.vault.salt
                         /\ n.vault.contentNonce # m.vault.contentNonce
                    /\ ~IsVault(m.vault) /\ ~IsVault(n.vault) => n.vault.nonce # m.vault.nonce
  BY DEF Fresh
<1>1. Drawn(n, next)
  BY DEF HistoryInv
<1> QED
  BY <1>1 DEF Drawn, Vaults

\* The pages, when they change nothing.
LEMMA PagesKept ==
  ASSUME PagesInv, page' = page, next \in Nat, next' \in Nat, next <= next',
         made \subseteq made',
         \A m \in Vaults(made') \ made : \A p \in Pages : m.vault.salt # page[p].salt
  PROVE  PagesInv'
<1>1. ASSUME NEW p \in Pages PROVE PageIsOf(p, made)'
  <2>1. PageIsOf(p, made)
    BY DEF PagesInv
  <2>2. page[p].salt \in Nat /\ page[p].salt < next'
    BY <2>1 DEF PageIsOf
  <2>3. \A m \in Vaults(made') : m.vault.salt # page[p].salt
    BY <2>1 DEF PageIsOf, Vaults
  <2>4. page[p].result # None => \E m \in made' : MadeV2(m) /\ page[p].result = m.vault
    BY <2>1 DEF PageIsOf
  <2> QED
    BY <2>2, <2>3, <2>4 DEF PageIsOf
<1> QED
  BY <1>1 DEF PagesInv

-------------------------------------------------------------------------------
\* A secret may be locked on every program.
LEMMA SecretsSpeak ==
  ASSUME NEW s \in Secrets, NEW program
  PROVE  Speaks(HeardBy(program, s.typed)) /\ s.mode \in Modes
  BY SecretsAreLockable DEF Speaks, HeardBy

\* A vault made and recorded, of a salt no vault had.
LEMMA VaultRecorded ==
  ASSUME HistoryInv, next \in Nat, next' = next + 4, NEW m,
         IsVault(m.vault), MadeSo(m), m.from = None, m.vault.contentNonce = next,
         m.vault.salt \in Nat, m.vault.salt < next + 4,
         \A n \in Vaults(made) : n.vault.salt # m.vault.salt,
         made' = made \cup {m}
  PROVE  HistoryInv'
<1>1. Fresh(m)
  BY FreshFrom
<1>2. Drawn(m, next') /\ next' \in Nat /\ next <= next'
  BY DEF Drawn
<1> QED
  BY <1>1, <1>2, HistoryGrows

\* and of a salt drawn now.
LEMMA NewSalt ==
  ASSUME HistoryInv, PagesInv, next \in Nat
  PROVE  /\ \A n \in Vaults(made) : n.vault.salt # next + 2
         /\ \A p \in Pages : page[p].salt # next + 2
<1>1. \A n \in Vaults(made) : n.vault.salt \in Nat /\ n.vault.salt < next
  BY DEF HistoryInv, Drawn, Vaults
<1>2. \A p \in Pages : page[p].salt \in Nat /\ page[p].salt < next
  BY DEF PagesInv, PageIsOf
<1> QED
  BY <1>1, <1>2

\* A vault locked at once, and saved as a file (qev lock, the proof-lock page);
\* the same holds of a vault that arrives from elsewhere.
LEMMA FileOfVault ==
  ASSUME NEW m, MadeSo(m), IsVault(m.vault), NEW history, m \in history,
         NEW form \in {"json", "line", "sheet"}, NEW f, f = [form |-> form, vault |-> m.vault]
  PROVE  FileIsOf(f, history)
<1>1. IsRecord(m.vault)
  BY KindsAre
<1>2. "intact" \in DOMAIN m.vault.wrapped /\ "intact" \in DOMAIN m.vault.ct
  BY KindsAre, V2Parts, V1Parts, NotifyParts
<1>3. OfParts(m.vault, history)
  BY <1>1, <1>2 DEF OfParts, Known, Vaults
<1> QED
  BY <1>3 DEF FileIsOf

\* A vault made anew and saved at once keeps the invariant.
LEMMA SavedSo ==
  ASSUME FilesInv, NEW m, MadeSo(m), IsVault(m.vault), m.from = None,
         m.vault.contentNonce = next, m.vault.salt = next + 2,
         made' = made \cup {m}, page' = page, next' = next + 4,
         files' = files \cup {[form |-> "json", vault |-> m.vault]}
  PROVE  FilesInv'
<1>1. HistoryInv /\ PagesInv /\ next \in Nat
  BY DEF FilesInv
<1>2. HistoryInv'
  BY <1>1, NewSalt, VaultRecorded
<1>3. PagesInv'
  <2>1. next' \in Nat /\ next <= next' /\ made \subseteq made'
    BY <1>1
  <2>2. \A n \in Vaults(made') \ made : \A p \in Pages : n.vault.salt # page[p].salt
    BY <1>1, NewSalt DEF Vaults
  <2> QED
    BY <1>1, <2>1, <2>2, PagesKept
<1>4. ASSUME NEW f \in files' PROVE FileIsOf(f, made')
  <2>1. CASE f \in files
    BY <2>1, FilesGrow DEF FilesInv
  <2>2. CASE f = [form |-> "json", vault |-> m.vault]
    BY <2>2, FileOfVault
  <2> QED
    BY <2>1, <2>2
<1> QED
  BY <1>1, <1>2, <1>3, <1>4 DEF FilesInv

-------------------------------------------------------------------------------
\* A record of the history.
LEMMA RecordIs ==
  ASSUME NEW by, NEW v, NEW text, NEW heard, NEW from, NEW m, m = Made(by, v, text, heard, from)
  PROVE  m.vault = v /\ m.text = text /\ m.heard = heard /\ m.from = from
  BY DEF Made

\* What was drawn for a lock.
LEMMA DrawnAre ==
  ASSUME NEW salt, NEW nonce, NEW rnd, rnd = Rnd(salt, nonce)
  PROVE  rnd.salt = salt /\ rnd.contentNonce = next /\ rnd.key = <<next + 1>>
  BY DEF Rnd

\* A lock makes a whole vault of the text, under the phrase heard.
LEMMA LockedSo ==
  ASSUME NEW s \in Secrets, NEW by, NEW mode \in Modes, NEW salt, NEW nonce, NEW v, NEW m,
         v \in Lockings(s.text, HeardBy(by, s.typed), mode, LockPresets.quick, "now",
                        Rnd(salt, nonce)),
         m = Made(by, v, s.text, HeardBy(by, s.typed), None)
  PROVE  /\ MadeSo(m) /\ MadeV2(m) /\ IsVault(m.vault) /\ m.from = None
         /\ m.vault.contentNonce = next /\ m.vault.salt = salt
<1>1. PICK rnd, now, preset :
        rnd = Rnd(salt, nonce) /\ now = "now" /\ preset = LockPresets.quick
  OBVIOUS
<1>2. PICK heard : heard = HeardBy(by, s.typed)
  OBVIOUS
<1>3. v \in Lockings(s.text, heard, mode, preset, now, rnd) /\ SoundPreset(preset)
  BY <1>1, <1>2, QuickIsSound
<1>4. V2Vault(v, heard, s.text, rnd.key) /\ v.salt = rnd.salt /\ v.contentNonce = rnd.contentNonce
  BY <1>3, ProgramsLock
<1>5. rnd.salt = salt /\ rnd.contentNonce = next /\ rnd.key = <<next + 1>>
  BY <1>1, DrawnAre
<1>6. m.vault = v /\ m.text = s.text /\ m.heard = heard /\ m.from = None
  BY <1>2, RecordIs
<1>7. MadeV2(m)
  BY <1>4, <1>5, <1>6 DEF MadeV2, VaultKey
<1>8. MadeSo(m)
  BY <1>2, <1>6, <1>7, SecretsSpeak DEF MadeSo
<1> QED
  BY <1>4, <1>5, <1>6, <1>7, <1>8, KindsAre

\* qev lock and the proof-lock page save at once (lock.js, qev.ts).
LEMMA DirectLocks ==
  ASSUME FilesInv, CliLock \/ ProofLockLock
  PROVE  FilesInv' /\ shown' = None
<1> DEFINE Locks(s, by, mode, v) ==
             /\ s \in Secrets /\ mode \in Modes
             /\ v \in Lockings(s.text, HeardBy(by, s.typed), mode, LockPresets.quick, "now",
                               Rnd(next + 2, next + 3))
             /\ made' = made \cup {Made(by, v, s.text, HeardBy(by, s.typed), None)}
             /\ files' = files \cup {[form |-> "json", vault |-> v]}
             /\ next' = next + 4 /\ page' = page /\ shown' = None
<1>1. PICK s, by, mode, v : Locks(s, by, mode, v)
  <2>1. CASE CliLock
    <3>1. PICK s, v :
            /\ s \in Secrets
            /\ v = CliEncryptV2(s.text, HeardBy("cli", s.typed), s.mode, LockPresets.quick, "now",
                                Rnd(next + 2, next + 3))
            /\ made' = made \cup {Made("cli", v, s.text, HeardBy("cli", s.typed), None)}
            /\ files' = files \cup {[form |-> "json", vault |-> v]}
            /\ next' = next + 4 /\ page' = page /\ shown' = None
      BY <2>1 DEF CliLock, DirectLock, Unopened
    <3>2. Locks(s, "cli", s.mode, v)
      BY <3>1, SecretsSpeak DEF Lockings
    <3> QED
      BY <3>2
  <2>2. CASE ProofLockLock
    <3>1. PICK s, v :
            /\ s \in Secrets
            /\ v = ProofLockEncryptV2(s.text, HeardBy("proofLock", s.typed), LockPresets.quick,
                                      "now", Rnd(next + 2, next + 3))
            /\ made' = made \cup {Made("proofLock", v, s.text, HeardBy("proofLock", s.typed), None)}
            /\ files' = files \cup {[form |-> "json", vault |-> v]}
            /\ next' = next + 4 /\ page' = page /\ shown' = None
      BY <2>2 DEF ProofLockLock, DirectLock, Unopened
    <3>2. Locks(s, "proofLock", s.mode, v)
      BY <3>1, SecretsSpeak DEF Lockings
    <3> QED
      BY <3>2
  <2> QED
    BY <2>1, <2>2
<1>2. PICK m : m = Made(by, v, s.text, HeardBy(by, s.typed), None)
  OBVIOUS
<1>3. /\ MadeSo(m) /\ IsVault(m.vault) /\ m.from = None
      /\ m.vault.contentNonce = next /\ m.vault.salt = next + 2
  BY <1>1, <1>2, LockedSo
<1>4. m.vault = v
  BY <1>2, RecordIs
<1> QED
  BY <1>1, <1>2, <1>3, <1>4, SavedSo

\* Vaults from an old page, and notification envelopes, arrive as JSON.
LEMMA VaultsArrive ==
  ASSUME FilesInv, LegacyVault \/ NotifyArrives
  PROVE  FilesInv' /\ shown' = None
<1>1. CASE LegacyVault
  <2>1. PICK s, v, by, heard :
          /\ s \in Secrets /\ by = "site" /\ heard = HeardBy(by, s.typed)
          /\ v = EncryptV1With("0.28.1", s.text, heard, s.mode, LockPresets.quick, "now",
                               Rnd(next + 2, 0))
          /\ made' = made \cup {Made(by, v, s.text, heard, None)}
          /\ files' = files \cup {[form |-> "json", vault |-> v]}
          /\ next' = next + 4 /\ page' = page /\ shown' = None
    BY <1>1 DEF LegacyVault, SiteEncryptV1, Unopened
  <2>2. PICK rnd, now, preset, version :
          /\ rnd = Rnd(next + 2, 0) /\ now = "now" /\ preset = LockPresets.quick
          /\ version = "0.28.1"
    OBVIOUS
  <2>3. SoundPreset(preset) /\ Speaks(heard) /\ s.mode \in Modes
    BY <2>1, <2>2, QuickIsSound, SecretsSpeak
  <2>4. PICK mode, text : mode \in Modes /\ mode = s.mode /\ text = s.text
    BY <2>3
  <2>5. v = EncryptV1With(version, text, heard, mode, preset, now, rnd)
    BY <2>1, <2>2, <2>4
  <2>6. V1Vault(v, heard, text) /\ v.salt = rnd.salt /\ v.contentNonce = rnd.contentNonce
    BY <2>3, <2>4, <2>5, V1IsMade
  <2>7. PICK m : m = Made(by, v, s.text, heard, None)
    OBVIOUS
  <2>8. m.vault = v /\ m.text = text /\ m.heard = heard /\ m.from = None
    BY <2>4, <2>7, RecordIs
  <2>9. MadeV1(m) /\ MadeSo(m)
    BY <2>3, <2>6, <2>8 DEF MadeV1, MadeSo
  <2>10. IsVault(m.vault) /\ m.vault.contentNonce = next /\ m.vault.salt = next + 2
    BY <2>2, <2>6, <2>8, <2>9, DrawnAre, KindsAre
  <2> QED
    BY <2>1, <2>7, <2>8, <2>9, <2>10, SavedSo
<1>2. CASE NotifyArrives
  <2>1. PICK s, v, by, heard :
          /\ s \in Secrets /\ by = "notify" /\ heard = HeardBy(by, s.typed)
          /\ v = NotifyEncryptMessage(s.text, heard, "now", Rnd(next + 2, next + 3))
          /\ made' = made \cup {Made(by, v, s.text, heard, None)}
          /\ files' = files \cup {[form |-> "json", vault |-> v]}
          /\ next' = next + 4 /\ page' = page /\ shown' = None
    BY <1>2 DEF NotifyArrives, Unopened
  <2>2. PICK rnd, now, text :
          rnd = Rnd(next + 2, next + 3) /\ now = "now" /\ text = s.text
    OBVIOUS
  <2>3. v = NotifyEncryptMessage(text, heard, now, rnd) /\ Speaks(heard)
    BY <2>1, <2>2, SecretsSpeak
  <2>4. /\ NotifyVault(v, heard, text, rnd.key) /\ v.salt = rnd.salt
        /\ v.contentNonce = rnd.contentNonce
    BY <2>3, NotifyIsMade
  <2>5. rnd.salt = next + 2 /\ rnd.contentNonce = next /\ rnd.key = <<next + 1>>
    BY <2>2, DrawnAre
  <2>6. PICK m : m = Made(by, v, s.text, heard, None)
    OBVIOUS
  <2>7. m.vault = v /\ m.text = text /\ m.heard = heard /\ m.from = None
    BY <2>2, <2>6, RecordIs
  <2>8. MadeNotify(m) /\ MadeSo(m)
    BY <2>3, <2>4, <2>5, <2>7 DEF MadeNotify, MadeSo, VaultKey
  <2>9. IsVault(m.vault) /\ m.vault.contentNonce = next /\ m.vault.salt = next + 2
    BY <2>4, <2>5, <2>7, <2>8, KindsAre
  <2> QED
    BY <2>1, <2>6, <2>7, <2>8, <2>9, SavedSo
<1> QED
  BY <1>1, <1>2

-------------------------------------------------------------------------------
\* A page locks with the salt on display, and shows another.
LEMMA PageLocks ==
  ASSUME FilesInv, SiteLock \/ LandingLock \/ DesktopLock
  PROVE  FilesInv' /\ shown' = None
<1> DEFINE Locks(p, s, mode, v) ==
             /\ p \in Pages /\ s \in Secrets /\ mode \in Modes
             /\ v \in Lockings(s.text, HeardBy(p, s.typed), mode, LockPresets.quick, "now",
                               Rnd(page[p].salt, page[p].nonce))
             /\ made' = made \cup {Made(p, v, s.text, HeardBy(p, s.typed), None)}
             /\ page' = [page EXCEPT ![p] = Renewed(p, v)]
             /\ next' = next + 4 /\ files' = files /\ shown' = None
<1>1. PICK p, s, mode, v : Locks(p, s, mode, v)
  <2>0. "site" \in Pages /\ "landing" \in Pages /\ "desktop" \in Pages
    BY DEF Pages
  <2>1. CASE SiteLock
    <3>1. PICK s, v :
            /\ s \in Secrets
            /\ v = SiteEncryptV2(s.text, HeardBy("site", s.typed), s.mode, LockPresets.quick,
                                 "now", Rnd(page["site"].salt, page["site"].nonce))
            /\ made' = made \cup {Made("site", v, s.text, HeardBy("site", s.typed), None)}
            /\ page' = [page EXCEPT !["site"] = Renewed("site", v)]
            /\ next' = next + 4 /\ files' = files /\ shown' = None
      BY <2>1 DEF SiteLock, PageLock, Unopened
    <3>2. Locks("site", s, s.mode, v)
      BY <2>0, <3>1, SecretsSpeak DEF Lockings
    <3> QED
      BY <3>2
  <2>2. CASE LandingLock
    <3>1. PICK s, v :
            /\ s \in Secrets
            /\ v = LandingEncryptV2(s.text, HeardBy("landing", s.typed), s.mode, LockPresets.quick,
                                    "now", Rnd(page["landing"].salt, page["landing"].nonce))
            /\ made' = made \cup {Made("landing", v, s.text, HeardBy("landing", s.typed), None)}
            /\ page' = [page EXCEPT !["landing"] = Renewed("landing", v)]
            /\ next' = next + 4 /\ files' = files /\ shown' = None
      BY <2>2 DEF LandingLock, PageLock, Unopened
    <3>2. Locks("landing", s, s.mode, v)
      BY <2>0, <3>1, SecretsSpeak DEF Lockings
    <3> QED
      BY <3>2
  <2>3. CASE DesktopLock
    <3>1. PICK s, v :
            /\ s \in Secrets
            /\ v = DesktopEncryptV2(s.text, HeardBy("desktop", s.typed), s.mode, LockPresets.quick,
                                    "now", Rnd(page["desktop"].salt, page["desktop"].nonce))
            /\ made' = made \cup {Made("desktop", v, s.text, HeardBy("desktop", s.typed), None)}
            /\ page' = [page EXCEPT !["desktop"] = Renewed("desktop", v)]
            /\ next' = next + 4 /\ files' = files /\ shown' = None
      BY <2>3 DEF DesktopLock, PageLock, Unopened
    <3>2. Locks("desktop", s, s.mode, v)
      BY <2>0, <3>1, SecretsSpeak DEF Lockings
    <3> QED
      BY <3>2
  <2> QED
    BY <2>1, <2>2, <2>3
<1>2. PICK m : m = Made(p, v, s.text, HeardBy(p, s.typed), None)
  OBVIOUS
<1>3. /\ MadeSo(m) /\ MadeV2(m) /\ IsVault(m.vault) /\ m.from = None /\ m.vault = v
      /\ m.vault.contentNonce = next /\ m.vault.salt = page[p].salt
  <2>1. PICK salt, nonce : salt = page[p].salt /\ nonce = page[p].nonce
    OBVIOUS
  <2>2. v \in Lockings(s.text, HeardBy(p, s.typed), mode, LockPresets.quick, "now",
                      Rnd(salt, nonce))
    BY <1>1, <2>1
  <2>3. s \in Secrets /\ mode \in Modes
    BY <1>1
  <2> HIDE DEF Locks
  <2>4. /\ MadeSo(m) /\ MadeV2(m) /\ IsVault(m.vault) /\ m.from = None
        /\ m.vault.contentNonce = next /\ m.vault.salt = salt
    BY <1>2, <2>2, <2>3, LockedSo
  <2>5. m.vault = v
    BY <1>2, RecordIs
  <2> QED
    BY <2>1, <2>4, <2>5
<1>4. /\ HistoryInv /\ PagesInv /\ next \in Nat
      /\ made' = made \cup {m} /\ next' = next + 4 /\ p \in Pages /\ files' = files
  BY <1>1, <1>2 DEF FilesInv
<1>5. /\ page[p].salt \in Nat /\ page[p].salt < next
      /\ \A n \in Vaults(made) : n.vault.salt # page[p].salt
  BY <1>4 DEF PagesInv, PageIsOf
<1>6. HistoryInv'
  <2>1. m.vault.salt < next + 4
    BY <1>3, <1>4, <1>5
  <2> QED
    BY <1>3, <1>4, <1>5, <2>1, VaultRecorded
<1>7. /\ DOMAIN page' = Pages /\ page'[p].salt = next + 2 /\ page'[p].result = v
      /\ \A q \in Pages : q # p => page'[q] = page[q]
  BY <1>1, <1>4 DEF PagesInv, Renewed
<1>8. ASSUME NEW q \in Pages PROVE PageIsOf(q, made)'
  <2>1. next' \in Nat /\ next + 2 \in Nat /\ next + 2 < next'
    BY <1>4
  <2>2. CASE q = p
    <3>1. \A n \in Vaults(made') : n.vault.salt # next + 2
      BY <1>3, <1>4, <1>5, NewSalt DEF Vaults
    <3>2. MadeV2(m) /\ page'[q].result = m.vault /\ m \in made'
      BY <1>3, <1>4, <1>7, <2>2
    <3> QED
      BY <1>7, <2>1, <2>2, <3>1, <3>2 DEF PageIsOf
  <2>3. CASE q # p
    <3>1. page'[q] = page[q] /\ PageIsOf(q, made) /\ page[q].salt # page[p].salt
      BY <1>4, <1>7, <2>3 DEF PagesInv
    <3>2. page[q].salt \in Nat /\ page[q].salt < next'
      BY <1>4, <3>1 DEF PageIsOf
    <3>3. \A n \in Vaults(made') : n.vault.salt # page[q].salt
      BY <1>3, <1>4, <3>1 DEF PageIsOf, Vaults
    <3>4. page[q].result # None => \E n \in made' : MadeV2(n) /\ page[q].result = n.vault
      BY <1>4, <3>1 DEF PageIsOf
    <3> QED
      BY <3>1, <3>2, <3>3, <3>4 DEF PageIsOf
  <2> QED
    BY <2>2, <2>3
<1>9. \A q, r \in Pages : q # r => page'[q].salt # page'[r].salt
  BY <1>4, <1>7, NewSalt DEF PagesInv
<1>10. \A f \in files' : FileIsOf(f, made')
  BY <1>4, FilesGrow DEF FilesInv
<1>11. PagesInv'
  BY <1>7, <1>8, <1>9 DEF PagesInv
<1> QED
  BY <1>1, <1>4, <1>6, <1>10, <1>11 DEF FilesInv

\* A result leaves the page in one of three forms.
LEMMA PageExports ==
  ASSUME FilesInv, NEW p \in Pages, NEW form \in {"json", "line", "sheet"}, PageExport(p, form)
  PROVE  FilesInv' /\ shown' = None
<1>1. /\ files' = files \cup {[form |-> form, vault |-> page[p].result]}
      /\ page' = page /\ next' = next /\ made' = made /\ shown' = None /\ page[p].result # None
  BY DEF PageExport, Unopened
<1>2. PICK m \in made : MadeV2(m) /\ page[p].result = m.vault
  BY <1>1 DEF FilesInv, PagesInv, PageIsOf
<1>3. MadeSo(m) /\ IsVault(m.vault)
  BY <1>2, KindsAre DEF FilesInv, HistoryInv
<1>4. ASSUME NEW f \in files' PROVE FileIsOf(f, made)
  <2>1. CASE f \in files
    BY <2>1 DEF FilesInv
  <2>2. CASE f = [form |-> form, vault |-> m.vault]
    BY <1>3, <2>2, FileOfVault
  <2> QED
    BY <1>1, <1>2, <2>1, <2>2
<1>5. HistoryInv' /\ PagesInv'
  BY <1>1 DEF FilesInv, HistoryInv, PagesInv, PageIsOf
<1> QED
  BY <1>1, <1>4, <1>5 DEF FilesInv

\* A message copied out of a locked conversation.
LEMMA ChatsArrive ==
  ASSUME FilesInv, CopyChatEnvelope
  PROVE  FilesInv' /\ shown' = None
<1>1. PICK s, heard, env :
        /\ s \in Secrets /\ heard = HeardBy("desktop", s.typed)
        /\ env = ChatEnvelope(s.text, heard, {"a", "b"}, next)
        /\ made' = made \cup {Made("chat", env, s.text, heard, None)}
        /\ files' = files \cup {[form |-> "chat", vault |-> env]}
        /\ next' = next + 1 /\ page' = page /\ shown' = None
  BY DEF CopyChatEnvelope, Unopened
<1>2. PICK m : m = Made("chat", env, s.text, heard, None)
  OBVIOUS
<1>3. /\ m.vault = env /\ m.text = s.text /\ m.heard = heard /\ m.from = None
      /\ HistoryInv /\ PagesInv /\ next \in Nat /\ next' \in Nat /\ next <= next'
      /\ made' = made \cup {m} /\ next < next'
  BY <1>1, <1>2, RecordIs DEF FilesInv
<1>4. MadeChat(m) /\ MadeSo(m)
  BY <1>1, <1>3, SecretsSpeak DEF MadeChat, MadeSo
<1>5. ~IsVault(m.vault) /\ m.vault.nonce = next
  <2>1. env.nonce = next
    BY <1>1 DEF ChatEnvelope
  <2> QED
    BY <1>3, <1>4, <2>1, KindsAre
<1>6. HistoryInv'
  <2>1. Fresh(m)
    BY <1>3, <1>5, FreshFrom
  <2>2. Drawn(m, next')
    BY <1>3, <1>5 DEF Drawn
  <2> QED
    BY <1>3, <1>4, <2>1, <2>2, HistoryGrows
<1>7. PagesInv'
  <2>1. \A n \in Vaults(made') \ made : \A p \in Pages : n.vault.salt # page[p].salt
    BY <1>3, <1>5 DEF Vaults
  <2> QED
    BY <1>1, <1>3, <2>1, PagesKept
<1>8. ASSUME NEW f \in files' PROVE FileIsOf(f, made')
  <2>1. CASE f \in files
    BY <1>3, <2>1, FilesGrow DEF FilesInv
  <2>2. CASE f = [form |-> "chat", vault |-> env]
    BY <1>3, <1>4, <2>2 DEF FileIsOf
  <2> QED
    BY <1>1, <2>1, <2>2
<1> QED
  BY <1>1, <1>3, <1>6, <1>7, <1>8 DEF FilesInv

-------------------------------------------------------------------------------
\* A rewrap.  Records as close as two of one vault before and after it are kin
\* to the same records.
Alike(a, h) ==
  /\ IsVault(a.vault) /\ IsVault(h.vault)
  /\ SameHeader(a.vault, h.vault) /\ a.vault.ct = h.vault.ct /\ a.text = h.text
\* What two vaults of one header share.
LEMMA SaltOf ==
  ASSUME NEW v, NEW w, SameHeader(v, w)
  PROVE  /\ v.salt = w.salt /\ v.contentNonce = w.contentNonce /\ v.schema = w.schema
         /\ VaultKey(v) = VaultKey(w)
  BY DEF SameHeader, VaultFields, VaultKey

LEMMA HeaderOf ==
  ASSUME NEW u, NEW v, NEW w, SameHeader(u, v), SameHeader(v, w)
  PROVE  SameHeader(u, w)
  BY DEF SameHeader
LEMMA HeaderBack ==
  ASSUME NEW v, NEW w, SameHeader(v, w)
  PROVE  SameHeader(w, v)
  BY DEF SameHeader

\* A rewrap is kin to what its vault was kin to.
LEMMA AlikeAreKin ==
  ASSUME NEW a, NEW h, NEW b, NEW g, Alike(a, h), Alike(b, g), Kin(h, g)
  PROVE  Kin(a, b)
<1> SUFFICES ASSUME a.vault.salt = b.vault.salt \/ a.vault.contentNonce = b.vault.contentNonce
             PROVE  SameHeader(a.vault, b.vault) /\ a.vault.ct = b.vault.ct /\ a.text = b.text
  BY DEF Kin, Alike
<1>1. h.vault.salt = g.vault.salt \/ h.vault.contentNonce = g.vault.contentNonce
  BY SaltOf DEF Alike
<1>2. SameHeader(h.vault, g.vault) /\ h.vault.ct = g.vault.ct /\ h.text = g.text
  BY <1>1 DEF Kin, Alike
<1>3. SameHeader(a.vault, b.vault)
  <2>1. SameHeader(a.vault, h.vault) /\ SameHeader(g.vault, b.vault)
    BY HeaderBack DEF Alike
  <2>2. SameHeader(a.vault, g.vault)
    BY <1>2, <2>1, HeaderOf
  <2> QED
    BY <2>1, <2>2, HeaderOf
<1> QED
  BY <1>2, <1>3 DEF Alike

\* What a rewrap adds to the history: for every vault that holds the wrapped
\* key the file holds, what is locked under the new phrase from here on
\* (rewrap.js:32-117).
LEMMA RewrapHistory ==
  ASSUME FilesInv, NEW v, OfParts(v, made), NEW old, NEW new, NEW r,
         r = CliRewrapV2(v, old, new), r.ok
  PROVE  /\ WithKeyOf(v) # {}
         /\ \A h, m :
              h \in WithKeyOf(v) /\ m = Made("cli", CliRewrapV2(h.vault, old, new).vault, h.text, new, h.vault) =>
                /\ MadeV2(m) /\ MadeV2(h) /\ Alike(m, h) /\ Speaks(m.heard)
                /\ m.from = h.vault /\ h.heard # m.heard
                /\ m.vault.wrapped = r.vault.wrapped
<1>1. /\ Speaks(new) /\ old # new /\ KeyOpens(v, old, BuildAADV2(v))
      /\ r.vault = [v EXCEPT !.wrapped =
           Seal(KdfKey(new, v.salt, v.ops, v.mem), v.wrapNonce, BuildAADV2(v), v.wrapped.body)]
  BY RewrapIs
<1>2. HistoryInv
  BY DEF FilesInv
<1>3. PICK k \in made : /\ MadeV2(k) /\ k.heard = old /\ BuildAADV2(k.vault) = BuildAADV2(v)
                        /\ k.vault.wrapped = v.wrapped
  BY <1>1, <1>2, V2Truth
<1>4. k \in WithKeyOf(v) /\ Speaks(old)
  BY <1>2, <1>3, KindsAre DEF WithKeyOf, HistoryInv, MadeSo
<1>5. r.vault.wrapped
        = Seal(KdfKey(new, v.salt, v.ops, v.mem), v.wrapNonce, BuildAADV2(v), v.wrapped.body)
  BY <1>1 DEF OfParts, IsRecord, VaultFields
<1>6. ASSUME NEW h \in WithKeyOf(v), NEW m,
             m = Made("cli", CliRewrapV2(h.vault, old, new).vault, h.text, new, h.vault)
      PROVE  /\ MadeV2(m) /\ MadeV2(h) /\ Alike(m, h) /\ Speaks(m.heard)
             /\ m.from = h.vault /\ h.heard # m.heard
             /\ m.vault.wrapped = r.vault.wrapped
  <2>1. h \in made /\ IsVault(h.vault) /\ h.vault.wrapped = v.wrapped /\ MadeSo(h)
    BY <1>2 DEF WithKeyOf, HistoryInv
  <2>2. MadeV2(h)
    <3>1. v.wrapped.aad = BuildAADV2(k.vault)
      BY <1>3, V2Parts
    <3>2. MadeV1(h) => v.wrapped.aad = <<>>
      BY <2>1, V1Parts
    <3>3. MadeNotify(h) => v.wrapped.aad = <<"wrap">>
      BY <2>1, NotifyParts
    <3>4. BuildAADV2(k.vault) # <<>> /\ BuildAADV2(k.vault) # <<"wrap">>
      BY FormatsApart
    <3> QED
      BY <2>1, <3>1, <3>2, <3>3, <3>4, KindsAre
  <2>3. /\ WrapKey(h) = WrapKey(k) /\ BuildAADV2(h.vault) = BuildAADV2(k.vault)
        /\ v.wrapped.body = VaultKey(h.vault)
    BY <1>3, <2>1, <2>2, V2Parts DEF WrapKey
  <2>4. h.heard = old
    BY <1>3, <2>3, WrapKeysApart
  <2>5. PICK q : q = CliRewrapV2(h.vault, old, new)
    OBVIOUS
  <2>6. PICK w, text, key : w = h.vault /\ text = h.text /\ key = VaultKey(h.vault)
    OBVIOUS
  <2>7. V2Vault(w, old, text, key) /\ q = CliRewrapV2(w, old, new)
    BY <2>2, <2>4, <2>5, <2>6 DEF MadeV2
  <2>8. /\ V2Vault(q.vault, new, h.text, VaultKey(h.vault)) /\ SameHeader(q.vault, h.vault)
        /\ q.vault.ct = h.vault.ct
    <3>1. q.ok
      BY <1>1, <1>4, <2>7, V2Rewraps
    <3>2. V2Vault(q.vault, new, text, key) /\ SameHeader(q.vault, w) /\ q.vault.ct = w.ct
      BY <2>7, <3>1, V2Rewraps
    <3> QED
      BY <2>6, <3>2
  <2>9. /\ m.vault = q.vault /\ m.text = h.text /\ m.heard = new /\ m.from = h.vault
    BY <1>6, <2>5, RecordIs
  <2>10. MadeV2(m)
    BY <2>8, <2>9, SaltOf DEF MadeV2
  <2>11. IsVault(m.vault)
    BY <1>1, <2>9, <2>10, KindsAre DEF MadeSo
  <2>12. m.vault.wrapped = r.vault.wrapped
    <3>1. q.vault.wrapped = Seal(KdfKey(new, q.vault.salt, q.vault.ops, q.vault.mem),
                                 q.vault.wrapNonce, BuildAADV2(q.vault), VaultKey(h.vault))
      BY <2>8 DEF V2Vault
    <3>2. BuildAADV2(q.vault) = BuildAADV2(v)
      BY <1>3, <2>3, <2>8, HeaderBinds
    <3>3. /\ q.vault.salt = v.salt /\ q.vault.ops = v.ops /\ q.vault.mem = v.mem
          /\ q.vault.wrapNonce = v.wrapNonce
      BY <3>2, SameBinding
    <3> QED
      BY <1>5, <2>3, <2>9, <3>1, <3>2, <3>3
  <2> QED
    BY <1>1, <2>1, <2>2, <2>4, <2>8, <2>9, <2>10, <2>11, <2>12 DEF Alike
<1> QED
  BY <1>4, <1>6

\* A rewrap keeps the invariant, whatever became of the file before.
LEMMA Rewraps ==
  ASSUME FilesInv, NEW f \in files, CliRewrap(f)
  PROVE  FilesInv' /\ shown' = None
<1>1. PICK old, new, r :
        /\ r = CliRewrapV2(f.vault, old, new) /\ f.form = "json" /\ r.ok
        /\ files' = (files \ {f}) \cup {[f EXCEPT !.vault = r.vault]}
        /\ made' = made \cup {Made("cli", CliRewrapV2(h.vault, old, new).vault, h.text, new,
                                   h.vault) : h \in WithKeyOf(f.vault)}
        /\ page' = page /\ next' = next /\ shown' = None
  BY DEF CliRewrap, Becomes, Unopened
<1>2. FileIsOf(f, made) /\ OfParts(f.vault, made) /\ HistoryInv /\ PagesInv /\ next \in Nat
  BY <1>1 DEF FilesInv, FileIsOf
<1>3. /\ WithKeyOf(f.vault) # {}
      /\ \A m \in made' \ made : \E h \in made :
           /\ MadeV2(m) /\ MadeV2(h) /\ Alike(m, h) /\ Speaks(m.heard)
           /\ m.from = h.vault /\ h.heard # m.heard
      /\ \E m \in made' : IsVault(m.vault) /\ m.vault.wrapped = r.vault.wrapped
  <2>1. \A h \in WithKeyOf(f.vault) : h \in made
    BY DEF WithKeyOf
  <2> QED
    BY <1>1, <1>2, <2>1, RewrapHistory DEF Alike
<1>4. \A m \in made' : \E h \in made : m = h \/ Alike(m, h)
  BY <1>3
<1>5. HistoryInv'
  <2>1. ASSUME NEW m \in made' PROVE MadeSo(m) /\ Drawn(m, next') /\ OfHistory(m, made')
    <3>1. CASE m \in made
      <4>1. MadeSo(m) /\ Drawn(m, next) /\ OfHistory(m, made)
        BY <1>2, <3>1 DEF HistoryInv
      <4> QED
        BY <1>1, <4>1, OfHistoryGrows
    <3>2. CASE m \notin made
      <4>1. PICK h \in made :
              /\ MadeV2(m) /\ MadeV2(h) /\ Alike(m, h) /\ Speaks(m.heard)
              /\ m.from = h.vault /\ h.heard # m.heard
        BY <1>3, <3>2
      <4>2. Drawn(h, next) /\ h \in made'
        BY <1>1, <1>2 DEF HistoryInv
      <4>3. Drawn(m, next')
        BY <1>1, <4>1, <4>2, SaltOf DEF Drawn, Alike
      <4>4. OfHistory(m, made')
        BY <4>1, <4>2 DEF OfHistory, Alike
      <4> QED
        BY <4>1, <4>3, <4>4 DEF MadeSo
    <3> QED
      BY <3>1, <3>2
  <2>2. ASSUME NEW m \in made', NEW n \in made' PROVE Kin(m, n)
    <3>1. PICK h \in made : m = h \/ Alike(m, h)
      BY <1>4
    <3>2. PICK g \in made : n = g \/ Alike(n, g)
      BY <1>4
    <3>3. Kin(h, g)
      BY <1>2 DEF HistoryInv
    <3>4. \A k : IsVault(k.vault) => Alike(k, k)
      BY DEF Alike, SameHeader
    <3>5. CASE ~IsVault(h.vault) \/ ~IsVault(g.vault)
      BY <3>1, <3>2, <3>3, <3>5 DEF Kin, Alike
    <3>6. CASE IsVault(h.vault) /\ IsVault(g.vault)
      BY <3>1, <3>2, <3>3, <3>4, <3>6, AlikeAreKin
    <3> QED
      BY <3>5, <3>6
  <2> QED
    BY <2>1, <2>2 DEF HistoryInv
<1>6. PagesInv'
  <2>1. \A m \in Vaults(made') \ made : \A p \in Pages : m.vault.salt # page[p].salt
    <3> SUFFICES ASSUME NEW m \in made', m \notin made, NEW p \in Pages
                 PROVE  m.vault.salt # page[p].salt
      BY DEF Vaults
    <3>1. PICK h \in made : Alike(m, h)
      BY <1>3
    <3>2. m.vault.salt = h.vault.salt /\ h \in Vaults(made)
      BY <3>1, SaltOf DEF Alike, Vaults
    <3> QED
      BY <1>2, <3>2 DEF PagesInv, PageIsOf
  <2> QED
    BY <1>1, <1>2, <2>1, PagesKept
<1>7. ASSUME NEW g \in files' PROVE FileIsOf(g, made')
  <2>1. CASE g \in files
    BY <1>1, <2>1, FilesGrow DEF FilesInv
  <2>2. CASE g = [f EXCEPT !.vault = r.vault]
    <3>1. DOMAIN g = {"form", "vault"} /\ g.form = "json" /\ g.vault = r.vault
      BY <1>1, <1>2, <2>2 DEF FileIsOf
    <3>2. PICK w : r.vault = [f.vault EXCEPT !.wrapped = w] /\ "intact" \in DOMAIN w
      <4>1. PICK v : v = f.vault /\ r = CliRewrapV2(v, old, new)
        BY <1>1
      <4>2. PICK w : w = Seal(KdfKey(new, v.salt, v.ops, v.mem), v.wrapNonce, BuildAADV2(v),
                              v.wrapped.body)
        OBVIOUS
      <4>3. r.vault = [v EXCEPT !.wrapped = w]
        BY <1>1, <4>1, <4>2, RewrapIs
      <4>4. "intact" \in DOMAIN w
        BY <4>2 DEF Seal
      <4> QED
        BY <4>1, <4>3, <4>4
    <3>3. IsRecord(r.vault) /\ r.vault.wrapped = w /\ r.vault.ct = f.vault.ct
      BY <1>2, <3>2 DEF OfParts, IsRecord, VaultFields
    <3>4. Known(r.vault.ct, {m.vault.ct : m \in Vaults(made')})
      BY <1>1, <1>2, <3>3 DEF OfParts, Known, Vaults
    <3>5. Known(r.vault.wrapped, {m.vault.wrapped : m \in Vaults(made')})
      BY <1>3, <3>2, <3>3 DEF Known, Vaults
    <3> QED
      BY <3>1, <3>3, <3>4, <3>5 DEF FileIsOf, OfParts
  <2> QED
    BY <1>1, <2>1, <2>2
<1> QED
  BY <1>1, <1>2, <1>5, <1>6, <1>7 DEF FilesInv

-------------------------------------------------------------------------------
\* Damage leaves of a file what was known of it, or parts of other files.
LEMMA FieldDamaged ==
  ASSUME NEW history, NEW v, OfParts(v, history), NEW w,
         DOMAIN w = DOMAIN v, w.wrapped = v.wrapped, w.ct = v.ct
  PROVE  OfParts(w, history)
  BY DEF OfParts, IsRecord

\* A part from another file was made by a program, too.
LEMMA PartsTaken ==
  ASSUME NEW history, NEW v, OfParts(v, history), NEW w, OfParts(w, history), NEW x,
         DOMAIN x = DOMAIN v, x.wrapped \in {v.wrapped, w.wrapped}, x.ct \in {v.ct, w.ct}
  PROVE  OfParts(x, history)
  BY DEF OfParts, IsRecord

\* A field altered is never a ciphertext that opens.
LEMMA AlteredSo ==
  ASSUME NEW history, NEW v, OfParts(v, history), NEW f \in Fields, NEW x \in Altered(v, f)
  PROVE  OfParts(x, history)
<1>0. IsRecord(v)
  BY DEF OfParts
<1>1. CASE f = "schema"
  BY <1>0, <1>1, FieldDamaged DEF Altered, IsRecord, VaultFields
<1>2. CASE f = "version"
  BY <1>0, <1>2, FieldDamaged DEF Altered, IsRecord, VaultFields
<1>3. CASE f = "created"
  BY <1>0, <1>3, FieldDamaged DEF Altered, IsRecord, VaultFields
<1>4. CASE f = "mode"
  BY <1>0, <1>4, FieldDamaged DEF Altered, IsRecord, VaultFields
<1>5. CASE f = "ops"
  BY <1>0, <1>5, FieldDamaged DEF Altered, IsRecord, VaultFields
<1>6. CASE f = "mem"
  BY <1>0, <1>6, FieldDamaged DEF Altered, IsRecord, VaultFields
<1>7. CASE f = "salt"
  BY <1>0, <1>7, FieldDamaged DEF Altered, IsRecord, VaultFields
<1>8. CASE f = "wrapNonce"
  BY <1>0, <1>8, FieldDamaged DEF Altered, IsRecord, VaultFields
<1>9. CASE f = "contentNonce"
  BY <1>0, <1>9, FieldDamaged DEF Altered, IsRecord, VaultFields
<1>10. CASE f = "kdfAlg"
  BY <1>0, <1>10, FieldDamaged DEF Altered, IsRecord, VaultFields
<1>11. CASE f = "wrapped"
  <2>1. x = [v EXCEPT !.wrapped.intact = FALSE]
    BY <1>11 DEF Altered
  <2>2. /\ DOMAIN x = DOMAIN v /\ x.ct = v.ct
        /\ x.wrapped = [v.wrapped EXCEPT !.intact = FALSE]
    BY <1>0, <2>1 DEF IsRecord, VaultFields
  <2>3. "intact" \in DOMAIN x.wrapped /\ x.wrapped.intact = FALSE
    BY <2>2 DEF OfParts, Known
  <2> QED
    BY <2>2, <2>3 DEF OfParts, Known, IsRecord
<1>12. CASE f = "ct"
  <2>1. x = [v EXCEPT !.ct.intact = FALSE]
    BY <1>12 DEF Altered
  <2>2. /\ DOMAIN x = DOMAIN v /\ x.wrapped = v.wrapped
        /\ x.ct = [v.ct EXCEPT !.intact = FALSE]
    BY <1>0, <2>1 DEF IsRecord, VaultFields
  <2>3. "intact" \in DOMAIN x.ct /\ x.ct.intact = FALSE
    BY <2>2 DEF OfParts, Known
  <2> QED
    BY <2>2, <2>3 DEF OfParts, Known, IsRecord
<1> QED
  BY <1>1, <1>2, <1>3, <1>4, <1>5, <1>6, <1>7, <1>8, <1>9, <1>10, <1>11, <1>12 DEF Fields

\* However a file was damaged, its parts are known.
LEMMA DamagedSo ==
  ASSUME FilesInv, NEW v, OfParts(v, made), NEW x \in Damaged(v)
  PROVE  OfParts(x, made)
<1>1. IsRecord(v)
  BY DEF OfParts
<1>2. CASE x \in UNION {Altered(v, f) : f \in Fields}
  BY <1>2, AlteredSo
<1>3. CASE x \in Lacking(v)
  BY <1>1, <1>3, FieldDamaged DEF Lacking, IsRecord, VaultFields
<1>4. CASE x \in CutShort(v)
  BY <1>1, <1>4, FieldDamaged DEF CutShort, IsRecord, VaultFields
<1>5. ASSUME NEW w \in JsonVaults, x \in Spliced(v, w)
      PROVE  OfParts(x, made)
  <2>1. OfParts(w, made) /\ IsRecord(w)
    BY <1>5 DEF FilesInv, FileIsOf, OfParts, JsonVaults
  <2>2. CASE x = [v EXCEPT !.wrapped = w.wrapped]
    BY <1>1, <2>1, <2>2, PartsTaken DEF IsRecord, VaultFields
  <2>3. CASE x = [v EXCEPT !.ct = w.ct]
    BY <1>1, <2>1, <2>3, PartsTaken DEF IsRecord, VaultFields
  <2>4. CASE x = [v EXCEPT !.ct = w.ct, !.contentNonce = w.contentNonce]
    BY <1>1, <2>1, <2>4, PartsTaken DEF IsRecord, VaultFields
  <2>5. CASE x = [w EXCEPT !.wrapped = v.wrapped, !.wrapNonce = v.wrapNonce]
    BY <1>1, <2>1, <2>5, PartsTaken DEF IsRecord, VaultFields
  <2>6. CASE x = [v EXCEPT !.salt = w.salt]
    BY <1>1, <2>6, FieldDamaged DEF IsRecord, VaultFields
  <2> QED
    BY <1>5, <2>2, <2>3, <2>4, <2>5, <2>6 DEF Spliced
<1> QED
  BY <1>2, <1>3, <1>4, <1>5 DEF Damaged

\* Damage on the way keeps the invariant.
LEMMA Tampers ==
  ASSUME FilesInv, NEW f \in files, Tamper(f) \/ Truncate(f)
  PROVE  FilesInv' /\ shown' = None
<1>1. PICK g : /\ files' = (files \ {f}) \cup {g} /\ FileIsOf(g, made)
               /\ page' = page /\ next' = next /\ made' = made /\ shown' = None
  <2>0. FileIsOf(f, made)
    BY DEF FilesInv
  <2>1. CASE Tamper(f)
    <3>1. PICK v \in Damaged(f.vault) : files' = (files \ {f}) \cup {[f EXCEPT !.vault = v]}
      BY <2>1 DEF Tamper, Becomes
    <3>2. f.form = "json" /\ page' = page /\ next' = next /\ made' = made /\ shown' = None
      BY <2>1 DEF Tamper, Unopened
    <3>3. OfParts(v, made)
      BY <2>0, <3>1, <3>2, DamagedSo DEF FileIsOf
    <3>4. PICK g : g = [f EXCEPT !.vault = v]
      OBVIOUS
    <3>5. DOMAIN g = {"form", "vault"} /\ g.form = "json" /\ g.vault = v
      BY <2>0, <3>2, <3>4 DEF FileIsOf
    <3>6. FileIsOf(g, made)
      BY <3>3, <3>5 DEF FileIsOf
    <3> QED
      BY <3>1, <3>2, <3>4, <3>6
  <2>2. CASE Truncate(f)
    <3>1. PICK g : g = [f EXCEPT !.form = "cut"]
      OBVIOUS
    <3>2. DOMAIN g = {"form", "vault"} /\ g.form = "cut"
      BY <2>0, <3>1 DEF FileIsOf
    <3>3. FileIsOf(g, made)
      BY <3>2 DEF FileIsOf
    <3> QED
      BY <2>2, <3>1, <3>3 DEF Truncate, Becomes, Unopened
  <2> QED
    BY <2>1, <2>2
<1>2. HistoryInv' /\ PagesInv' /\ \A h \in files' : FileIsOf(h, made')
  BY <1>1 DEF FilesInv, HistoryInv, PagesInv, PageIsOf
<1> QED
  BY <1>1, <1>2 DEF FilesInv

-------------------------------------------------------------------------------
\* At first the pages have drawn their salts, and there is no file.
LEMMA FilesInitially == FilesInit => FilesInv
<1> SUFFICES ASSUME FilesInit PROVE FilesInv
  OBVIOUS
<1>1. /\ page["site"].salt = 1 /\ page["landing"].salt = 3 /\ page["desktop"].salt = 5
      /\ \A p \in Pages : page[p].result = None
      /\ DOMAIN page = Pages /\ files = {} /\ next = 7 /\ made = {}
  BY DEF FilesInit, Pages
<1>2. HistoryInv /\ \A f \in files : FileIsOf(f, made)
  BY <1>1 DEF HistoryInv
<1>3. PagesInv
  BY <1>1 DEF PagesInv, PageIsOf, Vaults, Pages
<1> QED
  BY <1>1, <1>2, <1>3 DEF FilesInv

\* Until a file is opened nothing is said.
LEMMA Unshown ==
  ASSUME shown' = None
  PROVE  ShownWell'
  BY DEF ShownWell, OnlyTheTruth, AnyProgramOpens, BlamesContentRightly

\* To open a file changes nothing but what is on display.
LEMMA OpeningChangesNothing ==
  ASSUME FilesInv, NEW f,
         SiteOpen(f) \/ LandingOpen(f) \/ DesktopOpen(f) \/ CliUnlock(f) \/ ProofLockOpen(f)
  PROVE  FilesInv'
<1>1. page' = page /\ files' = files /\ next' = next /\ made' = made
  BY DEF SiteOpen, LandingOpen, DesktopOpen, PageOpen, CliUnlock, ProofLockOpen, JsonOpen, Show
<1> QED
  BY <1>1 DEF FilesInv, HistoryInv, PagesInv, PageIsOf

\* Every step keeps the invariant and shows what is promised.
LEMMA FilesStep ==
  ASSUME FilesInv, FilesNext
  PROVE  FilesInv' /\ ShownWell'
<1>1. CASE SiteLock \/ LandingLock \/ DesktopLock
  BY <1>1, PageLocks, Unshown
<1>2. CASE CliLock \/ ProofLockLock
  BY <1>2, DirectLocks, Unshown
<1>3. CASE \E p \in Pages, form \in {"json", "line", "sheet"} : PageExport(p, form)
  BY <1>3, PageExports, Unshown
<1>4. CASE LegacyVault \/ NotifyArrives
  BY <1>4, VaultsArrive, Unshown
<1>5. CASE CopyChatEnvelope
  BY <1>5, ChatsArrive, Unshown
<1>6. ASSUME NEW f \in files, CliRewrap(f) PROVE FilesInv' /\ ShownWell'
  BY <1>6, Rewraps, Unshown
<1>7. ASSUME NEW f \in files, Tamper(f) \/ Truncate(f) PROVE FilesInv' /\ ShownWell'
  BY <1>7, Tampers, Unshown
<1>8. ASSUME NEW f \in files, SiteOpen(f) \/ LandingOpen(f) \/ DesktopOpen(f) \/ CliUnlock(f)
                              \/ ProofLockOpen(f)
      PROVE  FilesInv' /\ ShownWell'
  BY <1>8, OpenedSo, OpeningChangesNothing
<1>9. ASSUME SiteDownload \/ SiteCopyText \/ SiteRecoverySheet \/ LandingDownload
             \/ LandingCopyText \/ LandingRecoverySheet \/ DesktopDownload
             \/ DesktopCopyText \/ DesktopRecoverySheet
      PROVE  \E p \in Pages, form \in {"json", "line", "sheet"} : PageExport(p, form)
  BY <1>9 DEF SiteDownload, SiteCopyText, SiteRecoverySheet, LandingDownload, LandingCopyText,
              LandingRecoverySheet, DesktopDownload, DesktopCopyText, DesktopRecoverySheet, Pages
<1> QED
  BY <1>1, <1>2, <1>3, <1>4, <1>5, <1>6, <1>7, <1>8, <1>9 DEF FilesNext

LEMMA FilesStutter ==
  ASSUME FilesInv, ShownWell, UNCHANGED filesVars
  PROVE  FilesInv' /\ ShownWell'
<1>1. /\ page' = page /\ files' = files /\ next' = next /\ made' = made /\ shown' = shown
  BY DEF filesVars
<1>2. FilesInv'
  BY <1>1 DEF FilesInv, HistoryInv, PagesInv, PageIsOf
<1>3. ShownWell'
  BY <1>1 DEF ShownWell, OnlyTheTruth, AnyProgramOpens, BlamesContentRightly
<1> QED
  BY <1>2, <1>3

\* The invariant holds, for any secrets and any number of files, locks, rewraps
\* and damages.
LEMMA FilesInvariant == FilesSpec => [](FilesInv /\ ShownWell)
<1>1. FilesInit => FilesInv /\ ShownWell
  BY FilesInitially DEF FilesInit, ShownWell, OnlyTheTruth, AnyProgramOpens, BlamesContentRightly
<1>2. FilesInv /\ ShownWell /\ [FilesNext]_filesVars => (FilesInv /\ ShownWell)'
  BY FilesStep, FilesStutter
<1> QED
  BY <1>1, <1>2, PTL DEF FilesSpec

\* Damage and splicing end in a refusal, never in another text or other
\* metadata: what any program shows was locked as one text under the phrase
\* that opened it, with the very fields shown next to it (the additional data
\* of chat.js, vault.js and qev.ts).
THEOREM ShowsOnlyTheTruth == FilesSpec => []OnlyTheTruth
  BY FilesInvariant, PTL DEF ShownWell
\* What was locked on any program and arrived undamaged opens on every program
\* that reads its format (decryptVault of the copies, vault.js, qev.ts), under
\* the phrase it hears.
THEOREM OpensAnywhere == FilesSpec => []AnyProgramOpens
  BY FilesInvariant, PTL DEF ShownWell
\* The content is said to be tampered with only when the phrase was right
\* (decryptVaultV2 of the copies, explainUnlockFailure).
THEOREM BlamesRightly == FilesSpec => []BlamesContentRightly
  BY FilesInvariant, PTL DEF ShownWell
\* After qev rewrap the old phrase opens nothing, and the content is as it was
\* (rewrapVaultV2, rewrap.js), over any number of rewraps and damages.
THEOREM RotationHolds == FilesSpec => []RotatedPhraseIsGone
<1>1. FilesInv => RotatedPhraseIsGone
  BY RotatedIsGone DEF FilesInv
<1> QED
  BY <1>1, FilesInvariant, PTL
\* No two contents are ever sealed under one key and one nonce, over all
\* programs, pages and rewraps (the salt and nonces on display in chat.js are
\* renewed with each lock).
THEOREM NoncesStayFresh == FilesSpec => []NoncesAreFresh
<1>1. FilesInv => NoncesAreFresh
  BY FreshNonces DEF FilesInv
<1> QED
  BY <1>1, FilesInvariant, PTL
===============================================================================
