-------------------------------- MODULE QevCli --------------------------------
(***************************************************************************)
(* The command line, await by await: qev-cli/bin/qev.js and lib/prompt.js. *)
(* Processes run in several terminals over the same files.  A process      *)
(* reads its input, prompts for phrases key by key in raw mode, derives,   *)
(* and prints its result or writes it to a file.  writeFile empties the    *)
(* file when it opens it and then writes from its beginning: a process     *)
(* that opens a file another has open empties it under the other's hands,  *)
(* and a longer vault written first leaves its tail behind a shorter one.  *)
(* A process may be killed, or find the disk full, anywhere.               *)
(*                                                                         *)
(* The prompts are as prompt.js means them, which Node does not quite      *)
(* grant: after setEncoding(undefined) a chunk is a string and no byte of  *)
(* it is ever Enter or Ctrl-C, and a terminal whose stdin has ended is not *)
(* read again.  ChunksAreBytes and StdinOutlivesEof, both TRUE, stand for  *)
(* what is meant; with either of them FALSE fewer runs get to the end.     *)
(***************************************************************************)
EXTENDS VaultPrograms

CONSTANTS
  Files,              \* paths
  Terminals,          \* where a process may run
  Stdins,             \* what stdin may be: a subset of {"tty", "pipe"}
  Stdout,             \* where qev lock prints without --out
  Texts,              \* what may be locked
  PrintedSize,        \* per text: the size of the file its vault makes
  Chunks,             \* what one read of a raw terminal may bring
  ChunksAreBytes,     \* as meant: a chunk after setEncoding(undefined) is bytes
  StdinOutlivesEof,   \* as meant: a terminal can be read again after Ctrl-D
  MaxPhrase,          \* bound: length of a phrase
  MaxRuns, MaxFaults  \* bounds: processes started, kills and failed writes

\* Sizes that differ do so by more than the final newline, behind which a tail
\* would do no harm; one write carries a whole vault (those under 512 KiB).
ASSUME TextsHaveSizes ==
  /\ "short" \in Texts /\ "" \notin Texts
  /\ PrintedSize \in [Texts -> Nat \ {0}]
ASSUME StdoutIsNoFile == Stdout \notin Files

VARIABLES
  disk,     \* per path: absent, torn (no JSON), or a vault
  proc,     \* per terminal: the process running there, or its end
  runs, faults,
  told,     \* history: what the last "wrote FILE" made the user believe
  cut,      \* history: the paths with a write cut short since then
  shared    \* history: the paths last opened while another was writing them

cliVars == <<disk, proc, runs, faults, told, cut, shared>>

Nothing == [kind |-> "none"]
Size(v) == PrintedSize[v.ct.body]      \* a rewrap keeps it
Absent == [kind |-> "absent", size |-> 0]
Torn(size) == [kind |-> "torn", size |-> size]
Intact(v) == [kind |-> "vault", vault |-> v, size |-> Size(v)]

Typed(p) == [typed |-> p, latin |-> FALSE]
Locked(text, phrase, n) ==
  CliEncryptV2(text, Typed(phrase), "self", LockPresets.quick, "now",
               [salt |-> n, wrapNonce |-> n, contentNonce |-> n, key |-> <<n>>])

\* Two files from earlier days, one of them never written.
CliInit ==
  \E f \in Files :
    /\ disk = [g \in Files |-> IF g = f THEN Intact(Locked("short", "a", 0)) ELSE Absent]
    /\ told = [g \in Files |-> IF g = f THEN [text |-> "short", phrase |-> "a"] ELSE Nothing]
    /\ proc = [t \in Terminals |-> Nothing]
    /\ runs = 0 /\ faults = 0 /\ cut = {} /\ shared = {}

PhrasesAsked(cmd) == CASE cmd = "lock" -> 2 [] cmd = "unlock" -> 1 [] cmd = "rewrap" -> 3

Process(cmd, file, out, stdin) ==
  [cmd |-> cmd, file |-> file, out |-> out, stdin |-> stdin, pc |-> "read",
   text |-> "", vault |-> Nothing, buf |-> "", phrases |-> <<>>, said |-> "",
   doubt |-> FALSE]

At(t, pc) == proc[t] # Nothing /\ proc[t].pc = pc
Running(t) == proc[t] # Nothing /\ proc[t].pc \notin {"ok", "failed"}
End(p, how, said) == [p EXCEPT !.pc = how, !.said = said]
BeingWritten(f) == \E t \in Terminals : At(t, "writing") /\ proc[t].out = f

\* A file may be no vault: none was announced, or a write into it is under
\* way, was cut short, or met another one.  A process remembers it of the file
\* it reads.
InDoubt(f) == told[f] = Nothing \/ f \in cut \cup shared \/ BeingWritten(f)

---------------------------------------------------------------------------
\* main and the argument checks; an invocation with bad arguments or with a
\* phrase on the command line ends before anything happens and is left out.
Start(t) ==
  /\ ~Running(t)
  /\ runs < MaxRuns
  /\ runs' = runs + 1
  /\ \E cmd \in {"lock", "unlock", "rewrap"}, file, out \in Files \cup {Stdout},
        stdin \in Stdins :
       /\ cmd # "lock" => file # Stdout /\ out # Stdout
       /\ cmd # "rewrap" => out = file
       /\ proc' = [proc EXCEPT ![t] = Process(cmd, file, out, stdin)]
  /\ UNCHANGED <<disk, faults, told, cut, shared>>

\* qev lock reads its plaintext up to the end of stdin.
ReadPlaintext(t) ==
  /\ At(t, "read") /\ proc[t].cmd = "lock"
  /\ \E text \in Texts \cup {""} :
       proc' = [proc EXCEPT ![t] = IF text = "" THEN End(@, "failed", "empty")
                                   ELSE [@ EXCEPT !.text = text, !.pc = "ask"]]
  /\ UNCHANGED <<disk, runs, faults, told, cut, shared>>

ReadVault(t) ==
  LET f == disk[proc[t].file]
      p == [proc[t] EXCEPT !.doubt = InDoubt(proc[t].file)]
  IN
  /\ At(t, "read") /\ proc[t].cmd # "lock"
  /\ proc' = [proc EXCEPT ![t] =
                CASE f.kind = "absent" -> End(p, "failed", "unreadable")
                  [] f.kind = "torn" -> End(p, "failed", "not JSON")
                  [] f.kind = "vault" -> [p EXCEPT !.vault = f.vault, !.pc = "ask",
                                                   !.text = f.vault.ct.body]]
  /\ UNCHANGED <<disk, runs, faults, told, cut, shared>>

\* promptPhrase: refused unless stdin is a terminal.
Ask(t) ==
  /\ At(t, "ask")
  /\ proc' = [proc EXCEPT ![t] = IF @.stdin = "tty" THEN [@ EXCEPT !.pc = "prompt", !.buf = ""]
                                 ELSE End(@, "failed", "not a terminal")]
  /\ UNCHANGED <<disk, runs, faults, told, cut, shared>>

\* One read of the raw terminal.  The loop over its bytes stops at the first
\* Enter, Ctrl-C or Ctrl-D; what follows in the same read is dropped.
Enders == {"CR", "ETX", "EOT"}
Edit(buf, key) == IF key = "BS" THEN SubSeq(buf, 1, Len(buf) - 1) ELSE buf \o key
Keys(t) ==
  /\ At(t, "prompt")
  /\ proc[t].cmd = "lock" => StdinOutlivesEof
  /\ \E chunk \in Chunks :
       LET ends == {i \in DOMAIN chunk : chunk[i] \in Enders}
           end == IF ends = {} THEN 0 ELSE CHOOSE i \in ends : \A j \in ends : i <= j
           edits == SubSeq(chunk, 1, IF end = 0 THEN Len(chunk) ELSE end - 1)
           typed[i \in 0..Len(edits)] ==
             IF i = 0 THEN proc[t].buf ELSE Edit(typed[i - 1], edits[i])
           buf == typed[Len(edits)]
           done == [proc[t] EXCEPT !.phrases = Append(@, buf), !.buf = "",
                      !.pc = IF Len(proc[t].phrases) + 1 < PhrasesAsked(proc[t].cmd)
                             THEN "ask" ELSE "asked"]
       IN /\ Len(buf) <= MaxPhrase
          /\ proc' = [proc EXCEPT ![t] =
               CASE ~ChunksAreBytes -> @
                 [] end = 0 -> [@ EXCEPT !.buf = buf]
                 [] chunk[end] = "ETX" \/ (chunk[end] = "EOT" /\ buf = "") ->
                      End(@, "failed", "aborted")
                 [] OTHER -> done]
  /\ UNCHANGED <<disk, runs, faults, told, cut, shared>>

---------------------------------------------------------------------------
\* What explainUnlockFailure says of an error, by the words of its message.
Category(err) ==
  CASE err = "unsupported" -> "unsupported format"
    [] err \in {"malformed", "range", "large"} -> "malformed or damaged vault"
    [] err \in {"auth", "content", "same"} -> "authentication failed"
    [] OTHER -> "unknown"

\* The phrases are all there: compared if they were asked twice, then used.
Old(p) == Typed(p.phrases[1])
New(p) == p.phrases[Len(p.phrases)]
ConfirmedBlindly(p) == TRUE
Confirmed(p) == p.phrases[Len(p.phrases) - 1] = New(p)
Derive(t) ==
  LET p == proc[t] IN
  /\ At(t, "asked")
  /\ proc' = [proc EXCEPT ![t] =
       CASE p.cmd = "unlock" ->
              LET r == CliDecryptV2(p.vault, Old(p))
              IN IF r.ok THEN End([@ EXCEPT !.text = r.text], "ok", "opened")
                 ELSE End(@, "failed", Category(r.err))
         [] p.cmd # "unlock" /\ ~Confirmed(p) -> End(@, "failed", "mismatch")
         [] p.cmd = "lock" /\ Confirmed(p) ->
              IF New(p) = "" THEN End(@, "failed", "no phrase")
              ELSE [@ EXCEPT !.vault = Locked(p.text, New(p), runs), !.pc = "write"]
         [] p.cmd = "rewrap" /\ Confirmed(p) ->
              LET r == CliRewrapV2(p.vault, Old(p), Typed(New(p)))
              IN IF r.ok THEN [@ EXCEPT !.vault = r.vault, !.pc = "write"]
                 ELSE End(@, "failed", Category(r.err))]
  /\ UNCHANGED <<disk, runs, faults, told, cut, shared>>

\* qev lock without --out.
PrintVault(t) ==
  /\ At(t, "write") /\ proc[t].out = Stdout
  /\ proc' = [proc EXCEPT ![t] = End(@, "ok", "printed")]
  /\ UNCHANGED <<disk, runs, faults, told, cut, shared>>

\* writeFile opens the file, which empties it,
OpensSo(t, content) ==
  LET f == proc[t].out IN
  /\ At(t, "write") /\ f # Stdout
  /\ proc' = [proc EXCEPT ![t].pc = "writing"]
  /\ disk' = [disk EXCEPT ![f] = content]
  /\ shared' = IF BeingWritten(f) THEN shared \cup {f} ELSE shared \ {f}
  /\ UNCHANGED <<runs, faults, told, cut>>
OpenOutputKeepingOld(t) == OpensSo(t, disk[proc[t].out])
OpenOutput(t) == OpensSo(t, Torn(0))

\* and writes the vault over what is there by then.
Over(f, v) == IF f.size > Size(v) THEN Torn(f.size) ELSE Intact(v)
Write(t) ==
  LET p == proc[t] IN
  /\ At(t, "writing")
  /\ disk' = [disk EXCEPT ![p.out] = Over(@, p.vault)]
  /\ told' = [told EXCEPT ![p.out] = [text |-> p.text, phrase |-> New(p)]]
  /\ cut' = cut \ {p.out}
  /\ proc' = [proc EXCEPT ![t] = End(@, "ok", "wrote")]
  /\ UNCHANGED <<runs, faults, shared>>

\* The file cannot be opened,
OpenFails(t) ==
  /\ faults < MaxFaults
  /\ At(t, "write") /\ proc[t].out # Stdout
  /\ proc' = [proc EXCEPT ![t] = End(@, "failed", "could not write")]
  /\ faults' = faults + 1
  /\ UNCHANGED <<disk, runs, told, cut, shared>>

\* or the disk is full when the write goes beyond what is there.
WriteFails(t) ==
  LET f == proc[t].out IN
  /\ faults < MaxFaults
  /\ At(t, "writing")
  /\ \E n \in disk[f].size .. (Size(proc[t].vault) - 1) : disk' = [disk EXCEPT ![f] = Torn(n)]
  /\ cut' = cut \cup {f}
  /\ proc' = [proc EXCEPT ![t] = End(@, "failed", "could not write")]
  /\ faults' = faults + 1
  /\ UNCHANGED <<runs, told, shared>>

\* A process is killed; if it was writing, the one write may have been done.
Killed(t) ==
  LET f == proc[t].out IN
  /\ faults < MaxFaults
  /\ Running(t)
  /\ proc' = [proc EXCEPT ![t] = Nothing]
  /\ IF At(t, "writing")
     THEN /\ disk' \in {disk, [disk EXCEPT ![f] = Over(@, proc[t].vault)]}
          /\ cut' = cut \cup {f}
     ELSE UNCHANGED <<disk, cut>>
  /\ faults' = faults + 1
  /\ UNCHANGED <<runs, told, shared>>

CliNext == \E t \in Terminals :
  \/ Start(t) \/ ReadPlaintext(t) \/ ReadVault(t) \/ Ask(t) \/ Keys(t)
  \/ Derive(t) \/ PrintVault(t) \/ OpenOutput(t) \/ Write(t)
  \/ OpenFails(t) \/ WriteFails(t) \/ Killed(t)

CliSpec == CliInit /\ [][CliNext]_cliVars

---------------------------------------------------------------------------
\* Properties

\* The types of the state: only files are written, and only by those who opened
\* them.
CliTypeOK ==
  /\ \A f \in Files : disk[f].kind \in {"absent", "torn", "vault"} /\ disk[f].size \in Nat
  /\ \A t \in Terminals : proc[t] # Nothing =>
       /\ proc[t].pc \in {"read", "ask", "prompt", "asked", "write", "writing", "ok", "failed"}
       /\ proc[t].out \in (IF proc[t].pc = "writing" THEN Files ELSE Files \cup {Stdout})
       /\ Len(proc[t].phrases) <= PhrasesAsked(proc[t].cmd)
       /\ Len(proc[t].buf) <= MaxPhrase
  /\ runs \in 0..MaxRuns /\ faults \in 0..MaxFaults
  /\ cut \subseteq Files /\ shared \subseteq Files

\* A file that qev said it wrote opens with the phrase that was confirmed for
\* it and gives back the text, through any later run that fails, is aborted
\* or is killed, in any terminal, except for a write into that very file that
\* is under way or was cut short.  Where two terminals wrote the file at once
\* the last one to say so decides: the file opens as it said, or it is torn by
\* the tail of the longer vault; it never opens as anything else.
WrittenFilesOpen ==
  \A f \in Files :
    told[f] # Nothing /\ f \notin cut /\ ~BeingWritten(f) =>
      \/ /\ disk[f].kind = "vault"
         /\ CliDecryptV2(disk[f].vault, Typed(told[f].phrase)) = Plain(told[f].text)
      \/ f \in shared /\ disk[f].kind = "torn"

\* A file is replaced only for a phrase that is not empty and was typed the
\* same way twice, and by rewrap only for a phrase other than the old one,
\* under which the vault to be written opens (rewrap.js:32-117).
ReplacedOnPurpose ==
  [][\A f \in Files : disk'[f] # disk[f] =>
       \E t \in Terminals :
         /\ (At(t, "write") \/ At(t, "writing")) /\ proc[t].out = f
         /\ New(proc[t]) # ""
         /\ proc[t].phrases[Len(proc[t].phrases) - 1] = New(proc[t])
         /\ proc[t].cmd = "rewrap" =>
              /\ proc[t].phrases[1] # New(proc[t])
              /\ Opens(proc[t].vault.wrapped,
                       KdfKey(Typed(New(proc[t])), proc[t].vault.salt,
                              proc[t].vault.ops, proc[t].vault.mem),
                       proc[t].vault.wrapNonce, CliAADV2(proc[t].vault))]_cliVars

\* What qev says of a failure agrees with the file it read.  A file that was
\* announced, that no one was writing and whose writes were neither cut short
\* nor met is never called missing or no JSON, even when it is being opened
\* from another terminal a moment later; a vault opens under its phrase, and
\* any other phrase is an authentication failure, never a damaged file.
FailureIsExplained ==
  \A t \in Terminals :
    proc[t] # Nothing /\ proc[t].pc = "failed" =>
      LET p == proc[t] IN
      /\ p.said \in {"unreadable", "not JSON"} => p.doubt
      /\ p.cmd = "unlock" /\ p.phrases # <<>> =>
           /\ p.vault.wrapped.key[1] # Typed(p.phrases[1])
           /\ p.said = IF p.phrases[1] = "" THEN "unknown" ELSE "authentication failed"

\* What qev says is true: of a file it wrote, and of one it could not unlock.
QevKeepsItsWord == WrittenFilesOpen /\ FailureIsExplained

=============================================================================
