---------------------------- MODULE MCVaultTools ----------------------------
(***************************************************************************)
(* The vault tools on small instances: vault files between the programs    *)
(* (VaultFiles) and the command line await by await (QevCli).  They share  *)
(* the codecs and no state, so every behaviour shows one of them.          *)
(***************************************************************************)
EXTENDS QevCli, VaultFiles

LOCAL INSTANCE TLC

VARIABLE tool

\* Two texts under one phrase, so that parts of one vault may be spliced into
\* the other; the second phrase is the wrong one, and the new one of a rewrap.
MCSecrets == {[text |-> "t", typed |-> "p", mode |-> "self"],
              [text |-> "u", typed |-> "p", mode |-> "share"]}

\* Reads of single keys, a typed line, and a pasted text of two lines.
MCChunks == {<<"a">>, <<"b">>, <<"BS">>, <<"CR">>, <<"ETX">>, <<"EOT">>,
             <<"a", "CR", "b", "CR">>}

\* A long text makes a longer vault than a short one.
MCPrintedSize == [text \in {"short", "long"} |-> IF text = "short" THEN 1 ELSE 2]

\* Terminals are all alike.
AnyTerminals == Permutations(Terminals)

\* What a behaviour is not about stays in one of its initial states.
Init ==
  /\ tool \in {"files", "cli"}
  /\ FilesInit /\ CliInit
  /\ tool = "cli" \/ disk[CHOOSE f \in Files : TRUE] # Absent

Next ==
  \/ tool = "files" /\ FilesNext /\ UNCHANGED <<tool, cliVars>>
  \/ tool = "cli" /\ CliNext /\ UNCHANGED <<tool, filesVars>>

Spec == Init /\ [][Next]_<<tool, filesVars, cliVars>>

---------------------------------------------------------------------------
\* The properties between the programs are those of VaultFiles, and those of the
\* command line those of QevCli.

\* The types of the states.
TypesOK == FilesTypeOK /\ CliTypeOK

=============================================================================
