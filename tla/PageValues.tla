------------------------------ MODULE PageValues ------------------------------
(***************************************************************************)
(* What the models of the pages share: null, and commands under way, of    *)
(* which any may be the next to answer.                                    *)
(***************************************************************************)
EXTENDS Naturals, Sequences, FiniteSets

None == "none"
Without(s, i) == SubSeq(s, 1, i - 1) \o SubSeq(s, i + 1, Len(s))

=============================================================================
