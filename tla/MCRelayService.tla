---------------------------- MODULE MCRelayService ---------------------------
(* Small instances of RelayService.                                        *)
EXTENDS RelayService, TLC

CONSTANT MaxStamp     \* bound on the clock's readings

MCStamps == 0..MaxStamp
MCSize == [id \in Ids |-> 2]

Symmetry == Permutations(Users) \cup Permutations(Ids) \cup Permutations(Conns)
==============================================================================
