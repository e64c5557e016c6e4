---------------------------- MODULE MCSqliteStore ----------------------------
(* Small instances of SqliteStore.                                         *)
EXTENDS SqliteStore, TLC

CONSTANT MaxStamp     \* bound on the clock's readings

MCStamps == 0..MaxStamp

Symmetry == Permutations(Users) \cup Permutations(Ids)
==============================================================================
