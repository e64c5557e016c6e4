--------------------------- MODULE MCVaultTransfer ---------------------------
(* Two vaults, the reader and one more peer. *)
EXTENDS VaultTransfer
=============================================================================
