SPECIFICATION TransferSpec
CONSTANTS
  Recipients = {"reader", "other"}
  Reader = "reader"
  Vaults = {"v", "w"}
  MaxSends = 2
INVARIANTS
  OpenBringsVault
CHECK_DEADLOCK FALSE
