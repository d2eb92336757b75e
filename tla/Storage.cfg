SPECIFICATION Spec
CONSTANTS
  AmountSize = 3
  BlockSize = 4
  Pools = {pool}
  Specializations = {"GENERAL", "MINIMAL_SWAP_INFO", "TWO_TOKEN"}
  Tokens = {1, 2, 3}
  AssetManagers = {manager}
  NoManager = none
  RegisteredLists <- ListsToRegister
  DeregisteredLists <- ListsToDeregister
  Amounts = {0, 1, 2}
  FeeAmounts = {0, 1}
  MaxPools = 1
  FirstBlock = 1
  MaxBlock = 2
INVARIANTS TypeOK StorageInv
PROPERTY ImplementsPoolLedger
CHECK_DEADLOCK FALSE
