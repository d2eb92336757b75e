SPECIFICATION Spec
CONSTANTS
  AmountSize = 3
  BlockSize = 4
  Pools = {pool}
  Specializations = {"TWO_TOKEN"}
  Tokens = {1, 2}
  AssetManagers = {manager}
  NoManager = none
  RegisteredLists <- OnePair
  DeregisteredLists <- RepeatedToken
  Amounts = {0, 1}
  FeeAmounts = {0, 1}
  MaxPools = 1
  FirstBlock = 1
  MaxBlock = 2
INVARIANTS NonzeroMeansRegistered
CHECK_DEADLOCK FALSE
