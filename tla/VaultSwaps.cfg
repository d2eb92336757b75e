SPECIFICATION Spec
CONSTANTS
  Alice = alice
  Bob = bob
  APool = apool
  BPool = bpool
  Pools = {apool}
  Tokens = {dai, weth}
  Accounts = {alice, bob}
  TheVault = vault
  FeesCollector = collector
  AssetManagerOf <- BobManages
  Supply = 1
  Amounts = {1}
  SwapAmounts = {0, 1}
  FeeAmounts = {0, 1}
  MaxBalance = 1
  MaxHops = 2
  MaxDepth = 2
  PauseWindowEndTime = 1
  BufferPeriodEndTime = 2
  MaxTime = 3
INVARIANTS ReadsAreFresh OnlyRegisteredTokensHaveBalance
PROPERTIES PausedOnlyDrains PausedDrainsPools
CHECK_DEADLOCK FALSE
