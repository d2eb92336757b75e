SPECIFICATION VaultConsentSpec
CONSTANTS
  Alice = alice
  Bob = bob
  APool = apool
  BPool = bpool
  Pools = {apool, bpool}
  Tokens = {dai}
  Accounts = {alice, bob}
  TheVault = vault
  FeesCollector = collector
  AssetManagerOf <- BobManages
  Supply = 3
  Amounts = {1, 2}
  SwapAmounts = {0, 1, 2}
  FeeAmounts = {0, 1}
  MaxBalance = 3
  MaxHops = 0
  MaxDepth = 2
  PauseWindowEndTime = 0
  BufferPeriodEndTime = 0
  MaxTime = 0
  Users = {"user"}
  Relayers = {"r1", "r2"}
  Minters = {"r1"}
  Reviewed = {"r2"}
  Anyone = Anyone
  NotGiven = NotGiven
  NoSignature = NoSignature
  VaultCalldata <- MCCalldata
  Requests <- MCRequests
  MAX_DEADLINE = 9
  MaxBlockTime = 1
  MaxSignatures = 2
  MaxCalls = 3
INVARIANTS TypeOK BooksBalance Solvent EveryCallConsented
CHECK_DEADLOCK FALSE
