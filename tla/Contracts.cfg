SPECIFICATION Spec
CONSTANTS
  PauseWindowEndTime = 90
  BufferPeriodEndTime = 120
  MaxTime = 125
  RoleLists <- MCLists
  MaxCounter = 63
  Batches = {1, 2, 5, 63}
  ONE = 10000
  PowError = 1
  MaxInRatio = 3000
  MaxOutRatio = 3000
  MaxInvariantRatio = 30000
  MinInvariantRatio = 7000
  MaxUint = 2000000000
  MinimumBpt = 1000
  MinSwapFee = 1
  MaxSwapFee = 1000
  JoinRequests <- MCJoins
  ExitRequests <- MCExits
  SwapAmounts = {1000}
  SwapFees = {0, 1, 1000, 1001}
  InitialFees <- MCInitialFees
  FeePercentages = {5000}
  Rates = {10000, 12100}
  Slack = 3
  MaxOperations = 5
  MaxWeightedTokens = 8
  Tolerance = 20
  Cases <- MCCases
  WeightLists <- MCWeightLists
  AMP_PRECISION = 1
  MaxIterations = 255
  PremintedBalance = 32768
  StableSetups <- MCSetups
  InitialAmounts <- MCInitialAmounts
  StableAmounts = {300}
  ComparedAmounts = {50, 300}
  StableSlack = 3
  MaxStableSteps = 3
  StableTolerance = 6
INVARIANTS MigratedFaithfully NeverDrained LimitsAreAccepted
INVARIANTS WeightedMathFavoursThePool WeightsAddUp StableMathFavoursThePool
PROPERTIES UnpausedForever NoPauseAfterWindow MigrationEnds PoolKeepsItsValue FeesChargedOnce
PROPERTIES StableShareNeverFalls
CHECK_DEADLOCK FALSE
