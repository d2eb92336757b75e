SPECIFICATION OffchainSpec
CONSTANTS
  Sites <- AllSites
  Outputs <- MCOutputs
  Pools <- MCPools
  Abi <- MCAbi
  Aware <- MCAware
  Adaptor <- TheAdaptor
  FactoryOf <- MCFactoryOf
  ignored = {"kill"}
  MaxChanges = 2
  None = none
  TaskNames <- MCTaskNames
  BuildsOf <- MCBuildsOf
  Missing = missing
  Inputs <- MCInputs
  MaxImports = 2
  Absent = absent
INVARIANTS UnforcedRunsAgree CheckVouches DeploymentsAccountedFor ForcedRunsRepair NoCircularWait
INVARIANTS CheckVouchesForIds GrantsReachOnlyExpected ArtifactsAgree TrimmedInputIsExact
PROPERTIES RunningAgainCompletes ResavingIsHarmless
CHECK_DEADLOCK FALSE
