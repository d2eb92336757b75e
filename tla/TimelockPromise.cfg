SPECIFICATION PSpec
CONSTANTS
  Admin = admin
  ZeroAddress = zero
  Authorizer = authorizer
  TimelockExecutor = executor
  EVERYWHERE = everywhere
  Targets = {vault}
  Vault = vault
  SetAuthorizer = setAuthorizer
  GENERAL = general
  NoSpecifier = none
  Actions = {setAuthorizer}
  MIN_DELAY = 1
  MAX_DELAY = 3
  RootTransferDelay = 2
  Users = {admin}
  TriedAccounts = {admin}
  ManagedSpecifiers = {}
  GrantableIds = {}
  DelayableIds <- MCDelayableVault
  TriedDelays = {0, 1, 3, 4}
  TriedWheres <- OnlyVault
  TriedRoots = {}
  ExecutorLists <- NoExecutors
  MaxTime = 6
  MaxExecutions = 3
INVARIANT NeverSoonerThanCurrentDelay
CHECK_DEADLOCK FALSE
