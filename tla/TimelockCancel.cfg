SPECIFICATION Spec
CONSTANTS
  Admin = admin
  ZeroAddress = zero
  Authorizer = authorizer
  TimelockExecutor = executor
  EVERYWHERE = everywhere
  Targets = {vault}
  Vault = vault
  Act = act
  SetAuthorizer = setAuthorizer
  GENERAL = general
  NoSpecifier = none
  Actions = {setAuthorizer, act}
  MIN_DELAY = 1
  MAX_DELAY = 1
  RootTransferDelay = 1
  Users = {admin, alice}
  TriedAccounts = {admin, alice}
  ManagedSpecifiers <- MCGrantable
  GrantableIds <- MCGrantable
  DelayableIds <- MCDelayableGrants
  TriedDelays = {1}
  TriedWheres <- OnlyVault
  TriedRoots = {}
  ExecutorLists <- NoExecutors
  MaxTime = 2
  MaxExecutions = 3
INVARIANT SchedulersMayCancel
CHECK_DEADLOCK FALSE
