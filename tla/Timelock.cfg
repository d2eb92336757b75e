SPECIFICATION HSpec
CONSTANTS
  Admin = admin
  ZeroAddress = zero
  Authorizer = authorizer
  TimelockExecutor = executor
  EVERYWHERE = everywhere
  Targets = {vault}
  Vault = vault
  Act = act
  SetAuthorizer = setAuthorizer
  GENERAL = general
  NoSpecifier = none
  Actions = {setAuthorizer, act}
  MIN_DELAY = 1
  MAX_DELAY = 3
  RootTransferDelay = 2
  Users = {admin, alice}
  TriedAccounts = {alice}
  ManagedSpecifiers = {}
  GrantableIds <- MCGrantableSetAuth
  DelayableIds <- MCDelayableVault
  TriedDelays = {0, 1, 3, 4}
  TriedWheres <- OnlyVault
  TriedRoots = {admin, alice}
  ExecutorLists <- NoExecutors
  MaxTime = 5
  MaxExecutions = 3
INVARIANTS HInv DelayHonoured RootChainOfCustody
PROPERTIES SettledOnce OnlyTheTimelockReconfigures
CHECK_DEADLOCK FALSE
