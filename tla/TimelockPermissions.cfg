SPECIFICATION Spec
CONSTANTS
  Admin = admin
  ZeroAddress = zero
  Authorizer = authorizer
  TimelockExecutor = executor
  EVERYWHERE = everywhere
  Targets = {vault}
  Vault = vault
  Act = act
  SetAuthorizer = setAuthorizer
  GENERAL = general
  NoSpecifier = none
  Actions = {setAuthorizer, act}
  MIN_DELAY = 1
  MAX_DELAY = 1
  RootTransferDelay = 2
  Users = {admin, alice}
  TriedAccounts = {alice}
  ManagedSpecifiers <- MCGrantableSetAuth
  GrantableIds <- MCGrantableSetAuth
  DelayableIds <- MCDelayableSetAuthGrants
  TriedDelays = {1}
  TriedWheres <- OnlyVault
  TriedRoots = {alice}
  ExecutorLists <- OneExecutor
  MaxTime = 3
  MaxExecutions = 3
PROPERTIES GrantDelaysRespected
CHECK_DEADLOCK FALSE
