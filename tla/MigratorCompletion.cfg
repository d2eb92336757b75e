SPECIFICATION MigratorSpec
CONSTANTS
  RoleLists <- MCLists
  MaxCounter = 63
  Batches = {1, 2, 5, 63}
INVARIANT RevokersTellCompletion
