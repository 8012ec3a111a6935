SPECIFICATION FairSpec
CONSTANTS
  alice = alice  bob = bob
  Entries = {1, 2, 3, 4}
  Data <- MCData
  Queries <- MCQueries
  customer = customer  key = key
  AuthKey = key
  Owned <- MCOwned
  DefaultLimit = 2
  MaxLimit = 3
  MaxTime = 3
  None = None
CHECK_DEADLOCK FALSE
INVARIANTS
  PagesDescend NothingDueIsMissed StatementAddsUp
PROPERTY
  PagingEnds
