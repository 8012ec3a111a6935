SPECIFICATION FairSpec
CONSTANTS
  Holders = {h1}
  Slots = {s1, s2}
  MaxAccounts = 2
  MaxPostings = 1
  MaxFaults = 2
  None = None
INVARIANTS
  CreatedStands EventsAreTrue ClosedWasEmpty
PROPERTY
  CacheConverges
CHECK_DEADLOCK FALSE
