SPECIFICATION GatewayFairSpec
CONSTANTS
  user = user  address = address  key = key
  Calls = {c1, c2}
  Threshold = 2
  MaxDrops = 1
  None = None
  Requests <- MCRequests
  KeySet <- MCKeySet
  Leeway = 1
  Limit <- MCLimit
  Window = 2
  MaxTime = 3
  MaxFaults = 1
CHECK_DEADLOCK FALSE
INVARIANT
  WindowLimit
PROPERTIES
  OpensOnThreshold UsesBreaker ProbeDecides
