SPECIFICATION Spec
CONSTANTS
  alice = alice  bob = bob
  Replicas = {w1}
  Entries = {1, 2}
  Data <- MCData
  Hours = 2
  Minutes = 4
  Before = 1
  After = 1
  MaxPass = 4
  MinClock = 4
  MaxClock = 10
  MaxFaults = 0
CHECK_DEADLOCK FALSE
INVARIANT
  RunsNightly
