SPECIFICATION Spec
CONSTANTS
  alice = alice  bob = bob
  Replicas = {w1, w2}
  Entries = {1, 2}
  Data <- MCData
  Hours = 2
  Minutes = 4
  Before = 1
  After = 1
  MaxPass = 4
  MinClock = 7
  MaxClock = 11
  MaxFaults = 1
CHECK_DEADLOCK FALSE
SYMMETRY Alike
PROPERTIES
  OncePerNight PassIsComplete SnapshotsAdvance
