SPECIFICATION Spec
CONSTANTS
  Phones = {p1}
  Pins = {n1}
  Slots = {s1, s2}
  Limit = 1
  MaxCodes = 3
  MaxChallenges = 1
  MaxFaults = 1
  None = None
SYMMETRY Symmetry
INVARIANTS
  TextsBounded ChallengeOnce
PROPERTY
  GrantedIsSpent
CHECK_DEADLOCK FALSE
