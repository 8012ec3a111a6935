SPECIFICATION Spec
CONSTANTS
  Sids = {s1, s2, s3}
  Users = {u1, u2}
  Calls = {c1, c2}
  None = None
SYMMETRY Symmetry
INVARIANTS
  FamilyIsSpent SpentTokenRefused SweepIsComplete CachedIsRevoked
CHECK_DEADLOCK FALSE
