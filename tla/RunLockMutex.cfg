CONSTANTS
  None = None
  Manager = {m1, m2, m3}
  MaxDeaths = 0
SPECIFICATION Spec
INVARIANTS
  MutualExclusion
CHECK_DEADLOCK FALSE
