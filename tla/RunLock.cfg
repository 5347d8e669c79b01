CONSTANTS
  None = None
  Manager = {m1, m2, m3}
  MaxDeaths = 2
SPECIFICATION Spec
INVARIANTS
  ExclusiveUncontended
  LossUncontended
  RefusedByTheLiving
CHECK_DEADLOCK FALSE
