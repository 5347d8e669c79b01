CONSTANTS
  Worker = {w1, w2}
  None = None
  Branch = {0, 1}
  Quantum = 2
  FirstHeight = 2
  LastHeight = 4
  FirstTrees <- MCFirstTrees
  Kept <- MCKept
SPECIFICATION GatesSpec
INVARIANTS
  ReturnComplete
  RangesDivide
CHECK_DEADLOCK FALSE
