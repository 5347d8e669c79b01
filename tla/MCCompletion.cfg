CONSTANTS
  a = a
  b = b
  N = 3
  NoLeaf = NoLeaf
  Leaf <- MCLeaf
  Inputs <- MCInputs
SPECIFICATION Spec
INVARIANTS
  DetectionExact
  BoardCompletes
CHECK_DEADLOCK FALSE
