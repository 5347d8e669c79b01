CONSTANTS
  a = a
  b = b
  N = 3
  NoLeaf = NoLeaf
  Leaf <- MCLeaf
  Inputs <- MCInputs
SPECIFICATION PartialSpec
INVARIANTS
  RetentionExact
  GateExact
  ExhaustionSound
  CaptureSound
  PartialShown
  ClausesRecoverGate
CHECK_DEADLOCK FALSE
