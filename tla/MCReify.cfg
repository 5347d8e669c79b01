CONSTANTS
  None = None
  Label = {0, 1, 2, 3}
  NodesPerWord = 3
  WordsPerChunk = 2
  NodesPerTagWord = 2
  CloseWordsPerTask = 1
  CompactNodesPerTask = 2
  Inputs <- MCInputs
SPECIFICATION MCSpec
INVARIANTS
  LineagesKept
  DescentInverts
  ClausesFollow
  AccountingHolds
  PlanDivides
  PlanShallow
CHECK_DEADLOCK FALSE
