CONSTANTS
  None = None
  Parts = 2
  Traversals = {"dfs", "bfs"}
  Retentions = {"keep"}
  Pending = TRUE
  Narrow <- AllWide
  MaxPartitions = 2
  MaxHeight = 2
  MaxAttempts = 20
  Orphans = {"split"}
  MaxCrashes = 2
  MaxSignals = 1
  MaxDeaths = 1
  MaxLows = 0
  MaxTroubles = 2
SPECIFICATION Spec
INVARIANTS
  Restartable
  DigitsExact
  ProgressConserved
PROPERTIES
  LedgerKept
  PauseHolds
  ShallowestFirst
