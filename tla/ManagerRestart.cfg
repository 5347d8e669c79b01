CONSTANTS
  None = None
  Parts = 2
  Traversals = {"dfs"}
  Retentions = {"delete"}
  Pending = FALSE
  Narrow <- AllWide
  MaxPartitions = 1
  MaxHeight = 1
  MaxAttempts = 20
  Orphans = {}
  MaxCrashes = 1
  MaxSignals = 0
  MaxDeaths = 0
  MaxLows = 0
  MaxTroubles = 1
SPECIFICATION Spec
INVARIANTS
  Restartable
