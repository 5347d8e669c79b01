CONSTANTS
  None = None
  Parts = 2
  Traversals = {"dfs"}
  Retentions = {"keep", "delete", "archive"}
  Pending = FALSE
  Narrow <- RootNarrow
  MaxPartitions = 1
  MaxHeight = 2
  MaxAttempts = 6
  Orphans = {"split"}
  MaxCrashes = 1
  MaxSignals = 0
  MaxDeaths = 1
  MaxLows = 1
  MaxTroubles = 1
SPECIFICATION FairSpec
INVARIANTS
  LiveKept
  NothingLost
PROPERTIES
  Terminates
CHECK_DEADLOCK FALSE
