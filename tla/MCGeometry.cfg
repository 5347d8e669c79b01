CONSTANTS
  Movements <- MCMovements
  Columns <- MCColumns
  EdgePairs <- MCEdgePairs
SPECIFICATION AcceptanceSpec
INVARIANTS
  BezoutKept
  LatticeExact
  ShiftTranslates
  ReflectionSound
  EveryPhaseDrawn
  InteriorExact
  BoundaryExact
  FastReads
CHECK_DEADLOCK FALSE
