CONSTANTS
  None = None
  Options <- MCOptions
  MaxRows = 3
  SaveEvery = 2
  MaxSignals = 1
  MaxKills = 1
SPECIFICATION Spec
INVARIANTS
  OutcomeStable
  StatusBacked
  PartsOneRow
PROPERTIES
  ExtensionInterruptHonoured
