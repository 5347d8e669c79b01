CONSTANTS
  None = None
  Options <- Materializations
  MaxRows = 2
  SaveEvery = 2
  MaxSignals = 1
  MaxKills = 0
SPECIFICATION Spec
PROPERTIES
  InterruptHonoured
