SPECIFICATION Spec
CONSTANTS
  a = a
  b = b
  NoMessage = NoMessage
  Sessions = {a}
  Commands <- ManyCommands
  Savepoints = {"x", "y"}
  Thresholds = {1, 2}
  MaxChanges <- Alone
  MaxSavepoints <- AloneSaves
  MaxRows = 4
  MaxFailures = 1
  MaxRefusals = 1
  MaxCrashes = 0
INVARIANTS TypeOK RebuiltFromLog RebuiltFromStream SegmentsFollow
CHECK_DEADLOCK FALSE
