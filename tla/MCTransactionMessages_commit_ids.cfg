SPECIFICATION Spec
CONSTANTS
  a = a
  b = b
  NoMessage = NoMessage
  Sessions = {a, b}
  Commands <- OneCommand
  Savepoints = {}
  Thresholds = {1}
  MaxChanges <- Beside
  MaxSavepoints <- NoSaves
  MaxRows = 4
  MaxFailures = 1
  MaxRefusals = 1
  MaxCrashes = 2

PROPERTY ImplementsCommitLog
CHECK_DEADLOCK FALSE
