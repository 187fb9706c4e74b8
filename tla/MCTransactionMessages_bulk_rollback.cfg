SPECIFICATION Spec
CONSTANTS
  a = a
  b = b
  NoMessage = NoMessage
  Sessions = {a}
  Commands <- OnlyInsert
  Savepoints = {"x", "y", "z"}
  Thresholds = {1}
  MaxChanges <- Alone
  MaxSavepoints <- Three
  MaxRows = 4
  MaxFailures = 0
  MaxRefusals = 0
  MaxCrashes = 0
INVARIANT LastMessageHasCommitId
CHECK_DEADLOCK FALSE
