SPECIFICATION FairSpec
CONSTANTS
  a = a
  b = b
  c = c
  x = x
  y = y
  NoSession = NoSession
  Sessions <- ThreeSessions
  Killable <- MCKillable
  Keys = {x, y}
  Names = {"n"}
  MaxBarriers = 2
  Limits = {0, 2}
  Workloads <- MCWorkloads
  KeySets <- MCKeySets
  Counts = {1, 2}
  Generations = {0}
INVARIANTS TypeOK NothingDangles WaiterHoldsNothing CountIsRight ObserversAreTold NobodySleepsInVain
PROPERTIES WaitersReturn CreationIsSeen
CHECK_DEADLOCK FALSE
