SPECIFICATION Spec
CONSTANTS
    a = a
    b = b
    c = c
    Sessions <- ThreeSessions
    Tables <- TwoTables
    Statements <- AllStatements
    Allowed <- MixedAllowed
    MaxLocks = 2
    MaxStatements = 1
    Killable <- OneSession
    Stoppable <- TwoSessions
    max_write_lock_count = 0
INVARIANTS
    TypeOK
    LocksCompatible
    NobodyForgotten
    AllOrNothing
PROPERTIES
    AloneWhenRemoved
    WritersInOrder
CHECK_DEADLOCK FALSE
