SPECIFICATION FairSpec
CONSTANTS
    a = a
    b = b
    c = c
    Sessions <- ThreeSessions
    Tables <- OneTable
    Statements <- SelfJoinStatements
    Allowed <- SelfJoinAllowed
    MaxLocks = 2
    MaxStatements = 1
    Killable <- Nobody
    Stoppable <- Nobody
    max_write_lock_count = 1
PROPERTIES
    StatementsFinish
CHECK_DEADLOCK FALSE
