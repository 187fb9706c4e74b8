SPECIFICATION FairSpec
CONSTANTS
    a = a
    b = b
    c = c
    Sessions <- ThreeSessions
    Tables <- TwoTables
    Statements <- TwoTableStatements
    Allowed <- SharedOut
    MaxLocks = 2
    MaxStatements = 1
    Killable <- Nobody
    Stoppable <- Nobody
    max_write_lock_count = 1
PROPERTIES
    StatementsFinish
CHECK_DEADLOCK FALSE
