SPECIFICATION FairSpec
CONSTANTS
    a = a
    b = b
    c = c
    none = none
    NoSession = none
    Sessions <- ThreeSessions
    Allowed <- ProgressAllowed
    Budget <- ProgressBudget
    Autocommit <- JustC
    Killable <- Nobody
PROPERTY StatementsFinish
CHECK_DEADLOCK FALSE
