SPECIFICATION FairSpec
CONSTANTS
    a = a
    b = b
    c = c
    none = none
    NoSession = none
    Sessions <- TwoSessions
    Allowed <- UpdateAllowed
    Budget <- PairBudget
    Autocommit <- TwoSessions
    Killable <- Nobody
PROPERTY StatementsFinish
CHECK_DEADLOCK FALSE
