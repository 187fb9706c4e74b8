SPECIFICATION KillSpec
CONSTANTS
    a = a
    b = b
    c = c
    none = none
    NoSession = none
    Sessions <- TwoSessions
    Allowed <- EveryStatementAllowed
    Budget <- EveryStatementBudget
    Autocommit <- JustB
    Killable <- JustB
INVARIANT TypeOK
INVARIANT CountersAgree
INVARIANT ProtectionExcludesLock
INVARIANT FlushedMeansQuiet
INVARIANT OkMeansCommitted
INVARIANT NobodySleepsInVain
PROPERTY KilledStopsWaiting
CHECK_DEADLOCK FALSE
