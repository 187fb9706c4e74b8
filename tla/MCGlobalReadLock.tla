-------------------------- MODULE MCGlobalReadLock --------------------------
(* Small instances of GlobalReadLock: which statements each connection may   *)
(* send and how many, which sessions run in autocommit mode, and which may   *)
(* be killed.                                                                *)
EXTENDS GlobalReadLock, TLC

CONSTANTS a, b, c, none

TwoSessions   == {a, b}
ThreeSessions == {a, b, c}

(* Every statement, from two sessions.                                       *)
EveryStatementAllowed ==
    (a :> (Statements \ DDL)) @@ (b :> (Statements \ {"COMMIT", "ROLLBACK"}))
EveryStatementBudget == (a :> 2) @@ (b :> 2)

(* Writes that go through a protection, against a flusher.                   *)
ProgressAllowed ==
    (a :> {"FTWRL", "UNLOCK"}) @@ (b :> {"INSERT", "COMMIT"})
        @@ (c :> {"INSERT", "CREATE_SELECT"})
ProgressBudget == (a :> 2) @@ (b :> 2) @@ (c :> 1)

(* A flusher and one session that writes through lockTables().               *)
UpdateAllowed == (a :> {"FTWRL", "UNLOCK"}) @@ (b :> {"UPDATE"})
PairBudget    == (a :> 2) @@ (b :> 1)

JustB  == {b}
JustC  == {c}
Nobody == {}
=============================================================================
