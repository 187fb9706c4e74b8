----------------------- MODULE MCTransactionMessages -----------------------
(***************************************************************************)
(* The instances of TransactionMessages that TLC checks.                   *)
(***************************************************************************)
EXTENDS TransactionReplay, TransactionCommitLog

CONSTANTS a, b

\* one session on its own
Alone == [s \in Sessions |-> 3]
AloneSaves == [s \in Sessions |-> 2]
ManyCommands == [s \in Sessions |-> {"INSERT", "REPLACE"}]

\* two sessions that commit beside each other; one of them in two segments
Beside == [s \in Sessions |-> IF s = a THEN 2 ELSE 1]
NoSaves == [s \in Sessions |-> 0]
OneCommand == [s \in Sessions |-> IF s = a THEN {"DELETE"} ELSE {"UPDATE"}]

\* three savepoints and two changes, nothing that fails
Three == [s \in Sessions |-> 3]
OnlyInsert == [s \in Sessions |-> {"INSERT"}]
=============================================================================
