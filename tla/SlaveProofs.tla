---------------------------- MODULE SlaveProofs ----------------------------
(***************************************************************************)
(* Proofs about Slave, for any number of commits, rows per transaction,    *)
(* failures, lost connections, crashes and restarts.  The slave's queue    *)
(* holds only whole transactions where the consumer looks, for any number  *)
(* of clients.  A slave of a master with one committing client executes    *)
(* every commit, in order, and so implements OrderedApply.                 *)
(***************************************************************************)
EXTENDS Slave, CommitLogProofs

\* The producer's position is meaningful: it was read from the tables, or moved since.
Positioned == saved_max # 0 \/ producer \in {"list", "rows", "insert"}

HasRow(set, t, n) == \E r \in set : r.trx = t /\ r.seg = n

\* What holds between the queue, the rows on their way to it and the consumer's list,
\* as long as no failure is swallowed.  The last row of a transaction carries its id;
\* it follows the other rows into the queue, and nothing the producer still holds is as
\* old as a transaction the consumer can see.
QueueInv ==
  /\ \A r \in queue : r.order > 0 =>
       r.order = r.trx /\ \A n \in 1..r.seg : HasRow(queue, r.trx, n)
  /\ \A r \in rows : r.order > 0 =>
       /\ r.order = r.trx
       /\ \A n \in 1..r.seg :
            \/ HasRow(queue, r.trx, n)
            \/ \E q \in rows : q.trx = r.trx /\ q.seg = n /\ (q.order = 0 \/ q = r)
  /\ \A q, r \in rows : q.trx = r.trx /\ q.order > 0 /\ r.order > 0 => q = r
  /\ \A q \in queue, r \in rows : q.order > 0 => q.trx < r.trx
  /\ \A t \in todo : \E r \in queue : r.trx = t /\ r.order > 0
  /\ Positioned => \A r \in queue : r.order <= saved_max
  /\ producer = "rows" => \A i \in list : i > saved_max

\* The last commit executed.
Reached == IF applied = << >> THEN 0 ELSE applied[Len(applied)]

SlaveInv ==
  /\ TypeOK
  /\ LogInv
  /\ ~masked => QueueInv

-----------------------------------------------------------------------------

\* The slave takes only steps of the master's log that CommitLog allows.
LEMMA LogSteps == [Next]_vars => [LogNext]_logvars
<1> SUFFICES ASSUME [Next]_vars PROVE [LogNext]_logvars
  BY Zenon
<1>1. CASE producerStep
  BY <1>1, Zenon DEF producerStep, announce, openConnection, queryForMaxCommitId, queryForTrxIdList,
       queryForReplicationEvents, queryFails, queueInsert, fetchMore, shutdownProducer,
       wakeProducer, others
<1>2. CASE consumerStep
  BY <1>2, Zenon DEF consumerStep, initConsumer, getListOfCompletedTransactions, executeSQLWithCommitId,
       abort, recordIgnored, deleteFromQueue, shutdownConsumer, wakeConsumer, elsewhere
<1>3. CASE restartSlave \/ crashSlave
  BY <1>3, Zenon DEF restartSlave, crashSlave, Restart
<1>4. CASE crashMaster
  BY <1>4, Zenon DEF crashMaster, LogNext
<1>5. CASE master
  BY <1>5, Zenon DEF master, LogNext
<1>6. CASE UNCHANGED vars
  BY <1>6, Zenon DEF vars
<1> QED
  BY <1>1, <1>2, <1>3, <1>4, <1>5, <1>6, Zenon DEF Next

\* What queryForReplicationEvents fetches for one transaction.
LEMMA RowsOfEntry ==
  ASSUME NEW e \in Entry
  PROVE  /\ RowsOf(e) \subseteq Row
         /\ \A r \in RowsOf(e) :
              /\ r.trx = e.commit_id /\ r.seg \in 1..e.rows
              /\ r.order = IF r.seg = e.rows THEN e.commit_id ELSE 0
         /\ \A n \in 1..e.rows : \E r \in RowsOf(e) : r.seg = n
         /\ \A q, r \in RowsOf(e) : q.seg = r.seg => q = r
<1>1. e.commit_id \in Nat \ {0} /\ e.rows \in 1..MaxRows
  BY Zenon DEF Entry
<1>2. RowsOf(e) \subseteq Row
  BY <1>1, MaxRowsAssumption DEF RowsOf, Row
<1>3. \A r \in RowsOf(e) :
        /\ r.trx = e.commit_id /\ r.seg \in 1..e.rows
        /\ r.order = IF r.seg = e.rows THEN e.commit_id ELSE 0
  BY <1>1 DEF RowsOf
<1>4. ASSUME NEW n \in 1..e.rows PROVE \E r \in RowsOf(e) : r.seg = n
  <2> DEFINE r == [trx |-> e.commit_id, seg |-> n, order |-> IF n = e.rows THEN e.commit_id ELSE 0]
  <2>1. r \in RowsOf(e) /\ r.seg = n
    BY Zenon DEF RowsOf
  <2> QED
    BY <2>1, Zenon
<1>5. \A q, r \in RowsOf(e) : q.seg = r.seg => q = r
  BY <1>1 DEF RowsOf
<1> QED
  BY <1>2, <1>3, <1>4, <1>5, Zenon

\* Executing a transaction: what was executed, and how far the slave has come.
LEMMA EnterEffect ==
  ASSUME applied \in Seq(Nat), NEW t \in Nat, applied' = Enter(t)
  PROVE  applied' \in Seq(Nat) /\ Executed' = Executed \cup {t} /\ Reached' = t
<1>1. CASE applied # << >> /\ applied[Len(applied)] = t
  <2>1. applied' = applied /\ Len(applied) \in DOMAIN applied
    BY <1>1 DEF Enter
  <2> QED
    BY <1>1, <2>1, Zenon DEF Executed, Reached
<1>2. CASE ~(applied # << >> /\ applied[Len(applied)] = t)
  <2>1. applied' = Append(applied, t)
    BY <1>2, Zenon DEF Enter
  <2>2. /\ applied' \in Seq(Nat) /\ Len(applied') = Len(applied) + 1 /\ Len(applied) \in Nat
        /\ DOMAIN applied' = 1..(Len(applied) + 1) /\ DOMAIN applied = 1..Len(applied)
        /\ applied'[Len(applied) + 1] = t
        /\ \A i \in 1..Len(applied) : applied'[i] = applied[i]
    BY <2>1
  <2>3. Executed' = Executed \cup {t}
    <3>1. \A i \in DOMAIN applied' : applied'[i] \in Executed \cup {t}
      BY <2>2 DEF Executed
    <3>2. \A i \in DOMAIN applied : applied[i] \in Executed'
      BY <2>2 DEF Executed
    <3>3. t \in Executed'
      BY <2>2 DEF Executed
    <3> QED
      BY <3>1, <3>2, <3>3, Zenon DEF Executed
  <2>4. applied' # << >>
    BY <2>2
  <2> QED
    BY <2>2, <2>3, <2>4, Zenon DEF Reached
<1> QED
  BY <1>1, <1>2, Zenon

\* Commit ids are positive numbers.
LEMMA VisibleNumbers == LogTypeOK => VisibleIds \subseteq Nat \ {0}
<1> SUFFICES ASSUME LogTypeOK, NEW i \in DOMAIN log PROVE log[i].commit_id \in Nat \ {0}
  BY Zenon DEF VisibleIds
<1>1. log[i] \in Entry
  BY DEF LogTypeOK
<1> QED
  BY <1>1, Zenon DEF Entry

\* The parts of the state keep their types.
LEMMA TypeSteps == TypeOK /\ LogTypeOK' /\ [Next]_vars => TypeOK'
<1> SUFFICES ASSUME TypeOK, LogTypeOK', [Next]_vars PROVE TypeOK'
  BY Zenon
<1> USE DEF TypeOK
<1>1. ASSUME NEW thread \in {"producer", "consumer"}, NEW b \in BOOLEAN
      PROVE  [in_error_state EXCEPT ![thread] = b] \in [{"producer", "consumer"} -> BOOLEAN]
  BY Zenon
<1>2. Succeeds \/ Reported("producer") \/ Swallowed("producer")
        \/ Reported("consumer") \/ Swallowed("consumer") =>
        in_error_state' \in [{"producer", "consumer"} -> BOOLEAN] /\ masked' \in BOOLEAN
  BY <1>1, Zenon DEF Succeeds, Reported, Swallowed
<1>3. setApplierState => in_error_state' \in [{"producer", "consumer"} -> BOOLEAN]
        /\ masked' \in BOOLEAN /\ faults' \in Nat
  <2>1. setApplierState => in_error_state' \in [{"producer", "consumer"} -> BOOLEAN]
    BY <1>1, Zenon DEF setApplierState
  <2>2. setApplierState => masked' \in BOOLEAN /\ faults' \in Nat
    BY DEF setApplierState, Fails
  <2> QED
    BY <2>1, <2>2, Zenon
<1>4. setIOState => in_error_state' \in [{"producer", "consumer"} -> BOOLEAN]
        /\ masked' \in BOOLEAN /\ faults' \in Nat
  BY <1>2 DEF setIOState, Fails, Succeeds
<1>5. Fails \/ UNCHANGED faults => faults' \in Nat
  BY DEF Fails
<1>6. \A r \in queue \cup rows : r.trx \in Nat /\ r.order \in Nat
  BY Zenon DEF Row
<1>7. CASE announce
  BY <1>7, <1>4, Zenon DEF announce, others, options, consuming
<1>8. CASE openConnection
  BY <1>8, <1>5, Zenon DEF openConnection, others, options, consuming
<1>9. CASE queryForMaxCommitId
  <2>1. saved_max' \in Nat
    BY <1>9, <1>6, Zenon DEF queryForMaxCommitId
  <2> QED
    BY <1>9, <2>1, <1>5, Zenon DEF queryForMaxCommitId, others, options, consuming
<1>10. CASE queryForTrxIdList
  <2>1. list' \subseteq VisibleIds
    BY <1>10, Zenon DEF queryForTrxIdList, Newer
  <2>2. VisibleIds \subseteq Nat
    BY VisibleNumbers, Zenon
  <2> QED
    BY <1>10, <2>1, <2>2, Zenon DEF queryForTrxIdList, others, options, consuming
<1>11. CASE queryForReplicationEvents
  <2>1. \A i \in DOMAIN log : RowsOf(log[i]) \subseteq Row
    BY RowsOfEntry DEF LogTypeOK
  <2>2. rows' \subseteq Row
    BY <1>11, <2>1, Zenon DEF queryForReplicationEvents
  <2> QED
    BY <1>11, <2>2, Zenon DEF queryForReplicationEvents, others, options, consuming
<1>12. CASE queryFails
  BY <1>12, <1>5, Zenon DEF queryFails, others, options, consuming
<1>13. ASSUME NEW r \in rows, queueInsert(r) PROVE TypeOK'
  <2>1. queue' \subseteq Row /\ rows' \subseteq Row
    BY <1>13, Zenon DEF queueInsert
  <2>2. saved_max' \in Nat
    BY <1>13, <1>6, Zenon DEF queueInsert
  <2>3. in_error_state' \in [{"producer", "consumer"} -> BOOLEAN] /\ masked' \in BOOLEAN
    BY <1>13, <1>2, Zenon DEF queueInsert
  <2>4. faults' \in Nat
    BY <1>13, <1>5, Zenon DEF queueInsert, Succeeds
  <2>5. producer' \in {"stop", producer}
    BY <1>13, Zenon DEF queueInsert
  <2> QED
    BY <1>13, <2>1, <2>2, <2>3, <2>4, <2>5, Zenon DEF queueInsert, others, options, consuming
<1>14. CASE fetchMore
  BY <1>14, Zenon DEF fetchMore, others, options, consuming
<1>15. CASE shutdownProducer
  BY <1>15, <1>4, Zenon DEF shutdownProducer, others, options, consuming
<1>16. CASE wakeProducer
  BY <1>16, Zenon DEF wakeProducer, others, options, consuming
<1>17. CASE initConsumer
  BY <1>17, <1>3, Zenon DEF initConsumer, elsewhere, options, producing
<1>18. CASE getListOfCompletedTransactions
  <2>1. todo' \subseteq Nat
    BY <1>18, <1>6, Zenon DEF getListOfCompletedTransactions
  <2> QED
    BY <1>18, <2>1, Zenon DEF getListOfCompletedTransactions, elsewhere, options, producing
<1>19. ASSUME NEW t \in todo, executeSQLWithCommitId(t) PROVE TypeOK'
  <2>1. applied' \in Seq(Nat)
    BY <1>19, EnterEffect, Zenon DEF executeSQLWithCommitId
  <2>2. last_applied' \in Nat
    BY <1>19, Zenon DEF executeSQLWithCommitId
  <2>3. in_error_state' \in [{"producer", "consumer"} -> BOOLEAN] /\ masked' \in BOOLEAN
    BY <1>19, <1>2, Zenon DEF executeSQLWithCommitId
  <2>4. faults' \in Nat
    BY <1>19, <1>5, Zenon DEF executeSQLWithCommitId, Succeeds
  <2>5. consumer' \in {"delete", "record", "stop"}
    BY <1>19, Zenon DEF executeSQLWithCommitId
  <2> QED
    BY <1>19, <2>1, <2>2, <2>3, <2>4, <2>5, Zenon DEF executeSQLWithCommitId, elsewhere, options, producing
<1>20. ASSUME NEW t \in todo, abort(t) PROVE TypeOK'
  BY <1>20, Zenon DEF abort, options
<1>21. ASSUME NEW t \in todo, recordIgnored(t) PROVE TypeOK'
  <2>1. in_error_state' \in [{"producer", "consumer"} -> BOOLEAN] /\ faults' \in Nat
          /\ last_applied' \in Nat
    BY <1>21, <1>1, <1>5, Zenon DEF recordIgnored
  <2> QED
    BY <1>21, <2>1, Zenon DEF recordIgnored, elsewhere, options, producing
<1>22. ASSUME NEW t \in todo, deleteFromQueue(t) PROVE TypeOK'
  <2>1. queue' \subseteq Row /\ todo' \subseteq Nat
    BY <1>22, Zenon DEF deleteFromQueue
  <2>2. in_error_state' \in [{"producer", "consumer"} -> BOOLEAN] /\ masked' \in BOOLEAN
    BY <1>22, <1>2, Zenon DEF deleteFromQueue
  <2>3. faults' \in Nat /\ consumer' \in {"stop", "asleep", "apply"}
    BY <1>22, <1>5, Zenon DEF deleteFromQueue, Succeeds
  <2> QED
    BY <1>22, <2>1, <2>2, <2>3, Zenon DEF deleteFromQueue, elsewhere, options, producing
<1>23. CASE shutdownConsumer
  BY <1>23, <1>3, Zenon DEF shutdownConsumer, elsewhere, options, producing
<1>24. CASE wakeConsumer
  BY <1>24, Zenon DEF wakeConsumer, elsewhere, options, producing
<1>25. CASE restartSlave \/ crashSlave
  <2>1. Restart /\ faults' \in Nat
    BY <1>25, <1>5, Zenon DEF restartSlave, crashSlave
  <2>2. in_error_state' \in [{"producer", "consumer"} -> BOOLEAN] /\ connected' \in BOOLEAN
    BY <2>1, Zenon DEF Restart
  <2> QED
    BY <2>1, <2>2, Zenon DEF Restart, options
<1>26. CASE crashMaster
  BY <1>26, <1>5, Zenon DEF crashMaster, options, consuming
<1>27. CASE master
  BY <1>27, Zenon DEF master, slavevars, options, producing, consuming
<1>28. CASE UNCHANGED vars
  BY <1>28 DEF vars, slavevars, options, producing, consuming
<1> QED
  BY <1>7, <1>8, <1>9, <1>10, <1>11, <1>12, <1>13, <1>14, <1>15, <1>16, <1>17, <1>18, <1>19,
     <1>20, <1>21, <1>22, <1>23, <1>24, <1>25, <1>26, <1>27, <1>28
  DEF Next, producerStep, consumerStep

-----------------------------------------------------------------------------

\* A step that moves nothing between the log, the queue and the slave's data; it may
\* only forget what a thread had in memory.
Quiet ==
  /\ UNCHANGED <<queue, last_applied, applied, ignore_errors>>
  /\ rows' = rows \/ rows' = {}
  /\ todo' = todo \/ todo' = {}
  /\ saved_max' = saved_max \/ saved_max' = 0
  /\ Positioned' => Positioned /\ saved_max' = saved_max
  /\ producer' = "insert" => producer = "insert" /\ rows' = rows
  /\ producer' = "rows" => producer = "rows" /\ list' = list /\ (connected' => connected)
  /\ consumer' = "delete" => consumer = "delete" /\ todo' = todo
  /\ consumer' = "record" => consumer = "record"
  /\ masked => masked'

QuietLocal ==
  \/ announce \/ openConnection \/ queryFails \/ fetchMore \/ shutdownProducer \/ wakeProducer
  \/ initConsumer \/ (\E t \in todo : abort(t)) \/ shutdownConsumer \/ wakeConsumer
  \/ restartSlave \/ crashSlave

\* Connecting, sleeping, ending, aborting and restarting are quiet, and so is the master.
LEMMA QuietSteps ==
  TypeOK /\ (QuietLocal \/ crashMaster \/ master \/ UNCHANGED vars) => Quiet
<1> SUFFICES ASSUME TypeOK, QuietLocal \/ crashMaster \/ master \/ UNCHANGED vars PROVE Quiet
  BY Zenon
<1> USE DEF Quiet, Positioned
<1>1. setIOState \/ setApplierState => (masked => masked')
  BY Zenon DEF setIOState, setApplierState, Succeeds, Reported, Swallowed
<1>2. CASE announce
  BY <1>1, <1>2, Zenon DEF announce, others, options, consuming
<1>3. CASE openConnection
  BY <1>3, Zenon DEF openConnection, others, options, consuming
<1>4. CASE queryFails
  BY <1>4, Zenon DEF queryFails, others, options, consuming
<1>5. CASE fetchMore
  BY <1>5, Zenon DEF fetchMore, others, options, consuming
<1>6. CASE shutdownProducer
  BY <1>1, <1>6, Zenon DEF shutdownProducer, others, options, consuming
<1>7. CASE wakeProducer
  BY <1>7, Zenon DEF wakeProducer, others, options, consuming
<1>8. CASE initConsumer
  BY <1>1, <1>8, Zenon DEF initConsumer, elsewhere, options, producing
<1>9. ASSUME NEW t \in todo, abort(t) PROVE Quiet
  BY <1>9, Zenon DEF abort, options
<1>10. CASE shutdownConsumer
  BY <1>1, <1>10, Zenon DEF shutdownConsumer, elsewhere, options, producing
<1>11. CASE wakeConsumer
  BY <1>11, Zenon DEF wakeConsumer, elsewhere, options, producing
<1>12. CASE restartSlave \/ crashSlave
  BY <1>12 DEF restartSlave, crashSlave, Restart, options
<1>13. CASE crashMaster
  BY <1>13, Zenon DEF crashMaster, options, consuming
<1>14. CASE master
  BY <1>14, Zenon DEF master, slavevars, options, producing, consuming
<1>15. CASE UNCHANGED vars
  BY <1>15, Zenon DEF vars, slavevars, options, producing, consuming
<1> QED
  BY <1>2, <1>3, <1>4, <1>5, <1>6, <1>7, <1>8, <1>9, <1>10, <1>11, <1>12, <1>13, <1>14, <1>15, Zenon
  DEF QuietLocal

\* Every other step is one of these seven, with the effect it has when it works and
\* nothing is swallowed.
Moved ==
  \/ /\ queryForMaxCommitId
     /\ producer' = "list" /\ saved_max = 0
  \/ queryForTrxIdList
  \/ queryForReplicationEvents
  \/ \E r \in rows : queueInsert(r) /\ queue' = queue \cup {r} /\ producer' = "insert"
  \/ getListOfCompletedTransactions
  \/ \E t \in todo : executeSQLWithCommitId(t) \/ recordIgnored(t)
  \/ \E t \in todo : deleteFromQueue(t) /\ queue' = {r \in queue : r.trx # t}

\* A step that swallows nothing is quiet or moves something.
LEMMA StepKinds ==
  TypeOK /\ [Next]_vars /\ ~masked' =>
    /\ ~masked
    /\ Quiet \/ Moved
    /\ UNCHANGED log \/ crashMaster \/ master
<1> SUFFICES ASSUME TypeOK, [Next]_vars, ~masked'
             PROVE  /\ ~masked
                    /\ Quiet \/ Moved
                    /\ UNCHANGED log \/ crashMaster \/ master
  BY Zenon
<1>1. CASE QuietLocal \/ crashMaster \/ master \/ UNCHANGED vars
  <2>1. QuietLocal \/ UNCHANGED vars => UNCHANGED log
    BY Zenon DEF QuietLocal, announce, openConnection, queryFails, fetchMore, shutdownProducer,
         wakeProducer, initConsumer, abort, shutdownConsumer, wakeConsumer, restartSlave,
         crashSlave, Restart, others, elsewhere, logvars, vars
  <2>2. Quiet
    BY <1>1, QuietSteps, Zenon
  <2>3. ~masked
    BY <2>2, Zenon DEF Quiet
  <2> QED
    BY <1>1, <2>1, <2>2, <2>3, Zenon
<1>2. CASE queryForMaxCommitId
  <2>1. UNCHANGED log /\ ~masked
    BY <1>2, Zenon DEF queryForMaxCommitId, others, logvars
  <2>2. CASE producer' = "list" /\ saved_max = 0
    BY <1>2, <2>1, <2>2, Zenon DEF Moved
  <2>3. CASE ~(producer' = "list" /\ saved_max = 0)
    BY <1>2, <2>1, <2>3, Zenon
    DEF queryForMaxCommitId, Quiet, Positioned, others, options, consuming
  <2> QED
    BY <2>2, <2>3, Zenon
<1>3. CASE queryForTrxIdList \/ queryForReplicationEvents \/ getListOfCompletedTransactions
  BY <1>3 DEF Moved, queryForTrxIdList, queryForReplicationEvents,
       getListOfCompletedTransactions, others, elsewhere, logvars
<1>4. ASSUME NEW r \in rows, queueInsert(r)
      PROVE  ~masked /\ UNCHANGED log /\ (Quiet \/ Moved)
  <2>1. UNCHANGED log
    BY <1>4, Zenon DEF queueInsert, others, logvars
  <2>2. ~Swallowed("producer")
    BY Zenon DEF Swallowed
  <2>3. CASE Succeeds /\ queue' = queue \cup {r}
    <3>1. producer' = "insert" /\ ~masked
      BY <1>4, <2>3, Zenon DEF queueInsert, Succeeds
    <3> QED
      BY <1>4, <2>1, <2>3, <3>1, Zenon DEF Moved
  <2>4. CASE Reported("producer") /\ UNCHANGED queue
    <3>1. ~in_error_state["producer"] /\ in_error_state'["producer"] /\ ~masked
      BY <2>4, Zenon DEF Reported, TypeOK
    <3>2. producer' = "stop" /\ rows' = {} /\ UNCHANGED saved_max
      BY <1>4, <3>1, Zenon DEF queueInsert
    <3> QED
      BY <1>4, <2>1, <2>4, <3>1, <3>2, Zenon
      DEF queueInsert, Quiet, Positioned, others, options, consuming
  <2> QED
    BY <1>4, <2>2, <2>3, <2>4, Zenon DEF queueInsert
<1>5. ASSUME NEW t \in todo, executeSQLWithCommitId(t) \/ recordIgnored(t)
      PROVE  ~masked /\ UNCHANGED log /\ Moved
  <2>1. UNCHANGED log
    BY <1>5, Zenon DEF executeSQLWithCommitId, recordIgnored, elsewhere, logvars
  <2>2. ~masked
    BY <1>5, Zenon DEF executeSQLWithCommitId, recordIgnored, Succeeds, Reported, Swallowed
  <2> QED
    BY <1>5, <2>1, <2>2, Zenon DEF Moved
<1>6. ASSUME NEW t \in todo, deleteFromQueue(t)
      PROVE  ~masked /\ UNCHANGED log /\ (Quiet \/ Moved)
  <2>1. UNCHANGED log
    BY <1>6, Zenon DEF deleteFromQueue, elsewhere, logvars
  <2>2. ~masked
    BY <1>6, Zenon DEF deleteFromQueue, Succeeds, Reported, Swallowed
  <2>3. CASE queue' = {r \in queue : r.trx # t}
    BY <1>6, <2>1, <2>2, <2>3, Zenon DEF Moved
  <2>4. CASE Reported("consumer") /\ consumer' = "stop" /\ UNCHANGED <<queue, todo>>
    BY <1>6, <2>1, <2>2, <2>4, Zenon DEF deleteFromQueue, Quiet, Positioned, elsewhere, options, producing
  <2> QED
    BY <1>6, <2>1, <2>2, <2>3, <2>4, Zenon DEF deleteFromQueue, Swallowed
<1> QED
  BY <1>1, <1>2, <1>3, <1>4, <1>5, <1>6, Zenon DEF Next, producerStep, consumerStep, QuietLocal

\* Quiet steps keep the queue's invariant.
LEMMA QueueQuiet == QueueInv /\ Quiet => QueueInv'
<1> SUFFICES ASSUME QueueInv, Quiet PROVE QueueInv'
  BY Zenon
<1>1. CASE rows' = rows
  BY <1>1 DEF QueueInv, Quiet, HasRow, Positioned
<1>2. CASE rows' = {}
  BY <1>2 DEF QueueInv, Quiet, HasRow, Positioned
<1> QED
  BY <1>1, <1>2, Zenon DEF Quiet

\* The rows just fetched form whole transactions, all newer than the queue.
LEMMA QueueFetch == TypeOK /\ LogInv /\ QueueInv /\ queryForReplicationEvents => QueueInv'
<1> SUFFICES ASSUME TypeOK, LogInv, QueueInv, queryForReplicationEvents PROVE QueueInv'
  BY Zenon
<1>1. /\ producer = "rows" /\ producer' = "insert" /\ UNCHANGED <<queue, saved_max, todo>>
      /\ rows' = UNION {RowsOf(log[i]) : i \in {i \in DOMAIN log : log[i].commit_id \in list}}
  BY Zenon DEF queryForReplicationEvents, others, consuming
<1>2. \A i \in DOMAIN log : log[i] \in Entry
  BY DEF TypeOK, LogTypeOK
<1>3. \A r \in rows' : \E i \in DOMAIN log : log[i].commit_id \in list /\ r \in RowsOf(log[i])
  BY <1>1, Zenon
<1>4. ASSUME NEW r \in rows', r.order > 0
      PROVE  /\ r.order = r.trx
             /\ \A n \in 1..r.seg :
                  \E q \in rows' : q.trx = r.trx /\ q.seg = n /\ (q.order = 0 \/ q = r)
  <2>1. PICK i \in DOMAIN log : log[i].commit_id \in list /\ r \in RowsOf(log[i])
    BY <1>3, Zenon
  <2>2. RowsOf(log[i]) \subseteq rows'
    BY <1>1, <2>1, Zenon
  <2>3. r.seg = log[i].rows /\ r.order = log[i].commit_id /\ r.trx = log[i].commit_id
    BY <1>2, <1>4, <2>1, RowsOfEntry
  <2>4. ASSUME NEW n \in 1..r.seg
        PROVE \E q \in rows' : q.trx = r.trx /\ q.seg = n /\ (q.order = 0 \/ q = r)
    <3>1. PICK q \in RowsOf(log[i]) : q.seg = n
      BY <1>2, <2>3, RowsOfEntry, Zenon
    <3>2. q.trx = r.trx /\ (q.order = 0 \/ q.seg = r.seg)
      BY <1>2, <2>3, <3>1, RowsOfEntry, Zenon
    <3>3. q.seg = r.seg => q = r
      BY <1>2, <2>1, <3>1, RowsOfEntry, Zenon
    <3> QED
      BY <2>2, <3>1, <3>2, <3>3, Zenon
  <2> QED
    BY <2>3, <2>4, Zenon
<1>5. ASSUME NEW q \in rows', NEW r \in rows', q.trx = r.trx, q.order > 0, r.order > 0
      PROVE  q = r
  <2>1. PICK i \in DOMAIN log : q \in RowsOf(log[i])
    BY <1>3, Zenon
  <2>2. PICK j \in DOMAIN log : r \in RowsOf(log[j])
    BY <1>3, Zenon
  <2>3. log[i].commit_id = log[j].commit_id
    BY <1>2, <1>5, <2>1, <2>2, RowsOfEntry
  <2>4. i = j
    BY <2>3, Zenon DEF LogInv, CommitIdsDistinct
  <2>5. q.seg = log[i].rows /\ r.seg = log[i].rows
    BY <1>2, <1>5, <2>1, <2>2, <2>4, RowsOfEntry
  <2> QED
    BY <1>2, <2>1, <2>2, <2>4, <2>5, RowsOfEntry
<1>6. ASSUME NEW q \in queue, NEW r \in rows', q.order > 0 PROVE q.trx < r.trx
  <2>1. PICK i \in DOMAIN log : log[i].commit_id \in list /\ r \in RowsOf(log[i])
    BY <1>3, Zenon
  <2>2. r.trx = log[i].commit_id
    BY <1>2, <2>1, RowsOfEntry, Zenon
  <2>3. r.trx > saved_max
    BY <1>1, <2>1, <2>2, Zenon DEF QueueInv
  <2>4. q.order <= saved_max /\ q.order = q.trx
    BY <1>1, <1>6, Zenon DEF QueueInv, Positioned
  <2>5. q.trx \in Nat /\ saved_max \in Nat /\ r.trx \in Nat
    BY <2>1, <2>2, <1>2, Zenon DEF TypeOK, Row, Entry
  <2> QED
    BY <2>3, <2>4, <2>5
<1>7. Positioned
  BY <1>1, Zenon DEF Positioned
<1> QED
  BY <1>1, <1>4, <1>5, <1>6, <1>7 DEF QueueInv, HasRow

\* A row goes into the queue after all rows of its transaction that do not carry the id.
LEMMA QueueInserts ==
  ASSUME TypeOK, QueueInv, NEW r0 \in rows, queueInsert(r0),
         queue' = queue \cup {r0}, producer' = "insert"
  PROVE  QueueInv'
<1>1. /\ rows' = rows \ {r0} /\ todo' = todo /\ producer = "insert"
      /\ saved_max' = IF r0.order > saved_max THEN r0.order ELSE saved_max
      /\ \A q \in rows : r0.order <= q.order
  BY Zenon DEF queueInsert, FirstRow, others, consuming
<1>2. \A r \in queue \cup rows : r.trx \in Nat /\ r.order \in Nat /\ r.seg \in Nat
  BY MaxRowsAssumption DEF TypeOK, Row
<1>3. saved_max \in Nat
  BY Zenon DEF TypeOK
<1>4. ASSUME NEW r \in queue', r.order > 0
      PROVE  r.order = r.trx /\ \A n \in 1..r.seg : HasRow(queue', r.trx, n)
  <2>1. CASE r \in queue
    BY <1>4, <2>1 DEF QueueInv, HasRow
  <2>2. CASE r = r0
    <3>1. \A q \in rows : q.order > 0
      BY <1>1, <1>2, <1>4, <2>2
    <3>2. r0.order = r0.trx
      BY <1>4, <2>2, Zenon DEF QueueInv
    <3>3. ASSUME NEW n \in 1..r0.seg PROVE HasRow(queue', r0.trx, n)
      <4>1. HasRow(queue, r0.trx, n)
              \/ \E q \in rows : q.trx = r0.trx /\ q.seg = n /\ (q.order = 0 \/ q = r0)
        BY <1>4, <2>2 DEF QueueInv
      <4> QED
        BY <1>2, <3>1, <4>1 DEF HasRow
    <3> QED
      BY <2>2, <3>2, <3>3, Zenon
  <2> QED
    BY <2>1, <2>2, Zenon
<1>5. ASSUME NEW r \in rows', r.order > 0
      PROVE  /\ r.order = r.trx
             /\ \A n \in 1..r.seg :
                  \/ HasRow(queue', r.trx, n)
                  \/ \E q \in rows' : q.trx = r.trx /\ q.seg = n /\ (q.order = 0 \/ q = r)
  <2>1. r \in rows
    BY <1>1, Zenon
  <2>2. r.order = r.trx
    BY <1>5, <2>1, Zenon DEF QueueInv
  <2>3. ASSUME NEW n \in 1..r.seg
        PROVE  \/ HasRow(queue', r.trx, n)
               \/ \E q \in rows' : q.trx = r.trx /\ q.seg = n /\ (q.order = 0 \/ q = r)
    <3>1. CASE HasRow(queue, r.trx, n)
      BY <3>1, Zenon DEF HasRow
    <3>2. CASE \E q \in rows : q.trx = r.trx /\ q.seg = n /\ (q.order = 0 \/ q = r)
      BY <1>1, <3>2, Zenon DEF HasRow
    <3> QED
      BY <1>5, <2>1, <3>1, <3>2 DEF QueueInv
  <2> QED
    BY <2>2, <2>3, Zenon
<1>6. ASSUME NEW q \in queue', NEW r \in rows', q.order > 0 PROVE q.trx < r.trx
  <2>1. r \in rows /\ r # r0
    BY <1>1, Zenon
  <2>2. CASE q \in queue
    BY <1>6, <2>1, <2>2, Zenon DEF QueueInv
  <2>3. CASE q = r0
    <3>1. r.order >= r0.order /\ r0.order > 0 /\ r.order > 0
      BY <1>1, <1>2, <1>6, <2>1, <2>3
    <3>2. r.order = r.trx /\ r0.order = r0.trx
      BY <2>1, <3>1, Zenon DEF QueueInv
    <3>3. r.trx # r0.trx
      BY <2>1, <3>1, Zenon DEF QueueInv
    <3> QED
      BY <1>2, <2>1, <2>3, <3>1, <3>2, <3>3
  <2> QED
    BY <2>2, <2>3, Zenon
<1>7. \A q, r \in rows' : q.trx = r.trx /\ q.order > 0 /\ r.order > 0 => q = r
  BY <1>1, Zenon DEF QueueInv
<1>8. \A t \in todo' : \E r \in queue' : r.trx = t /\ r.order > 0
  BY <1>1, Zenon DEF QueueInv
<1>9. \A r \in queue' : r.order <= saved_max'
  <2>1. \A r \in queue : r.order <= saved_max
    BY <1>1, Zenon DEF QueueInv, Positioned
  <2> QED
    BY <1>1, <1>2, <1>3, <2>1
<1> QED
  BY <1>4, <1>5, <1>6, <1>7, <1>8, <1>9, Zenon DEF QueueInv

\* Deleting an executed transaction takes nothing the producer or the list relies on.
LEMMA QueueDeletes ==
  ASSUME TypeOK, QueueInv, NEW t \in todo, deleteFromQueue(t), queue' = {r \in queue : r.trx # t}, ~masked'
  PROVE  QueueInv' /\ todo' \subseteq todo
<1>1. UNCHANGED <<rows, saved_max, producer, list>> /\ todo' \subseteq todo
  BY Zenon DEF deleteFromQueue, elsewhere, producing
<1>2. todo' = todo \ {t} \/ queue' = queue
  BY Zenon DEF deleteFromQueue, Swallowed
<1>3. PICK last \in queue : last.trx = t /\ last.order > 0
  BY Zenon DEF QueueInv
<1>4. todo' = todo \ {t}
  BY <1>2, <1>3, Zenon
<1>5. \A r \in rows : r.trx # t
  <2>1. \A r \in rows : last.trx < r.trx /\ r.trx \in Nat /\ t \in Nat
    BY <1>3, Zenon DEF QueueInv, TypeOK, Row
  <2> QED
    BY <1>3, <2>1
<1>6. \A u, n : u # t /\ HasRow(queue, u, n) => HasRow(queue', u, n)
  BY Zenon DEF HasRow
<1>7. \A r \in queue' : r.order > 0 =>
        r.order = r.trx /\ \A n \in 1..r.seg : HasRow(queue', r.trx, n)
  BY <1>6, Zenon DEF QueueInv
<1>8. \A r \in rows' : r.order > 0 =>
        /\ r.order = r.trx
        /\ \A n \in 1..r.seg :
             \/ HasRow(queue', r.trx, n)
             \/ \E q \in rows' : q.trx = r.trx /\ q.seg = n /\ (q.order = 0 \/ q = r)
  BY <1>1, <1>5, <1>6 DEF QueueInv
<1> QED
  BY <1>1, <1>4, <1>7, <1>8 DEF QueueInv, Positioned

\* Every step that swallows no failure preserves the queue's invariant.
LEMMA QueueSteps == SlaveInv /\ [Next]_vars /\ ~masked' => QueueInv'
<1> SUFFICES ASSUME SlaveInv, [Next]_vars, ~masked' PROVE QueueInv'
  BY Zenon
<1>1. TypeOK /\ LogInv /\ QueueInv /\ (Quiet \/ Moved)
  BY StepKinds, Zenon DEF SlaveInv
<1>2. CASE Quiet
  BY <1>1, <1>2, QueueQuiet, Zenon
<1>3. CASE queryForMaxCommitId /\ producer' = "list" /\ saved_max = 0
  <2>1. /\ UNCHANGED <<queue, rows, todo, list>>
        /\ \A r \in queue : r.order <= saved_max'
    BY <1>3, Zenon DEF queryForMaxCommitId, others, consuming
  <2> QED
    BY <1>1, <1>3, <2>1 DEF QueueInv, HasRow
<1>4. CASE queryForTrxIdList
  <2>1. /\ UNCHANGED <<queue, rows, todo, saved_max>> /\ producer = "list"
        /\ \A i \in list' : i > saved_max
    BY <1>4, Zenon DEF queryForTrxIdList, Newer, others, consuming
  <2> QED
    BY <1>1, <2>1 DEF QueueInv, HasRow, Positioned
<1>5. CASE queryForReplicationEvents
  BY <1>1, <1>5, QueueFetch, Zenon
<1>6. ASSUME NEW r \in rows, queueInsert(r), queue' = queue \cup {r}, producer' = "insert"
      PROVE  QueueInv'
  BY <1>1, <1>6, QueueInserts, Zenon
<1>7. CASE getListOfCompletedTransactions
  <2>1. /\ UNCHANGED <<queue, rows, producer, saved_max, list>>
        /\ todo' = {r.trx : r \in {r \in queue : r.order > 0}}
    BY <1>7, Zenon DEF getListOfCompletedTransactions, elsewhere, producing
  <2>2. \A t \in todo' : \E r \in queue' : r.trx = t /\ r.order > 0
    BY <2>1, Zenon
  <2> QED
    BY <1>1, <2>1, <2>2 DEF QueueInv, HasRow, Positioned
<1>8. ASSUME NEW t \in todo, executeSQLWithCommitId(t) \/ recordIgnored(t) PROVE QueueInv'
  <2>1. UNCHANGED <<queue, rows, producer, saved_max, list, todo>>
    BY <1>8, Zenon DEF executeSQLWithCommitId, recordIgnored, elsewhere, producing
  <2> QED
    BY <1>1, <2>1 DEF QueueInv, HasRow, Positioned
<1>9. ASSUME NEW t \in todo, deleteFromQueue(t), queue' = {r \in queue : r.trx # t}
      PROVE  QueueInv'
  BY <1>1, <1>9, QueueDeletes, Zenon
<1> QED
  BY <1>1, <1>2, <1>3, <1>4, <1>5, <1>6, <1>7, <1>8, <1>9, Zenon DEF Moved

\* The invariant holds of the empty tables and the empty log.
LEMMA SlaveInvInit == Init => SlaveInv
<1> SUFFICES ASSUME Init PROVE SlaveInv
  BY Zenon
<1>1. LogInv
  BY LogInvInit, Zenon DEF Init
<1>2. in_error_state \in [{"producer", "consumer"} -> BOOLEAN]
  BY Zenon DEF Init
<1>3. TypeOK
  <2>1. LogTypeOK
    BY <1>1, Zenon DEF LogInv
  <2>2. applied \in Seq(Nat)
    BY DEF Init
  <2> QED
    BY <2>1, <2>2, <1>2, Zenon DEF Init, TypeOK
<1>4. QueueInv
  BY Zenon DEF Init, QueueInv
<1> QED
  BY <1>1, <1>3, <1>4, Zenon DEF SlaveInv

\* Every step preserves it.
LEMMA SlaveInvStep == SlaveInv /\ [Next]_vars => SlaveInv'
<1> SUFFICES ASSUME SlaveInv, [Next]_vars PROVE SlaveInv'
  BY Zenon
<1>1. LogInv'
  BY LogSteps, LogInvStep, Zenon DEF SlaveInv
<1>2. TypeOK'
  BY <1>1, TypeSteps, Zenon DEF SlaveInv, LogInv
<1> QED
  BY <1>1, <1>2, QueueSteps, Zenon DEF SlaveInv

\* Whatever the producer inserts while the consumer works through its list, every
\* transaction on the list is whole in the queue: the assertions of processSingleMaster
\* hold for every master, unless a failure was swallowed.
THEOREM ListedStaysWhole == Spec => []ListedIsWhole
<1>1. SlaveInv => ListedIsWhole
  <2> SUFFICES ASSUME SlaveInv, ~masked, NEW t \in todo PROVE Assembled(t)
    BY Zenon DEF ListedIsWhole
  <2>1. PICK r \in queue : r.trx = t /\ r.order > 0
    BY Zenon DEF SlaveInv, QueueInv
  <2> QED
    BY <2>1 DEF SlaveInv, QueueInv, HasRow, Assembled
<1> QED
  BY <1>1, SlaveInvInit, SlaveInvStep, PTL DEF Spec

\* The tables, the positions and the lists of both threads keep their types, whatever
\* fails or crashes.
THEOREM SlaveTypeCorrect == Spec => []TypeOK
<1>1. SlaveInv => TypeOK
  BY Zenon DEF SlaveInv
<1> QED
  BY <1>1, SlaveInvInit, SlaveInvStep, PTL DEF Spec

\* No two transactions of the log the slave reads carry the same commit id, whatever
\* crashes: the ids the slave names its transactions by are names.
THEOREM SlaveCommitIdsDistinct == Spec => []CommitIdsDistinct
<1>1. SlaveInv => CommitIdsDistinct
  BY Zenon DEF SlaveInv, LogInv
<1> QED
  BY <1>1, SlaveInvInit, SlaveInvStep, PTL DEF Spec

-----------------------------------------------------------------------------
(* A master with one committing client.                                      *)
OneClient == \A c, d \in Clients : c = d

Covered(id) == id \in Executed \/ \E r \in queue : r.order = id

\* A master with one committing client shows its commits in the order of their ids.
IdsAscend ==
  /\ \A i, j \in DOMAIN log : i < j => log[i].commit_id < log[j].commit_id
  /\ \A c \in Clients : pending[c] # 0 => \A i \in DOMAIN log : log[i].commit_id < pending[c]

\* No commit is passed over on its way from the log to the slave's data.
PassInv ==
  /\ saved_max \in VisibleIds \cup {0} /\ last_applied \in VisibleIds \cup {0}
  /\ \A r \in queue \cup rows : r.trx \in VisibleIds
  /\ \A id \in VisibleIds : id <= saved_max \/ id <= last_applied => Covered(id)
  /\ \A r \in queue, id \in VisibleIds : id <= r.order => Covered(id)
  /\ producer = "insert" => \A id \in VisibleIds :
       id <= saved_max \/ (\E r \in rows : r.order = id) \/ (\A r \in rows : r.order < id)
  /\ producer = "rows" /\ connected =>
       /\ list \subseteq VisibleIds
       /\ \A id \in VisibleIds : id <= saved_max \/ id \in list \/ (\A i \in list : i < id)

\* The slave never falls back behind what it has executed or recorded.
OrderInv ==
  /\ \A id \in Executed : id <= Reached /\ (id <= last_applied \/ \E r \in queue : r.order = id)
  /\ \A r \in queue : r.order > 0 => r.order >= Reached /\ r.order >= last_applied
  /\ \A r \in rows : r.order > 0 => r.order > Reached /\ r.order > last_applied
  /\ Positioned => Reached <= saved_max /\ last_applied <= saved_max
  /\ \A t \in todo, r \in queue : 0 < r.order /\ r.order < t => r.order \in todo
  /\ consumer = "delete" => \A t \in todo : IsNext(t) => t \in Executed /\ last_applied = t
  /\ consumer # "record"

OneClientInv ==
  /\ SlaveInv
  /\ IdsAscend
  /\ ~Excuse => PassInv /\ OrderInv

-----------------------------------------------------------------------------

\* How the master's steps change what the slave can see: new commits are newer than all
\* others, and a commit that disappears had not been read.
ShownInOrder ==
  /\ VisibleIds \subseteq Nat \ {0} /\ VisibleIds' \subseteq Nat \ {0}
  /\ \A id \in VisibleIds' \ VisibleIds : \A j \in VisibleIds : j < id
  /\ \A id \in VisibleIds \ VisibleIds' : ~ReadBy(id)
  /\ VisibleIds \subseteq VisibleIds' \/ ~connected'

\* Commit ids are positive in the next state as well.
LEMMA VisibleNumbersNext == LogTypeOK' => VisibleIds' \subseteq Nat \ {0}
<1> SUFFICES ASSUME LogTypeOK', NEW i \in DOMAIN log' PROVE log'[i].commit_id \in Nat \ {0}
  BY Zenon DEF VisibleIds
<1>1. log'[i] \in Entry
  BY DEF LogTypeOK
<1> QED
  BY <1>1, Zenon DEF Entry

\* With one client the id drawn next is larger than every id in the log.
LEMMA Ascending ==
  ASSUME OneClient, LogInv, IdsAscend, [LogNext]_logvars
  PROVE  IdsAscend'
<1>1. /\ counter \in Nat /\ pending \in [Clients -> Nat] /\ log \in Seq(Entry)
      /\ Len(log) \in Nat /\ DOMAIN log = 1..Len(log)
      /\ \A i \in 1..Len(log) : log[i].commit_id \in Nat /\ log[i].commit_id <= counter
  <2>1. /\ counter \in Nat /\ pending \in [Clients -> Nat] /\ log \in Seq(Entry)
    BY Zenon DEF LogInv, LogTypeOK
  <2>2. \A i \in 1..Len(log) : log[i] \in Entry
    BY <2>1
  <2>3. \A i \in 1..Len(log) : log[i].commit_id \in Nat /\ log[i].disk \in Nat
    BY <2>2, Zenon DEF Entry
  <2> QED
    BY <2>1, <2>3 DEF LogInv
<1>2. ASSUME NEW c \in Clients, Draw(c) PROVE IdsAscend'
  <2>1. UNCHANGED log /\ pending' = [pending EXCEPT ![c] = counter + 1]
    BY <1>2, Zenon DEF Draw
  <2>2. \A d \in Clients : pending'[d] = counter + 1
    BY <1>1, <2>1, Zenon DEF OneClient
  <2> QED
    BY <1>1, <2>1, <2>2 DEF IdsAscend
<1>3. ASSUME NEW c \in Clients, NEW n \in 1..MaxRows, Publish(c, n) PROVE IdsAscend'
  <2> DEFINE e == [commit_id |-> pending[c], rows |-> n, disk |-> counter]
  <2>1. e \in Entry /\ e.commit_id = pending[c]
    BY <1>1, <1>3, Zenon DEF Publish, Entry
  <2>2. log' = Append(log, e) /\ pending' = [pending EXCEPT ![c] = 0] /\ pending[c] # 0
    BY <1>3, Zenon DEF Publish
  <2> HIDE DEF e
  <2>3. /\ Len(log') = Len(log) + 1 /\ DOMAIN log' = 1..(Len(log) + 1)
        /\ \A i \in 1..Len(log) : log'[i] = log[i]
        /\ log'[Len(log) + 1] = e
    BY <1>1, <2>1, <2>2, AppendEntry
  <2>4. \A d \in Clients : pending'[d] = 0
    BY <1>1, <2>2, Zenon DEF OneClient
  <2>5. \A i \in 1..Len(log) : log[i].commit_id < pending[c]
    BY <1>1, <2>2, Zenon DEF IdsAscend
  <2>6. ASSUME NEW i \in DOMAIN log', NEW j \in DOMAIN log', i < j
        PROVE  log'[i].commit_id < log'[j].commit_id
    <3>1. i \in 1..Len(log) /\ (j \in 1..Len(log) \/ j = Len(log) + 1)
      BY <1>1, <2>3, <2>6
    <3> QED
      BY <1>1, <2>1, <2>3, <2>5, <2>6, <3>1, Zenon DEF IdsAscend
  <2> QED
    BY <2>4, <2>6, Zenon DEF IdsAscend
<1>4. CASE Waste \/ Flush \/ UNCHANGED logvars
  BY <1>4, Zenon DEF Waste, Flush, logvars, IdsAscend
<1>5. CASE Crash
  <2>1. PICK k \in flushed..Len(log) : log' = SubSeq(log, 1, k)
    BY <1>5, Zenon DEF Crash
  <2>2. k \in 0..Len(log)
    BY <1>1, <2>1 DEF LogInv, LogTypeOK
  <2>3. log' \in Seq(Entry) /\ Len(log') = k /\ \A i \in 1..k : log'[i] = log[i]
    BY <1>1, <2>1, <2>2, PrefixEntries, Zenon
  <2>4. DOMAIN log' = 1..k
    BY <2>3
  <2>5. \A c \in Clients : pending'[c] = 0
    BY <1>5, Zenon DEF Crash
  <2> QED
    BY <1>1, <2>2, <2>3, <2>4, <2>5 DEF IdsAscend
<1> QED
  BY <1>2, <1>3, <1>4, <1>5, Zenon DEF LogNext

\* The master's own steps, its crash included, show commits in order.
LEMMA MasterShows ==
  ASSUME OneClient, LogInv, LogTypeOK', IdsAscend, master \/ crashMaster \/ UNCHANGED log
  PROVE  ShownInOrder
<1>1. VisibleIds \subseteq Nat \ {0} /\ VisibleIds' \subseteq Nat \ {0}
  <2>1. LogTypeOK
    BY Zenon DEF LogInv
  <2> QED
    BY <2>1, VisibleNumbers, VisibleNumbersNext, Zenon
<1>2. CASE UNCHANGED log
  BY <1>1, <1>2, Zenon DEF ShownInOrder, VisibleIds
<1>3. ASSUME NEW c \in Clients, NEW n \in 1..MaxRows, Publish(c, n) PROVE ShownInOrder
  <2>1. /\ log \in Seq(Entry) /\ pending[c] # 0
        /\ log' = Append(log, [commit_id |-> pending[c], rows |-> n, disk |-> counter])
    BY <1>3, Zenon DEF Publish, LogInv, LogTypeOK
  <2>2. /\ DOMAIN log = 1..Len(log) /\ Len(log) \in Nat
        /\ DOMAIN log' = 1..(Len(log) + 1)
        /\ \A i \in 1..Len(log) : log'[i] = log[i]
        /\ log'[Len(log) + 1].commit_id = pending[c]
    BY <2>1
  <2>3. VisibleIds' = VisibleIds \cup {pending[c]}
    <3>1. \A i \in DOMAIN log' : log'[i].commit_id \in VisibleIds \cup {pending[c]}
      BY <2>2 DEF VisibleIds
    <3>2. \A i \in DOMAIN log : log[i].commit_id \in VisibleIds'
      BY <2>2 DEF VisibleIds
    <3>3. pending[c] \in VisibleIds'
      BY <2>2 DEF VisibleIds
    <3> QED
      BY <3>1, <3>2, <3>3, Zenon DEF VisibleIds
  <2>4. \A j \in VisibleIds : j < pending[c]
    BY <2>1, Zenon DEF VisibleIds, IdsAscend
  <2> QED
    BY <1>1, <2>3, <2>4, Zenon DEF ShownInOrder
<1>4. CASE crashMaster
  <2>1. /\ ~connected' /\ Crash
        /\ \A i \in DOMAIN log : i > Len(log') => ~ReadBy(log[i].commit_id)
    BY <1>4, Zenon DEF crashMaster
  <2>2. PICK k \in flushed..Len(log) : log' = SubSeq(log, 1, k)
    BY <2>1, Zenon DEF Crash
  <2>3. k \in 0..Len(log) /\ log \in Seq(Entry) /\ DOMAIN log = 1..Len(log) /\ Len(log) \in Nat
    BY <2>2 DEF LogInv, LogTypeOK
  <2>4. log' \in Seq(Entry) /\ Len(log') = k /\ \A i \in 1..k : log'[i] = log[i]
    BY <2>2, <2>3, PrefixEntries, Zenon
  <2>5. DOMAIN log' = 1..k
    BY <2>4
  <2>6. VisibleIds' \subseteq VisibleIds
    BY <2>3, <2>4, <2>5 DEF VisibleIds
  <2>7. ASSUME NEW id \in VisibleIds \ VisibleIds' PROVE ~ReadBy(id)
    <3>1. PICK i \in DOMAIN log : log[i].commit_id = id
      BY <2>7, Zenon DEF VisibleIds
    <3>2. i \notin 1..k
      BY <2>4, <2>5, <2>7, <3>1, Zenon DEF VisibleIds
    <3> QED
      BY <2>1, <2>3, <2>4, <3>1, <3>2
  <2> QED
    BY <1>1, <2>1, <2>6, <2>7, Zenon DEF ShownInOrder
<1>5. CASE master
  BY <1>2, <1>3, <1>5, Zenon DEF master, Draw, Waste, Flush
<1> QED
  BY <1>2, <1>4, <1>5, Zenon

-----------------------------------------------------------------------------

\* The numbers a proof compares.
LEMMA Numbers ==
  ASSUME TypeOK, QueueInv
  PROVE  /\ saved_max \in Nat /\ last_applied \in Nat /\ Reached \in Nat /\ todo \subseteq Nat
         /\ Executed \subseteq Nat /\ (Reached = 0 \/ Reached \in Executed)
         /\ \A r \in queue \cup rows :
              r.trx \in Nat /\ r.order \in Nat /\ (r.order = 0 \/ r.order = r.trx)
<1>1. /\ applied \in Seq(Nat) /\ saved_max \in Nat /\ last_applied \in Nat /\ todo \subseteq Nat
      /\ \A r \in queue \cup rows : r.trx \in Nat /\ r.order \in Nat
  BY Zenon DEF TypeOK, Row
<1>2. \A r \in queue \cup rows : r.order = 0 \/ r.order = r.trx
  BY <1>1 DEF QueueInv
<1>3. applied # << >> => Len(applied) \in DOMAIN applied /\ applied[Len(applied)] \in Nat
  BY <1>1
<1>4. Reached \in Nat /\ (Reached = 0 \/ Reached \in Executed)
  BY <1>3, Zenon DEF Reached, Executed
<1>5. Executed \subseteq Nat
  BY <1>1 DEF Executed
<1> QED
  BY <1>1, <1>2, <1>4, <1>5, Zenon

\* Quiet steps, whatever the master shows meanwhile, pass over nothing.
LEMMA PassQuiet ==
  ASSUME TypeOK, QueueInv, PassInv, Quiet, ShownInOrder
  PROVE  PassInv'
<1>1. /\ UNCHANGED <<queue, last_applied, applied>>
      /\ rows' = rows \/ rows' = {}
      /\ saved_max' = saved_max \/ saved_max' = 0
      /\ producer' = "insert" => producer = "insert" /\ rows' = rows
      /\ producer' = "rows" => producer = "rows" /\ list' = list /\ (connected' => connected)
      /\ Positioned' => saved_max' = saved_max
  BY Zenon DEF Quiet
<1>2. /\ VisibleIds \subseteq Nat \ {0} /\ VisibleIds' \subseteq Nat \ {0}
      /\ \A id \in VisibleIds' \ VisibleIds : \A j \in VisibleIds : j < id
      /\ \A id \in VisibleIds \ VisibleIds' : ~ReadBy(id)
      /\ VisibleIds \subseteq VisibleIds' \/ ~connected'
  BY Zenon DEF ShownInOrder
<1>3. /\ saved_max \in Nat /\ last_applied \in Nat
      /\ \A r \in queue \cup rows : r.trx \in Nat /\ r.order \in Nat
           /\ (r.order = 0 \/ r.order = r.trx)
  BY Numbers, Zenon
<1>4. saved_max' \in VisibleIds' \cup {0} /\ last_applied' \in VisibleIds' \cup {0}
  BY <1>1, <1>2, <1>3 DEF PassInv, ReadBy
<1>5. \A r \in queue \cup rows : r.trx \in VisibleIds'
  BY <1>2, Zenon DEF PassInv, ReadBy
<1>6. \A id : Covered(id) => Covered(id)'
  BY <1>1, Zenon DEF Covered, Executed
<1>7. ASSUME NEW id \in VisibleIds', id \notin VisibleIds
      PROVE  /\ id > saved_max /\ id > last_applied
             /\ \A r \in queue \cup rows : id > r.order
  BY <1>2, <1>3, <1>7 DEF PassInv
<1>8. \A id \in VisibleIds' : id <= saved_max' \/ id <= last_applied' => Covered(id)'
  <2> SUFFICES ASSUME NEW id \in VisibleIds', id <= saved_max' \/ id <= last_applied'
               PROVE  Covered(id)'
    BY Zenon
  <2>1. id \in Nat \ {0} /\ (id <= saved_max \/ id <= last_applied)
    BY <1>1, <1>2, <1>3
  <2>2. id \in VisibleIds
    BY <1>3, <1>7, <2>1
  <2> QED
    BY <1>6, <2>1, <2>2, Zenon DEF PassInv
<1>9. \A r \in queue', id \in VisibleIds' : id <= r.order => Covered(id)'
  <2> SUFFICES ASSUME NEW r \in queue, NEW id \in VisibleIds', id <= r.order PROVE Covered(id)'
    BY <1>1, Zenon
  <2>1. id \in VisibleIds
    BY <1>2, <1>3, <1>7
  <2> QED
    BY <1>6, <2>1, Zenon DEF PassInv
<1>10. producer' = "insert" => \A id \in VisibleIds' :
         id <= saved_max' \/ (\E r \in rows' : r.order = id) \/ (\A r \in rows' : r.order < id)
  <2> SUFFICES ASSUME producer' = "insert", NEW id \in VisibleIds'
               PROVE  \/ id <= saved_max' \/ (\E r \in rows' : r.order = id)
                      \/ (\A r \in rows' : r.order < id)
    BY Zenon
  <2>1. producer = "insert" /\ rows' = rows /\ saved_max' = saved_max
    BY <1>1, Zenon DEF Positioned
  <2>2. CASE id \in VisibleIds
    BY <2>1, <2>2, Zenon DEF PassInv
  <2>3. CASE id \notin VisibleIds
    BY <1>2, <1>3, <1>7, <2>1, <2>3, Zenon
  <2> QED
    BY <2>2, <2>3, Zenon
<1>11. producer' = "rows" /\ connected' =>
         /\ list' \subseteq VisibleIds'
         /\ \A id \in VisibleIds' : id <= saved_max' \/ id \in list' \/ (\A i \in list' : i < id)
  <2> SUFFICES ASSUME producer' = "rows", connected'
               PROVE  /\ list' \subseteq VisibleIds'
                      /\ \A id \in VisibleIds' :
                           id <= saved_max' \/ id \in list' \/ (\A i \in list' : i < id)
    BY Zenon
  <2>1. /\ producer = "rows" /\ connected /\ list' = list /\ saved_max' = saved_max
        /\ VisibleIds \subseteq VisibleIds'
    BY <1>1, <1>2, Zenon DEF Positioned
  <2> QED
    BY <1>2, <2>1, Zenon DEF PassInv
<1> QED
  BY <1>1, <1>4, <1>5, <1>8, <1>9, <1>10, <1>11, Zenon DEF PassInv

\* Quiet steps do not move the slave back.
LEMMA OrderQuiet == OrderInv /\ Quiet => OrderInv'
<1> SUFFICES ASSUME OrderInv, Quiet PROVE OrderInv'
  BY Zenon
<1>1. Executed' = Executed /\ Reached' = Reached /\ UNCHANGED <<queue, last_applied>>
  BY Zenon DEF Quiet, Executed, Reached
<1>2. consumer' = "delete" =>
        \A t \in todo' : IsNext(t)' => t \in Executed' /\ last_applied' = t
  BY <1>1, Zenon DEF Quiet, OrderInv, IsNext
<1> QED
  BY <1>1, <1>2, Zenon DEF Quiet, OrderInv

\* The position read from the tables covers everything executed, recorded or queued.
LEMMA OrderMax ==
  ASSUME TypeOK, QueueInv, PassInv, OrderInv, ShownInOrder, UNCHANGED log,
         queryForMaxCommitId, producer' = "list", saved_max = 0
  PROVE  PassInv' /\ OrderInv'
<1>1. /\ UNCHANGED <<queue, rows, last_applied, applied, consumer, todo>>
      /\ saved_max' \in {r.order : r \in queue} \cup {last_applied}
      /\ last_applied <= saved_max' /\ \A r \in queue : r.order <= saved_max'
  BY Zenon DEF queryForMaxCommitId, others, consuming
<1>2. Executed' = Executed /\ Reached' = Reached /\ VisibleIds' = VisibleIds
        /\ \A id : Covered(id)' = Covered(id)
  BY <1>1, Zenon DEF Executed, Reached, VisibleIds, Covered
<1>3. /\ last_applied \in Nat /\ Reached \in Nat /\ Executed \subseteq Nat
      /\ Reached = 0 \/ Reached \in Executed
      /\ \A r \in queue \cup rows :
           r.trx \in Nat /\ r.order \in Nat /\ (r.order = 0 \/ r.order = r.trx)
  BY Numbers, Zenon
<1>4. saved_max' \in VisibleIds \cup {0} /\ saved_max' \in Nat
  BY <1>1, <1>3, Zenon DEF PassInv
<1>5. \A id \in VisibleIds : id <= saved_max' => Covered(id)
  BY <1>1, Zenon DEF PassInv
<1>6. PassInv'
  BY <1>1, <1>2, <1>4, <1>5, Zenon DEF PassInv
<1>7. Reached <= saved_max'
  BY <1>1, <1>3, <1>4 DEF OrderInv
<1> QED
  BY <1>1, <1>2, <1>6, <1>7, Zenon DEF OrderInv, IsNext

\* The ids asked for next are the oldest ones the slave does not have.
LEMMA OrderList ==
  ASSUME TypeOK, QueueInv, PassInv, OrderInv, ShownInOrder, UNCHANGED log, queryForTrxIdList
  PROVE  PassInv' /\ OrderInv'
<1>1. /\ UNCHANGED <<queue, rows, last_applied, applied, consumer, todo, saved_max>>
      /\ producer = "list" /\ producer' \in {"asleep", "rows"}
  BY Zenon DEF queryForTrxIdList, others, consuming
<1>2. Executed' = Executed /\ Reached' = Reached /\ VisibleIds' = VisibleIds
        /\ \A id : Covered(id)' = Covered(id)
  BY <1>1, Zenon DEF Executed, Reached, VisibleIds, Covered
<1>3. list' \subseteq Newer /\ \A i \in list', j \in Newer \ list' : i < j
  BY Zenon DEF queryForTrxIdList, FirstOfThem
<1>4. VisibleIds \subseteq Nat /\ saved_max \in Nat
  BY Zenon DEF ShownInOrder, TypeOK
<1>5. \A id \in VisibleIds : id <= saved_max \/ id \in list' \/ (\A i \in list' : i < id)
  BY <1>3, <1>4 DEF Newer
<1>6. list' \subseteq VisibleIds
  BY <1>3, Zenon DEF Newer
<1>7. PassInv'
  BY <1>1, <1>2, <1>5, <1>6, Zenon DEF PassInv
<1> QED
  BY <1>1, <1>2, <1>7, Zenon DEF OrderInv, IsNext, Positioned

\* The rows fetched are those of the ids asked for.
LEMMA OrderFetch ==
  ASSUME TypeOK, QueueInv, PassInv, OrderInv, ShownInOrder, UNCHANGED log,
         queryForReplicationEvents
  PROVE  PassInv' /\ OrderInv'
<1>1. /\ UNCHANGED <<queue, last_applied, applied, consumer, todo, saved_max>>
      /\ producer = "rows" /\ connected /\ producer' = "insert"
      /\ rows' = UNION {RowsOf(log[i]) : i \in {i \in DOMAIN log : log[i].commit_id \in list}}
  BY Zenon DEF queryForReplicationEvents, others, consuming
<1>2. Executed' = Executed /\ Reached' = Reached /\ VisibleIds' = VisibleIds
        /\ \A id : Covered(id)' = Covered(id)
  BY <1>1, Zenon DEF Executed, Reached, VisibleIds, Covered
<1>3. /\ saved_max \in Nat /\ last_applied \in Nat /\ Reached \in Nat
      /\ VisibleIds \subseteq Nat \ {0}
  BY Numbers, Zenon DEF ShownInOrder
<1>4. \A i \in DOMAIN log : log[i] \in Entry
  BY DEF TypeOK, LogTypeOK
<1>5. ASSUME NEW r \in rows'
      PROVE  r.trx \in list /\ r.trx \in VisibleIds /\ (r.order = 0 \/ r.order = r.trx)
  <2>1. PICK i \in DOMAIN log : log[i].commit_id \in list /\ r \in RowsOf(log[i])
    BY <1>1, Zenon
  <2>2. r.trx = log[i].commit_id /\ (r.order = 0 \/ r.order = log[i].commit_id)
    BY <1>4, <2>1, RowsOfEntry, Zenon
  <2> QED
    BY <2>1, <2>2, Zenon DEF VisibleIds
<1>6. ASSUME NEW id \in VisibleIds, id \in list PROVE \E r \in rows' : r.order = id
  <2>1. PICK i \in DOMAIN log : log[i].commit_id = id
    BY Zenon DEF VisibleIds
  <2>2. RowsOf(log[i]) \subseteq rows'
    BY <1>1, <1>6, <2>1, Zenon
  <2>3. log[i].rows \in 1..log[i].rows
    BY <1>4 DEF Entry
  <2>4. PICK r \in RowsOf(log[i]) : r.seg = log[i].rows
    BY <1>4, <2>3, RowsOfEntry, Zenon
  <2>5. r.order = id
    BY <1>4, <2>1, <2>4, RowsOfEntry, Zenon
  <2> QED
    BY <2>2, <2>4, <2>5, Zenon
<1>7. \A id \in VisibleIds :
        id <= saved_max \/ (\E r \in rows' : r.order = id) \/ (\A r \in rows' : r.order < id)
  <2> SUFFICES ASSUME NEW id \in VisibleIds, \A i \in list : i < id
               PROVE  \A r \in rows' : r.order < id
    BY <1>1, <1>6, Zenon DEF PassInv
  <2> QED
    BY <1>3, <1>5
<1>8. PassInv'
  BY <1>1, <1>2, <1>5, <1>7, Zenon DEF PassInv
<1>9. \A r \in rows' : r.order > 0 => r.order > Reached /\ r.order > last_applied
  <2>1. Reached <= saved_max /\ last_applied <= saved_max
    BY <1>1, Zenon DEF OrderInv, Positioned
  <2>2. \A r \in rows' : r.trx > saved_max /\ r.trx \in Nat
    BY <1>1, <1>3, <1>5, Zenon DEF QueueInv
  <2> QED
    BY <1>3, <1>5, <2>1, <2>2
<1> QED
  BY <1>1, <1>2, <1>8, <1>9, Zenon DEF OrderInv, IsNext, Positioned

\* A row that goes into the queue is the next one the slave needs.
LEMMA OrderInsert ==
  ASSUME TypeOK, QueueInv, PassInv, OrderInv, ShownInOrder, UNCHANGED log,
         NEW r0 \in rows, queueInsert(r0), queue' = queue \cup {r0}, producer' = "insert"
  PROVE  PassInv' /\ OrderInv'
<1>1. /\ rows' = rows \ {r0} /\ producer = "insert"
      /\ UNCHANGED <<todo, consumer, last_applied, applied>>
      /\ saved_max' = IF r0.order > saved_max THEN r0.order ELSE saved_max
      /\ \A q \in rows : r0.order <= q.order
  BY Zenon DEF queueInsert, FirstRow, others, consuming
<1>2. Executed' = Executed /\ Reached' = Reached /\ VisibleIds' = VisibleIds
        /\ \A id : Covered(id) => Covered(id)'
  BY <1>1, Zenon DEF Executed, Reached, VisibleIds, Covered
<1>3. Covered(r0.order)'
  BY Zenon DEF Covered
<1>4. /\ saved_max \in Nat /\ last_applied \in Nat /\ Reached \in Nat /\ todo \subseteq Nat
      /\ VisibleIds \subseteq Nat \ {0}
      /\ \A r \in queue \cup rows :
           r.trx \in Nat /\ r.order \in Nat /\ (r.order = 0 \/ r.order = r.trx)
  BY Numbers, Zenon DEF ShownInOrder
<1>5. saved_max' \in Nat /\ saved_max <= saved_max' /\ r0.order <= saved_max'
  BY <1>1, <1>4
<1>6. saved_max' \in VisibleIds \cup {0}
  BY <1>1, <1>4, Zenon DEF PassInv
<1>7. ASSUME NEW id \in VisibleIds, id <= r0.order PROVE Covered(id)'
  <2>1. CASE id <= saved_max
    BY <1>2, <2>1, Zenon DEF PassInv
  <2>2. CASE \E r \in rows : r.order = id
    BY <1>1, <1>3, <1>4, <1>7, <2>2
  <2>3. CASE \A r \in rows : r.order < id
    BY <1>4, <1>7, <2>3
  <2> QED
    BY <1>1, <2>1, <2>2, <2>3, Zenon DEF PassInv
<1>8. \A id \in VisibleIds : id <= saved_max' \/ id <= last_applied' => Covered(id)'
  BY <1>1, <1>2, <1>7, Zenon DEF PassInv
<1>9. \A r \in queue', id \in VisibleIds : id <= r.order => Covered(id)'
  BY <1>2, <1>7, Zenon DEF PassInv
<1>10. \A id \in VisibleIds :
         id <= saved_max' \/ (\E r \in rows' : r.order = id) \/ (\A r \in rows' : r.order < id)
  <2> SUFFICES ASSUME NEW id \in VisibleIds
               PROVE  \/ id <= saved_max' \/ (\E r \in rows' : r.order = id)
                      \/ (\A r \in rows' : r.order < id)
    BY Zenon
  <2>1. CASE id <= saved_max
    BY <1>4, <1>5, <2>1
  <2>2. ASSUME NEW r \in rows, r.order = id PROVE id <= saved_max' \/ \E q \in rows' : q.order = id
    BY <1>1, <1>5, <2>2, Zenon
  <2> QED
    BY <1>1, <2>1, <2>2, Zenon DEF PassInv
<1>11. PassInv'
  BY <1>1, <1>2, <1>6, <1>8, <1>9, <1>10, Zenon DEF PassInv
<1>12. \A t \in todo, r \in queue' : 0 < r.order /\ r.order < t => r.order \in todo
  <2> SUFFICES ASSUME NEW t \in todo, 0 < r0.order, r0.order < t PROVE FALSE
    BY Zenon DEF OrderInv
  <2>1. PICK q \in queue : q.trx = t /\ q.order > 0
    BY Zenon DEF QueueInv
  <2>2. t < r0.trx /\ r0.order = r0.trx
    BY <1>4, <2>1, Zenon DEF QueueInv
  <2> QED
    BY <1>4, <2>2
<1>13. Reached <= saved_max' /\ last_applied <= saved_max'
  BY <1>1, <1>4, <1>5 DEF OrderInv, Positioned
<1>14. \A r \in queue' : r.order > 0 => r.order >= Reached /\ r.order >= last_applied
  BY <1>4 DEF OrderInv
<1> QED
  BY <1>1, <1>2, <1>11, <1>12, <1>13, <1>14, Zenon DEF OrderInv, IsNext

\* The consumer's list has no gaps.
LEMMA OrderTodo ==
  ASSUME TypeOK, QueueInv, PassInv, OrderInv, ShownInOrder, UNCHANGED log,
         getListOfCompletedTransactions
  PROVE  PassInv' /\ OrderInv'
<1>1. /\ UNCHANGED <<queue, rows, last_applied, applied, saved_max, producer, connected, list>>
      /\ todo' = {r.trx : r \in {r \in queue : r.order > 0}}
      /\ consumer' \in {"asleep", "apply"}
  BY Zenon DEF getListOfCompletedTransactions, elsewhere, producing
<1>2. Executed' = Executed /\ Reached' = Reached /\ VisibleIds' = VisibleIds
        /\ \A id : Covered(id)' = Covered(id)
  BY <1>1, Zenon DEF Executed, Reached, VisibleIds, Covered
<1>3. \A r \in queue : 0 < r.order => r.order \in todo'
  BY <1>1, Numbers DEF QueueInv
<1>4. PassInv'
  BY <1>1, <1>2, Zenon DEF PassInv
<1> QED
  BY <1>1, <1>2, <1>3, <1>4, Zenon DEF OrderInv, Positioned

\* The transaction the consumer turns to is the oldest one in the queue, and the slave has
\* neither executed nor recorded a later one.
LEMMA NextIsOldest ==
  ASSUME TypeOK, QueueInv, OrderInv, NEW t \in todo, IsNext(t)
  PROVE  /\ t \in Nat \ {0} /\ t >= Reached /\ t >= last_applied
         /\ \E r \in queue : r.trx = t /\ r.order = t
         /\ \A r \in queue : r.order > 0 => r.order >= t
         /\ \A r \in rows : r.order > 0 => r.order > t
<1>1. /\ todo \subseteq Nat
      /\ \A r \in queue \cup rows :
           r.trx \in Nat /\ r.order \in Nat /\ (r.order = 0 \/ r.order = r.trx)
  BY Numbers, Zenon
<1>2. PICK q \in queue : q.trx = t /\ q.order > 0
  BY Zenon DEF QueueInv
<1>3. q.order = t
  BY <1>1, <1>2
<1>4. \A r \in queue : r.order > 0 => r.order >= t
  BY <1>1 DEF OrderInv, IsNext
<1>5. \A r \in rows : r.order > 0 => r.order > t
  BY <1>1, <1>2 DEF QueueInv
<1> QED
  BY <1>1, <1>2, <1>3, <1>4, <1>5 DEF OrderInv

\* Executing it, wholly or in part, keeps the order.
LEMMA OrderExecute ==
  ASSUME TypeOK, QueueInv, PassInv, OrderInv, ShownInOrder, UNCHANGED log, ~masked',
         ~ignore_errors, NEW t \in todo, executeSQLWithCommitId(t)
  PROVE  PassInv' /\ OrderInv'
<1>1. /\ UNCHANGED <<queue, rows, todo, saved_max, producer, connected, list>>
      /\ consumer' \in {"delete", "stop"} /\ IsNext(t)
      /\ applied' = applied \/ applied' = Enter(t)
      /\ last_applied' = last_applied \/ last_applied' = t
      /\ consumer' = "delete" => applied' = Enter(t) /\ last_applied' = t
  BY Zenon DEF executeSQLWithCommitId, elsewhere, producing, Swallowed
<1>2. /\ t \in Nat \ {0} /\ t >= Reached /\ t >= last_applied
      /\ \E r \in queue : r.trx = t /\ r.order = t
      /\ \A r \in queue : r.order > 0 => r.order >= t
      /\ \A r \in rows : r.order > 0 => r.order > t
  BY <1>1, NextIsOldest, Zenon
<1>3. /\ saved_max \in Nat /\ last_applied \in Nat /\ Reached \in Nat /\ todo \subseteq Nat
      /\ Executed \subseteq Nat /\ VisibleIds \subseteq Nat \ {0} /\ VisibleIds' = VisibleIds
      /\ \A r \in queue \cup rows : r.trx \in Nat /\ r.order \in Nat
  BY Numbers, Zenon DEF ShownInOrder, VisibleIds
<1>4. \/ applied' = applied /\ Executed' = Executed /\ Reached' = Reached
      \/ applied' = Enter(t) /\ Executed' = Executed \cup {t} /\ Reached' = t
  <2>1. applied \in Seq(Nat)
    BY Zenon DEF TypeOK
  <2>2. applied' = Enter(t) => Executed' = Executed \cup {t} /\ Reached' = t
    BY <1>2, <2>1, EnterEffect, Zenon
  <2>3. applied' = applied => Executed' = Executed /\ Reached' = Reached
    BY Zenon DEF Executed, Reached
  <2> QED
    BY <1>1, <2>2, <2>3, Zenon
<1>5. \A id : Covered(id) => Covered(id)'
  BY <1>1, <1>4, Zenon DEF Covered
<1>6. \A id \in VisibleIds : id <= saved_max \/ id <= last_applied' => Covered(id)'
  BY <1>1, <1>2, <1>5, Zenon DEF PassInv
<1>7. last_applied' \in VisibleIds \cup {0}
  BY <1>1, <1>2, Zenon DEF PassInv
<1>8. PassInv'
  BY <1>1, <1>3, <1>5, <1>6, <1>7, Zenon DEF PassInv
<1>9. Reached' \in Nat /\ last_applied' \in Nat /\ Reached' <= t /\ last_applied' <= t
        /\ Reached <= Reached' /\ last_applied <= last_applied'
  BY <1>1, <1>2, <1>3, <1>4
<1>10. \A id \in Executed' :
         id <= Reached' /\ (id <= last_applied' \/ \E r \in queue' : r.order = id)
  <2>1. \A id \in Executed : id <= Reached' /\ (id <= last_applied' \/ \E r \in queue : r.order = id)
    BY <1>3, <1>9 DEF OrderInv
  <2> QED
    BY <1>1, <1>2, <1>4, <2>1
<1>11. \A r \in queue : r.order > 0 => r.order >= Reached' /\ r.order >= last_applied'
  BY <1>2, <1>3, <1>9
<1>12. \A r \in rows : r.order > 0 => r.order > Reached' /\ r.order > last_applied'
  BY <1>2, <1>3, <1>9
<1>13. Positioned => Reached' <= saved_max /\ last_applied' <= saved_max
  <2>1. Positioned => t <= saved_max
    BY <1>2 DEF QueueInv
  <2> QED
    BY <1>2, <1>3, <1>9, <2>1
<1>14. consumer' = "delete" => \A u \in todo' : IsNext(u)' => u \in Executed' /\ last_applied' = u
  <2> SUFFICES ASSUME consumer' = "delete", NEW u \in todo, IsNext(u)'
               PROVE  u \in Executed' /\ last_applied' = u
    BY <1>1, Zenon
  <2>1. u = t
    BY <1>1, <1>3 DEF IsNext
  <2>2. applied' = Enter(t) /\ last_applied' = t
    BY <1>1, Zenon
  <2>3. t \in Executed'
    <3>1. applied \in Seq(Nat)
      BY Zenon DEF TypeOK
    <3> QED
      BY <1>2, <2>2, <3>1, EnterEffect, Zenon
  <2> QED
    BY <2>1, <2>2, <2>3, Zenon
<1> QED
  BY <1>1, <1>8, <1>10, <1>11, <1>12, <1>13, <1>14, Zenon DEF OrderInv, Positioned

\* What is deleted has been executed and recorded.
LEMMA OrderDelete ==
  ASSUME TypeOK, QueueInv, PassInv, OrderInv, ShownInOrder, UNCHANGED log, ~masked',
         NEW t \in todo, deleteFromQueue(t), queue' = {r \in queue : r.trx # t}
  PROVE  PassInv' /\ OrderInv'
<1>1. /\ UNCHANGED <<rows, saved_max, producer, connected, list, last_applied, applied>>
      /\ consumer = "delete" /\ IsNext(t) /\ consumer' \in {"stop", "asleep", "apply"}
      /\ todo' = todo \ {t} \/ queue' = queue
  BY Zenon DEF deleteFromQueue, elsewhere, producing, Swallowed
<1>2. t \in Executed /\ last_applied = t
  BY <1>1, Zenon DEF OrderInv
<1>3. /\ \E r \in queue : r.trx = t
      /\ t \in Nat \ {0}
  BY <1>1, NextIsOldest, Zenon
<1>4. todo' = todo \ {t}
  BY <1>1, <1>3, Zenon
<1>5. Executed' = Executed /\ Reached' = Reached /\ VisibleIds' = VisibleIds
  BY <1>1, Zenon DEF Executed, Reached, VisibleIds
<1>6. /\ VisibleIds \subseteq Nat \ {0} /\ Executed \subseteq Nat /\ last_applied \in Nat
      /\ \A r \in queue \cup rows :
           r.trx \in Nat /\ r.order \in Nat /\ (r.order = 0 \/ r.order = r.trx)
  BY Numbers, Zenon DEF ShownInOrder
<1>7. \A id \in VisibleIds : Covered(id) => Covered(id)'
  BY <1>2, <1>5, <1>6, Zenon DEF Covered
<1>8. PassInv'
  BY <1>1, <1>5, <1>7, Zenon DEF PassInv
<1>9. ASSUME NEW id \in Executed PROVE id <= last_applied \/ \E r \in queue' : r.order = id
  <2>1. CASE id <= last_applied
    BY <2>1, Zenon
  <2>2. ASSUME NEW r \in queue, r.order = id PROVE id <= last_applied \/ r \in queue'
    BY <1>2, <1>6, <2>2
  <2> QED
    BY <2>1, <2>2, Zenon DEF OrderInv
<1>10. \A u \in todo', r \in queue' : 0 < r.order /\ r.order < u => r.order \in todo'
  BY <1>4, <1>6 DEF OrderInv
<1> QED
  BY <1>1, <1>5, <1>8, <1>9, <1>10, Zenon DEF OrderInv, Positioned

\* The empty tables satisfy the invariant.
LEMMA OneClientInvInit == Init => OneClientInv
<1> SUFFICES ASSUME Init PROVE OneClientInv
  BY Zenon
<1>1. log = << >> /\ DOMAIN log = {} /\ applied = << >> /\ DOMAIN applied = {}
  BY DEF Init, LogInit
<1>2. IdsAscend
  BY <1>1, Zenon DEF IdsAscend
<1>3. PassInv /\ OrderInv
  BY <1>1, Zenon DEF Init, PassInv, OrderInv, VisibleIds, Executed, Reached, Positioned
<1> QED
  BY <1>2, <1>3, SlaveInvInit, Zenon DEF OneClientInv

\* Every step preserves it.
LEMMA OneClientInvStep ==
  ASSUME OneClient, OneClientInv, [Next]_vars
  PROVE  OneClientInv' /\ (~Excuse' => ~Excuse /\ ShownInOrder)
<1>1. /\ SlaveInv /\ SlaveInv' /\ TypeOK /\ LogInv /\ IdsAscend /\ LogTypeOK'
  BY SlaveInvStep, Zenon DEF OneClientInv, SlaveInv, TypeOK
<1>2. IdsAscend'
  BY <1>1, LogSteps, Ascending, Zenon
<1>3. UNCHANGED ignore_errors
  BY Zenon DEF Next, producerStep, announce, openConnection, queryForMaxCommitId, queryForTrxIdList,
       queryForReplicationEvents, queryFails, queueInsert, fetchMore, shutdownProducer,
       wakeProducer, consumerStep, initConsumer, getListOfCompletedTransactions,
       executeSQLWithCommitId, abort, recordIgnored, deleteFromQueue, shutdownConsumer,
       wakeConsumer, restartSlave, crashSlave, Restart, crashMaster, master, others, elsewhere,
       options, slavevars, vars
<1>4. ASSUME ~Excuse' PROVE PassInv' /\ OrderInv' /\ ~Excuse /\ ShownInOrder
  <2>1. /\ ~masked' /\ ~masked /\ ~ignore_errors /\ (Quiet \/ Moved)
        /\ UNCHANGED log \/ crashMaster \/ master
    BY <1>1, <1>3, <1>4, StepKinds, Zenon DEF Excuse
  <2>2. ~Excuse /\ QueueInv /\ PassInv /\ OrderInv
    BY <1>1, <2>1, Zenon DEF Excuse, OneClientInv, SlaveInv
  <2>3. ShownInOrder
    BY <1>1, <2>1, MasterShows, Zenon
  <2>4. CASE Quiet
    BY <1>1, <2>2, <2>3, <2>4, PassQuiet, OrderQuiet, Zenon
  <2>5. CASE Moved
    <3>1. UNCHANGED log
      BY <2>5, Zenon DEF Moved, queryForMaxCommitId, queryForTrxIdList, queryForReplicationEvents,
           queueInsert, getListOfCompletedTransactions, executeSQLWithCommitId, recordIgnored,
           deleteFromQueue, others, elsewhere, logvars
    <3>2. CASE queryForMaxCommitId /\ producer' = "list" /\ saved_max = 0
      BY <1>1, <2>2, <2>3, <3>1, <3>2, OrderMax, Zenon
    <3>3. CASE queryForTrxIdList
      BY <1>1, <2>2, <2>3, <3>1, <3>3, OrderList, Zenon
    <3>4. CASE queryForReplicationEvents
      BY <1>1, <2>2, <2>3, <3>1, <3>4, OrderFetch, Zenon
    <3>5. CASE \E r \in rows : queueInsert(r) /\ queue' = queue \cup {r} /\ producer' = "insert"
      BY <1>1, <2>2, <2>3, <3>1, <3>5, OrderInsert, Zenon
    <3>6. CASE getListOfCompletedTransactions
      BY <1>1, <2>2, <2>3, <3>1, <3>6, OrderTodo, Zenon
    <3>7. ASSUME NEW t \in todo, executeSQLWithCommitId(t) PROVE PassInv' /\ OrderInv'
      BY <1>1, <2>1, <2>2, <2>3, <3>1, <3>7, OrderExecute, Zenon
    <3>8. \A t \in todo : ~recordIgnored(t)
      BY <2>2, Zenon DEF OrderInv, recordIgnored
    <3>9. ASSUME NEW t \in todo, deleteFromQueue(t), queue' = {r \in queue : r.trx # t}
          PROVE  PassInv' /\ OrderInv'
      BY <1>1, <2>1, <2>2, <2>3, <3>1, <3>9, OrderDelete, Zenon
    <3> QED
      BY <2>2, <2>3, <2>5, <3>2, <3>3, <3>4, <3>5, <3>6, <3>7, <3>8, <3>9, Zenon DEF Moved
  <2> QED
    BY <2>1, <2>2, <2>3, <2>4, <2>5, Zenon
<1> QED
  BY <1>1, <1>2, <1>4, Zenon DEF OneClientInv

-----------------------------------------------------------------------------

\* With one client committing on the master, the slave's position never moves past a
\* commit that it has neither executed nor queued.
THEOREM NothingIsSkipped == ASSUME OneClient PROVE Spec => []NothingSkipped
<1>1. OneClientInv => NothingSkipped
  BY Zenon DEF OneClientInv, NothingSkipped, PassInv, Covered
<1>2. OneClientInv /\ [Next]_vars => OneClientInv'
  BY OneClientInvStep, Zenon
<1> QED
  BY <1>1, <1>2, OneClientInvInit, PTL DEF Spec

\* Entering a transaction is the Execute step of OrderedApply, or no step at all.
LEMMA ExecuteIsNext ==
  ASSUME TypeOK, QueueInv, PassInv, OrderInv, ShownInOrder, UNCHANGED <<log, masked, ignore_errors>>,
         NEW t \in todo, IsNext(t), applied' = Enter(t)
  PROVE  [Ordered!ApplyNext]_(Ordered!applyvars)
<1>1. /\ t \in Nat \ {0} /\ t >= Reached
      /\ \E r \in queue : r.trx = t /\ r.order = t
  BY NextIsOldest, Zenon
<1>2. Executed \subseteq Nat /\ VisibleIds \subseteq Nat \ {0} /\ Reached \in Nat
        /\ todo \subseteq Nat /\ VisibleIds' = VisibleIds /\ Excuse' = Excuse
  BY Numbers, Zenon DEF ShownInOrder, VisibleIds, Excuse
<1>3. t \in VisibleIds
  BY <1>1, Zenon DEF PassInv
<1>4. ASSUME NEW j \in VisibleIds, j > Reached PROVE t <= j
  <2> SUFFICES ASSUME j < t PROVE FALSE
    BY <1>1, <1>2
  <2>1. Covered(j)
    BY <1>1, <1>2 DEF PassInv
  <2>2. j \notin Executed
    BY <1>2, <1>4 DEF OrderInv
  <2>3. j \in todo
    BY <1>2, <2>1, <2>2 DEF Covered, OrderInv
  <2> QED
    BY <1>1, <1>2, <2>3 DEF IsNext
<1>5. Ordered!Reached = Reached
  BY Zenon DEF Ordered!Reached, Reached
<1>6. CASE applied # << >> /\ applied[Len(applied)] = t
  BY <1>2, <1>6, Zenon DEF Enter, Ordered!applyvars
<1>7. CASE ~(applied # << >> /\ applied[Len(applied)] = t)
  <2>1. applied' = Append(applied, t) /\ t # Reached
    BY <1>1, <1>7, Zenon DEF Enter, Reached
  <2>2. t > Reached
    BY <1>1, <1>2, <2>1
  <2>3. Ordered!Execute
    BY <1>2, <1>3, <1>4, <1>5, <2>1, <2>2, Zenon DEF Ordered!Execute
  <2> QED
    BY <2>3, Zenon DEF Ordered!ApplyNext
<1> QED
  BY <1>6, <1>7, Zenon

\* Every step of the slave and of its master is a step of OrderedApply or none.
LEMMA StepsAreOrdered ==
  ASSUME OneClient, OneClientInv, [Next]_vars
  PROVE  [Ordered!ApplyNext]_(Ordered!applyvars)
<1>1. CASE Excuse'
  BY <1>1, Zenon DEF Ordered!ApplyNext, Ordered!Excused
<1>2. CASE ~Excuse'
  <2>1. ~Excuse /\ ShownInOrder
    BY <1>2, OneClientInvStep, Zenon
  <2>2. /\ TypeOK /\ QueueInv /\ PassInv /\ OrderInv
        /\ ~masked' /\ ~masked /\ ~ignore_errors' /\ ~ignore_errors
    BY <1>2, <2>1, Zenon DEF Excuse, OneClientInv, SlaveInv
  <2>3. /\ Quiet \/ Moved
        /\ UNCHANGED log \/ crashMaster \/ master
    BY <2>2, StepKinds, Zenon
  <2>4. ASSUME UNCHANGED applied PROVE [Ordered!ApplyNext]_(Ordered!applyvars)
    <3>1. ASSUME NEW id \in VisibleIds \ VisibleIds' PROVE id > Ordered!Reached
      <4>1. ~ReadBy(id) /\ id \in Nat \ {0}
        BY <2>1, <3>1, Zenon DEF ShownInOrder
      <4>2. Ordered!Reached = Reached
        BY Zenon DEF Ordered!Reached, Reached
      <4>3. /\ Reached \in Nat /\ last_applied \in Nat /\ (Reached = 0 \/ Reached \in Executed)
            /\ \A r \in queue : r.trx \in Nat /\ (r.order = 0 \/ r.order = r.trx)
        BY <2>2, Numbers, Zenon
      <4>4. id > last_applied /\ \A r \in queue : r.trx # id
        BY <4>1, <4>3 DEF ReadBy
      <4>5. id \notin Executed
        BY <2>2, <4>1, <4>3, <4>4 DEF OrderInv
      <4>6. ~Covered(id)
        BY <4>1, <4>3, <4>4, <4>5, Zenon DEF Covered
      <4>7. \A r \in queue : ~(id <= r.order)
        BY <2>2, <3>1, <4>6, Zenon DEF PassInv
      <4>8. ~(id <= Reached)
        BY <2>2, <4>1, <4>3, <4>4, <4>7 DEF OrderInv
      <4> QED
        BY <4>1, <4>2, <4>3, <4>8
    <3>2. Excuse' = Excuse
      BY <1>2, <2>1, Zenon DEF Excuse
    <3> QED
      BY <2>4, <3>1, <3>2, Zenon DEF Ordered!ApplyNext, Ordered!Commit
  <2>5. CASE Quiet
    BY <2>4, <2>5, Zenon DEF Quiet
  <2>6. ASSUME NEW t \in todo, executeSQLWithCommitId(t)
        PROVE  [Ordered!ApplyNext]_(Ordered!applyvars)
    <3>1. /\ UNCHANGED log /\ IsNext(t)
          /\ applied' = applied \/ applied' = Enter(t)
      BY <2>6, Zenon DEF executeSQLWithCommitId, elsewhere, logvars
    <3>2. UNCHANGED <<log, masked, ignore_errors>>
      BY <2>6, <2>2, <3>1, Zenon DEF executeSQLWithCommitId, elsewhere, options, Succeeds, Reported, Swallowed
    <3> QED
      BY <2>1, <2>2, <2>4, <3>1, <3>2, ExecuteIsNext, Zenon
  <2>7. CASE Moved /\ ~\E t \in todo : executeSQLWithCommitId(t)
    <3>1. UNCHANGED applied
      BY <2>7, Zenon DEF Moved, queryForMaxCommitId, queryForTrxIdList, queryForReplicationEvents,
           queueInsert, getListOfCompletedTransactions, recordIgnored, deleteFromQueue,
           others, elsewhere
    <3> QED
      BY <2>4, <3>1, Zenon
  <2> QED
    BY <2>3, <2>5, <2>6, <2>7, Zenon
<1> QED
  BY <1>1, <1>2, Zenon

\* With one client committing on the master, the slave implements OrderedApply: it executes
\* the master's commits in order and leaves none out, unless it was told to ignore errors
\* or a failure was swallowed.
THEOREM SlaveImplementsOrderedApply == ASSUME OneClient PROVE Spec => ImplementsOrderedApply
<1>1. Init => Ordered!ApplyInit
  BY DEF Init, LogInit, Ordered!ApplyInit, VisibleIds, Excuse
<1>2. OneClientInv /\ [Next]_vars => OneClientInv'
  BY OneClientInvStep, Zenon
<1>3. OneClientInv /\ [Next]_vars => [Ordered!ApplyNext]_(Ordered!applyvars)
  BY StepsAreOrdered, Zenon
<1> QED
  BY <1>1, <1>2, <1>3, OneClientInvInit, PTL
  DEF Spec, ImplementsOrderedApply, Ordered!ApplySpec
=============================================================================
