-------------------------------- MODULE Slave --------------------------------
(***************************************************************************)
(* The slave plugin beside one master's log.  The producer (the IO thread) *)
(* copies log rows into the local table sys_replication.queue, the         *)
(* consumer (the applier thread) executes the transactions of the queue in *)
(* commit order and removes them.  The tables queue and applier_state and  *)
(* the replicated data survive a crash of the slave; the threads and the   *)
(* producer's cached position do not.  The status columns of applier_state *)
(* and io_state are left out, the failures of writing them are not.        *)
(*                                                                         *)
(* A transaction is known by its commit id.  Its rows 1..n carry commit id *)
(* 0 except the last one.                                                  *)
(***************************************************************************)
EXTENDS CommitLog, FiniteSets

CONSTANTS
  Limits,        \* transactions per query of the producer (the code has 25)
  MaxCommits,    \* bound: commit ids the master draws
  MaxFaults      \* bound: failures of local SQL or of the connection, and crashes
                 \* of the slave or of the master

ASSUME LimitsAssumption == Limits \subseteq Nat \ {0}

VARIABLES
  queue,           \* sys_replication.queue
  last_applied,    \* applier_state.last_applied_commit_id
  applied,         \* what was executed on the slave's data, in order; an
                   \* immediate repetition is not entered twice
  ignore_errors,   \* the option ignore-errors
  limit,           \* the LIMIT of the producer's query, one of Limits
  producer,        \* where the producer is
  connected,       \* whether its connection to the master is up
  saved_max,       \* _saved_max_commit_id
  list,            \* trx_id_list
  rows,            \* the rows fetched and not yet in the queue
  consumer,        \* where the consumer is
  todo,            \* what is left of completedTransactionIds
  in_error_state,  \* _in_error_state of each thread's SQLExecutor
  faults,          \* how many failures and crashes so far
  masked           \* some failure was swallowed because of in_error_state

options == <<ignore_errors, limit>>
producing == <<producer, connected, saved_max, list, rows>>
consuming == <<consumer, todo>>
slavevars == <<queue, last_applied, applied, options,
               producing, consuming, in_error_state, faults, masked>>
vars == <<logvars, slavevars>>

\* what a query of sys_replication_log sees
VisibleIds == {log[i].commit_id : i \in DOMAIN log}

Row == [trx : Nat, seg : 1..MaxRows, order : Nat]

\* the rows of one transaction; trx_id, seg_id and commit_order are what the slave uses
RowsFromZero(e) ==
  {[trx |-> e.commit_id, seg |-> n, order |-> IF n = e.rows - 1 THEN e.commit_id ELSE 0] :
     n \in 0..(e.rows - 1)}
RowsOf(e) ==
  {[trx |-> e.commit_id, seg |-> n, order |-> IF n = e.rows THEN e.commit_id ELSE 0] :
     n \in 1..e.rows}

Fails == faults < MaxFaults /\ faults' = faults + 1

\* SQLExecutor::executeSQL.  The batch runs as one transaction of another session.
\* A failure is reported unless the executor is in the error state already, in
\* which case the caller is told that the batch succeeded.
Succeeds == UNCHANGED <<in_error_state, masked, faults>>
Reported(thread) ==
  /\ ~in_error_state[thread]
  /\ in_error_state' = [in_error_state EXCEPT ![thread] = TRUE]
  /\ UNCHANGED masked
Swallowed(thread) ==
  /\ in_error_state[thread]
  /\ masked' = TRUE
  /\ UNCHANGED in_error_state

others == <<logvars, last_applied, applied, options, consuming>>

\* -------------------------------- producer --------------------------------

\* setIOState updates the status in io_state and ignores whether that worked
setIOState ==
  \/ Succeeds
  \/ Fails /\ (Reported("producer") \/ Swallowed("producer"))

\* init() and reconnect() first write the status RUNNING; what can come of the writes
\* during and after the attempts to connect can come of this one ...
announce ==
  /\ \/ producer = "start" /\ producer' = "connect"
     \/ producer = "lost" /\ producer' = "reconnect"
  /\ setIOState
  /\ UNCHANGED <<others, queue, connected, saved_max, list, rows>>

\* ... then try max_reconnects times.  A producer that loses its master stops; one
\* that never reached it returns from run() without shutdown().
openConnection ==
  /\ \/ /\ producer = "connect" /\ producer' = "process"
        /\ connected' = TRUE
        /\ UNCHANGED faults
     \/ /\ producer = "reconnect" /\ producer' = "asleep"
        /\ connected' = TRUE
        /\ UNCHANGED faults
     \/ /\ \/ producer = "connect" /\ producer' = "gone"
           \/ producer = "reconnect" /\ producer' = "stop"
        /\ Fails
        /\ UNCHANGED connected
  /\ UNCHANGED <<others, queue, saved_max, list, rows, in_error_state, masked>>

\* queryForMaxCommitId, only while the cached position is 0: the largest commit
\* order of the queue or the last one applied.  An error ends the thread.
queryForMaxCommitId ==
  /\ producer = "process"
  /\ \/ saved_max # 0 /\ producer' = "list" /\ UNCHANGED <<saved_max, faults>>
     \/ /\ saved_max = 0 /\ producer' = "list"
        /\ LET known == {r.order : r \in queue} \cup {last_applied}
           IN \E m \in known : (\A k \in known : k <= m) /\ saved_max' = m
        /\ UNCHANGED faults
     \/ /\ saved_max = 0 /\ producer' = "stop"
        /\ Fails
        /\ UNCHANGED saved_max
  /\ UNCHANGED <<others, queue, connected, list, rows, in_error_state, masked>>

\* the ids queryForTrxIdList asks for
NewerByTwo == {i \in VisibleIds : i > saved_max + 1}
Newer == {i \in VisibleIds : i > saved_max}

\* ORDER BY commit_id LIMIT 25
AnyOfThem(ids, all) == Cardinality(ids) <= limit /\ (ids # all => Cardinality(ids) = limit)
FirstOfThem(ids, all) ==
  /\ Cardinality(ids) <= limit
  /\ ids # all => Cardinality(ids) = limit
  /\ \A i \in ids, j \in all \ ids : i < j

\* queryForTrxIdList: nothing new means that the slave has caught up
queryForTrxIdList ==
  /\ producer = "list" /\ connected
  /\ \E ids \in SUBSET Newer :
       /\ FirstOfThem(ids, Newer)
       /\ list' = ids
       /\ producer' = IF ids = {} THEN "asleep" ELSE "rows"
  /\ UNCHANGED <<others, queue, connected, saved_max, rows, in_error_state, faults, masked>>

\* the second query of queryForReplicationEvents: all rows of those transactions
queryForReplicationEvents ==
  /\ producer = "rows" /\ connected
  /\ rows' = UNION {RowsOf(log[i]) : i \in {i \in DOMAIN log : log[i].commit_id \in list}}
  /\ list' = {}
  /\ producer' = "insert"
  /\ UNCHANGED <<others, queue, connected, saved_max, in_error_state, faults, masked>>

\* either query finds the connection lost, or fails for another reason
queryFails ==
  /\ producer \in {"list", "rows"}
  /\ \/ ~connected /\ producer' = "lost" /\ UNCHANGED faults
     \/ Fails /\ producer' \in {"lost", "stop"}
  /\ connected' = FALSE
  /\ list' = {}
  /\ UNCHANGED <<others, queue, saved_max, rows, in_error_state, masked>>

\* ORDER BY commit_id ASC of the second query
AnyRow(r) == r \in rows
FirstRow(r) == r \in rows /\ \A q \in rows : r.order <= q.order

\* queueInsert: one row in a transaction of its own, in the order of the commit ids
\* (rows with 0 first).  The key of the queue is (trx_id, seg_id).
queueInsert(r) ==
  /\ producer = "insert"
  /\ FirstRow(r)
  /\ \/ /\ \A q \in queue : <<q.trx, q.seg>> # <<r.trx, r.seg>>
        /\ queue' = queue \cup {r}
        /\ Succeeds
     \/ /\ \/ (\E q \in queue : <<q.trx, q.seg>> = <<r.trx, r.seg>>) /\ UNCHANGED faults
           \/ Fails
        /\ Reported("producer") \/ Swallowed("producer")
        /\ UNCHANGED queue
  /\ IF in_error_state'["producer"] /\ ~in_error_state["producer"]
     THEN producer' = "stop" /\ rows' = {} /\ UNCHANGED saved_max
     ELSE /\ rows' = rows \ {r}
          /\ saved_max' = IF r.order > saved_max THEN r.order ELSE saved_max
          /\ UNCHANGED producer
  /\ UNCHANGED <<others, connected, list>>

\* every row is in the queue: process() keeps getting events until caught up
fetchMore ==
  /\ producer = "insert" /\ rows = {}
  /\ producer' = "list"
  /\ UNCHANGED <<others, queue, connected, saved_max, list, rows, in_error_state, faults, masked>>

\* process() returned false: QueueThread::run calls shutdown() and returns
shutdownProducer ==
  /\ producer = "stop"
  /\ producer' = "gone"
  /\ setIOState
  /\ UNCHANGED <<others, queue, connected, saved_max, list, rows>>

wakeProducer ==
  /\ producer = "asleep"
  /\ producer' = "process"
  /\ UNCHANGED <<others, queue, connected, saved_max, list, rows, in_error_state, faults, masked>>

\* -------------------------------- consumer --------------------------------

elsewhere == <<logvars, options, producing>>

\* setApplierState clears the error state first and ignores whether the UPDATE works
setApplierState ==
  /\ \/ /\ in_error_state' = [in_error_state EXCEPT !["consumer"] = FALSE]
        /\ UNCHANGED faults
     \/ /\ in_error_state' = [in_error_state EXCEPT !["consumer"] = TRUE]
        /\ Fails
  /\ UNCHANGED masked

initConsumer ==
  /\ consumer = "start"
  /\ consumer' = "list"
  /\ setApplierState
  /\ UNCHANGED <<elsewhere, queue, last_applied, applied, todo>>

\* processSingleMaster reads the list once and then works through it
getListOfCompletedTransactions ==
  /\ consumer = "list"
  /\ todo' = {r.trx : r \in {r \in queue : r.order > 0}}
  /\ consumer' = IF todo' = {} THEN "asleep" ELSE "apply"
  /\ UNCHANGED <<elsewhere, queue, last_applied, applied, in_error_state, faults, masked>>

\* the list is ordered by commit_order
AnyListed(t) == t \in todo
IsNext(t) == t \in todo /\ \A u \in todo : t <= u

\* getMessage for segments 1, 2, ... until one is missing ends with a row that
\* carries the commit id
Assembled(t) ==
  \E last \in queue :
    /\ last.trx = t /\ last.order > 0
    /\ \A n \in 1..last.seg : \E r \in queue : r.trx = t /\ r.seg = n

Executed == {applied[i] : i \in DOMAIN applied}

Enter(t) ==
  IF applied # << >> /\ applied[Len(applied)] = t THEN applied ELSE Append(applied, t)

\* executeSQLWithCommitId: the statements of t and the UPDATE of applier_state in one
\* transaction.  The session goes on after a statement that fails, so any part of the
\* batch may be committed.  A transaction executed before (its rows exist) may fail
\* for that reason alone.
executeSQLWithCommitId(t) ==
  /\ consumer = "apply"
  /\ IsNext(t)
  /\ Assembled(t)
  /\ \/ /\ applied' = Enter(t)
        /\ last_applied' = t
        /\ Succeeds
        /\ consumer' = "delete"
     \/ /\ applied' \in {applied, Enter(t)}
        /\ last_applied' \in {last_applied, t}
        /\ \/ Fails
           \/ t \in Executed /\ UNCHANGED faults
        /\ \/ Reported("consumer") /\ consumer' = IF ignore_errors THEN "record" ELSE "stop"
           \/ Swallowed("consumer") /\ consumer' = "delete"
  /\ UNCHANGED <<elsewhere, queue, todo>>

\* the assertions of processSingleMaster fail: the server aborts
abort(t) ==
  /\ consumer = "apply"
  /\ IsNext(t)
  /\ ~Assembled(t)
  /\ consumer' = "gone" /\ producer' = "gone"
  /\ todo' = {} /\ list' = {} /\ rows' = {}
  /\ UNCHANGED <<logvars, queue, last_applied, applied, options,
                 connected, saved_max, in_error_state, faults, masked>>

\* ignore_errors: clearErrorState, then record that the transaction was handled
recordIgnored(t) ==
  /\ consumer = "record"
  /\ IsNext(t)
  /\ \/ /\ last_applied' = t
        /\ in_error_state' = [in_error_state EXCEPT !["consumer"] = FALSE]
        /\ UNCHANGED faults
     \/ /\ Fails
        /\ in_error_state' = [in_error_state EXCEPT !["consumer"] = TRUE]
        /\ UNCHANGED last_applied
  /\ consumer' = "delete"
  /\ UNCHANGED <<elsewhere, queue, applied, todo, masked>>

deleteFromQueue(t) ==
  LET goOn ==
        /\ todo' = todo \ {t}
        /\ consumer' = IF todo' = {} THEN "asleep" ELSE "apply"
  IN /\ consumer = "delete"
     /\ IsNext(t)
     /\ \/ queue' = {r \in queue : r.trx # t} /\ goOn /\ Succeeds
        \/ /\ Fails
           /\ \/ Reported("consumer") /\ consumer' = "stop" /\ UNCHANGED todo
              \/ Swallowed("consumer") /\ goOn
           /\ UNCHANGED queue
     /\ UNCHANGED <<elsewhere, last_applied, applied>>

shutdownConsumer ==
  /\ consumer = "stop"
  /\ consumer' = "gone"
  /\ todo' = {}
  /\ setApplierState
  /\ UNCHANGED <<elsewhere, queue, last_applied, applied>>

wakeConsumer ==
  /\ consumer = "asleep"
  /\ consumer' = "list"
  /\ UNCHANGED <<elsewhere, queue, last_applied, applied, todo, in_error_state, faults, masked>>

\* ---------------------------- the whole system ----------------------------

\* the server starts: two new threads, the tables as they were
Restart ==
  /\ producer' = "start" /\ consumer' = "start"
  /\ connected' = FALSE
  /\ saved_max' = 0
  /\ list' = {} /\ rows' = {} /\ todo' = {}
  /\ in_error_state' = [thread \in {"producer", "consumer"} |-> FALSE]
  /\ UNCHANGED <<logvars, queue, last_applied, applied, options, masked>>

\* the administrator restarts the server of a thread that has ended
restartSlave ==
  /\ producer = "gone" \/ consumer = "gone"
  /\ Restart
  /\ UNCHANGED faults

crashSlave == Fails /\ Restart

\* the slave has read this commit, or never will
ReadBy(id) ==
  \/ id <= saved_max \/ id <= last_applied
  \/ \E r \in queue \cup rows : r.trx = id

\* A commit is visible before its redo log is flushed, so a crash can take away a
\* commit the slave has read already; what follows from that is not modelled.
crashMaster ==
  /\ Fails
  /\ Crash
  /\ \A i \in DOMAIN log : i > Len(log') => ~ReadBy(log[i].commit_id)
  /\ connected' = FALSE
  /\ UNCHANGED <<queue, last_applied, applied, options,
                 producer, saved_max, list, rows, consuming, in_error_state, masked>>

master ==
  /\ \/ \E c \in Clients :
          \/ counter < MaxCommits /\ Draw(c)
          \/ \E n \in 1..MaxRows : Publish(c, n)
     \/ counter < MaxCommits /\ Waste
     \/ Flush
  /\ UNCHANGED slavevars

Init ==
  /\ LogInit
  /\ queue = {} /\ last_applied = 0
  /\ applied = << >>
  /\ ignore_errors \in BOOLEAN /\ limit \in Limits
  /\ producer = "start" /\ consumer = "start"
  /\ connected = FALSE /\ saved_max = 0
  /\ list = {} /\ rows = {} /\ todo = {}
  /\ in_error_state = [thread \in {"producer", "consumer"} |-> FALSE]
  /\ faults = 0
  /\ masked = FALSE

producerStep ==
  \/ announce \/ openConnection
  \/ queryForMaxCommitId \/ queryForTrxIdList \/ queryForReplicationEvents \/ queryFails
  \/ \E r \in rows : queueInsert(r)
  \/ fetchMore \/ shutdownProducer \/ wakeProducer

consumerStep ==
  \/ initConsumer \/ getListOfCompletedTransactions
  \/ \E t \in todo :
       executeSQLWithCommitId(t) \/ abort(t) \/ recordIgnored(t) \/ deleteFromQueue(t)
  \/ shutdownConsumer \/ wakeConsumer

Next == producerStep \/ consumerStep \/ restartSlave \/ crashSlave \/ crashMaster \/ master

Spec == Init /\ [][Next]_vars

FairSpec == Spec /\ WF_vars(producerStep) /\ WF_vars(consumerStep) /\ WF_vars(restartSlave)

\* ------------------------------- properties -------------------------------

TypeOK ==
  /\ LogTypeOK
  /\ queue \subseteq Row
  /\ last_applied \in Nat
  /\ applied \in Seq(Nat)
  /\ ignore_errors \in BOOLEAN /\ limit \in Limits
  /\ connected \in BOOLEAN /\ masked \in BOOLEAN
  /\ producer \in {"start", "connect", "process", "list", "rows", "insert", "lost",
                   "reconnect", "asleep", "stop", "gone"}
  /\ consumer \in {"start", "list", "apply", "record", "delete", "asleep", "stop", "gone"}
  /\ saved_max \in Nat
  /\ list \subseteq Nat /\ todo \subseteq Nat
  /\ rows \subseteq Row
  /\ in_error_state \in [{"producer", "consumer"} -> BOOLEAN]
  /\ faults \in Nat

Excuse == ignore_errors \/ masked

\* Every commit the slave will not ask the master for again has been executed or is in
\* the queue: queryForMaxCommitId and the cached _saved_max_commit_id never move past
\* a commit that is still to come.
NothingSkipped ==
  Excuse \/ \A id \in VisibleIds :
    (id <= saved_max \/ id <= last_applied) =>
      id \in Executed \/ \E r \in queue : r.order = id

\* A transaction the consumer has listed is whole in the queue until it is deleted, so
\* the assertions of processSingleMaster hold, whatever the producer inserts meanwhile.
ListedIsWhole == masked \/ \A t \in todo : Assembled(t)

Ordered == INSTANCE OrderedApply
             WITH commits <- VisibleIds, executed <- applied, excused <- Excuse

\* The slave keeps the promise of OrderedApply: it executes the master's commits in
\* order and leaves none out.
ImplementsOrderedApply == Ordered!ApplySpec

HalfQueued == \E r \in queue : \A q \in queue : q.trx = r.trx => q.order = 0
Repeating == \E r \in queue : r.trx \in Executed

\* Every commit of the master is executed in the end, through lost connections, failing
\* SQL, crashes and restarts, unless the queue holds forever a transaction of which only
\* some rows arrived (queueInsert finds them there and stops) or one that was executed
\* and not deleted (it is executed again, and may fail again).
CommitsGetApplied ==
  \/ <>Excuse
  \/ <>[](HalfQueued \/ Repeating)
  \/ \A id \in 1..MaxCommits :
       [](id \in VisibleIds => <>(id \in Executed \/ id \notin VisibleIds))
=============================================================================
