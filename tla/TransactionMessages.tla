------------------------ MODULE TransactionMessages ------------------------
(***************************************************************************)
(* The master's side of replication: how TransactionServices builds the    *)
(* Transaction messages of a session, statement by statement and segment   *)
(* by segment, beside the engine's own transaction, and where the messages *)
(* go.  Each message is pushed to two kinds of applier: InnoDB's           *)
(* replication log, whose rows belong to the session's own transaction and *)
(* are undone with it, and a stream (a queue server) that keeps whatever   *)
(* it was given.                                                           *)
(*                                                                         *)
(* The data is abstracted: a row change is a number, a message's size is   *)
(* the number of changes in it.                                            *)
(***************************************************************************)
EXTENDS Naturals, Sequences, Folds

CONSTANTS
  Sessions,
  Commands,       \* the SQL commands each session uses, [Sessions -> SUBSET ..]
  Savepoints,     \* savepoint names
  Thresholds,     \* values of transaction_message_threshold
  NoMessage,      \* the NULL message pointer
  MaxChanges,     \* bound: row changes a session makes, [Sessions -> Nat]
  MaxSavepoints,  \* bound: SAVEPOINT statements, [Sessions -> Nat]
  MaxRows,        \* bound: log rows of one transaction, which follows from MaxChanges
  MaxFailures,    \* bound: statements that fail, in all
  MaxRefusals,    \* bound: messages the stream's applier refuses, in all
  MaxCrashes      \* bound: crashes of the server

Kinds == {"INSERT", "UPDATE", "DELETE"}

ASSUME MessagesAssumption ==
  /\ Commands \in [Sessions -> SUBSET (Kinds \cup {"REPLACE"})]
  /\ Thresholds \subseteq Nat \ {0}
  /\ MaxChanges \in [Sessions -> Nat] /\ MaxSavepoints \in [Sessions -> Nat]
  /\ MaxRows \in Nat \ {0} /\ \A s \in Sessions : MaxChanges[s] < MaxRows

VARIABLES
  threshold,  \* transaction_message_threshold
  session,    \* the state of each session, a record
  commit_id,  \* trx_sys_commit_id
  history,    \* committed transactions, in commit order
  log,        \* those of them that a reader finds in InnoDB's replication log
  flushed,    \* how many of them are on disk
  streamed,   \* what the stream received for the transaction that ended last
  faults      \* the failures, refusals and crashes so far

vars == <<threshold, session, commit_id, history, log, flushed, streamed, faults>>

\* --------------------------- the data structures ---------------------------

\* the messages of transaction.proto
Data == [segment_id : Nat, end_segment : BOOLEAN, record : Seq(Nat)]
StatementType == [type : Kinds \cup {"ROLLBACK", "ROLLBACK_STATEMENT"}, data : [Kinds -> Data]]
Message == [id : Nat, segment_id : Nat, statement : Seq(StatementType)]

ASSUME NoMessageAssumption == NoMessage \notin Message

NoData == [segment_id |-> 0, end_segment |-> FALSE, record |-> << >>]

\* add_statement() followed by set..Header: a Statement of the given type
Statement(type) == [type |-> type, data |-> [k \in Kinds |-> NoData]]

\* the kinds of row change a command makes: INSERT .. ON DUPLICATE KEY UPDATE
\* updates the rows that exist, REPLACE deletes or updates them
ChangesOf(command) ==
  CASE command = "INSERT"  -> {"INSERT", "UPDATE"}
    [] command = "REPLACE" -> Kinds
    [] OTHER               -> {command}

\* the engine's transaction: the changes and the log rows it will commit or undo
NoTrx == [changes |-> << >>, rows |-> << >>]
Lengths(trx) == [changes |-> Len(trx.changes), rows |-> Len(trx.rows)]
UndoTo(trx, mark) ==
  [changes |-> SubSeq(trx.changes, 1, mark.changes), rows |-> SubSeq(trx.rows, 1, mark.rows)]

\* a Session between two transactions
Idle(used, saves) ==
  [begun      |-> FALSE,      \* OPTION_BEGIN
   command    |-> "none",     \* the statement being executed
   committing |-> FALSE,      \* between the push of the message and the commit
   trx        |-> NoTrx,
   mark       |-> Lengths(NoTrx),  \* its lengths when the statement began
   message    |-> NoMessage,  \* getTransactionMessage()
   ids        |-> 0,          \* transaction ids the transaction has drawn
   open       |-> FALSE,      \* getStatementMessage() /= NULL: the last one
   savepoints |-> << >>,      \* the deque, newest first
   sent       |-> << >>,      \* what the stream received
   cut        |-> FALSE,      \* the statement finalized one of its messages
   marks      |-> {},         \* what happened that may spoil replication
   used       |-> used,
   saves      |-> saves]

Row(m, end, id) == [message |-> m, end |-> end, commit_id |-> id]

\* ByteSize() of a message, counted in records
Size(m) ==
  MapThenFoldSet(+, 0, LAMBDA p : Len(m.statement[p[1]].data[p[2]].record),
                 LAMBDA S : CHOOSE p \in S : TRUE, (DOMAIN m.statement) \X Kinds)

\* the statement message of the session is the last one of its message
LastStatement(m) == m.statement[Len(m.statement)]
OtherStatements(m) == SubSeq(m.statement, 1, Len(m.statement) - 1)

\* ------------------------- building the messages --------------------------

\* ReplicationLog::apply: the row goes into the session's transaction.  The
\* table's key is (transaction id, segment id); the error of a duplicate is
\* ignored.
InsertRow(t, m, end, id) ==
  IF \E i \in DOMAIN t.trx.rows : /\ t.trx.rows[i].message.id = m.id
                                  /\ t.trx.rows[i].message.segment_id = m.segment_id
  THEN t
  ELSE [t EXCEPT !.trx.rows = Append(@, Row(m, end, id))]

\* pushTransactionMessage: to InnoDB's log first, then to the stream, whose
\* applier may refuse it
Push(t, m, end, id, refused) ==
  LET logged == InsertRow(t, m, end, id)
  IN IF refused THEN [logged EXCEPT !.marks = @ \cup {"refused"}]
                ELSE [logged EXCEPT !.sent = Append(@, [message |-> m, end |-> end])]

\* getActiveTransactionMessage
Active(t) ==
  IF t.message # NoMessage THEN t
  ELSE [t EXCEPT !.message = [id |-> t.ids + 1, segment_id |-> 1, statement |-> << >>],
                 !.ids = @ + 1]

\* Mutant of Segment: the next segment gets a transaction id of its own.
SegmentUnderNewId(t, refused) ==
  LET m == t.message
  IN [Push(t, m, FALSE, 0, refused) EXCEPT
        !.message = [id |-> t.ids + 1, segment_id |-> m.segment_id + 1, statement |-> << >>],
        !.ids = @ + 1,
        !.open = FALSE]

\* segmentTransactionMessage: the message is pushed as a segment that is not
\* the last one and the next segment begins, under the same id
Segment(t, refused) ==
  LET m == t.message
  IN [Push(t, m, FALSE, 0, refused) EXCEPT
        !.message = [id |-> m.id, segment_id |-> m.segment_id + 1, statement |-> << >>],
        !.open = FALSE]

AddStatement(t, type) ==
  [t EXCEPT !.message.statement = Append(@, Statement(type)), !.open = TRUE]

\* the data of the open statement for kind k
OpenData(t, k) == LastStatement(t.message).data[k]

SetOpenData(t, k, data) ==
  [t EXCEPT !.message.statement[Len(t.message.statement)].data[k] = data]

Full(t) == t.message # NoMessage /\ Size(t.message) >= threshold

\* a continued statement is not asked whether it has the type of this change
Continue(t, k) ==
  IF LastStatement(t.message).type = k THEN t ELSE [t EXCEPT !.marks = @ \cup {"mixed"}]

\* get{Insert,Update,Delete}Statement: the session and the segment id of the
\* next record
GetStatement(t, k, refused) ==
  IF ~t.open
  THEN [session |-> AddStatement(IF Full(t) THEN Segment(t, refused) ELSE Active(t), k),
        next_segment_id |-> 1]
  ELSE IF Full(t)
  THEN LET part == [OpenData(t, k) EXCEPT !.end_segment = FALSE]
       IN [session |-> AddStatement(Segment(SetOpenData(Continue(t, k), k, part), refused), k),
           next_segment_id |-> part.segment_id + 1]
  ELSE [session |-> Continue(t, k), next_segment_id |-> OpenData(t, k).segment_id]

\* {insert,update,delete}Record, and log_row_for_replication, which finalizes
\* the statement message after the delete of a REPLACE
LogRow(t, k, n, refused) ==
  LET got == GetStatement(t, k, refused)
      data == OpenData(got.session, k)
      done == SetOpenData(got.session, k,
                [segment_id  |-> got.next_segment_id,
                 end_segment |-> TRUE,
                 record      |-> Append(data.record, n)])
  IN IF t.command = "REPLACE" /\ k = "DELETE"
     THEN [done EXCEPT !.open = FALSE, !.cut = TRUE]
     ELSE done

\* Mutants of RollbackStatementMessage: one that leaves the failed statement in
\* the message, one that keeps the statement message open.
KeepFailedStatement(t) == [t EXCEPT !.open = FALSE]
LeaveStatementOpen(t) ==
  IF ~t.open THEN t ELSE [t EXCEPT !.message.statement = OtherStatements(t.message)]

\* rollbackStatementMessage
RollbackStatementMessage(t) ==
  IF ~t.open THEN t
  ELSE LET st   == LastStatement(t.message)
           rest == OtherStatements(t.message)
       IN [t EXCEPT !.open = FALSE,
                    !.message.statement =
                      IF st.data[st.type].segment_id > 1
                      THEN Append(rest, Statement("ROLLBACK_STATEMENT")) ELSE rest]

\* transactionContainsBulkSegment
Bulk(m) ==
  m # NoMessage /\ \E i \in DOMAIN m.statement :
    LET st == m.statement[i]
    IN st.type \in Kinds /\ st.data[st.type].segment_id > 1

\* the savepoints without the i-th
Without(q, i) == SubSeq(q, 1, i - 1) \o SubSeq(q, i + 1, Len(q))

\* deque::erase moves the shorter side over the hole with operator=, which
\* copies a savepoint's name and resource contexts and not its message
Erase(q, i) ==
  LET kept == Without(q, i)
      from == IF i - 1 < Len(q) \div 2 THEN 1 ELSE 0
  IN [j \in DOMAIN kept |-> [kept[j] EXCEPT !.message = q[j + from].message]]

\* what Erase leaves in place of a savepoint's own message may be another's
Erased(t, i) ==
  [t EXCEPT !.savepoints = Erase(@, i),
            !.marks = IF Erase(t.savepoints, i) = Without(t.savepoints, i) THEN @
                      ELSE @ \cup {"erased"}]

Find(t, name) == {i \in DOMAIN t.savepoints : t.savepoints[i].name = name}

\* ------------------------------ the actions -------------------------------

Set(s, t) == session' = [session EXCEPT ![s] = t]
Fault(kind) == faults' = [faults EXCEPT ![kind] = @ + 1]
Ready(s) == session[s].command = "none" /\ ~session[s].committing

\* the transaction is over: the stream will not hear of it again
End(s, t, changes) ==
  /\ Set(s, Idle(t.used, t.saves))
  /\ streamed' = [sent |-> t.sent, changes |-> changes, marks |-> t.marks]

begin(s) ==
  /\ Ready(s) /\ ~session[s].begun
  /\ session[s].used < MaxChanges[s]
  /\ Set(s, [session[s] EXCEPT !.begun = TRUE])
  /\ UNCHANGED <<commit_id, history, log, flushed, streamed, faults>>

startStatement(s, command) ==
  /\ Ready(s)
  /\ session[s].used < MaxChanges[s]
  /\ Set(s, [session[s] EXCEPT !.command = command, !.mark = Lengths(session[s].trx)])
  /\ UNCHANGED <<commit_id, history, log, flushed, streamed, faults>>

\* Cursor::{insert,update,delete}Record: the engine, then the message
changeRow(s, k, refused) ==
  LET n == session[s].used + 1
      t == [session[s] EXCEPT !.trx.changes = Append(@, n), !.used = n]
      logged == LogRow(t, k, n, refused)
  IN /\ session[s].command # "none"
     /\ k \in ChangesOf(session[s].command)
     /\ session[s].used < MaxChanges[s]
     /\ refused => faults.refusals < MaxRefusals /\ "refused" \in logged.marks
     /\ Set(s, logged)
     /\ IF refused THEN Fault("refusals") ELSE UNCHANGED faults
     /\ UNCHANGED <<commit_id, history, log, flushed, streamed>>

\* the engine has undone everything and the message is thrown away: a consumer
\* of the segments already sent is not told
Unannounced(t) ==
  IF t.sent = << >> THEN t ELSE [t EXCEPT !.marks = @ \cup {"unannounced"}]

\* Mutant of RollbackAll: no ROLLBACK message, whatever was sent.
SilentRollback(s, t, refused) == ~refused /\ End(s, t, << >>) /\ UNCHANGED commit_id

\* rollbackTransaction(all): the engine first, then rollbackTransactionMessage.
\* The ROLLBACK message finds no transaction in the engine and gets one of its
\* own, committed by insert_replication_message itself; that the stream's
\* applier may refuse it is ignored.  When the statement in the message does
\* not continue one of an earlier segment no ROLLBACK is sent.
RollbackAll(s, t, refused) ==
  IF Bulk(t.message)
  THEN LET m == [t.message EXCEPT !.statement = <<Statement("ROLLBACK")>>]
           pushed == Push([t EXCEPT !.trx = NoTrx], m, TRUE, commit_id + 1, refused)
       IN /\ commit_id' = commit_id + 1
          /\ Set(s, [pushed EXCEPT !.command = "none", !.mark = Lengths(NoTrx),
                                   !.committing = TRUE, !.message = NoMessage, !.open = FALSE,
                                   !.marks = @ \cup {"rollback"}])
          /\ UNCHANGED streamed
  ELSE ~refused /\ End(s, Unannounced(t), << >>) /\ UNCHANGED commit_id

\* commitTransactionMessage of the end segment.  When the stream's applier
\* refuses it, commitTransaction rolls the engine back; the message is gone.
PushCommit(s, t, refused) ==
  IF t.message = NoMessage \/ t.message.statement = << >>
  THEN /\ ~refused
       /\ Set(s, [t EXCEPT !.committing = TRUE, !.message = NoMessage, !.open = FALSE,
                           !.marks = IF t.message # NoMessage /\ t.message.segment_id > 1
                                     THEN @ \cup {"empty_end"} ELSE @])
       /\ UNCHANGED <<commit_id, streamed, faults>>
  ELSE /\ commit_id' = commit_id + 1
       /\ IF refused
          THEN /\ faults.refusals < MaxRefusals
               /\ Fault("refusals")
               /\ End(s, Unannounced(t), << >>)
          ELSE /\ Set(s, [Push(t, t.message, TRUE, commit_id + 1, FALSE) EXCEPT
                            !.committing = TRUE, !.message = NoMessage, !.open = FALSE])
               /\ UNCHANGED <<faults, streamed>>

\* autocommitOrRollback without an error.  A REPLACE does not end between the
\* delete of the old row and the insert of the new one.
endStatement(s, refused) ==
  LET t == [session[s] EXCEPT !.command = "none", !.mark = Lengths(NoTrx), !.open = FALSE, !.cut = FALSE]
  IN /\ session[s].command # "none"
     /\ Len(session[s].trx.changes) > session[s].mark.changes
     /\ ~(session[s].cut /\ ~session[s].open)
     /\ UNCHANGED <<history, log, flushed>>
     /\ IF t.begun
        THEN Set(s, t) /\ ~refused /\ UNCHANGED <<commit_id, streamed, faults>>
        ELSE PushCommit(s, t, refused)

\* InnoDB undoes the statement, the log rows it inserted included
UndoStatement(t) ==
  [t EXCEPT !.trx = UndoTo(@, t.mark),
            !.marks = @ \cup (IF Len(t.trx.rows) > t.mark.rows THEN {"undone"} ELSE {})
                        \cup (IF t.cut THEN {"cut"} ELSE {})]

\* autocommitOrRollback with an error: the statement fails, and with
\* transaction_rollback_request (a deadlock) the transaction with it
failStatement(s, whole, refused) ==
  LET t == session[s]
      undone == [RollbackStatementMessage(UndoStatement(t)) EXCEPT
                   !.command = "none", !.mark = Lengths(NoTrx), !.cut = FALSE]
  IN /\ t.command # "none"
     /\ faults.failures < MaxFailures
     /\ refused => faults.refusals < MaxRefusals
     /\ faults' = [faults EXCEPT !.failures = @ + 1, !.refusals = IF refused THEN @ + 1 ELSE @]
     /\ UNCHANGED <<history, log, flushed>>
     /\ IF ~t.begun THEN ~whole /\ RollbackAll(s, t, refused)
        ELSE IF whole THEN RollbackAll(s, undone, refused)
        ELSE ~refused /\ Set(s, undone) /\ UNCHANGED <<commit_id, streamed>>

\* COMMIT: commitTransaction up to the engine's commit
commit(s, refused) ==
  /\ Ready(s) /\ session[s].begun
  /\ PushCommit(s, session[s], refused)
  /\ UNCHANGED <<history, log, flushed>>

\* the commit id a transaction with these rows is found under, 0 if it has none
CommitId(rows) ==
  LET ids == {0} \cup {rows[i].commit_id : i \in DOMAIN rows}
  IN CHOOSE id \in ids : \A other \in ids : id >= other

\* Mutant of HeaderCommitId: the commit writes its own id.
OwnCommitId(t) == CommitId(t.trx.rows)

\* what the commit writes to the system header: the counter as it is then.  The
\* read and the write are ordered by commit_id_mutex and the latch of the page,
\* which is kept to the end of the mini-transaction: an id drawn between the two
\* is as if drawn after the commit.
HeaderCommitId(t) == commit_id

\* commitPhaseOne.  A transaction whose rows all have commit id 0 (its last segment
\* turned out empty) is found by no reader of the log.
commitPhaseOne(s) ==
  LET t == session[s]
      id == CommitId(t.trx.rows)
      disk == HeaderCommitId(t)
  IN /\ t.committing
     /\ log' = IF id = 0 THEN log
               ELSE Append(log, [commit_id |-> id, rows |-> Len(t.trx.rows), disk |-> disk])
     /\ history' = IF t.trx = NoTrx THEN history
                   ELSE Append(history, [changes |-> t.trx.changes,
                                         rows    |-> t.trx.rows,
                                         marks   |-> t.marks,
                                         disk    |-> disk,
                                         logged  |-> Len(log')])
     /\ End(s, t, t.trx.changes)
     /\ UNCHANGED <<commit_id, flushed, faults>>

\* ROLLBACK, or a COMMIT that wait_if_global_read_lock or xaPrepare refuses
rollback(s, refused) ==
  /\ Ready(s) /\ session[s].begun
  /\ refused => faults.refusals < MaxRefusals
  /\ RollbackAll(s, session[s], refused)
  /\ IF refused THEN Fault("refusals") ELSE UNCHANGED faults
  /\ UNCHANGED <<history, log, flushed>>

\* SAVEPOINT: an older one of the name is released; the message is copied
setSavepoint(s, name) ==
  LET t == session[s]
      kept == IF Find(t, name) = {} THEN t
              ELSE Erased(t, CHOOSE i \in Find(t, name) : TRUE)
      new == [name |-> name, mark |-> Lengths(t.trx), message |-> t.message]
  IN /\ Ready(s) /\ t.begun
     /\ t.saves < MaxSavepoints[s]
     /\ Set(s, [kept EXCEPT !.savepoints = <<new>> \o @, !.saves = @ + 1])
     /\ UNCHANGED <<commit_id, history, log, flushed, streamed, faults>>

\* ROLLBACK TO SAVEPOINT: newer savepoints go, the engine undoes its changes
\* back to the savepoint's mark, the copy of the message becomes the message;
\* the end of this statement finalizes the statement message
rollbackToSavepoint(s, name) ==
  LET t == session[s]
      i == CHOOSE j \in Find(t, name) : TRUE
      sv == t.savepoints[i]
      segment == IF sv.message = NoMessage THEN 1 ELSE sv.message.segment_id
      sentSince == t.message # NoMessage /\ t.message.segment_id > segment
  IN /\ Ready(s) /\ t.begun
     /\ Find(t, name) # {}
     /\ Set(s, [t EXCEPT !.savepoints = SubSeq(@, i, Len(@)),
                         !.trx = UndoTo(@, sv.mark), !.mark = Lengths(NoTrx),
                         !.message = sv.message,
                         !.open = FALSE,
                         !.marks = IF sentSince THEN @ \cup {"restored"} ELSE @])
     /\ UNCHANGED <<commit_id, history, log, flushed, streamed, faults>>

\* RELEASE SAVEPOINT
releaseSavepoint(s, name) ==
  LET t == session[s]
      i == CHOOSE j \in Find(t, name) : TRUE
  IN /\ Ready(s) /\ t.begun
     /\ Find(t, name) # {}
     /\ Set(s, Erased(t, i))
     /\ UNCHANGED <<commit_id, history, log, flushed, streamed, faults>>

\* log_write_up_to, by a session that committed or by the master thread
flush ==
  /\ flushed < Len(history)
  /\ flushed' = Len(history)
  /\ UNCHANGED <<session, commit_id, history, log, streamed, faults>>

\* how much of the log the first k transactions have written
LoggedAt(k) == IF k = 0 THEN 0 ELSE history[k].logged

\* the server stops without warning and recovers: every open transaction, a
\* prepared one too, is rolled back; trx_sys_read_commit_id reads the counter.
\* It is that of the last commit that survived, or a later one: the end of a
\* rollback writes it as well when an id had been drawn.
crash ==
  /\ faults.crashes < MaxCrashes
  /\ Fault("crashes")
  /\ \E k \in flushed..Len(history) :
       /\ history' = SubSeq(history, 1, k)
       /\ log' = SubSeq(log, 1, LoggedAt(k))
       /\ flushed' = k
       /\ commit_id' \in (IF k = 0 THEN 0 ELSE history[k].disk)..commit_id
  /\ session' = [s \in Sessions |-> Idle(session[s].used, session[s].saves)]
  /\ UNCHANGED streamed

Init ==
  /\ threshold \in Thresholds
  /\ session = [s \in Sessions |-> Idle(0, 0)]
  /\ commit_id = 0
  /\ history = << >> /\ log = << >>
  /\ flushed = 0
  /\ streamed = [sent |-> << >>, changes |-> << >>, marks |-> {}]
  /\ faults = [failures |-> 0, refusals |-> 0, crashes |-> 0]

Next ==
  /\ UNCHANGED threshold
  /\ \/ \E s \in Sessions :
          \/ begin(s)
          \/ \E c \in Commands[s] : startStatement(s, c)
          \/ \E k \in Kinds, r \in BOOLEAN : changeRow(s, k, r)
          \/ \E r \in BOOLEAN : endStatement(s, r)
          \/ \E whole, r \in BOOLEAN : failStatement(s, whole, r)
          \/ \E r \in BOOLEAN : commit(s, r)
          \/ commitPhaseOne(s)
          \/ \E r \in BOOLEAN : rollback(s, r)
          \/ \E n \in Savepoints : \/ setSavepoint(s, n)
                                   \/ rollbackToSavepoint(s, n)
                                   \/ releaseSavepoint(s, n)
     \/ flush
     \/ crash

Spec == Init /\ [][Next]_vars

\* ------------------------------ properties --------------------------------

Marks == {"mixed", "cut", "undone", "empty_end", "rollback", "erased", "restored", "refused",
          "unannounced"}

LogRowType == [message : Message, end : BOOLEAN, commit_id : Nat]
Trx == [changes : Seq(Nat), rows : Seq(LogRowType)]
Mark == [changes : Nat, rows : Nat]
SavepointType == [name : Savepoints, mark : Mark, message : Message \cup {NoMessage}]
Sent == [message : Message, end : BOOLEAN]
SessionType ==
  [begun : BOOLEAN, command : Kinds \cup {"REPLACE", "none"}, committing : BOOLEAN,
   trx : Trx, mark : Mark, message : Message \cup {NoMessage}, ids : Nat, open : BOOLEAN,
   savepoints : Seq(SavepointType), sent : Seq(Sent), cut : BOOLEAN, marks : SUBSET Marks,
   used : Nat, saves : Nat]

Within(m, n) == m.changes <= n.changes /\ m.rows <= n.rows

\* Every variable keeps its type.  A statement that is open is the last one of a message,
\* and what InnoDB undoes to, at the start of the statement or at a savepoint, is there:
\* no rollback has taken it away before.
TypeOK ==
  /\ threshold \in Thresholds
  /\ session \in [Sessions -> SessionType]
  /\ commit_id \in Nat
  /\ history \in Seq([changes : Seq(Nat), rows : Seq(LogRowType), marks : SUBSET Marks,
                      disk : Nat, logged : Nat])
  /\ log \in Seq([commit_id : Nat \ {0}, rows : 1..MaxRows, disk : Nat])
  /\ flushed \in 0..Len(history)
  /\ streamed \in [sent : Seq(Sent), changes : Seq(Nat), marks : SUBSET Marks]
  /\ faults \in [failures : Nat, refusals : Nat, crashes : Nat]
  /\ \A s \in Sessions :
       LET t == session[s]
       IN /\ t.command \in Commands[s] \cup {"none"}
          /\ t.open => t.message # NoMessage /\ t.message.statement # << >>
          /\ t.used <= MaxChanges[s]
          /\ Within(t.mark, Lengths(t.trx))
          /\ ~t.committing =>
               \A i \in DOMAIN t.savepoints : Within(t.savepoints[i].mark, Lengths(t.trx))

\* all segments of one transaction, in order
Whole(rows) ==
  \A i \in DOMAIN rows :
    /\ rows[i].message.segment_id = i
    /\ rows[i].message.id = rows[1].message.id
    /\ rows[i].end <=> i = Len(rows)
    /\ rows[i].commit_id # 0 <=> i = Len(rows)

\* the transaction met something after which its segments do not follow each other
Spoiled(marks) == marks \cap {"undone", "rollback", "erased"} # {}

\* The log rows of a committed transaction are its segments 1..n under one transaction
\* id, and exactly the last one is an end segment and carries a commit id, so that who
\* finds a commit id finds a whole transaction: through segments refused by an applier,
\* savepoints restored and statements that fail - unless a statement failed after it had
\* pushed a segment ("undone"), a bulk transaction was rolled back ("rollback") or
\* savepoints exchanged their messages ("erased").
SegmentsFollow ==
  \A k \in DOMAIN history :
    ~Spoiled(history[k].marks) => Whole(history[k].rows)
=============================================================================
