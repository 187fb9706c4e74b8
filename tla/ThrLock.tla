------------------------------ MODULE ThrLock ------------------------------
(***************************************************************************)
(* The table locks of drizzled/thr_lock.cc as Session::lockTables() uses    *)
(* them: every statement locks all its tables at once, in one order, waits  *)
(* in the queues of a table where it must, and gives everything back at the *)
(* end or at the first failure.  ALTER TABLE aborts the waiters of its      *)
(* table (THR_LOCK::abort_locks, abort_locks_for_thread) to have it alone;  *)
(* KILL and the shutdown of the server reach for sessions that wait.        *)
(*                                                                         *)
(* InnoDB is the only engine that has its tables locked here (all the       *)
(* others set HTON_BIT_SKIP_STORE_LOCK).  Its store_lock() turns            *)
(* TL_READ_NO_INSERT into TL_READ, so that read_no_write_count is always    *)
(* zero; the tests of it are left out.  THR_LOCK_INFO::n_cursors is zero    *)
(* too: no wait has a time limit.                                           *)
(*                                                                         *)
(* A section of code under the mutex of one THR_LOCK is one step.           *)
(***************************************************************************)
EXTENDS Naturals, Sequences, FiniteSets

CONSTANTS
    Sessions,             \* connections
    Tables,               \* the addresses of the THR_LOCKs of the tables
    Statements,           \* statements (see StatementsAssumption)
    Allowed,              \* those a session may execute
    MaxLocks,             \* most tables of a statement
    MaxStatements,        \* statements of a session (a bound of the model)
    Killable,             \* sessions that somebody may KILL
    Stoppable,            \* sessions that may live to see the server shut down
    max_write_lock_count  \* the system variable of that name

(* enum thr_lock_type.  TL_WRITE_DEFAULT is resolved to TL_WRITE when the     *)
(* table is opened.                                                          *)
TL_UNLOCK                  == 0
TL_READ                    == 1
TL_READ_WITH_SHARED_LOCKS  == 2
TL_READ_NO_INSERT          == 3
TL_WRITE_ALLOW_WRITE       == 4
TL_WRITE_ALLOW_READ        == 5
TL_WRITE_CONCURRENT_INSERT == 6
TL_WRITE_DEFAULT           == 7
TL_WRITE                   == 8
TL_WRITE_ONLY              == 9

Commands == { "SELECT", "INSERT", "UPDATE", "ALTER_TABLE", "TRUNCATE", "CREATE_TABLE", "CHECK" }

(* A statement: the command, the tables it opens, the lock it asks for on    *)
(* those it reads and on those it writes.                                    *)
ASSUME StatementsAssumption ==
    \A st \in Statements :
        /\ st.command \in Commands
        /\ st.tables \in Seq(Tables) /\ Len(st.tables) \in 1..MaxLocks
        /\ st.written \subseteq 1..Len(st.tables)
        /\ st.read_type \in { TL_READ, TL_READ_WITH_SHARED_LOCKS, TL_READ_NO_INSERT }
        /\ st.write_type \in { TL_WRITE_ALLOW_READ, TL_WRITE_CONCURRENT_INSERT, TL_WRITE }
        /\ st.write_type = TL_WRITE_ALLOW_READ <=> st.command = "ALTER_TABLE"
        /\ st.command = "ALTER_TABLE" => Len(st.tables) = 1 /\ st.written = {1}

(* There is one to begin with: stmt is defined before the first statement.   *)
ASSUME SomeStatementAssumption == Statements # {}

ASSUME AllowedAssumption == Allowed \in [Sessions -> SUBSET Statements]

ASSUME BoundsAssumption ==
    /\ Tables \subseteq Nat /\ MaxLocks \in Nat /\ MaxStatements \in Nat
    /\ max_write_lock_count \in Nat

(* THR_LOCK_DATA: one in every instance of a table a session has opened.     *)
Data == Sessions \X (1..MaxLocks)
owner(d) == d[1]

VARIABLES
    read, write, read_wait, write_wait,  \* the four lists of every THR_LOCK
    write_lock_count,
    type,      \* THR_LOCK_DATA::type
    pc,        \* where a session is
    stmt,      \* its statement
    pos,       \* thr_multi_lock(): the position in the sorted array
    answer,    \* how the last statement ended
    left,      \* statements it has left
    killed,    \* Session::_killed
    abort      \* sessions with st_my_thread_var::abort

lists  == << read, write, read_wait, write_wait, write_lock_count >>
thread == << pc, stmt, pos, answer, left >>
vars   == << lists, type, thread, killed, abort >>

-----------------------------------------------------------------------------
(* ha_innobase::store_lock(): writers are let in together unless the         *)
(* statement needs the table for itself.                                     *)
store_lock(command, lock_type) ==
    CASE /\ lock_type \in TL_WRITE_CONCURRENT_INSERT..TL_WRITE
         /\ command \notin { "TRUNCATE", "CREATE_TABLE" }  -> TL_WRITE_ALLOW_WRITE
      [] lock_type = TL_READ_NO_INSERT                     -> TL_READ
      [] OTHER                                             -> lock_type

(* What thr_lock() will ask for: concurrent inserts are upgraded there.      *)
LockType(st, i) ==
    LET stored == store_lock(st.command, IF i \in st.written THEN st.write_type ELSE st.read_type)
    IN  IF stored = TL_WRITE_CONCURRENT_INSERT THEN TL_WRITE ELSE stored

(* sort_locks(): a stable sort by address, write locks first on one table.   *)
(* THR_LOCKs are further apart than the values of a lock type.               *)
LOCK_CMP(st, i, j) ==
    \/ st.tables[i] < st.tables[j]
    \/ st.tables[i] = st.tables[j] /\ LockType(st, i) > LockType(st, j)

(* A slip: the locks are taken in the order of the statement.                *)
unsorted_locks(st) == [k \in 1..Len(st.tables) |-> k]

sort_locks(st) ==
    LET n == Len(st.tables)
        Before(i, j) == LOCK_CMP(st, i, j) \/ (~LOCK_CMP(st, j, i) /\ i < j)
    IN  [k \in 1..n |-> CHOOSE i \in 1..n : Cardinality({ j \in 1..n : Before(j, i) }) = k - 1]

Order == [st \in Statements |-> sort_locks(st)]

Table(s, i)   == stmt[s].tables[i]
Current(s)    == << s, Order[stmt[s]][pos[s]] >>
OpenTables(s) == IF pc[s] = "idle" THEN {} ELSE { Table(s, i) : i \in 1..Len(stmt[s].tables) }

-----------------------------------------------------------------------------
(* The lists of a THR_LOCK, and what is done to them under its mutex.        *)
THR_LOCK(t) == [ read |-> read[t], write |-> write[t], read_wait |-> read_wait[t],
                 write_wait |-> write_wait[t], write_lock_count |-> write_lock_count[t] ]

Install(t, lock) ==
    /\ read' = [read EXCEPT ![t] = lock.read]
    /\ write' = [write EXCEPT ![t] = lock.write]
    /\ read_wait' = [read_wait EXCEPT ![t] = lock.read_wait]
    /\ write_wait' = [write_wait EXCEPT ![t] = lock.write_wait]
    /\ write_lock_count' = [write_lock_count EXCEPT ![t] = lock.write_lock_count]

In(d, list) == \E i \in 1..Len(list) : list[i] = d

Unlink(list, d) ==
    IF ~In(d, list) THEN list
    ELSE LET i == CHOOSE i \in 1..Len(list) : list[i] = d
         IN  [j \in 1..Len(list) - 1 |-> IF j < i THEN list[j] ELSE list[j + 1]]

(* A slip: readers are started behind writers only.                          *)
free_behind_writers(lock) ==
    IF lock.read_wait = << >> \/ lock.write = << >> THEN lock
    ELSE [lock EXCEPT !.read = @ \o lock.read_wait, !.read_wait = << >>, !.write_lock_count = 0]

free_all_read_locks(lock) ==
    IF lock.read_wait = << >> THEN lock
    ELSE [lock EXCEPT !.read = @ \o lock.read_wait, !.read_wait = << >>, !.write_lock_count = 0]

(* The writers that start together: the first, and those behind it that      *)
(* allow writes as it does.                                                  *)
Batch(lock) ==
    CHOOSE n \in 1..Len(lock.write_wait) :
        /\ \A i \in 1..n : i = 1 \/ \A j \in 1..i :
               type[lock.write_wait[j]] = TL_WRITE_ALLOW_WRITE
        /\ \/ n = Len(lock.write_wait)
           \/ type[lock.write_wait[1]] # TL_WRITE_ALLOW_WRITE
           \/ type[lock.write_wait[n + 1]] # TL_WRITE_ALLOW_WRITE

StartWriters(lock) ==
    LET n == Batch(lock)
    IN  [lock EXCEPT !.write = @ \o SubSeq(lock.write_wait, 1, n),
                     !.write_wait = SubSeq(@, n + 1, Len(@))]

TooManyWrites(lock) == lock.write_lock_count > max_write_lock_count

(* A slip: the counter runs backwards.                                       *)
CountWriteDown(lock) ==
    [lock EXCEPT !.write_lock_count = IF TooManyWrites(lock) THEN 0 ELSE @ - 1]

CountWrite(lock) ==
    [lock EXCEPT !.write_lock_count = IF TooManyWrites(lock) THEN 0 ELSE @ + 1]

wake_up_waiters(lock) ==
    LET head == type[lock.write_wait[1]]
    IN  CASE lock.write # << >> -> lock
          [] lock.write = << >> /\ lock.write_wait = << >> -> free_all_read_locks(lock)
          [] lock.write = << >> /\ lock.write_wait # << >> /\ lock.read = << >> ->
                 IF TooManyWrites(lock) /\ lock.read_wait # << >>
                 THEN free_all_read_locks(CountWrite(lock))
                 ELSE IF head >= TL_WRITE
                      THEN StartWriters(CountWrite(lock))
                      ELSE free_all_read_locks(StartWriters(CountWrite(lock)))
          [] OTHER ->
                 IF head <= TL_WRITE_CONCURRENT_INSERT
                 THEN free_all_read_locks(StartWriters(lock))
                 ELSE lock

-----------------------------------------------------------------------------
(* thr_lock(): what becomes of a request.                                    *)
IsRead(lock_type) == lock_type <= TL_READ_NO_INSERT

have_old_read_lock(lock, o) == \E i \in 1..Len(lock.read) : owner(lock.read[i]) = o

MayRead(lock, d) ==
    IF lock.write # << >>
    THEN \/ owner(lock.write[1]) = owner(d)
         \/ type[lock.write[1]] <= TL_WRITE_CONCURRENT_INSERT
    ELSE \/ lock.write_wait = << >>
         \/ lock.write_wait # << >> /\ type[lock.write_wait[1]] <= TL_WRITE_DEFAULT
         \/ have_old_read_lock(lock, owner(d))

(* Slips: any writer joins those that allow writes; a writer overtakes those *)
(* that wait.                                                                *)
MayWriteBeside(lock, d) ==
    IF lock.write # << >>
    THEN \/ owner(lock.write[1]) = owner(d)
         \/ lock.write_wait = << >> /\ type[lock.write[1]] = TL_WRITE_ALLOW_WRITE
    ELSE /\ lock.write_wait = << >>
         /\ lock.read = << >> \/ type[d] <= TL_WRITE_CONCURRENT_INSERT

MayWriteFirst(lock, d) ==
    IF lock.write # << >>
    THEN \/ owner(lock.write[1]) = owner(d)
         \/ /\ type[d] = TL_WRITE_ALLOW_WRITE
            /\ type[lock.write[1]] = TL_WRITE_ALLOW_WRITE
    ELSE /\ lock.write_wait = << >>
         /\ lock.read = << >> \/ type[d] <= TL_WRITE_CONCURRENT_INSERT

MayWrite(lock, d) ==
    IF lock.write # << >>
    THEN \/ owner(lock.write[1]) = owner(d)
         \/ /\ type[d] = TL_WRITE_ALLOW_WRITE
            /\ lock.write_wait = << >>
            /\ type[lock.write[1]] = TL_WRITE_ALLOW_WRITE
    ELSE /\ lock.write_wait = << >>
         /\ lock.read = << >> \/ type[d] <= TL_WRITE_CONCURRENT_INSERT

Refused(lock, d) ==
    /\ lock.write # << >>
    /\ type[lock.write[1]] = TL_WRITE_ONLY
    /\ owner(lock.write[1]) # owner(d)

(* The first holder of the table is the session itself.                      *)
TrivialDeadlock(lock, d) ==
    LET holders == IF lock.read # << >> THEN lock.read ELSE lock.write
    IN  holders # << >> /\ owner(holders[1]) = owner(d)

MayLock(lock, d) == IF IsRead(type[d]) THEN MayRead(lock, d) ELSE MayWrite(lock, d)

Grant(lock, d) ==
    IF IsRead(type[d]) THEN [lock EXCEPT !.read = Append(@, d)]
                       ELSE [lock EXCEPT !.write = Append(@, d)]

Queue(lock, d) ==
    IF IsRead(type[d]) THEN [lock EXCEPT !.read_wait = Append(@, d)]
                       ELSE [lock EXCEPT !.write_wait = Append(@, d)]

Dequeue(lock, d) ==
    [lock EXCEPT !.read_wait = Unlink(@, d), !.write_wait = Unlink(@, d)]

-----------------------------------------------------------------------------
At(s, place) == pc[s] = place
Goto(s, place) == pc' = [pc EXCEPT ![s] = place]
Killed(s) == killed[s] # "NOT_KILLED"

(* The session that has the table for itself, or is about to, in ALTER TABLE.*)
Removing(t) == \E s \in Sessions : pc[s] = "removing" /\ Table(s, 1) = t

(* open_tables() and the beginning of lockTables(): get_lock_data() stores   *)
(* the lock types.  A table somebody is removing from the cache cannot be    *)
(* opened.                                                                   *)
open_tables(s) ==
    /\ At(s, "idle") /\ left[s] > 0 /\ killed[s] # "KILL_CONNECTION"
    /\ \E st \in Allowed[s] :
         /\ \A i \in 1..Len(st.tables) : ~Removing(st.tables[i])
         /\ stmt' = [stmt EXCEPT ![s] = st]
         /\ type' = [d \in Data |-> IF d[1] = s /\ d[2] <= Len(st.tables)
                                    THEN LockType(st, d[2]) ELSE type[d]]
    /\ Goto(s, "lock")
    /\ pos' = [pos EXCEPT ![s] = 1]
    /\ answer' = [answer EXCEPT ![s] = "none"]
    /\ left' = [left EXCEPT ![s] = @ - 1]
    /\ UNCHANGED << lists, killed, abort >>

(* After thr_lock() has succeeded: the next table, or the statement itself.  *)
(* lockTables() gives up its locks if the session has been killed meanwhile. *)
NextLock(s) ==
    LET last == pos[s] = Len(stmt[s].tables)
    IN  /\ pos' = [pos EXCEPT ![s] = @ + 1]
        /\ Goto(s, CASE ~last -> "lock" [] last /\ ~Killed(s) -> "locked"
                     [] OTHER -> "unlock")
        /\ answer' = IF last /\ Killed(s) THEN [answer EXCEPT ![s] = "error"] ELSE answer

(* After it has failed: thr_multi_unlock(), then lockTables() resets all the *)
(* types and reports the error.                                              *)
Fail(s) ==
    /\ Goto(s, "fail")
    /\ answer' = [answer EXCEPT ![s] = "error"]
    /\ UNCHANGED pos

thr_lock(s) ==
    LET d == Current(s)
        t == Table(s, d[2])
        lock == THR_LOCK(t)
    IN  /\ At(s, "lock")
        /\ \/ /\ ~Refused(lock, d) /\ MayLock(lock, d)
              /\ Install(t, Grant(lock, d)) /\ NextLock(s) /\ UNCHANGED type
           \/ /\ Refused(lock, d) \/ (~MayLock(lock, d) /\ TrivialDeadlock(lock, d))
              /\ type' = IF Refused(lock, d) THEN [type EXCEPT ![d] = TL_UNLOCK] ELSE type
              /\ Fail(s) /\ UNCHANGED lists
           \/ /\ ~Refused(lock, d) /\ ~MayLock(lock, d) /\ ~TrivialDeadlock(lock, d)
              /\ s \notin abort
              /\ Install(t, Queue(lock, d)) /\ Goto(s, "wait") /\ UNCHANGED << type, pos, answer >>
           \/ /\ ~Refused(lock, d) /\ ~MayLock(lock, d) /\ ~TrivialDeadlock(lock, d)
              /\ s \in abort
              /\ type' = [type EXCEPT ![d] = TL_UNLOCK]
              /\ Install(t, wake_up_waiters(lock)) /\ Fail(s)
        /\ UNCHANGED << stmt, left, killed, abort >>

(* wait_for_lock(): the thread wakes up and finds that it has been granted   *)
(* the lock, or that somebody has aborted its wait.  The notification of a   *)
(* KILL ends no wait: awake() does not set abort, and the loop goes on.      *)
wait_for_lock(s) ==
    LET d == Current(s)
        t == Table(s, d[2])
    IN  /\ At(s, "wait")
        /\ \/ /\ ~In(d, read_wait[t]) /\ ~In(d, write_wait[t])
              /\ IF type[d] = TL_UNLOCK THEN Fail(s) ELSE NextLock(s)
              /\ UNCHANGED << lists, type >>
           \/ /\ In(d, read_wait[t]) \/ In(d, write_wait[t])
              /\ s \in abort
              /\ type' = [type EXCEPT ![d] = TL_UNLOCK]
              /\ Install(t, wake_up_waiters(Dequeue(THR_LOCK(t), d)))
              /\ Fail(s)
        /\ UNCHANGED << stmt, left, killed, abort >>

(* thr_unlock(): one lock is given back.                                     *)
thr_unlock(s, i) ==
    LET d == << s, i >>
        t == Table(s, i)
        lock == THR_LOCK(t)
    IN  /\ type[d] # TL_UNLOCK
        /\ type' = [type EXCEPT ![d] = TL_UNLOCK]
        /\ Install(t, wake_up_waiters([lock EXCEPT !.read = Unlink(@, d), !.write = Unlink(@, d)]))

(* The statement is over: its tables are closed, and dispatch_command()      *)
(* forgets a KILL QUERY.                                                     *)
Close(s) ==
    /\ Goto(s, "idle")
    /\ answer' = IF answer[s] = "none" THEN [answer EXCEPT ![s] = "ok"] ELSE answer
    /\ IF killed[s] = "KILL_QUERY"
       THEN killed' = [killed EXCEPT ![s] = "NOT_KILLED"] /\ abort' = abort \ {s}
       ELSE UNCHANGED << killed, abort >>

(* The locks a failed statement had got: those before the one that failed.   *)
(* A slip: all but the last of them.                                         *)
ButOneLocked(s) == { k \in 1..(pos[s] - 2) : type[<< s, Order[stmt[s]][k] >>] # TL_UNLOCK }

AlreadyLocked(s) == { k \in 1..(pos[s] - 1) : type[<< s, Order[stmt[s]][k] >>] # TL_UNLOCK }

(* thr_multi_unlock() of these, in the sorted order; then                    *)
(* DrizzleLock::reset().                                                     *)
thr_multi_unlock(s) ==
    LET got == AlreadyLocked(s)
    IN  /\ At(s, "fail")
        /\ IF got # {}
           THEN /\ thr_unlock(s, Order[stmt[s]][CHOOSE k \in got : \A l \in got : k <= l])
                /\ UNCHANGED << pc, answer, killed, abort >>
           ELSE /\ type' = [d \in Data |-> IF d[1] = s THEN TL_UNLOCK ELSE type[d]]
                /\ Close(s)
                /\ UNCHANGED lists
        /\ UNCHANGED << stmt, pos, left >>

(* Join::optimize() and join_free(): a SELECT gives back tables it needs no  *)
(* more, through unlockSomeTables() and unlockReadTables().                  *)
unlockSomeTables(s) ==
    /\ At(s, "locked") /\ stmt[s].command = "SELECT"
    /\ \E i \in 1..Len(stmt[s].tables) : thr_unlock(s, i)
    /\ UNCHANGED << thread, killed, abort >>

(* The statement has been executed.  ALTER TABLE goes on differently.        *)
execute(s) ==
    /\ At(s, "locked") /\ stmt[s].command # "ALTER_TABLE"
    /\ Goto(s, "unlock")
    /\ UNCHANGED << lists, type, stmt, pos, answer, left, killed, abort >>

(* unlockTables(), in the order of the tables in the statement.              *)
unlockTables(s) ==
    LET got == { i \in 1..Len(stmt[s].tables) : type[<< s, i >>] # TL_UNLOCK }
    IN  /\ At(s, "unlock")
        /\ IF got # {}
           THEN /\ thr_unlock(s, CHOOSE i \in got : \A j \in got : i <= j)
                /\ UNCHANGED << pc, answer, killed, abort >>
           ELSE Close(s) /\ UNCHANGED << lists, type >>
        /\ UNCHANGED << stmt, pos, left >>

-----------------------------------------------------------------------------
(* ALTER TABLE, in wait_while_table_is_used(): THR_LOCK::abort_locks() wakes *)
(* all the waiters of the table with TL_UNLOCK and turns the lock of ALTER   *)
(* TABLE into one that refuses the requests to come.                         *)
abort_locks(s) ==
    LET t == Table(s, 1)
        waiters == { d \in Data : In(d, read_wait[t]) \/ In(d, write_wait[t]) }
    IN  /\ At(s, "locked") /\ stmt[s].command = "ALTER_TABLE"
        /\ type' = [d \in Data |-> IF d \in waiters THEN TL_UNLOCK
                                   ELSE IF write[t] # << >> /\ d = write[t][1] THEN TL_WRITE_ONLY
                                   ELSE type[d]]
        /\ Install(t, [THR_LOCK(t) EXCEPT !.read_wait = << >>, !.write_wait = << >>])
        /\ Goto(s, "removing")
        /\ UNCHANGED << stmt, pos, answer, left, killed, abort >>

(* Cache::removeTable() then has the waits of every session that has the     *)
(* table open aborted, on whatever table it waits                            *)
(* (THR_LOCK::abort_locks_for_thread), over and over ...                     *)
removeTable(s) ==
    /\ At(s, "removing")
    /\ \E u \in Sessions \ {s} : \E i \in 1..Len(stmt[u].tables) :
         LET d == << u, i >>
             t == Table(u, i)
         IN  /\ Table(s, 1) \in OpenTables(u)
             /\ type' = IF In(d, read_wait[t]) \/ In(d, write_wait[t])
                        THEN [type EXCEPT ![d] = TL_UNLOCK] ELSE type
             /\ Install(t, wake_up_waiters(Dequeue(THR_LOCK(t), d)))
    /\ UNCHANGED << thread, killed, abort >>

(* A slip: removeTable() returns without RTFC_WAIT_OTHER_THREAD_FLAG.        *)
table_removed_at_once(s) ==
    /\ At(s, "removing")
    /\ Goto(s, "unlock")
    /\ UNCHANGED << lists, type, stmt, pos, answer, left, killed, abort >>

(* ... until the table is open nowhere else.                                 *)
table_removed(s) ==
    /\ At(s, "removing")
    /\ \A u \in Sessions \ {s} : Table(s, 1) \notin OpenTables(u)
    /\ Goto(s, "unlock")
    /\ UNCHANGED << lists, type, stmt, pos, answer, left, killed, abort >>

-----------------------------------------------------------------------------
(* KILL: awake() sets the state of the session and notifies its condition.   *)
awake(s) ==
    /\ s \in Killable
    /\ \E state \in { "KILL_QUERY", "KILL_CONNECTION" } :
         /\ ~(state = "KILL_QUERY" /\ At(s, "idle"))
         /\ killed' = [killed EXCEPT ![s] = state]
    /\ UNCHANGED << lists, type, thread, abort >>

(* The shutdown of the server: setKilled() and lockOnSys(), which sets abort *)
(* before it notifies.                                                       *)
lockOnSys(s) ==
    /\ s \in Stoppable /\ s \notin abort
    /\ killed' = [killed EXCEPT ![s] = "KILL_CONNECTION"]
    /\ abort' = abort \cup {s}
    /\ UNCHANGED << lists, type, thread >>

Run(s) ==
    \/ thr_lock(s) \/ wait_for_lock(s) \/ thr_multi_unlock(s)
    \/ execute(s) \/ unlockTables(s)
    \/ abort_locks(s) \/ removeTable(s) \/ table_removed(s)

Init ==
    /\ read = [t \in Tables |-> << >>] /\ write = [t \in Tables |-> << >>]
    /\ read_wait = [t \in Tables |-> << >>] /\ write_wait = [t \in Tables |-> << >>]
    /\ write_lock_count = [t \in Tables |-> 0]
    /\ type = [d \in Data |-> TL_UNLOCK]
    /\ pc = [s \in Sessions |-> "idle"]
    /\ stmt = [s \in Sessions |-> CHOOSE st \in Statements : TRUE] /\ pos = [s \in Sessions |-> 1]
    /\ answer = [s \in Sessions |-> "none"]
    /\ left = [s \in Sessions |-> MaxStatements]
    /\ killed = [s \in Sessions |-> "NOT_KILLED"] /\ abort = {}

Next ==
    \E s \in Sessions : \/ open_tables(s) \/ Run(s) \/ unlockSomeTables(s)
                        \/ awake(s) \/ lockOnSys(s)

Spec == Init /\ [][Next]_vars

(* Every thread runs; nobody has to send statements or KILL.                 *)
FairSpec == Spec /\ \A s \in Sessions : WF_vars(Run(s))

-----------------------------------------------------------------------------
Places == { "idle", "lock", "wait", "fail", "locked", "removing", "unlock" }

(* The types of the variables: no list holds anything but lock data.         *)
TypeOK ==
    /\ \A list \in { read, write, read_wait, write_wait } : list \in [Tables -> Seq(Data)]
    /\ write_lock_count \in [Tables -> Nat]
    /\ type \in [Data -> TL_UNLOCK..TL_WRITE_ONLY]
    /\ pc \in [Sessions -> Places]
    /\ stmt \in [Sessions -> Statements]
    /\ pos \in [Sessions -> 1..MaxLocks + 1]
    /\ answer \in [Sessions -> { "none", "ok", "error" }]
    /\ left \in [Sessions -> Nat]
    /\ killed \in [Sessions -> { "NOT_KILLED", "KILL_QUERY", "KILL_CONNECTION" }]
    /\ abort \subseteq Sessions

Active(t) == { d \in Data : In(d, read[t]) \/ In(d, write[t]) }

(* What the comments of enum thr_lock_type promise to the other sessions.    *)
(* TL_WRITE_ONLY is TL_WRITE_ALLOW_READ after abort_locks(): who reads may   *)
(* go on.                                                                    *)
Compatible(a, b) ==
    \/ IsRead(a) /\ IsRead(b)
    \/ a = TL_WRITE_ALLOW_WRITE /\ b = TL_WRITE_ALLOW_WRITE
    \/ \E w \in { TL_WRITE_ALLOW_WRITE, TL_WRITE_ALLOW_READ, TL_WRITE_ONLY } :
          (a = w /\ IsRead(b)) \/ (b = w /\ IsRead(a))

(* Two sessions hold locks on a table only if the types of the locks allow   *)
(* it, whichever way thr_lock(), wake_up_waiters() and abort_locks() came to *)
(* grant or to change them.                                                  *)
LocksCompatible ==
    \A t \in Tables : \A d, e \in Active(t) :
        owner(d) # owner(e) => Compatible(type[d], type[e])

(* Somebody who waits for a table waits for a session that holds it, and     *)
(* that will call wake_up_waiters(): no grant, failure, abort or shutdown    *)
(* leaves a queue behind that nobody will look at again.                     *)
NobodyForgotten ==
    \A t \in Tables : read_wait[t] # << >> \/ write_wait[t] # << >> => Active(t) # {}

(* A statement is executed with all its locks, but for those a SELECT has    *)
(* given back; a session between statements has none, and waits for none,    *)
(* whatever made lockTables() give up.                                       *)
AllOrNothing ==
    \A s \in Sessions :
        /\ pc[s] \in { "locked", "removing" } =>
               \A i \in 1..Len(stmt[s].tables) :
                   \/ << s, i >> \in Active(Table(s, i))
                   \/ stmt[s].command = "SELECT" /\ type[<< s, i >>] = TL_UNLOCK
        /\ pc[s] = "idle" =>
               \A t \in Tables, i \in 1..MaxLocks :
                   LET d == << s, i >>
                   IN  d \notin Active(t) /\ ~In(d, read_wait[t]) /\ ~In(d, write_wait[t])

(* ALTER TABLE goes on to replace the table only when no other session holds *)
(* it or waits for it (wait_while_table_is_used()).                          *)
AloneWhenRemoved ==
    [][\A s \in Sessions : pc[s] = "removing" /\ pc'[s] = "unlock" =>
          LET t == Table(s, 1)
          IN  /\ \A d \in Active(t) : owner(d) = s
              /\ read_wait[t] = << >> /\ write_wait[t] = << >>]_vars

(* Writers are served in the order they came: nobody gets a write lock while *)
(* a session that queued before stays queued, unless the session already     *)
(* writes the table.                                                         *)
WritersInOrder ==
    [][\A t \in Tables : \A d \in Data :
          In(d, write[t])' /\ ~In(d, write[t]) =>
             \/ \E i \in 1..Len(write[t]) : owner(write[t][i]) = owner(d)
             \/ \A j \in 1..Len(write_wait'[t]) :
                   ~\E i \in 1..Len(write_wait[t]) :
                       /\ write_wait[t][i] = write_wait'[t][j]
                       /\ \A k \in 1..i : write_wait[t][k] # d]_vars

(* Every statement ends: no set of sessions waits for each other, whatever   *)
(* tables they lock in whatever order they name them.                        *)
StatementsFinish == \A s \in Sessions : pc[s] # "idle" ~> pc[s] = "idle"

=============================================================================
