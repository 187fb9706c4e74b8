--------------------------- MODULE GlobalReadLock ---------------------------
(***************************************************************************)
(* The global read lock of the server (drizzled/locking/global.cc), with    *)
(* the statements that go through it: FLUSH TABLES [WITH READ LOCK], UNLOCK *)
(* TABLES, writes that take a protection against the lock, writes that only *)
(* look at it while locking their tables, COMMIT, ALTER SCHEMA, KILL and    *)
(* the end of a connection.                                                 *)
(*                                                                          *)
(* One step is what a thread does between two points where another thread   *)
(* can interfere: a section under LOCK_global_read_lock or under            *)
(* table::Cache::mutex(), a notify_all() issued outside the mutex, or a     *)
(* piece of work on the session's own state.  One table is modelled; what   *)
(* matters about a session's instance of it is whether it is open and       *)
(* whether g_refresh_version has moved on since.                            *)
(***************************************************************************)
EXTENDS Naturals, FiniteSets

CONSTANTS
    Sessions,    \* the connections
    Allowed,     \* the statements each connection's client may send
    Autocommit,  \* the sessions with neither OPTION_NOT_AUTOCOMMIT nor OPTION_BEGIN
    Budget,      \* bound: how many statements each connection sends
    Killable,    \* bound: sessions that somebody may kill
    NoSession    \* nobody: the row lock is free

Statements ==
    { "FTWRL", "FLUSH", "UNLOCK", "INSERT", "CREATE_SELECT", "UPDATE",
      "ALTER_SCHEMA", "COMMIT", "ROLLBACK" }

(* Statements that take a protection for their whole execution, and those    *)
(* that begin a transaction when autocommit is off.  DDL is refused inside a *)
(* transaction (ER_TRANSACTIONAL_DDL_NOT_SUPPORTED).                         *)
Protected     == { "INSERT", "CREATE_SELECT", "ALTER_SCHEMA" }
Transactional == { "INSERT", "UPDATE", "UNLOCK" }
DDL           == { "CREATE_SELECT", "ALTER_SCHEMA" }

ASSUME SessionsAssumption == IsFiniteSet(Sessions) /\ NoSession \notin Sessions
ASSUME AllowedAssumption ==
    /\ Allowed \in [Sessions -> SUBSET Statements]
    /\ \A s \in Sessions \ Autocommit : Allowed[s] \cap DDL = {}
ASSUME BudgetAssumption == Budget \in [Sessions -> Nat]

VARIABLES
    global_read_lock, global_read_lock_blocks_commit,
    protect_against_global_read_lock, waiting_for_read_lock,
    grl,         \* Session::_global_read_lock
    killed,      \* Session::_killed
    pc,          \* where the session's thread is
    stmt,        \* the statement it executes
    left,        \* the statements its client may still send
    da,          \* its diagnostics area: what the client will be told
    trx,         \* sessions with a resource registered in a transaction
    row,         \* the session whose open transaction holds the row lock
    tab,         \* its instance of the table, against g_refresh_version
    stale,       \* sessions whose open_tables.version is not g_refresh_version
    asleep,      \* threads inside a condition variable's wait()
    owes,        \* threads that have left the mutex and are about to notify_all()
    killing,     \* victims awake() has marked and not yet signalled
    protections, \* ghost: protections taken and not given back, <<session, statement, for>>
    undone       \* ghost: sessions whose statement was executed and then rolled back

counters == << global_read_lock, global_read_lock_blocks_commit,
               protect_against_global_read_lock, waiting_for_read_lock >>
own      == << stmt, left, trx, row, undone >>    \* the statement and its transaction
tables   == << tab, stale >>
wakeups  == << asleep, owes, killing >>
vars     == << counters, grl, killed, pc, own, da, tables, wakeups, protections >>

-----------------------------------------------------------------------------
(* Places a thread can be at.  The ones in GrlWaits sleep on                 *)
(* COND_global_read_lock, the ones in RefreshWaits on COND_refresh.          *)

GrlWaits     == { "wait_grl", "wait_make", "wait_job", "wait_lock", "wait_commit" }
RefreshWaits == { "wait_flush", "wait_open" }
Places       == GrlWaits \cup RefreshWaits \cup
                { "idle", "lock_grl", "flush", "make", "make_killed", "unlock", "unlocked",
                  "job", "alter_schema", "open", "find", "lock", "gate",
                  "recheck", "engine", "release_job", "endstmt", "commit",
                  "committing", "rollback", "release_commit", "release_create",
                  "answer", "close", "gone" }

Goto(s, l) == pc' = [pc EXCEPT ![s] = l]

(* A thread runs unless it sleeps in wait() or still has to notify.          *)
At(s, l) == pc[s] = l /\ s \notin asleep /\ s \notin owes

Sleep(s, l) == Goto(s, l) /\ asleep' = asleep \cup {s}

(* enter_cond() stores current_cond and then _killed is read, awake() stores *)
(* _killed and then reads current_cond, and nothing orders the two: a thread *)
(* may begin its wait without seeing the mark and be missed by the signal.   *)
MissedKill(s, l) == s \in killing /\ Sleep(s, l) /\ killing' = killing \ {s}

Killed(s) == killed[s] # "NOT_KILLED"

SetDa(s, d) == da' = [da EXCEPT ![s] = d]

(* notify_all() on COND_global_read_lock; broadcast_refresh() signals both   *)
(* condition variables, and there is no third one.                           *)
AfterNotifyGrl   == { t \in asleep : pc[t] \notin GrlWaits }
AfterBroadcast   == {}

Token(s, for) == << s, left[s], for >>

(* Where a statement goes on.                                                *)
AfterProtection(s) == IF stmt[s] = "ALTER_SCHEMA" THEN "alter_schema" ELSE "open"
AfterFailure(s)    == IF stmt[s] \in Protected THEN "release_job" ELSE "endstmt"
AfterEngine(s)     == CASE stmt[s] = "INSERT"        -> "release_job"
                        [] stmt[s] = "CREATE_SELECT" -> "commit"
                        [] OTHER                     -> "endstmt"
AfterCommit(s)     == CASE stmt[s] = "COMMIT" -> "endstmt"
                        [] stmt[s] = "CREATE_SELECT" /\ da[s] = "OK" -> "release_job"
                        [] OTHER -> "answer"

\* Slip: a statement is only held up once commits are blocked too.
must_wait_unless_made(is_not_commit) ==
    global_read_lock > 0 /\ global_read_lock_blocks_commit > 0

must_wait(is_not_commit) ==
    /\ global_read_lock > 0
    /\ is_not_commit \/ global_read_lock_blocks_commit > 0

-----------------------------------------------------------------------------
(* wait_if_global_read_lock(abort_on_refresh, is_not_commit).  WaitLoop is   *)
(* the section from a wake-up (or from the first test) to the next wait() or *)
(* to the unlock; `waited' is need_exit_cond.                                *)

WaitLoop(s, abort_on_refresh, is_not_commit, waited, at, ok, fail, for) ==
    \/ /\ must_wait(is_not_commit) /\ ~Killed(s) /\ ~(abort_on_refresh /\ s \in stale)
       /\ Sleep(s, at)
       /\ UNCHANGED << protect_against_global_read_lock, protections >>
    \/ /\ waited /\ Killed(s)
       /\ Goto(s, fail)
       /\ UNCHANGED << protect_against_global_read_lock, protections, asleep >>
    \/ /\ ~(must_wait(is_not_commit) /\ ~(abort_on_refresh /\ s \in stale))
       /\ ~(waited /\ Killed(s))
       /\ Goto(s, ok)
       /\ IF abort_on_refresh
          THEN UNCHANGED << protect_against_global_read_lock, protections >>
          ELSE /\ protect_against_global_read_lock' = protect_against_global_read_lock + 1
               /\ protections' = protections \cup { Token(s, for) }
       /\ UNCHANGED asleep

wait_if_global_read_lock(s, abort_on_refresh, is_not_commit, from, at, ok, fail, for) ==
    /\ \/ /\ At(s, from)
          /\ must_wait(is_not_commit) /\ grl[s] # "NONE"
          /\ Goto(s, IF is_not_commit THEN fail ELSE ok)
          /\ da' = IF is_not_commit THEN [da EXCEPT ![s] = "ERROR"] ELSE da
          /\ UNCHANGED << protect_against_global_read_lock, protections, asleep, killing >>
       \/ /\ At(s, from)
          /\ ~(must_wait(is_not_commit) /\ grl[s] # "NONE")
          /\ WaitLoop(s, abort_on_refresh, is_not_commit, must_wait(is_not_commit),
                      at, ok, fail, for)
          /\ UNCHANGED << da, killing >>
       \/ /\ At(s, from)
          /\ must_wait(is_not_commit) /\ grl[s] = "NONE" /\ ~(abort_on_refresh /\ s \in stale)
          /\ MissedKill(s, at)
          /\ UNCHANGED << protect_against_global_read_lock, protections, da >>
       \/ /\ At(s, at)
          /\ WaitLoop(s, abort_on_refresh, is_not_commit, TRUE, at, ok, fail, for)
          /\ UNCHANGED << da, killing >>
    /\ UNCHANGED << global_read_lock, global_read_lock_blocks_commit,
                    waiting_for_read_lock, grl, killed, own, tables, owes >>

(* startWaitingGlobalReadLock(): the section, after which the thread may owe *)
(* a notify_all().                                                           *)

\* Slip: a session waiting in makeGlobalReadLockBlockCommit() is forgotten.
LastProtectionForLockers ==
    protect_against_global_read_lock = 1 /\ waiting_for_read_lock > 0

LastProtection ==
    /\ protect_against_global_read_lock = 1
    /\ waiting_for_read_lock > 0 \/ global_read_lock_blocks_commit > 0

startWaitingGlobalReadLock(s, from, to, for) ==
    /\ At(s, from)
    /\ Goto(s, to)
    /\ IF grl[s] # "NONE"
       THEN UNCHANGED << protect_against_global_read_lock, protections, owes >>
       ELSE /\ protect_against_global_read_lock' = protect_against_global_read_lock - 1
            /\ protections' = protections \ { Token(s, for) }
            /\ owes' = IF LastProtection THEN owes \cup {s} ELSE owes
    /\ UNCHANGED << global_read_lock, global_read_lock_blocks_commit,
                    waiting_for_read_lock, grl, killed, own, tables, asleep, killing >>

(* COND_global_read_lock.notify_all() after the mutex has been released.     *)
NotifyGlobalReadLock(s) ==
    /\ s \in owes
    /\ asleep' = AfterNotifyGrl
    /\ owes' = owes \ {s}
    /\ UNCHANGED << counters, grl, killed, pc, own, da, tables, killing, protections >>

-----------------------------------------------------------------------------
(* FLUSH TABLES WITH READ LOCK: lockGlobalReadLock(), close_cached_tables(), *)
(* makeGlobalReadLockBlockCommit().                                          *)

LockLoop(s, waiting) ==
    /\ \/ /\ protect_against_global_read_lock > 0 /\ ~Killed(s)
          /\ Sleep(s, "wait_grl")
          /\ waiting_for_read_lock' = waiting
          /\ UNCHANGED << global_read_lock, grl, killing >>
       \/ /\ protect_against_global_read_lock > 0 /\ pc[s] = "lock_grl"
          /\ MissedKill(s, "wait_grl")
          /\ waiting_for_read_lock' = waiting
          /\ UNCHANGED << global_read_lock, grl >>
       \/ /\ Killed(s)
          /\ Goto(s, "endstmt")
          /\ waiting_for_read_lock' = waiting - 1
          /\ UNCHANGED << global_read_lock, grl, asleep, killing >>
       \/ /\ protect_against_global_read_lock = 0 /\ ~Killed(s)
          /\ Goto(s, "flush")
          /\ waiting_for_read_lock' = waiting - 1
          /\ grl' = [grl EXCEPT ![s] = "GOT"]
          /\ global_read_lock' = global_read_lock + 1
          /\ UNCHANGED << asleep, killing >>
    /\ UNCHANGED << global_read_lock_blocks_commit, protect_against_global_read_lock,
                    killed, own, da, tables, owes, protections >>

lockGlobalReadLock(s) ==
    \/ /\ At(s, "lock_grl")
       /\ grl[s] = "NONE"
       /\ LockLoop(s, waiting_for_read_lock + 1)
    \/ /\ At(s, "lock_grl")
       /\ grl[s] # "NONE"
       /\ Goto(s, "flush")
       /\ UNCHANGED << counters, grl, killed, own, da, tables, wakeups, protections >>
    \/ /\ At(s, "wait_grl")
       /\ LockLoop(s, waiting_for_read_lock)

(* close_cached_tables(NULL, true, _): the version moves on, then wait until *)
(* no other thread has an old instance open.  The session itself has none    *)
(* open, so close_old_data_files() and reopen_tables() have nothing to close *)
(* or to reopen, and neither of them broadcasts.                             *)

\* Slip: the instances other threads have open are not waited for.
OldInstanceIgnored(s) == FALSE

OldInstance(s) == \E t \in Sessions \ {s} : tab'[t] = "old"

FlushLoop(s) ==
    \/ /\ OldInstance(s) /\ ~Killed(s)
       /\ Sleep(s, "wait_flush")
       /\ UNCHANGED << da, killing >>
    \/ /\ OldInstance(s) /\ pc[s] = "flush"
       /\ MissedKill(s, "wait_flush")
       /\ UNCHANGED da
    \/ /\ Killed(s) \/ ~OldInstance(s)
       /\ Goto(s, CASE stmt[s] # "FTWRL"              -> "endstmt"
                    [] stmt[s] = "FTWRL" /\ Killed(s) -> "make_killed"
                    [] OTHER                           -> "make")
       /\ da' = IF stmt[s] = "FTWRL" THEN da ELSE [da EXCEPT ![s] = "OK"]
       /\ UNCHANGED << asleep, killing >>

close_cached_tables(s) ==
    /\ \/ /\ At(s, "flush")
          /\ tab' = [t \in Sessions |-> IF tab[t] = "closed" THEN "closed" ELSE "old"]
          /\ stale' = Sessions
       \/ /\ At(s, "wait_flush")
          /\ UNCHANGED tables
    /\ FlushLoop(s)
    /\ UNCHANGED << counters, grl, killed, own, owes, protections >>

(* A kill that close_cached_tables() has seen is seen here too.              *)
MakeLoop(s, blocks) ==
    /\ \/ /\ protect_against_global_read_lock > 0 /\ ~Killed(s)
          /\ Sleep(s, "wait_make")
          /\ global_read_lock_blocks_commit' = blocks
          /\ UNCHANGED << grl, da, killing >>
       \/ /\ protect_against_global_read_lock > 0 /\ pc[s] = "make"
          /\ MissedKill(s, "wait_make")
          /\ global_read_lock_blocks_commit' = blocks
          /\ UNCHANGED << grl, da >>
       \/ /\ Killed(s)
          /\ Goto(s, "unlock")
          /\ global_read_lock_blocks_commit' = blocks - 1
          /\ UNCHANGED << grl, da, asleep, killing >>
       \/ /\ protect_against_global_read_lock = 0 /\ ~Killed(s)
          /\ Goto(s, "endstmt")
          /\ SetDa(s, "OK")
          /\ global_read_lock_blocks_commit' = blocks
          /\ grl' = [grl EXCEPT ![s] = "MADE"]
          /\ UNCHANGED << asleep, killing >>
    /\ UNCHANGED << global_read_lock, protect_against_global_read_lock,
                    waiting_for_read_lock, killed, own, tables, owes, protections >>

makeGlobalReadLockBlockCommit(s) ==
    \/ /\ At(s, "make") \/ At(s, "make_killed")
       /\ grl[s] = "GOT"
       /\ MakeLoop(s, global_read_lock_blocks_commit + 1)
    \/ /\ At(s, "make") \/ At(s, "make_killed")
       /\ grl[s] # "GOT"
       /\ Goto(s, "endstmt")
       /\ SetDa(s, "OK")
       /\ UNCHANGED << counters, grl, killed, own, tables, wakeups, protections >>
    \/ /\ At(s, "wait_make")
       /\ MakeLoop(s, global_read_lock_blocks_commit)

(* unlockGlobalReadLock(), from UNLOCK TABLES, from a FLUSH killed half-way  *)
(* and from Session::cleanup().  The session's own state changes last, after *)
(* the notify_all().                                                         *)

\* Slip: commits stay blocked.
BlockedForgotten(s) == 0

Blocked(s) == IF grl[s] = "MADE" THEN 1 ELSE 0

unlockGlobalReadLock(s) ==
    \/ /\ At(s, "unlock")
       /\ global_read_lock' = global_read_lock - 1
       /\ global_read_lock_blocks_commit' = global_read_lock_blocks_commit - Blocked(s)
       /\ owes' = IF global_read_lock = 1 THEN owes \cup {s} ELSE owes
       /\ Goto(s, "unlocked")
       /\ UNCHANGED << protect_against_global_read_lock, waiting_for_read_lock, grl,
                       killed, own, da, tables, asleep, killing, protections >>
    \/ /\ At(s, "unlocked")
       /\ grl' = [grl EXCEPT ![s] = "NONE"]
       /\ Goto(s, IF stmt[s] = "QUIT" THEN "gone" ELSE "endstmt")
       /\ da' = IF stmt[s] = "UNLOCK" THEN [da EXCEPT ![s] = "OK"] ELSE da
       /\ UNCHANGED << counters, killed, own, tables, wakeups, protections >>

-----------------------------------------------------------------------------
(* The client sends a statement: executeStatement(), dispatch_command() and  *)
(* execute_command() up to the statement's own code.                         *)
FirstPlace(s, st) ==
    CASE st = "FTWRL"     -> "lock_grl"
      [] st = "FLUSH"     -> "flush"
      [] st = "UNLOCK"    -> IF grl[s] # "NONE" THEN "unlock" ELSE "endstmt"
      [] st \in Protected -> "job"
      [] st = "UPDATE"    -> "open"
      [] st = "COMMIT"    -> IF s \in trx THEN "commit" ELSE "endstmt"
      [] st = "ROLLBACK"  -> "rollback"

execute(s) ==
    /\ At(s, "idle")
    /\ killed[s] # "KILL_CONNECTION"
    /\ left[s] > 0
    /\ left' = [left EXCEPT ![s] = @ - 1]
    /\ \E st \in Allowed[s] :
          /\ stmt' = [stmt EXCEPT ![s] = st]
          /\ Goto(s, FirstPlace(s, st))
          /\ trx' = IF st \in Transactional /\ s \notin Autocommit THEN trx \cup {s} ELSE trx
          /\ SetDa(s, CASE st = "UNLOCK" /\ grl[s] = "NONE" -> "ERROR"
                        [] st = "COMMIT" /\ s \notin trx    -> "OK"
                        [] OTHER                             -> "EMPTY")
    /\ UNCHANGED << counters, grl, killed, row, undone, tables, wakeups, protections >>

(* The statements that take a protection wait for it first.                  *)
wait_for_job(s) ==
    wait_if_global_read_lock(s, FALSE, TRUE, "job", "wait_job",
                             AfterProtection(s), "endstmt", "job")

release_job(s) ==
    /\ startWaitingGlobalReadLock(s, "release_job", "endstmt", "job")
    /\ UNCHANGED da

(* schema::alter(): it returns at once when another session has dropped the  *)
(* schema since the statement looked it up.                                  *)
alter_schema(s) ==
    /\ At(s, "alter_schema")
    /\ \/ Goto(s, "release_job") /\ SetDa(s, "OK")
       \/ Goto(s, "release_job") /\ SetDa(s, "ERROR")
       \/ Goto(s, "endstmt")     /\ SetDa(s, "ERROR")
    /\ UNCHANGED << counters, grl, killed, own, tables, wakeups, protections >>

(* openTable(): remember g_refresh_version, then look for an instance under  *)
(* table::Cache::mutex(); an old instance in another session's hands makes   *)
(* open_tables_from_list() wait and start again.                             *)
openTable(s) ==
    /\ \/ /\ At(s, "open")
          /\ IF Killed(s)
             THEN Goto(s, AfterFailure(s)) /\ UNCHANGED stale
             ELSE Goto(s, "find") /\ stale' = stale \ {s}
          /\ UNCHANGED << tab, asleep, killing >>
       \/ /\ At(s, "find")
          /\ \E t \in Sessions : tab[t] = "old"
          /\ \/ Killed(s) /\ Goto(s, "open") /\ UNCHANGED << asleep, killing >>
             \/ ~Killed(s) /\ Sleep(s, "wait_open") /\ UNCHANGED killing
             \/ MissedKill(s, "wait_open")
          /\ UNCHANGED tables
       \/ /\ At(s, "find")
          /\ \A t \in Sessions : tab[t] # "old"
          /\ tab' = [tab EXCEPT ![s] = "fresh"]
          /\ Goto(s, "lock")
          /\ UNCHANGED << stale, asleep, killing >>
       \/ /\ At(s, "wait_open")
          /\ Goto(s, "open")
          /\ UNCHANGED << tables, asleep, killing >>
    /\ UNCHANGED << counters, grl, killed, own, da, owes, protections >>

(* lockTables(): global_read_lock is read without its mutex.  Past the gate  *)
(* the engine is told of the statement (startStatement) whether or not the   *)
(* session turns out to be killed.                                           *)
Refused(s) ==
    /\ Goto(s, AfterFailure(s))
    /\ da' = IF Killed(s) THEN [da EXCEPT ![s] = "ERROR"] ELSE da

Granted(s) ==
    /\ IF Killed(s) THEN Refused(s) ELSE Goto(s, "engine") /\ UNCHANGED da
    /\ trx' = trx \cup {s}

lockTables(s) ==
    \/ /\ At(s, "lock")
       /\ IF global_read_lock > 0 THEN Goto(s, "gate") /\ UNCHANGED << da, trx >>
                                  ELSE Granted(s)
       /\ UNCHANGED << counters, grl, killed, stmt, left, row, undone, tables,
                       wakeups, protections >>
    \/ wait_if_global_read_lock(s, TRUE, TRUE, "gate", "wait_lock", "recheck",
                                AfterFailure(s), "lock")
    \/ /\ At(s, "recheck")
       /\ IF s \in stale THEN Refused(s) /\ UNCHANGED trx ELSE Granted(s)
       /\ UNCHANGED << counters, grl, killed, stmt, left, row, undone, tables,
                       wakeups, protections >>

(* The storage engine changes the row, once no other transaction has it; it  *)
(* may also give up (lock wait timeout, or any other error).                 *)
engine(s) ==
    /\ At(s, "engine")
    /\ row \in {NoSession, s}
    /\ row' = s
    /\ SetDa(s, "OK")
    /\ Goto(s, AfterEngine(s))
    /\ UNCHANGED << counters, grl, killed, stmt, left, trx, undone, tables, wakeups,
                    protections >>

engine_error(s) ==
    /\ At(s, "engine")
    /\ SetDa(s, "ERROR")
    /\ Goto(s, AfterFailure(s))
    /\ UNCHANGED << counters, grl, killed, own, tables, wakeups, protections >>

-----------------------------------------------------------------------------
(* commitTransaction() of a real transaction, and rollbackTransaction().  No *)
(* replication stream is active, so there is nothing to prepare or to push.  *)

EndTransaction(s) ==
    /\ trx' = trx \ {s}
    /\ row' = IF row = s THEN NoSession ELSE row

wait_for_commit(s) ==
    wait_if_global_read_lock(s, FALSE, FALSE, "commit", "wait_commit",
                             "committing", "rollback", "commit")

(* A storage engine may fail to commit.  The implicit commit at the end of   *)
(* CREATE TABLE ... SELECT comes after the statement's OK and inside its     *)
(* protection.                                                               *)
commitPhaseOne(s) ==
    /\ At(s, "committing")
    /\ EndTransaction(s)
    /\ Goto(s, IF stmt[s] = "CREATE_SELECT" /\ da[s] = "OK" THEN "release_create"
               ELSE "release_commit")
    /\ \/ UNCHANGED << da, undone >>
       \/ SetDa(s, "ERROR") /\ undone' = undone \cup {s}
    /\ UNCHANGED << counters, grl, killed, stmt, left, tables, wakeups, protections >>

(* A COMMIT statement reports once the protection is released.               *)
release_commit(s) ==
    \/ /\ startWaitingGlobalReadLock(s, "release_commit", AfterCommit(s), "commit")
       /\ da' = IF stmt[s] = "COMMIT" /\ da[s] # "ERROR" THEN [da EXCEPT ![s] = "OK"] ELSE da
    \/ /\ startWaitingGlobalReadLock(s, "release_create", "release_job", "commit")
       /\ UNCHANGED da

rollbackTransaction(s) ==
    /\ At(s, "rollback")
    /\ EndTransaction(s)
    /\ undone' = IF da[s] = "OK" THEN undone \cup {s} ELSE undone
    /\ da' = CASE stmt[s] = "ROLLBACK" -> [da EXCEPT ![s] = "OK"]
               [] stmt[s] = "COMMIT"   -> [da EXCEPT ![s] = "ERROR"]
               [] OTHER                -> da
    /\ Goto(s, IF stmt[s] = "ROLLBACK" THEN "endstmt" ELSE AfterCommit(s))
    /\ UNCHANGED << counters, grl, killed, stmt, left, tables, wakeups, protections >>

-----------------------------------------------------------------------------
(* The rest of dispatch_command(): autocommitOrRollback(), the answer to the *)
(* client, close_thread_tables().                                            *)

autocommitOrRollback(s) ==
    /\ At(s, "endstmt")
    /\ Goto(s, CASE ~(s \in trx /\ s \in Autocommit) -> "answer"
                 [] s \in trx /\ s \in Autocommit /\ da[s] = "ERROR" -> "rollback"
                 [] OTHER -> "commit")
    /\ UNCHANGED << counters, grl, killed, own, da, tables, wakeups, protections >>

(* killed_errno() is reported only if nothing else was, and an empty         *)
(* diagnostics area is answered with an OK packet.                           *)
Answered(s) == IF da[s] = "ERROR" THEN "ERROR" ELSE "OK"

answer(s) ==
    /\ At(s, "answer")
    /\ da' = IF Killed(s) /\ da[s] = "EMPTY" THEN [da EXCEPT ![s] = "ERROR"] ELSE da
    /\ killed' = IF killed[s] = "KILL_QUERY" THEN [killed EXCEPT ![s] = "NOT_KILLED"]
                 ELSE killed
    /\ Goto(s, "close")
    /\ UNCHANGED << counters, grl, own, tables, wakeups, protections >>

close_thread_tables(s) ==
    /\ At(s, "close")
    /\ tab' = [tab EXCEPT ![s] = "closed"]
    /\ asleep' = IF tab[s] = "old" THEN AfterBroadcast ELSE asleep
    /\ Goto(s, "idle")
    /\ stmt' = [stmt EXCEPT ![s] = "NONE"]
    /\ SetDa(s, "EMPTY")
    /\ undone' = undone \ {s}
    /\ UNCHANGED << counters, grl, killed, left, trx, row, stale, owes, killing,
                    protections >>

(* The end of a connection: Session::run() leaves its loop, and cleanup().   *)

\* Slip: the connection unlocks whether or not it has the lock.
AfterCleanupUnguarded(s) == "unlock"

AfterCleanup(s) == IF grl[s] # "NONE" THEN "unlock" ELSE "gone"

cleanup(s) ==
    /\ At(s, "idle")
    /\ killed' = [killed EXCEPT ![s] = "KILL_CONNECTION"]
    /\ EndTransaction(s)
    /\ stmt' = [stmt EXCEPT ![s] = "QUIT"]
    /\ Goto(s, AfterCleanup(s))
    /\ UNCHANGED << counters, grl, left, da, undone, tables, wakeups, protections >>

-----------------------------------------------------------------------------
(* awake(): mark the victim, then signal the condition variable it waits on. *)
(* A second KILL is sent to a session that the first has left asleep.        *)

awake(v) ==
    /\ v \in Killable
    /\ pc[v] # "gone" /\ v \notin killing
    /\ Killed(v) => v \in asleep
    /\ \E how \in {"KILL_QUERY", "KILL_CONNECTION"} :
          /\ how = "KILL_QUERY" => pc[v] # "idle"
          /\ killed' = [killed EXCEPT ![v] = how]
    /\ killing' = killing \cup {v}
    /\ UNCHANGED << counters, grl, pc, own, da, tables, asleep, owes, protections >>

\* Slip: only threads that wait for the global read lock are signalled.
SignalledGrl(v) == IF pc[v] \in GrlWaits THEN AfterNotifyGrl ELSE asleep

Signalled(v) ==
    CASE pc[v] \in GrlWaits     -> AfterNotifyGrl
      [] pc[v] \in RefreshWaits -> { t \in asleep : pc[t] \notin RefreshWaits }
      [] OTHER                  -> asleep

awake_signal(v) ==
    /\ v \in killing
    /\ killing' = killing \ {v}
    /\ asleep' = Signalled(v)
    /\ UNCHANGED << counters, grl, killed, pc, own, da, tables, owes, protections >>

-----------------------------------------------------------------------------
Init ==
    /\ global_read_lock = 0
    /\ global_read_lock_blocks_commit = 0
    /\ protect_against_global_read_lock = 0
    /\ waiting_for_read_lock = 0
    /\ grl = [s \in Sessions |-> "NONE"]
    /\ killed = [s \in Sessions |-> "NOT_KILLED"]
    /\ pc = [s \in Sessions |-> "idle"]
    /\ stmt = [s \in Sessions |-> "NONE"]
    /\ left = Budget
    /\ da = [s \in Sessions |-> "EMPTY"]
    /\ trx = {}
    /\ row = NoSession
    /\ tab = [s \in Sessions |-> "closed"]
    /\ stale = {}
    /\ asleep = {}
    /\ owes = {}
    /\ killing = {}
    /\ protections = {}
    /\ undone = {}

(* What the session's own thread does once it has a statement.               *)
Run(s) ==
    \/ NotifyGlobalReadLock(s)
    \/ lockGlobalReadLock(s)
    \/ close_cached_tables(s)
    \/ makeGlobalReadLockBlockCommit(s)
    \/ unlockGlobalReadLock(s)
    \/ wait_for_job(s)
    \/ alter_schema(s)
    \/ release_job(s)
    \/ openTable(s)
    \/ lockTables(s)
    \/ engine(s)
    \/ wait_for_commit(s)
    \/ commitPhaseOne(s)
    \/ release_commit(s)
    \/ rollbackTransaction(s)
    \/ autocommitOrRollback(s)
    \/ answer(s)
    \/ close_thread_tables(s)

Next ==
    \E s \in Sessions :
       \/ execute(s)
       \/ cleanup(s)
       \/ Run(s)
       \/ engine_error(s)
       \/ awake(s)
       \/ awake_signal(s)

Spec == Init /\ [][Next]_vars

(* Threads are scheduled, and a client that has nothing to say hangs up.     *)
FairSpec ==
    /\ Spec
    /\ \A s \in Sessions : WF_vars(Run(s)) /\ WF_vars(cleanup(s)) /\ WF_vars(awake_signal(s))

(* Only the sessions that may be killed, and the thread that kills them, are *)
(* sure to be scheduled; everybody else may stop for good.  A KILL that has  *)
(* not worked is repeated.                                                   *)
KillSpec ==
    /\ Spec
    /\ \A s \in Killable : /\ WF_vars(Run(s)) /\ WF_vars(awake_signal(s))
                           /\ WF_vars(Killed(s) /\ awake(s))

-----------------------------------------------------------------------------
(* Every variable keeps its type; the counters never go below zero.          *)
TypeOK ==
    /\ global_read_lock \in Nat
    /\ global_read_lock_blocks_commit \in Nat
    /\ protect_against_global_read_lock \in Nat
    /\ waiting_for_read_lock \in Nat
    /\ grl \in [Sessions -> {"NONE", "GOT", "MADE"}]
    /\ killed \in [Sessions -> {"NOT_KILLED", "KILL_QUERY", "KILL_CONNECTION"}]
    /\ pc \in [Sessions -> Places]
    /\ stmt \in [Sessions -> Statements \cup {"NONE", "QUIT"}]
    /\ left \in [Sessions -> Nat]
    /\ da \in [Sessions -> {"EMPTY", "OK", "ERROR"}]
    /\ trx \subseteq Sessions
    /\ row \in Sessions \cup {NoSession}
    /\ tab \in [Sessions -> {"closed", "fresh", "old"}]
    /\ stale \subseteq Sessions
    /\ asleep \subseteq Sessions
    /\ owes \subseteq Sessions
    /\ killing \subseteq Sessions
    /\ protections \subseteq Sessions \X Nat \X {"job", "commit"}
    /\ undone \subseteq Sessions

(* The sessions the counters count.                                          *)
Owners   == { s \in Sessions : grl[s] # "NONE" /\ pc[s] # "unlocked" }
Blockers == { s \in Sessions : \/ grl[s] = "MADE" /\ pc[s] # "unlocked"
                               \/ pc[s] = "wait_make" }
Waiters  == { s \in Sessions : pc[s] = "wait_grl" }

(* The four counters of locking/global.cc count what they are meant to count *)
(* at the end of every section, however FLUSH, UNLOCK, KILL and the end of a *)
(* connection interleave: nothing is counted twice and nothing is forgotten. *)
CountersAgree ==
    /\ global_read_lock = Cardinality(Owners)
    /\ global_read_lock_blocks_commit = Cardinality(Blockers)
    /\ waiting_for_read_lock = Cardinality(Waiters)
    /\ protect_against_global_read_lock = Cardinality(protections)

(* "Like an rwlock": while a statement has a protection nobody has the       *)
(* global read lock, and while any protection is out, a commit's included,   *)
(* no FLUSH TABLES WITH READ LOCK has returned.                              *)
ProtectionExcludesLock ==
    /\ (\E p \in protections : p[3] = "job") => Owners = {}
    /\ protections # {} => \A s \in Owners : grl[s] # "MADE"

(* What FLUSH TABLES WITH READ LOCK promises the client it returns to: until *)
(* UNLOCK TABLES no other session's statement changes a table, and none but  *)
(* another lock owner commits.                                               *)
FlushedMeansQuiet ==
    \A s \in Owners : grl[s] = "MADE" =>
        \A t \in Sessions \ {s} :
            /\ pc[t] # "engine"
            /\ pc[t] = "committing" => grl[t] # "NONE"

(* A statement the client is told succeeded was not rolled back by a commit  *)
(* that was held up, killed or failed.                                       *)
OkMeansCommitted ==
    \A s \in Sessions : pc[s] = "close" /\ Answered(s) = "OK" => s \notin undone

(* No wake-up is lost: whoever sleeps has something to wait for, or a thread *)
(* that has left the mutex is about to notify it.  Releasing a protection    *)
(* notifies only the last time and only if a counter says that somebody      *)
(* waits, unlocking only the last time, closing a table only if it is old.   *)
(* A commit may sleep on while a lock is left that does not block commits    *)
(* any more, and nobody is told that its version has moved on.               *)
NobodySleepsInVain ==
    \A s \in asleep :
        /\ pc[s] \in {"wait_grl", "wait_make"} =>
               protect_against_global_read_lock > 0 \/ owes # {}
        /\ pc[s] \in {"wait_job", "wait_lock", "wait_commit"} =>
               global_read_lock > 0 \/ owes # {}
        /\ pc[s] = "wait_flush" => \E t \in Sessions \ {s} : tab[t] = "old"
        /\ pc[s] = "wait_open" => \E t \in Sessions : tab[t] = "old"

(* Every statement comes to an end: no interleaving of flushes, writes,      *)
(* commits and kills leaves sessions waiting for each other for ever.        *)
StatementsFinish ==
    \A s \in Sessions : pc[s] \notin {"idle", "gone"} ~> pc[s] \in {"idle", "gone"}

(* A killed session leaves whatever wait it is in, although nobody else      *)
(* moves: a signal of awake() that missed it is made good by a second KILL,  *)
(* and every wait loop looks at the mark.                                    *)
KilledStopsWaiting ==
    \A s \in Killable :
        Killed(s) /\ pc[s] \in GrlWaits \cup RefreshWaits
            ~> pc[s] \notin GrlWaits \cup RefreshWaits

=============================================================================
