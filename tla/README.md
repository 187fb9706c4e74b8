# A TLA+ development of the Drizzle server

Drizzle is a multi-threaded SQL server.  One thread serves one connection; the
threads meet in a handful of shared structures, each with its own mutex and
condition variables, and in the storage engine.  A server can also be the slave
of another: two more threads then copy and execute what the other server
committed.  This directory models those structures and the way a transaction
takes from a session of the master to the data of the slave, checks them with TLC
on small instances, and proves the central properties with TLAPS for every
instance.

## 1. The parts and their modules

| Part | Source | Modules | Proofs |
|---|---|---|---|
| Global read lock | `drizzled/locking/global.cc` and its callers in `sql_base.cc`, `schema.cc`, `session.cc`, `sql_parse.cc`, `transaction_services.cc` | `GlobalReadLock` | `GlobalReadLockInvariant`, `GlobalReadLockProofs`, `GlobalReadLockWakeupProofs` |
| Table locks | `drizzled/thr_lock.cc` under `Session::lockTables()` | `ThrLock` | `ThrLockSteps`, `ThrLockProofs` |
| Replication messages of a master | `drizzled/transaction_services.cc`, `cursor.cc`, the savepoint statements | `TransactionMessages`, `TransactionReplay`, `TransactionCommitLog` | `TransactionMessagesProofs` |
| Replication log of a master | `plugin/innobase` (`insert_replication_message`, commit, recovery) | `CommitLog` (abstract) | `CommitLogProofs` |
| User-level locks and barriers | `plugin/user_locks` | `UserSession`, `UserLocks`, `Barriers`, `UserFunctions` | `UserFunctionsProofs` |
| Slave plugin | `plugin/slave` | `Slave`, `OrderedApply` (abstract) | `SlaveProofs` |

How they are put together:

```
 session --statements--> GlobalReadLock, ThrLock        (who may run when)
    |
    +--functions--> UserFunctions = UserLocks + Barriers
    |
    +--row changes--> TransactionMessages --refines--> CommitLog
                                                          |  EXTENDS
                                                        Slave --refines--> OrderedApply
```

`CommitLog` is the seam of the replication half.  `TransactionMessages` is proved
to implement it (`ImplementsCommitLog`), and `Slave` is written against it: its
master is exactly `CommitLog`, so nothing is assumed about the master beyond
what the master's own model has been shown to do, with two exceptions named in
section 5.  `MC*.tla` give the constants their values for TLC; the `.cfg` files
choose the instance, the specification and the properties, and replace no
definition.

Every module follows the same convention for a step: what a thread does between
two points where another thread can interfere is one action.  Such points are
the end of a section under a mutex, a wait on a condition variable, a
`notify_all()` issued outside the mutex, an unlocked read, the commit of an SQL
batch, and a message to another server.

Operators named as slips or mutants (`AfterCleanupUnguarded`, `AnyRow`, ...) are
plausible mistakes in the definition that follows them.  With such a mistake in
place the property listed with it in `PROJECT.json` fails; no specification uses
them.

## 2. The global read lock

FLUSH TABLES WITH READ LOCK takes the lock in three stages: `lockGlobalReadLock()`
waits for the protections that are out and stops new ones,
`close_cached_tables()` waits until nobody has an old instance of a table open,
`makeGlobalReadLockBlockCommit()` waits for the commits under way and stops new
ones.  Writers either take a protection for their whole statement (INSERT, CREATE
.. SELECT, ALTER SCHEMA) or only look at the lock in `lockTables()` (UPDATE).

| State in the module | In the code |
|---|---|
| `global_read_lock`, `global_read_lock_blocks_commit`, `protect_against_global_read_lock`, `waiting_for_read_lock` | the variables of these names, under `LOCK_global_read_lock` |
| `grl`, `killed`, `da` | `Session::_global_read_lock`, `_killed`, the diagnostics area |
| `tab`, `stale` | whether a session's table instance is open, and whether `g_refresh_version` has moved on since it was |
| `trx`, `row` | a resource registered in a transaction; who holds the engine's row lock |
| `asleep`, `owes`, `killing` | threads in `wait()`; threads that left the mutex and still have to notify; victims marked and not yet signalled |
| `protections`, `undone` | ghosts: the protections handed out, the statements rolled back after execution |

The actions carry the names of the functions they translate.  The two halves of
`awake()` are two actions, and a thread may begin its wait between them without
seeing the mark (`MissedKill`): `enter_cond()` and `awake()` order nothing.

Runs.

* `grl_every_statement` (two sessions, two statements each; one collects its writes
  in a transaction and sends everything but DDL, the other is in autocommit mode, may
  be killed and sends everything but COMMIT and ROLLBACK): `CountersAgree`,
  `ProtectionExcludesLock`, `FlushedMeansQuiet`, `OkMeansCommitted`.  Two sessions
  suffice for every pair of stages to meet; more sessions are the theorems' part.
  `NobodySleepsInVain` says that no wake-up is lost: whoever sleeps on one of the two
  condition variables has something to wait for, or a thread that has left the mutex is
  about to notify it.  The code leaves a notification out whenever a counter tells it
  that nobody needs one, so this is a statement about the counters as well.
  The killed session leaves its wait (`KilledStopsWaiting`) although, under
  `KillSpec`, only it and its killer are scheduled: every loop looks at the mark, and
  the KILL is repeated while it has not worked.
* `grl_progress` (three sessions): with writers that hold a protection every
  statement ends (`StatementsFinish`).  Fairness: each thread is scheduled
  (weak fairness of `Run`), a client that has used its budget hangs up, and the
  second half of `awake()` follows the first.  Nobody is obliged to send a
  statement or a KILL.
* `grl_flush_deadlock` (violation): an UPDATE that has its table open sleeps in
  `wait_if_global_read_lock(1,1)`; the FLUSH moves the version on without
  signalling it and waits for the UPDATE's table.

Bounds: `Budget` (statements per session), `Killable`.  Deadlock is not checked
because all connections may hang up.

## 3. Table locks

`ThrLock` has the four lists of each `THR_LOCK`, the lock types as integers in the
order of the enum, and the statement of each session with the tables it names.
`thr_lock()` either grants, queues or refuses; `wait_for_lock()`,
`wake_up_waiters()`, `free_all_read_locks()`, `thr_unlock()`, `thr_multi_lock()` with
its sort, `abort_locks()` and `abort_locks_for_thread()` are translated as they are,
with what `ha_innobase::store_lock()` makes of the requested types.  InnoDB is the
only engine with locks here, so `read_no_write_count` stays zero and is left out.

Runs.

* `thr_safety` (three sessions, two tables, four statements to choose from for each
  session, one session that may be killed and two that the shutdown reaches): holders are compatible (`LocksCompatible`), no queue is left without a
  holder (`NobodyForgotten`), locks come all or not at all (`AllOrNothing`), ALTER
  TABLE replaces a table nobody else holds or waits for (`AloneWhenRemoved`),
  writers do not overtake each other (`WritersInOrder`).
  `max_write_lock_count = 0` makes the reader batch of `wake_up_waiters()` happen.
* `thr_progress`: statements that name two tables in opposite orders finish, under
  weak fairness of each thread.
* `thr_self_join` (violation): a self-join FOR UPDATE and a TRUNCATE wait for each
  other.

Bounds: one statement per session (`MaxStatements`), at most two locks each
(`MaxLocks`); three sessions are the least for a holder, a waiter and one that comes
between them.  Deadlock is not checked because all statements may be done.

## 4. From row changes to the replication log

`TransactionMessages` follows a session's transaction in three places at once: the
engine's own transaction (`trx`, its row changes and its log rows, each a sequence
undone from its end), the `message::Transaction` under construction (`message`, with its
statements, their segment ids and the pointer to the open statement), and what a
stream applier such as a queue server was given (`sent`).  `history` has every
transaction InnoDB committed, `log` those of them that a reader of the replication log
finds by their commit id, and each entry of `history` says how much of `log` was
written by then (`LoggedAt`), which is what a crash goes back to.  A row change is a number
and the size of a message the number of its records, so a threshold of 1 or 2
makes segments happen in every position.

| Action | Code |
|---|---|
| `changeRow` | `Cursor::insertRecord/updateRecord/deleteRecord`, `log_row_for_replication`, `get*Statement`, `segmentTransactionMessage`, the push |
| `endStatement`, `failStatement` | `autocommitOrRollback`, `rollbackStatementMessage` |
| `commit`, `commitPhaseOne` | `commitTransaction` up to the push, and the engine's commit after it |
| `rollback` | `rollbackTransaction`: the engine first, then `rollbackTransactionMessage` |
| `setSavepoint`, `rollbackToSavepoint`, `releaseSavepoint` | the functions and statements of these names, with `deque::erase` and `NamedSavepoint::operator=` |
| `flush`, `crash` | `log_write_up_to`, recovery with `trx_sys_read_commit_id` |

`TransactionReplay` reads what the master wrote: `convertToSQL` and `Readable` translate
the slave's reader (`QueueConsumer::getMessage`, `convertToSQL` and the two assertions).
`TransactionCommitLog` has the refinement mapping to `CommitLog`.

The statements of correctness are `RebuiltFromLog` (what a slave rebuilds from the
rows of a transaction is what the transaction changed) and `RebuiltFromStream`: a consumer
of the messages that applies each segment as it comes, as
`docs/replication/messages/index.rst:117-120` proposes, and un-applies what ROLLBACK and
ROLLBACK_STATEMENT tell it to, has in the end what the transaction changed, nothing of
one that was rolled back, and has been told that it ended.
`SegmentsFollow` is about the shape of the rows: those of a committed transaction are its
segments 1..n under one transaction id, and exactly the last one is an end segment and
has a commit id.  The code keeps none of the three without exception.  `marks` records
the events that break it, each property names those it excludes, and section 9 describes
them.  TLC finds `RebuiltFromStream` violated
without any one of its seven exclusions ("erased" takes three savepoint names,
the others show on the instance of `msg_rebuild`).

Any message may be refused by the stream's applier, the ROLLBACK of a transaction
included, whose refusal the code ignores.  A crash brings the counter of commit ids
back to some value between the one the last surviving commit wrote and the last one
drawn, because a rollback writes it to the system header as well.

Runs.

* `msg_rebuild` (one session, three changes, two savepoint names, one failure, one
  refused message, INSERT with duplicate-key updates and REPLACE): all three properties.
  Messages are private to a session, so one session is enough.
* `msg_commit_ids` (two sessions, one of them in two segments, two crashes, one
  failure, one refused message): the refinement `ImplementsCommitLog`.
* `msg_bulk_rollback` (violation): the lone ROLLBACK row.

Bounds: `MaxChanges` and `MaxSavepoints` per session, `MaxFailures`, `MaxRefusals`,
`MaxCrashes` in all.  `MaxRows` bounds the log rows of a transaction and only has to be
greater than `MaxChanges`; that it is never exceeded is part of `TypeOK`.  Deadlock is
not checked: the budgets of changes run out.

## 5. The slave

`Slave` extends `CommitLog` with the two threads of the plugin.  The producer
remembers a position (`saved_max`), asks for up to `limit` ids beyond it, fetches
their rows and inserts each row in a transaction of its own, rows without a commit
id first.  The consumer lists the transactions whose last row has arrived, and for
each executes its statements together with the update of `applier_state`, then
deletes its rows.  A transaction is identified with its commit id.

Faults, all drawn from one budget `MaxFaults`: any local SQL batch may fail (and
after a failed batch of several statements any part of it may have been
committed, because the session that executes it goes on), queries of the master may
fail, the connection may be lost, either server may crash at any step.
`executeSQL()` reports a failure only when its executor is not in the error state
already; a failure that is hidden from the caller sets the ghost `masked`.  A
restart follows when a thread has ended, as
`docs/replication/appliers/slave/administration.rst` asks of the administrator.

`OrderedApply` is the promise to a user: the ids executed are the master's, in
order, none left out.  The promise ends with `ignore_errors` or with a hidden
failure (`Excuse`).  A transaction that is executed again right after itself, because a crash
came before its rows were deleted, is not a second entry of `applied`; the model
lets such a repetition fail without a further fault, since its rows exist already.

Runs.

* `slave_order` (one committing client, two transactions of one or two rows,
  queries of one or two ids, two faults of any kind): `CommitIdsDistinct`,
  `NothingSkipped`, `ListedIsWhole`, the refinement `ImplementsOrderedApply`, and the
  liveness property `CommitsGetApplied`.  Two faults are the least for a crash
  during the recovery from a fault, and for a failure hidden by an earlier one.
  `FairSpec` has weak fairness of each thread, which loops for ever with a timed
  sleep, and of the administrator's restart; the master is under no obligation.
  `CommitsGetApplied` leaves out two states the code cannot leave by itself, each
  of which is needed: a half-queued transaction, and one that was executed and not
  deleted.
* `slave_gap` (violation, two committing clients, no faults): commit ids become
  visible out of order and the slave passes over one.

The exceptions promised above.  `crashMaster` is guarded by `ReadBy`.  A commit is
visible before its redo log is flushed, so a master that crashes in that window
loses a transaction its slave may have applied; what follows is not modelled.
And the rows of a transaction are numbered 1..n in `Slave`.  `SegmentsFollow` says the
same of the master's rows, with its three exceptions; the lone ROLLBACK row of
section 4 is one.

Deadlock is checked.

## 6. User-level locks and barriers

`UserSession` has what the functions share: the place of each session in its function
(`pc`), its arguments and local variables (`local`), who is asleep (`asleep`), whose
interruption is pending (`interrupted`).  `UserLocks` and `Barriers` extend it, and
`UserFunctions` puts them together with KILL and the end of a connection.

| State in the module | In the code |
|---|---|
| `lock_map`, `list` | `Locks::lock_map`; the `Storable` in which each session remembers its locks |
| `barrier_map`, `barrier` | `Barriers::barrier_map`, and the objects it points to, which outlive their names as long as somebody uses them |
| `names` | the `barriers::Storable` of each session |
| `woken` | the sessions whose `Observer::woken` is set |
| `miscounted` | ghost: barriers that counted a killed waiter out twice |
| `untold` of a barrier | ghost: the waiters that came since `checkObservers()` last ran |

A section under `Locks::mutex`, `Barriers::mutex` or a barrier's `sleeper_mutex` is one
step.  So `wait()`, `wait_until()` and `signal()` are two steps at least: they find the
object (`find_to_wait`, ...) and use it later, when its name may be gone or mean another
object.  `Storable::erase_all()` releases key by key and passes over what is not the
session's own.  A wait ends by a notification, by
its timeout or by an interruption.  Boost throws the interruption when the wait begins,
if it is pending, or when the sleeper runs again, also after a notification; it wakes
all sleepers of the condition variable (`SameCond`).  Outside the waits interruption is
disabled (`runSession`), so a KILL that comes too late for one function meets the next.
`wait(name, generation)` does not restore it and cannot be interrupted.

Run `user_functions` (three sessions, two keys, one name, two barriers, limits none
and 2, at most three calls each; one session may be killed).  The sessions choose one
of four workloads, so that locks, barriers, the two mixed, and lists with keys that
are not the session's any more are each explored without their product:

* `NothingDangles`: what is locked or named is in the list of a session that is still
  there, so the destructors of the two Storables leave nothing behind.
* `WaiterHoldsNothing`: a session in the wait of `get_lock()` has no lock.
* `CountIsRight`: a barrier's count is the number of sessions that wait in its
  generation, and below the limit.
* `ObserversAreTold`: whoever is in `wait_until()` has been told (its `woken` is set) or
  is still on the barrier's list, and on the list only while fewer waiters than it
  asked for had come when `checkObservers()` last ran.  Arrivals through
  `wait(name, generation)`, which runs no `checkObservers()`, are counted apart.  The
  property is about being told, not about sleeping: an observer that was told can
  still fall asleep, with enough waiters there (section 9, `observer.h:63`).
* `NobodySleepsInVain`: nobody sleeps at a barrier for a generation that has ended, or in
  `release_lock_and_wait()` for a lock that is there.  (`get_lock()` and
  `Observer::sleep()` do lose wake-ups; see section 9.)
* `WaitersReturn`: whoever waited in a generation that has ended returns.
* `CreationIsSeen`: `wait_for_lock()` and `release_lock_and_wait()` notice a lock that
  is there, or it goes away again.

Three sessions are the least for an owner, a waiter and one that meets the limit with
it; two barriers for a name that is released and created again under a waiter.
`FairSpec` has weak fairness of `Run`: a thread inside a function is scheduled, and
timeouts run out.  Nobody has to call a function, to kill or to disconnect.  Deadlock is
not checked because all sessions may be gone.

## 7. What is proved

All proofs hold for every value of the constants; the only assumptions are the named
`ASSUME`s of the modules and, where stated, `OneClient`.  The assumptions give the types
of the constants, say that there is a statement to send (`SomeStatementAssumption`) and
that the NULL pointer is no message (`NoMessageAssumption`).

**Global read lock** (`GlobalReadLockProofs`).  `TypeCorrect`, `CountersAreRight`,
`MutualExclusion`, `ReadLockIsQuiet`, `SuccessIsCommitted`: `Spec => []` of `TypeOK`,
`CountersAgree`, `ProtectionExcludesLock`, `FlushedMeansQuiet`, `OkMeansCommitted`.
None is inductive.  That the lock keeps writers out depends on which places of the
code hold a protection (`Tokens`), that counters are right on which stake a session
has where (`Staked`), and that an UPDATE without a protection does no harm on what a
flusher past `close_cached_tables()` knows: whoever has written keeps an old
instance open (`Flushed`).  `IInv` joins these.  The proof has counting lemmas for sets
that change by one element, a frame lemma for each conjunct, and a lemma for each action.

`GlobalReadLockWakeupProofs` adds `NoWakeupIsLost` (`NobodySleepsInVain`), which is
inductive together with `IInv`.  `SoundStep` says that a step which adds at most its own
session to the sleepers, and takes nothing away that the others wait for, keeps
everybody's sleep sound; most actions are such steps.  The others are the places that
decide whether to notify: the last protection given back (`GiveBackActions`), the last
lock released (`ReleaseActions`) and a table closed (`CloseActions`).  There the
conditions of the code are enough because a sleeper is among those the counters count
(`SleeperIsCounted`, from `CountersAgree`).

**Table locks** (`ThrLockSteps`, which has what a function does to one `THR_LOCK`, and
`ThrLockProofs`).  `ThrLockTypeCorrect`, `LocksAreCompatible`,
`NoWaiterIsForgotten`, `LocksAllOrNothing`: `Spec => []` of `TypeOK`, `LocksCompatible`,
`NobodyForgotten`, `AllOrNothing`; and the two action properties, `AlterTableIsAlone`
(`AloneWhenRemoved`) and `WritersAreServedInOrder` (`WritersInOrder`).  The invariant `TInv`
has three parts besides the types.  Of a table (`TableInv`): nobody is twice in a
`THR_LOCK`, the lists hold the types their names say, holders are compatible, and who
waits has a holder to wait for.  Of a lock (`TypeInv`): its type is the one
`get_lock_data()` stored, until it is reset or `abort_locks()` upgrades it.  Of a session
(`SessionInv`): how far it has come through its locks in the sorted order, which of them
it holds, and that it waits for the current one only.  The first two need each other:
that `thr_lock()` may grant a write lock beside a holder of the same session, without
looking at the rest, is right because the locks a statement writes with have one type.
`Wakes` says what `wake_up_waiters()` may do to a `THR_LOCK`; each of the functions that
end in it is reduced to that lemma.  The order of writers is carried by `InTurn`, a
relation between a `THR_LOCK` before and after a step.

**Replication messages** (`TransactionMessagesProofs`).  `TransactionMessagesTypeCorrect`
(`TypeOK`, which says that what a rollback goes back to is still there),
`MessagesImplementCommitLog` (`ImplementsCommitLog`, the refinement),
`ServerCommitIdsDistinct`, the result of `CommitLogProofs` carried over to the server, and
`SegmentsFollowEachOther` (`SegmentsFollow`).
`MInv` says of a session that only the last row of a transaction that is committing has a
commit id, that a transaction has at most one row for each change and one more, and
that savepoints lie one before the other and before the statement that runs; of what is
committed, that `history` and `log` were written in the same order and that the value in
the system header never fell behind.  Each action is shown to keep `MInv` and to be a step
of `CommitLog` or none: `changeRow` and the savepoints change nothing there, the push of
an end segment is `Draw` (`Waste` when a refused message or a duplicate key leaves the id
unused), the engine's commit is `Publish` or, when no row has an id, nothing.

`SegmentsFollow` speaks of committed transactions only, so `NInv` says of each session
what makes it true at the commit (`Follows`): until the end segment is pushed, the rows
are numbered 1..n, none is an end segment, and the message under construction has the
next number (`Fits`) and their id (`Under`); each savepoint's copy of the message fits the rows up
to its own mark in the same way (`SavedFit`), so that ROLLBACK TO SAVEPOINT cuts the rows
back to where the restored message goes on.  A failed statement cuts the rows as well
and keeps the message, which fits only when the statement had pushed no segment; that is
the exception `undone`.  The others are `rollback`, the ROLLBACK message of a bulk
transaction, and `erased`, savepoints that exchanged their messages.  None can be
dropped: TLC finds `SegmentsFollow` violated without `undone` or without `rollback` on the
instance of `msg_rebuild`, and without `erased` with four changes and three savepoints.

**Commit ids** (`CommitLogProofs`).  `CommitIdsStayDistinct`: no two transactions in
the log carry the same id, through any crashes.  The invariant `LogInv` adds that
the value each commit wrote to the system header bounds all ids up to it and grows
along the log, and that drawn ids are distinct and in no entry.

**The queue of the slave** (`SlaveProofs`).  `SlaveTypeCorrect` (`TypeOK`),
`SlaveCommitIdsDistinct` (`CommitIdsDistinct`) and `ListedStaysWhole`: for any number of
clients, the consumer's assertions hold for what it has listed.  `QueueInv` says
that a last row is preceded by the other rows of its transaction, in the queue or on
the way, that what is on the way is newer than anything complete in the queue, and
that the position is not behind the queue.  `LogSteps` reduces the master's part to
`CommitLogProofs`.

**The order of the slave** (`SlaveProofs`, second half).  With one committing client at a time
(`OneClient`), `NothingIsSkipped` and `SlaveImplementsOrderedApply`: the slave is
correct through any failures, restarts and crashes of its own, and through those
crashes of the master that lose no commit the slave has read (the guard of
`crashMaster`, section 5).  `IdsAscend` is where the
assumption is used; `slave_gap` shows that it is needed.  `PassInv` follows each
visible id from the log through `list`, `rows` and the queue to the data, `OrderInv`
relates the last transaction executed, the one recorded and the position.  The
refinement maps every action to `Execute`, `Commit`, `Excused` or a stutter.

**User-level locks and barriers** (`UserFunctionsProofs`).
`LocksAndBarriersDoNotDangle`, `LockWaitersHoldNothing`, `BarriersCountTheirWaiters`,
`UserFunctionsTypeCorrect`, `NoObserverIsMissed`: `Spec => []` of `NothingDangles`,
`WaiterHoldsNothing`, `CountIsRight`, `TypeOK`, `ObserversAreTold`.  `UInv` has three
parts.  `LockInv` says where a session may be with locks in its list: a waiter has none,
and one in `release_lock_and_wait()` not the lock it gave up.  `NameInv` says that a
session's list of barriers is exactly the barriers it owns.  `WaitInv` says that no waiter
is of a generation to come, so that the end of a generation leaves its barrier without
waiters, and that the limit is never counted down to zero with waiters left.  A step
that ends a generation, one that adds a waiter and one that takes one away have a lemma
each (`WakeStep`, `ArriveStep`, `LeaveStep`); every action is reduced to one of these or
to a frame lemma.  `FInv` adds for the last two theorems who may be asleep where
(`SleepInv`), that an observer in a barrier's list is in `Observer::sleep()` for that
barrier, not woken and waiting for more than `checkObservers()` last saw (`Told`), and
that whoever is in `Observer::sleep()` is woken or in the list (`Registered`).  One
arrival raises the count by one at most, so that one through `wait(name, generation)`
leaves the waiters looked at (`LookedAt`) no more than they were.  `NoSleeperIsForgotten` (`NobodySleepsInVain`) is
inductive together with `FInv`: a step that ends a generation or takes a lock is shown to
wake every sleeper it concerns, and every other step to leave generations, locks and the
places of the sleepers alone.

Each inductive invariant was first checked by TLC as an invariant of the instances
above.

## 8. What is only model-checked

* Liveness (`StatementsFinish`, `KilledStopsWaiting`, `CommitsGetApplied`,
  `WaitersReturn`, `CreationIsSeen`): temporal reasoning under fairness is out of the
  prover's reach.  For the first and the fourth the part that is about states is proved,
  `NoWakeupIsLost`, `NoWaiterIsForgotten` and `NoSleeperIsForgotten`: nobody is left
  asleep with nothing to come.
* `RebuiltFromLog` and `RebuiltFromStream`: they speak of folds over the messages of a
  transaction, whose proof would be an induction over data, which the prover has no
  means for.  What is proved of `TransactionMessages` is where its rows, marks and
  commit ids are and that the segments are complete and in order (`SegmentsFollow`), not
  what the records in them add up to.

## 9. Where code and documentation part

Shown by a run (`PROJECT.json`, `findings`): the FLUSH that waits for a sleeping
UPDATE, the self-join that waits for TRUNCATE, the ROLLBACK row no slave can read,
the commit a slave passes over.

Found while modelling, part of the models as the code has them, and excluded by
the properties that say so:

* `schema.cc:163`: ALTER SCHEMA returns without giving its protection back when the
  schema is refused; every later FLUSH TABLES WITH READ LOCK waits for ever.
* `locking/global.cc:198`: `lockTables()` refuses a statement whose version moved on
  without reporting an error, and `dispatch_command` answers OK.
* `locking/global.cc:953`: `unlockGlobalReadLock()` notifies only when the last lock goes,
  so a COMMIT that slept while two sessions had the lock sleeps on although the lock that
  remains does not block commits yet.
* `session.cc:470`: KILL QUERY after KILL CONNECTION replaces the mark, and the
  connection survives.
* `thr_lock.cc:167`: the wait for a table lock ends on the thread's abort flag, which
  only the shutdown sets; a killed session keeps waiting for its table lock.
* `thr_lock.cc:474`: `wake_up_waiters()` is documented to wake every thread whose
  request can be satisfied, and does nothing while a write lock is active; a
  TL_WRITE_ALLOW_WRITE behind a withdrawn request stays queued until the active
  writers are gone.
* `sql_base.cc:1646`: `lock_tables()` documents `need_reopen` as the sign that tables
  changed and should be reopened, and only ever sets it to false; a statement whose
  wait an ALTER TABLE aborts fails instead of being tried again.
* `transaction_services.cc:1119` ("undone"): a statement that fails after it pushed a
  segment takes its rows out of InnoDB's log with it, so the log lacks a segment.
* `cursor.cc` ("cut", "mixed"): a REPLACE that fails after its delete leaves the
  finalized delete in the message; INSERT .. ON DUPLICATE KEY UPDATE and REPLACE put
  update records into a statement of another type.
* `transaction_services.cc:1031` ("empty_end"): when the last segment turns out empty
  it is not pushed and no row of the transaction ever carries a commit id.
* `transaction_services.cc:1088` ("unannounced"): a transaction that is rolled back sends
  a ROLLBACK only if a statement of the message under construction continues one of an
  earlier segment.  None is sent when the segments sent so far ended with whole
  statements, when a deadlock has just taken the statement that went on out of the
  message, or when the end segment was refused and `commitTransaction()` rolls back; a
  consumer that has applied the segments keeps them.  `docs/replication/messages/index.rst`
  says "For a transaction which is made up of multiple messages, and at least one message
  has already been sent through the replication stream, then the Transaction message will
  contain a Statement message with type = ROLLBACK", and `message/transaction.proto:272`
  "Any time a transaction is rolled back".
* `replication_services.cc:179` ("refused"): a segment that is refused before the end is
  lost, and the transaction goes on with the next.
* `transaction_services.cc:835` ("restored"): ROLLBACK TO SAVEPOINT goes back to a
  segment number already sent, also when the savepoint was set before there was a
  message, and no consumer is told.
* `named_savepoint.h:75` ("erased"): savepoints erased from the middle of the deque
  exchange their messages.
* `queue_producer.cc:390`: rows of a transaction left in the queue by a crash are found
  again, the insert fails on their key, and the IO thread stops after every restart.
* `queue_consumer.cc:163`: a transaction executed and not deleted is executed again and
  may fail for that reason each time.
* `sql_executor.cc:75`: `setIOState()` does not clear the error state, as
  `setApplierState()` does; after one failed status update the next failing insert
  is taken for a success and its transaction is lost.
* `user_locks/is_free_lock.cc:40`: `is_free_lock()` calls `Locks::release()`, so asking
  gives the session's own lock up.
* `user_locks/locks.cc:176`: `release()` notifies one sleeper of a condition variable
  that serves all keys.  The one it wakes may wait for another lock, or be killed
  before it runs; a session that waits for the released lock then sleeps on.
* `user_locks/wait.cc:36`: a session that has found a barrier and reaches
  `Barrier::wait()` after the owner's `release_barrier()` waits at an object without a
  name, for ever if it has no limit and the session is not killed.  `docs/barriers.rst`
  says "All waiters and observers are released if release_barrier() is called by the
  session which created the barrier".
* `user_locks/barrier.h:122`: the handler of an interruption counts the waiter out also
  when `wakeAll()` has reset the count since; the next generation then needs a waiter
  more than its limit ("miscounted").
* `user_locks/barrier.h:226`: observers are woken when the count is 0, which is meant for
  a signal or a release, but is also the case when the only waiter was killed.
* `user_locks/barrier.h:165`: `wait(name, generation)` tells no observer that it came, so
  that an observer may sleep with as many waiters there as it asked for.
* `user_locks/barrier.h:120`: `wait()` swallows the interruption, so a killed `wait()`
  returns 1 and the handler in `wait.cc:59` is never reached.
* `user_locks/observer.h:63`: `wake()` declares a `scoped_lock` without a mutex; a wake
  between the test and the wait of `sleep()` is lost.  The observer is off the list by
  then and nobody wakes it again, whereas `docs/barriers.rst:31-33` says "Observers are
  released not only when signal() or release_barrier() is called, but also when their
  definitive predicate happens".
* `queue_thread.cc:37`: a producer that never reaches its master returns without
  `shutdown()`, and `io_state` says RUNNING; `administration.rst:32` defines that as
  "The thread is working properly".

## 10. What is not modelled

`PROJECT.json` lists every part of the repository with its status.  In short:

* DDL, RAW SQL and event messages; sessions with autocommit off that start their
  transaction implicitly; several engines in one XA transaction.
* Several masters of one slave (rows and states of different masters never meet),
  replication chains, the status columns, and the option `max-commit-id`, which
  overwrites the slave's position at every start (`replication_slave.cc:171`), also when
  the slave has moved on since.
* The table cache with its name locks, and the session's life cycle beyond KILL:
  candidates for modules of their own.
* In `plugin/user_locks`: keys of several users (they never meet), barriers with a
  negative limit (the constructor takes one, and it is never met), `is_used_lock()` and
  the two tables of `DATA_DICTIONARY`, which only read.
* InnoDB below the interfaces used here, the other engines, the parser, the
  optimizer, types and functions, the protocols and the clients: sequential
  algorithms over large data, or I/O.  Most of the repository's half million lines
  are of this kind, which is why the share of lines the map names is small.
* Integers are unbounded; the one place where a width matters on a modelled path is
  `queue_producer.cc:293`, which reads 64-bit ids as 32-bit numbers.

## 11. Running

```
tlc -workers 2 -config MCSlave_order.cfg MCSlave     # or any other pair
tlapm SlaveProofs.tla
```

The longest run takes about two minutes on two cores.  When nothing has been
proved before, `TransactionMessagesProofs` takes about twenty minutes, `ThrLockProofs` about
a quarter of an hour, `GlobalReadLockProofs` and `UserFunctionsProofs` about ten minutes
each, the other proof modules a few minutes.
