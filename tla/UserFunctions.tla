--------------------------- MODULE UserFunctions ---------------------------
(***************************************************************************)
(* The sessions of one user with their locks and barriers: the functions   *)
(* they call, KILL, and the end of a connection, which destroys both        *)
(* Storables of the session.                                                *)
(***************************************************************************)
EXTENDS UserLocks, Barriers

CONSTANTS Workloads,      \* which functions the sessions call, and how many of them
          KeySets,        \* the arguments of get_locks()
          Counts,         \* the arguments of wait_until()
          Generations     \* the second arguments of wait()

Functions == {"get_lock", "get_locks", "release_lock", "is_free_lock", "release_locks",
              "release_lock_and_wait", "wait_for_lock", "create_barrier", "release_barrier",
              "wait", "wait_generation", "wait_until", "signal"}

ASSUME FunctionsAssumption ==
  /\ Workloads \subseteq [functions : [Sessions -> SUBSET Functions], budget : [Sessions -> Nat]]
  /\ KeySets \subseteq SUBSET Keys
  /\ Counts \subseteq Nat \ {0}
  /\ Generations \subseteq Nat

VARIABLE Allowed          \* the functions each session calls

vars == <<session, locks, barriers, Allowed>>

LockCall(s) ==
  \/ "release_locks" \in Allowed[s] /\ release_locks(s)
  \/ "get_locks" \in Allowed[s] /\ \E K \in KeySets : get_locks(s, K)
  \/ \E k \in Keys :
       \/ "get_lock" \in Allowed[s] /\ get_lock(s, k)
       \/ "release_lock" \in Allowed[s] /\ release_lock(s, k)
       \/ "is_free_lock" \in Allowed[s] /\ is_free_lock(s, k)
       \/ "release_lock_and_wait" \in Allowed[s] /\ release_lock_and_wait(s, k)
       \/ "wait_for_lock" \in Allowed[s] /\ wait_for_lock(s, k)

BarrierCall(s) ==
  \E n \in Names :
    \/ "create_barrier" \in Allowed[s] /\ create_barrier(s, n)
    \/ "release_barrier" \in Allowed[s] /\ release_barrier(s, n)
    \/ "wait" \in Allowed[s] /\ find_to_wait(s, n)
    \/ "wait_generation" \in Allowed[s] /\ \E g \in Generations : find_generation(s, n, g)
    \/ "wait_until" \in Allowed[s] /\ \E u \in Counts : find_to_observe(s, n, u)
    \/ "signal" \in Allowed[s] /\ find_to_signal(s, n)

\* the rest of a function, once it has been called
LockStep(s) ==
  \/ erase_all(s) \/ lock(s) \/ lock_timeout(s) \/ interrupted_wait(s)
  \/ released_and_created(s) \/ isUsed(s) \/ waitCreate(s) \/ waited(s)

BarrierStep(s) ==
  \/ signal(s) \/ wait(s) \/ wait_woken(s) \/ wait_interrupted(s)
  \/ wait_generation(s) \/ wait_generation_woken(s)
  \/ observe(s) \/ observer(s) \/ observer_sleep(s) \/ observer_interrupted(s)

\* the session's properties are deleted one after the other, then it is gone
disconnect(s) ==
  /\ pc[s] = "idle"
  /\ Goto(s, "leaving")
  /\ UNCHANGED <<asleep, interrupted, left, locks, barriers>>

LeftLocks(s) == list[s]
LeftBehind(s) == list[s] \cup names[s]

destroy(s) ==
  /\ pc[s] = "leaving"
  /\ \/ EraseOne(s) /\ UNCHANGED <<pc, local, barriers>>
     \/ /\ \E n \in names[s] : EraseBarrier(s, n)
        /\ UNCHANGED <<pc, local, made, miscounted, locks>>
     \/ /\ LeftBehind(s) = {}
        /\ Goto(s, "gone")
        /\ UNCHANGED <<asleep, locks, barriers>>
  /\ UNCHANGED <<interrupted, left>>

\* the sleepers on the condition variable a session waits on
SameCond(s) ==
  CASE pc[s] = "release_cond" -> ReleaseSleepers
    [] pc[s] \in {"create_cond", "create_timed"} -> CreateSleepers
    [] pc[s] = "wait" -> Sleepers(local[s].at)
    [] OTHER -> asleep \cap {s}

Interruptible == {"release_cond", "create_cond", "create_timed", "wait", "observer_cond"}

\* KILL of a session that executes something.  thread::interrupt() broadcasts the
\* condition variable of a wait that can be interrupted, also after the sleeper was
\* notified, as long as it has not run.
awake(s) ==
  /\ s \in Killable \ interrupted
  /\ pc[s] \notin {"idle", "leaving", "gone"}
  /\ interrupted' = interrupted \cup {s}
  /\ \/ pc[s] \in Interruptible /\ asleep' = asleep \ SameCond(s)
     \/ ~(pc[s] \in Interruptible /\ s \in asleep) /\ UNCHANGED asleep
  /\ UNCHANGED <<pc, local, left, locks, barriers>>

Init ==
  /\ \E w \in Workloads : Allowed = w.functions /\ left = w.budget
  /\ pc = [s \in Sessions |-> "idle"]
  /\ local = [s \in Sessions |-> NoLocal]
  /\ asleep = {} /\ interrupted = {}
  /\ lock_map = [k \in Keys |-> NoSession]
  /\ list = [s \in Sessions |-> {}]
  /\ barrier_map = [n \in Names |-> 0]
  /\ barrier = [i \in 1..MaxBarriers |-> Barrier(NoSession, 0)]
  /\ made = 0
  /\ names = [s \in Sessions |-> {}]
  /\ woken = {} /\ miscounted = {}

\* the functions that have been called go on
Run(s) ==
  \/ LockStep(s) /\ UNCHANGED <<barriers, Allowed>>
  \/ BarrierStep(s) /\ UNCHANGED <<locks, Allowed>>
  \/ destroy(s) /\ UNCHANGED Allowed

Next ==
  \E s \in Sessions :
    \/ LockCall(s) /\ UNCHANGED <<barriers, Allowed>>
    \/ BarrierCall(s) /\ UNCHANGED <<locks, Allowed>>
    \/ Run(s)
    \/ (disconnect(s) \/ awake(s)) /\ UNCHANGED Allowed

Spec == Init /\ [][Next]_vars

\* Threads are scheduled and timeouts run out; nobody has to call, to kill or to leave.
FairSpec == Spec /\ \A s \in Sessions : WF_vars(Run(s))

\* ------------------------------ properties --------------------------------

Places == {"idle", "leaving", "gone", "erase_lock", "erase_end", "lock", "is_used", "wait_create",
           "signal", "arrive", "arrive_generation", "wait_generation", "observe", "observer",
           "observing"} \cup Interruptible

\* Every variable keeps its type, and whoever is asleep is in a wait.
TypeOK ==
  /\ pc \in [Sessions -> Places]
  /\ asleep \subseteq {s \in Sessions : pc[s] \in Interruptible \cup {"wait_generation"}}
  /\ \A s \in Sessions :
       /\ "key" \in DOMAIN local[s] => local[s].key \in Keys
       /\ "at" \in DOMAIN local[s] => local[s].at \in 1..made
  /\ interrupted \subseteq Sessions
  /\ left \in [Sessions -> Nat]
  /\ lock_map \in [Keys -> Sessions \cup {NoSession}]
  /\ list \in [Sessions -> SUBSET Keys]
  /\ made \in 0..MaxBarriers
  /\ barrier_map \in [Names -> 0..made]
  /\ barrier \in [1..MaxBarriers ->
       [owner : Sessions \cup {NoSession}, limit : Nat, current_wait : Int,
        generation : Nat, observers : SUBSET Sessions, untold : Nat]]
  /\ names \in [Sessions -> SUBSET Names]
  /\ woken \subseteq Sessions /\ miscounted \subseteq 1..MaxBarriers

\* "If a session should exit, whatever locks it was holding will be released", and the
\* same for barriers: whatever is locked or named is in the list its owner's Storable
\* will work through, whichever functions were called or interrupted on the way, so a
\* session that is gone has left nothing behind.  The list of barriers has no other name
\* in it; that of locks may have (is_free_lock() and an interrupted
\* release_lock_and_wait() leave the key), and erase_all() passes over it.
NothingDangles ==
  /\ \A k \in Keys : lock_map[k] # NoSession =>
       k \in list[lock_map[k]] /\ pc[lock_map[k]] # "gone"
  /\ \A n \in Names : barrier_map[n] # 0 =>
       LET owner == barrier[barrier_map[n]].owner IN n \in names[owner] /\ pc[owner] # "gone"
  /\ \A s \in Sessions : \A n \in names[s] : Owns(s, n)

\* A session that waits in get_lock() has no lock itself, so sessions cannot wait for
\* each other in a circle: all its locks were released before, one by one, while others
\* could take them.
WaiterHoldsNothing ==
  \A s \in Sessions : pc[s] \in {"lock", "release_cond"} =>
    \A k \in Keys : lock_map[k] # s

\* the sessions that wait at barrier i for its generation to end
Waiters(i) ==
  {s \in Sessions : pc[s] \in {"wait", "wait_generation"} /\ local[s].at = i
                    /\ local[s].my_generation = barrier[i].generation}

\* count() is the number of sessions that wait, and stays below the limit: the waiters
\* that came, were killed, or were let go by the limit, a signal or the release are all
\* accounted for.  A waiter that is killed after it was let go is counted out a second
\* time by Barrier::wait(); barriers that happened to are left out.
CountIsRight ==
  \A i \in 1..made \ miscounted :
    /\ count(barrier[i]) = Cardinality(Waiters(i))
    /\ barrier[i].limit # 0 => Cardinality(Waiters(i)) < barrier[i].limit

\* Whoever is in wait_until() has been told - Observer::wake() has set woken - or is still
\* on the barrier's list, and then too few waiters were there when checkObservers() last
\* ran: only sessions that came since then through wait(name, generation), which tells
\* no observer, can make them enough.  Nobody is taken off the list untold, by arrivals,
\* killed waiters, the limit, signal() or release.  (Who has been told may sleep on all
\* the same: Observer::wake() holds no mutex, see observer_sleep.)
ObserversAreTold ==
  \A s \in Sessions :
    pc[s] \in {"observer", "observing", "observer_cond"} =>
      LET seen == barrier[local[s].at]
      IN s \in woken \/ (s \in seen.observers /\ count(seen) - seen.untold < local[s].wait_until)

\* the sessions in a wait whose generation has ended
LetGo ==
  {s \in Sessions : pc[s] \in {"wait", "wait_generation"}
                    /\ local[s].my_generation # barrier[local[s].at].generation}

\* Whoever waits at a barrier returns once the limit is met, the barrier is signalled,
\* released, or its owner disconnects (each ends the generation), although waiters
\* are killed and other generations begin meanwhile.
WaitersReturn ==
  \A s \in Sessions : s \in LetGo ~> s \notin LetGo

\* the sessions that wait for the creation of a lock that is there
WaitForCreated ==
  {s \in Sessions : pc[s] \in {"is_used", "wait_create", "create_timed", "create_cond"}
                    /\ lock_map[local[s].key] # NoSession}

\* No wake-up is lost where there is no timeout: nobody sleeps at a barrier whose
\* generation has moved on since it came, and nobody in release_lock_and_wait() for a
\* lock that is there - whoever ended the generation or took the lock has woken them,
\* and a sleeper that is interrupted or woken for another key looks before it sleeps
\* again.  (get_lock() and Observer::sleep() do lose wake-ups.)
NobodySleepsInVain ==
  \A s \in asleep :
    /\ s \notin LetGo
    /\ pc[s] = "create_cond" => lock_map[local[s].key] = NoSession

\* wait_for_lock() and release_lock_and_wait() return when the lock they wait for is
\* there and stays: the first misses a lock created between its look and its wait, and
\* looks again after the timeout.
CreationIsSeen ==
  \A s \in Sessions : s \in WaitForCreated ~> s \notin WaitForCreated
=============================================================================
