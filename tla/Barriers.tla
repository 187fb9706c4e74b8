------------------------------ MODULE Barriers ------------------------------
(***************************************************************************)
(* The named barriers of plugin/user_locks: class Barriers maps names to    *)
(* objects of class Barrier, and the functions look an object up in one     *)
(* section and use it in another, when it may have been released.  Waiters  *)
(* sleep until the generation of the barrier moves on; observers sleep      *)
(* until enough waiters have come.                                          *)
(*                                                                         *)
(* A session that waits holds a shared_ptr, so that the destructor of a     *)
(* barrier never finds anyone to wake; it is left out.                      *)
(***************************************************************************)
EXTENDS UserSession

CONSTANTS Names,
          MaxBarriers,   \* bound on the barriers ever created
          Limits         \* the limits they are created with, 0 for none

ASSUME BarriersAssumption == MaxBarriers \in Nat /\ Limits \subseteq Nat

VARIABLES barrier_map,   \* the object of a name, or 0
          barrier,       \* the objects
          made,          \* how many have been created
          names,         \* barriers::Storable::list_of_locks of each session
          woken,         \* the sessions whose observer has been woken
          miscounted     \* barriers that counted a killed waiter out twice

barriers == <<barrier_map, barrier, made, names, woken, miscounted>>

\* untold is not in the code: the waiters that came since checkObservers() last ran
Barrier(owner, limit) ==
  [owner |-> owner, limit |-> limit, current_wait |-> limit, generation |-> 0,
   observers |-> {}, untold |-> 0]

count(b) ==
  IF b.limit # 0 THEN b.limit - b.current_wait
  ELSE IF b.current_wait < 0 THEN -b.current_wait ELSE b.current_wait

\* checkObservers(): the observers isReady() wakes and takes off the list
ReadyLate(b) == {s \in b.observers : local[s].wait_until < count(b) \/ count(b) = 0}
Ready(b) == {s \in b.observers : local[s].wait_until <= count(b) \/ count(b) = 0}
checkObservers(b) == [b EXCEPT !.observers = @ \ Ready(b), !.untold = 0]

Arrive(b) == [b EXCEPT !.current_wait = @ - 1]
Untold(b) == [b EXCEPT !.untold = @ + 1]
NextGeneration(b) == [b EXCEPT !.generation = @ + 1, !.current_wait = b.limit]

\* everybody asleep on sleep_threshhold of barrier i
NoSleeper(i) == {}
Sleepers(i) == {t \in asleep : pc[t] \in {"wait", "wait_generation"} /\ local[t].at = i}

\* wakeAll() on barrier i, as it is or after an arrival
wakeAll(i, b) ==
  LET next == NextGeneration(b)
  IN /\ barrier' = [barrier EXCEPT ![i] = checkObservers(next)]
     /\ woken' = woken \cup Ready(next)
     /\ asleep' = asleep \ (Sleepers(i) \cup Ready(next))

LimitIgnored(b) == FALSE
LimitMet(b) == b.limit # 0 /\ b.current_wait = 0

create_barrier(s, n) ==
  /\ Call(s)
  /\ \/ /\ barrier_map[n] = 0
        /\ made < MaxBarriers
        /\ made' = made + 1
        /\ barrier_map' = [barrier_map EXCEPT ![n] = made']
        /\ \E limit \in Limits : barrier' = [barrier EXCEPT ![made'] = Barrier(s, limit)]
        /\ names' = [names EXCEPT ![s] = @ \cup {n}]
     \/ barrier_map[n] # 0 /\ UNCHANGED <<barrier_map, barrier, made, names>>
  /\ UNCHANGED <<pc, local, asleep, interrupted, woken, miscounted>>

\* Barriers::release() of a barrier by its owner
Release(s, n) ==
  /\ wakeAll(barrier_map[n], barrier[barrier_map[n]])
  /\ barrier_map' = [barrier_map EXCEPT ![n] = 0]
  /\ names' = [names EXCEPT ![s] = @ \ {n}]

Owns(s, n) == barrier_map[n] # 0 /\ barrier[barrier_map[n]].owner = s

\* one round of barriers::Storable::erase_all(), which does not look at what
\* Barriers::release() returns
EraseBarrier(s, n) ==
  IF Owns(s, n) THEN Release(s, n)
  ELSE /\ names' = [names EXCEPT ![s] = @ \ {n}]
       /\ UNCHANGED <<barrier_map, barrier, woken, asleep>>

release_barrier(s, n) ==
  /\ Call(s)
  /\ \/ Owns(s, n) /\ Release(s, n)
     \/ ~Owns(s, n) /\ UNCHANGED <<barrier_map, barrier, names, woken, asleep>>
  /\ UNCHANGED <<pc, local, interrupted, made, miscounted>>

\* wait(), wait_until() and signal() begin with Barriers::find(); the owner may only
\* signal
NotOwner(s, n, place) == place = "signal" \/ ~Owns(s, n)
Found(s, n, place) == barrier_map[n] # 0 /\ NotOwner(s, n, place)

find(s, n, place, args) ==
  /\ Call(s)
  /\ IF Found(s, n, place)
     THEN Enter(s, place, args)
     ELSE UNCHANGED <<pc, local>>
  /\ UNCHANGED <<asleep, interrupted, barriers>>

find_to_wait(s, n) == find(s, n, "arrive", [at |-> barrier_map[n]])
find_to_signal(s, n) == find(s, n, "signal", [at |-> barrier_map[n]])
find_generation(s, n, g) ==
  find(s, n, "arrive_generation", [at |-> barrier_map[n], my_generation |-> g])
find_to_observe(s, n, u) == find(s, n, "observe", [at |-> barrier_map[n], wait_until |-> u])

\* Barrier::signal()
signal(s) ==
  /\ pc[s] = "signal"
  /\ wakeAll(local[s].at, barrier[local[s].at])
  /\ Return(s)
  /\ UNCHANGED <<interrupted, left, barrier_map, made, names, miscounted>>

\* Barrier::wait(): the last of a limited number wakes the others, anybody else sleeps.
\* A pending interruption is thrown before the mutex is given up.
wait(s) ==
  LET i == local[s].at
      come == Arrive(barrier[i])
      seen == checkObservers(come)
      back == [seen EXCEPT !.current_wait = @ + 1]
  IN /\ pc[s] = "arrive"
     /\ \/ /\ LimitMet(come)
           /\ wakeAll(i, come)
           /\ Return(s)
           /\ UNCHANGED interrupted
        \/ /\ ~LimitMet(come) /\ s \notin interrupted
           /\ barrier' = [barrier EXCEPT ![i] = seen]
           /\ woken' = woken \cup Ready(come)
           /\ asleep' = (asleep \ Ready(come)) \cup {s}
           /\ Enter(s, "wait", [at |-> i, my_generation |-> barrier[i].generation])
           /\ UNCHANGED interrupted
        \/ /\ ~LimitMet(come) /\ Thrown(s)
           /\ barrier' = [barrier EXCEPT ![i] = checkObservers(back)]
           /\ woken' = woken \cup Ready(come) \cup Ready(back)
           /\ asleep' = asleep \ (Ready(come) \cup Ready(back))
           /\ Return(s)
     /\ UNCHANGED <<left, barrier_map, made, names, miscounted>>

\* ... and returns when it finds another generation.
wait_woken(s) ==
  /\ Awake(s, "wait") /\ s \notin interrupted
  /\ IF local[s].my_generation # barrier[local[s].at].generation
     THEN Return(s) /\ UNCHANGED asleep
     ELSE asleep' = asleep \cup {s} /\ UNCHANGED <<pc, local>>
  /\ UNCHANGED <<interrupted, left, barriers>>

\* The handler of the exception counts the waiter out, also when wakeAll() has set
\* current_wait back since.
wait_interrupted(s) ==
  LET i == local[s].at
      gone == [barrier[i] EXCEPT !.current_wait = @ + 1]
  IN /\ Awake(s, "wait") /\ Thrown(s)
     /\ barrier' = [barrier EXCEPT ![i] = checkObservers(gone)]
     /\ woken' = woken \cup Ready(gone)
     /\ asleep' = asleep \ Ready(gone)
     /\ miscounted' = IF local[s].my_generation = barrier[i].generation THEN miscounted
                      ELSE miscounted \cup {i}
     /\ Return(s)
     /\ UNCHANGED <<left, barrier_map, made, names>>

\* Barrier::wait(generation), which looks at no observers and cannot be interrupted
wait_generation(s) ==
  LET i == local[s].at
      come == Arrive(barrier[i])
  IN /\ pc[s] = "arrive_generation"
     /\ \/ /\ barrier[i].generation > local[s].my_generation
           /\ Return(s)
           /\ UNCHANGED <<barrier, woken, asleep>>
        \/ /\ barrier[i].generation <= local[s].my_generation /\ LimitMet(come)
           /\ wakeAll(i, come)
           /\ Return(s)
        \/ /\ barrier[i].generation <= local[s].my_generation /\ ~LimitMet(come)
           /\ barrier' = [barrier EXCEPT ![i] = Untold(come)]
           /\ asleep' = asleep \cup {s}
           /\ Enter(s, "wait_generation", [at |-> i, my_generation |-> barrier[i].generation])
           /\ UNCHANGED woken
     /\ UNCHANGED <<interrupted, left, barrier_map, made, names, miscounted>>

wait_generation_woken(s) ==
  /\ Awake(s, "wait_generation")
  /\ IF local[s].my_generation # barrier[local[s].at].generation
     THEN Return(s) /\ UNCHANGED asleep
     ELSE asleep' = asleep \cup {s} /\ UNCHANGED <<pc, local>>
  /\ UNCHANGED <<interrupted, left, barriers>>

\* Barrier::wait_until(): a new observer, unless the waiters are there already
observe(s) ==
  LET i == local[s].at
  IN /\ pc[s] = "observe"
     /\ IF local[s].wait_until <= count(barrier[i])
        THEN Return(s) /\ UNCHANGED barrier
        ELSE /\ barrier' = [barrier EXCEPT ![i].observers = @ \cup {s}]
             /\ Goto(s, "observer")
     /\ UNCHANGED <<asleep, interrupted, left, barrier_map, made, names, woken, miscounted>>

\* Observer::sleep() tests woken ...
observer(s) ==
  /\ \/ pc[s] = "observer"
     \/ Awake(s, "observer_cond") /\ s \notin interrupted
  /\ IF s \in woken THEN Return(s) ELSE Goto(s, "observing")
  /\ woken' = woken \ {s}
  /\ UNCHANGED <<asleep, interrupted, left, barrier_map, barrier, made, names, miscounted>>

\* ... and then waits: Observer::wake() takes no mutex and may come between the two
observer_sleep(s) ==
  /\ pc[s] = "observing"
  /\ asleep' = IF s \in interrupted THEN asleep ELSE asleep \cup {s}
  /\ Goto(s, "observer_cond")
  /\ UNCHANGED <<interrupted, left, barriers>>

observer_interrupted(s) ==
  /\ Awake(s, "observer_cond") /\ Thrown(s)
  /\ barrier' = [barrier EXCEPT ![local[s].at].observers = @ \ {s}]
  /\ woken' = woken \ {s}
  /\ Return(s)
  /\ UNCHANGED <<asleep, left, barrier_map, made, names, miscounted>>
=============================================================================
