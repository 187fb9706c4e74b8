------------------------- MODULE UserFunctionsProofs -------------------------
(***************************************************************************)
(* Proofs about UserFunctions, for any sessions, keys, names and workloads. *)
(***************************************************************************)
EXTENDS UserFunctions, TLAPS

\* the places where a session has a lock in mind, and where it has found a barrier
KeyPlaces == {"erase_lock", "lock", "release_cond", "create_cond"}
WaitPlaces == {"wait", "wait_generation"}
BarrierPlaces == {"signal", "arrive", "arrive_generation", "observe", "observer", "observing",
                  "observer_cond"} \cup WaitPlaces

\* The locks: each is in the list of the session that has it.  A session between its
\* last erase_all() and the lock it waits for has none, and one in release_lock_and_wait()
\* not the one it has released.
LockInv ==
  /\ pc \in [Sessions -> Places] /\ DOMAIN local = Sessions
  /\ lock_map \in [Keys -> Sessions \cup {NoSession}]
  /\ list \in [Sessions -> SUBSET Keys]
  /\ \A s \in Sessions : pc[s] \in KeyPlaces => local[s].key \in Keys
  /\ \A k \in Keys, s \in Sessions : lock_map[k] = s => k \in list[s]
  /\ \A s \in Sessions : pc[s] = "gone" => list[s] = {}
  /\ \A s \in Sessions : pc[s] = "create_cond" => lock_map[local[s].key] # s
  /\ WaiterHoldsNothing

BarrierType ==
  [owner : Sessions \cup {NoSession}, limit : Nat, current_wait : Int,
   generation : Nat, observers : SUBSET Sessions, untold : Nat]

\* The barriers: each name is in the list of its owner.
NameInv ==
  /\ made \in 0..MaxBarriers
  /\ barrier_map \in [Names -> 0..made]
  /\ barrier \in [1..MaxBarriers -> BarrierType]
  /\ names \in [Sessions -> SUBSET Names]
  /\ \A s \in Sessions, n \in Names : Owns(s, n) <=> n \in names[s]
  /\ \A n \in Names : barrier_map[n] # 0 => barrier[barrier_map[n]].owner \in Sessions
  /\ \A s \in Sessions : pc[s] = "gone" => names[s] = {}

\* The waiters: no waiter is of a generation to come, and the barrier has counted down
\* from its limit once for each waiter of its generation, but not to zero.
Counted(i) ==
  /\ barrier[i].limit - barrier[i].current_wait = Cardinality(Waiters(i))
  /\ barrier[i].limit # 0 => barrier[i].current_wait > 0

WaitInv ==
  /\ \A s \in Sessions : pc[s] \in BarrierPlaces => local[s].at \in 1..made
  /\ \A s \in Sessions : pc[s] \in WaitPlaces =>
       local[s].my_generation \in Nat /\ local[s].my_generation <= barrier[local[s].at].generation
  /\ \A i \in 1..made \ miscounted : Counted(i)

\* What counting sessions takes: a fact about finite sets, which the theorems of
\* FiniteSetTheorems establish at the end (SessionsCounted).
Counting ==
  /\ Cardinality({}) = 0
  /\ \A T \in SUBSET Sessions :
       /\ Cardinality(T) \in Nat
       /\ \A s \in Sessions \ T : Cardinality(T \cup {s}) = Cardinality(T) + 1

UInv == Counting /\ LockInv /\ NameInv /\ WaitInv

-----------------------------------------------------------------------------
\* The invariant contains the three properties.
LEMMA UInvImplies == UInv => NothingDangles /\ WaiterHoldsNothing /\ CountIsRight
<1> SUFFICES ASSUME UInv
             PROVE  NothingDangles /\ WaiterHoldsNothing /\ CountIsRight
  OBVIOUS
<1>1. NothingDangles
  <2>1. ASSUME NEW k \in Keys, lock_map[k] # NoSession
        PROVE  k \in list[lock_map[k]] /\ pc[lock_map[k]] # "gone"
    BY <2>1, Zenon DEF UInv, LockInv
  <2>2. ASSUME NEW n \in Names, barrier_map[n] # 0
        PROVE  LET owner == barrier[barrier_map[n]].owner
               IN  n \in names[owner] /\ pc[owner] # "gone"
    BY <2>2 DEF UInv, NameInv, Owns
  <2>3. ASSUME NEW s \in Sessions, NEW n \in names[s]
        PROVE  Owns(s, n)
    BY Zenon DEF UInv, NameInv
  <2> QED
    BY <2>1, <2>2, <2>3, Zenon DEF NothingDangles
<1>2. CountIsRight
  <2> SUFFICES ASSUME NEW i \in 1..made \ miscounted
               PROVE  /\ count(barrier[i]) = Cardinality(Waiters(i))
                      /\ barrier[i].limit # 0 => Cardinality(Waiters(i)) < barrier[i].limit
    BY Zenon DEF CountIsRight
  <2>1. barrier[i] \in BarrierType /\ Counted(i)
    BY BarriersAssumption DEF UInv, NameInv, WaitInv
  <2>2. Cardinality(Waiters(i)) \in Nat
    <3>1. Waiters(i) \subseteq Sessions
      BY Zenon DEF Waiters
    <3> QED
      BY <3>1, Zenon DEF UInv, Counting
  <2> QED
    BY <2>1, <2>2 DEF Counted, count, BarrierType
<1> QED
  BY <1>1, <1>2 DEF UInv, LockInv

-----------------------------------------------------------------------------
(* What a step leaves alone: the other sessions, and most of the state of    *)
(* the one that takes it.                                                    *)
Moves(s) ==
  /\ pc' \in [Sessions -> Places] /\ DOMAIN local' = Sessions
  /\ \A t \in Sessions \ {s} : pc'[t] = pc[t] /\ local'[t] = local[t]

Stays(s) == pc'[s] = pc[s] /\ local'[s] = local[s]

\* Entering a function moves nobody else.
LEMMA EnterMoves ==
  ASSUME UInv, NEW s \in Sessions, NEW place \in Places, NEW l, Enter(s, place, l)
  PROVE  Moves(s) /\ pc'[s] = place /\ local'[s] = l
BY Zenon DEF UInv, LockInv, Enter, Moves

\* Going on in a function moves nobody else.
LEMMA GotoMoves ==
  ASSUME UInv, NEW s \in Sessions, NEW place \in Places, Goto(s, place)
  PROVE  Moves(s) /\ pc'[s] = place /\ local'[s] = local[s]
BY DEF UInv, LockInv, Goto, Moves

\* Returning moves nobody else.
LEMMA ReturnMoves ==
  ASSUME UInv, NEW s \in Sessions, Return(s)
  PROVE  Moves(s) /\ pc'[s] = "idle"
BY EnterMoves, Zenon DEF Return, Places

\* A step in which nobody goes anywhere.
LEMMA StaysMoves ==
  ASSUME UInv, NEW s \in Sessions, UNCHANGED <<pc, local>>
  PROVE  Moves(s) /\ Stays(s)
BY Zenon DEF UInv, LockInv, Moves, Stays

\* A step that touches no lock keeps LockInv.
LEMMA LockFrame ==
  ASSUME UInv, NEW s \in Sessions, Moves(s), UNCHANGED locks,
         Stays(s) \/ pc'[s] \notin KeyPlaces \cup {"gone"}
  PROVE  LockInv'
<1>1. /\ lock_map' = lock_map /\ list' = list
  BY Zenon DEF locks
<1>2. \A t \in Sessions : pc'[t] \in KeyPlaces \cup {"gone"} => pc'[t] = pc[t] /\ local'[t] = local[t]
  BY Zenon DEF Moves, Stays
<1>3. \A t \in Sessions : pc'[t] \in {"lock", "release_cond"} => pc'[t] = pc[t]
  BY <1>2, Zenon DEF KeyPlaces
<1>4. WaiterHoldsNothing'
  BY <1>1, <1>3, Zenon DEF UInv, LockInv, WaiterHoldsNothing
<1>5. \A t \in Sessions : pc'[t] = "create_cond" => lock_map'[local'[t].key] # t
  BY <1>1, <1>2 DEF UInv, LockInv, KeyPlaces
<1> QED
  BY <1>1, <1>2, <1>4, <1>5 DEF UInv, LockInv, Moves

\* A step that gives no barrier another name or owner keeps NameInv.
LEMMA NameFrame ==
  ASSUME UInv, NEW s \in Sessions, Moves(s), UNCHANGED <<made, barrier_map, names>>,
         barrier' \in [1..MaxBarriers -> BarrierType],
         \A i \in 1..MaxBarriers : barrier'[i].owner = barrier[i].owner,
         Stays(s) \/ pc'[s] # "gone"
  PROVE  NameInv'
<1>1. \A n \in Names : barrier_map[n] # 0 => barrier_map[n] \in 1..MaxBarriers
  BY BarriersAssumption DEF UInv, NameInv
<1>2. \A t \in Sessions, n \in Names : Owns(t, n)' <=> Owns(t, n)
  BY <1>1, Zenon DEF Owns
<1>3. \A t \in Sessions : pc'[t] = "gone" => pc[t] = "gone"
  BY Zenon DEF Moves, Stays
<1> QED
  BY <1>1, <1>2, <1>3, Zenon DEF UInv, NameInv

\* A step that neither lets anyone into a generation or out of it nor moves one on
\* keeps WaitInv.
LEMMA WaitFrame ==
  ASSUME UInv, NEW s \in Sessions, Moves(s), UNCHANGED <<made, miscounted>>,
         \A i \in 1..MaxBarriers :
           /\ barrier'[i].limit = barrier[i].limit
           /\ barrier'[i].current_wait = barrier[i].current_wait
           /\ barrier'[i].generation = barrier[i].generation,
         \/ Stays(s)
         \/ /\ pc'[s] \notin WaitPlaces
            /\ pc'[s] \in BarrierPlaces => local'[s].at \in 1..made
            /\ \A i \in 1..made : s \notin Waiters(i)
  PROVE  WaitInv'
<1>1. 1..made \subseteq 1..MaxBarriers
  BY BarriersAssumption DEF UInv, NameInv
<1>2. ASSUME NEW i \in 1..made PROVE Waiters(i)' = Waiters(i)
  BY <1>1, <1>2 DEF Waiters, Moves, Stays, WaitPlaces
<1>3. \A t \in Sessions : pc'[t] \in BarrierPlaces => local'[t].at \in 1..made
  BY DEF UInv, WaitInv, Moves, Stays
<1>4. \A t \in Sessions : pc'[t] \in WaitPlaces => Stays(t)
  BY DEF Moves, Stays
<1>5. \A t \in Sessions : pc'[t] \in WaitPlaces =>
        /\ local'[t].my_generation \in Nat
        /\ local'[t].my_generation <= barrier'[local'[t].at].generation
  <2> SUFFICES ASSUME NEW t \in Sessions, pc'[t] \in WaitPlaces
               PROVE  /\ local'[t].my_generation \in Nat
                      /\ local'[t].my_generation <= barrier'[local'[t].at].generation
    BY Zenon
  <2>1. pc[t] \in WaitPlaces /\ local'[t] = local[t] /\ local[t].at \in 1..MaxBarriers
    BY <1>1, <1>3, <1>4, Zenon DEF Stays, BarrierPlaces
  <2> QED
    BY <2>1 DEF UInv, WaitInv
<1>6. \A i \in 1..made \ miscounted : Counted(i)'
  BY <1>1, <1>2, Zenon DEF UInv, WaitInv, Counted
<1> QED
  BY <1>3, <1>5, <1>6 DEF WaitInv

-----------------------------------------------------------------------------
(* The four ways a barrier's generation changes.                             *)

\* A waiter more or less counts for one.
LEMMA WaitersCounted ==
  ASSUME UInv, NEW i, NEW s \in Sessions
  PROVE  /\ Cardinality(Waiters(i)) \in Nat
         /\ s \notin Waiters(i) =>
              Cardinality(Waiters(i) \cup {s}) = Cardinality(Waiters(i)) + 1
         /\ s \in Waiters(i) =>
              Cardinality(Waiters(i) \ {s}) = Cardinality(Waiters(i)) - 1
<1>1. PICK W : W = Waiters(i) /\ W \in SUBSET Sessions
  BY Zenon DEF Waiters
<1>2. PICK rest : rest = W \ {s}
  BY Zenon
<1>3. Cardinality(W) \in Nat /\ Cardinality(rest) \in Nat
  BY <1>1, <1>2, Zenon DEF UInv, Counting
<1>4. s \notin W => Cardinality(W \cup {s}) = Cardinality(W) + 1
  BY <1>1, Zenon DEF UInv, Counting
<1>5. ASSUME s \in W PROVE Cardinality(rest) = Cardinality(W) - 1
  <2>1. W = rest \cup {s} /\ rest \in SUBSET Sessions /\ s \in Sessions \ rest
    BY <1>1, <1>2, <1>5, Zenon
  <2>2. Cardinality(rest \cup {s}) = Cardinality(rest) + 1
    BY <2>1, Zenon DEF UInv, Counting
  <2> QED
    BY <1>3, <2>1, <2>2
<1> QED
  BY <1>1, <1>2, <1>3, <1>4, <1>5

\* b is what barrier i becomes, the others stay as they are
Becomes(i, b) ==
  /\ i \in 1..made
  /\ b \in BarrierType /\ b.owner = barrier[i].owner /\ b.limit = barrier[i].limit
  /\ barrier' = [barrier EXCEPT ![i] = b]
  /\ UNCHANGED made

\* A barrier that changes leaves the others as they are.
LEMMA BecomesFrame ==
  ASSUME UInv, NEW i, NEW b, Becomes(i, b)
  PROVE  /\ 1..made \subseteq 1..MaxBarriers
         /\ barrier' \in [1..MaxBarriers -> BarrierType]
         /\ barrier'[i] = b
         /\ \A j \in 1..MaxBarriers : j # i => barrier'[j] = barrier[j]
         /\ \A j \in 1..MaxBarriers : barrier'[j].owner = barrier[j].owner
BY BarriersAssumption DEF UInv, NameInv, Becomes

\* What the other barriers and the other sessions have to do with it.
LEMMA OtherBarriers ==
  ASSUME UInv, NEW s \in Sessions, NEW i, NEW b, Becomes(i, b), Moves(s),
         b.generation >= barrier[i].generation,
         pc[s] \in WaitPlaces => local[s].at = i,
         pc'[s] \in BarrierPlaces => local'[s].at = i,
         pc'[s] \in WaitPlaces =>
           local'[s].my_generation \in Nat /\ local'[s].my_generation <= b.generation,
         i \notin miscounted' => Counted(i)',
         \A j \in 1..made : j # i => (j \in miscounted' <=> j \in miscounted)
  PROVE  WaitInv'
<1>1. /\ 1..made \subseteq 1..MaxBarriers /\ barrier'[i] = b
      /\ \A j \in 1..MaxBarriers : j # i => barrier'[j] = barrier[j]
  BY BecomesFrame
<1>2. i \in 1..made /\ made' = made /\ b \in BarrierType
  BY Zenon DEF Becomes
<1>3. \A t \in Sessions : pc'[t] \in BarrierPlaces => local'[t].at \in 1..made
  BY <1>2 DEF UInv, WaitInv, Moves
<1>4. ASSUME NEW t \in Sessions, pc'[t] \in WaitPlaces
      PROVE  /\ local'[t].my_generation \in Nat
             /\ local'[t].my_generation <= barrier'[local'[t].at].generation
  <2>1. CASE t = s
    BY <1>1, <1>4, <2>1, Zenon DEF BarrierPlaces
  <2>2. CASE t # s
    <3>1. /\ pc[t] \in WaitPlaces /\ local'[t] = local[t] /\ local[t].at \in 1..made
          /\ local[t].my_generation \in Nat
          /\ local[t].my_generation <= barrier[local[t].at].generation
      BY <1>4, <2>2, Zenon DEF UInv, WaitInv, Moves, BarrierPlaces
    <3>2. CASE local[t].at # i
      BY <1>1, <3>1, <3>2, Zenon
    <3>3. CASE local[t].at = i
      <4>1. barrier[i].generation \in Nat /\ b.generation \in Nat
        BY <1>1, <1>2, Zenon DEF UInv, NameInv, BarrierType
      <4> QED
        BY <1>1, <3>1, <3>3, <4>1
    <3> QED
      BY <3>2, <3>3
  <2> QED
    BY <2>1, <2>2, Zenon
<1>5. ASSUME NEW j \in 1..made \ miscounted', j # i
      PROVE  Counted(j)'
  <2>1. Waiters(j)' = Waiters(j)
    BY <1>1, <1>5 DEF Waiters, Moves, WaitPlaces, BarrierPlaces
  <2> QED
    BY <1>1, <1>5, <2>1, Zenon DEF UInv, WaitInv, Counted
<1> QED
  BY <1>2, <1>3, <1>4, <1>5, Zenon DEF WaitInv

\* wakeAll(): nobody is of the generation that begins.
LEMMA WakeStep ==
  ASSUME UInv, NEW s \in Sessions, NEW i, NEW b, Becomes(i, b), Moves(s),
         UNCHANGED miscounted,
         b.generation = barrier[i].generation + 1, b.current_wait = b.limit,
         pc[s] \notin WaitPlaces, pc'[s] \notin BarrierPlaces
  PROVE  WaitInv'
<1>1. /\ 1..made \subseteq 1..MaxBarriers /\ barrier'[i] = b /\ i \in 1..made
      /\ barrier[i].generation \in Nat /\ b \in BarrierType
  BY BecomesFrame, Zenon DEF UInv, NameInv, BarrierType, Becomes
<1>2. Waiters(i)' = {}
  <2> SUFFICES ASSUME NEW t \in Sessions, pc'[t] \in WaitPlaces, local'[t].at = i
               PROVE  local'[t].my_generation # b.generation
    BY <1>1 DEF Waiters, WaitPlaces
  <2>1. pc[t] \in WaitPlaces /\ local'[t] = local[t]
    BY Zenon DEF Moves, BarrierPlaces
  <2> QED
    BY <1>1, <2>1 DEF UInv, WaitInv
<1>3. Counted(i)'
  BY <1>1, <1>2 DEF Counted, BarrierType, UInv, Counting
<1> QED
  BY <1>1, <1>3, OtherBarriers DEF BarrierPlaces

\* A waiter comes and sleeps, as it is not the last one.
LEMMA ArriveStep ==
  ASSUME UInv, NEW s \in Sessions, NEW i, NEW b, Becomes(i, b), Moves(s),
         UNCHANGED miscounted,
         b.generation = barrier[i].generation, b.current_wait = barrier[i].current_wait - 1,
         ~(b.limit # 0 /\ b.current_wait = 0),
         pc[s] \notin WaitPlaces, pc'[s] \in WaitPlaces, local'[s].at = i,
         local'[s].my_generation = b.generation
  PROVE  WaitInv'
<1>1. /\ 1..made \subseteq 1..MaxBarriers /\ barrier'[i] = b /\ i \in 1..made
      /\ barrier[i] \in BarrierType /\ b \in BarrierType /\ b.limit = barrier[i].limit
  BY BecomesFrame, Zenon DEF UInv, NameInv, Becomes
<1>2. Waiters(i)' = Waiters(i) \cup {s} /\ s \notin Waiters(i)
  BY <1>1 DEF Waiters, Moves, WaitPlaces
<1>3. Cardinality(Waiters(i)') = Cardinality(Waiters(i)) + 1
  BY <1>2, WaitersCounted, Zenon
<1>4. i \notin miscounted => Counted(i)'
  BY <1>1, <1>3, WaitersCounted DEF UInv, WaitInv, Counted, BarrierType
<1>5. b.generation \in Nat
  BY <1>1, Zenon DEF BarrierType
<1> QED
  BY <1>1, <1>4, <1>5, OtherBarriers

\* A waiter is killed and counted out, once or twice.
LEMMA LeaveStep ==
  ASSUME UInv, NEW s \in Sessions, NEW i, NEW b, Becomes(i, b), Moves(s),
         b.generation = barrier[i].generation, b.current_wait = barrier[i].current_wait + 1,
         pc[s] \in WaitPlaces, local[s].at = i, pc'[s] \notin BarrierPlaces,
         miscounted' = IF local[s].my_generation = barrier[i].generation THEN miscounted
                       ELSE miscounted \cup {i}
  PROVE  WaitInv'
<1>1. /\ 1..made \subseteq 1..MaxBarriers /\ barrier'[i] = b /\ i \in 1..made
      /\ barrier[i] \in BarrierType /\ b \in BarrierType /\ b.limit = barrier[i].limit
  BY BecomesFrame, Zenon DEF UInv, NameInv, Becomes
<1>2. ASSUME i \notin miscounted' PROVE Counted(i)'
  <2>1. local[s].my_generation = barrier[i].generation /\ i \notin miscounted
    BY <1>2, Zenon
  <2>2. Waiters(i)' = Waiters(i) \ {s} /\ s \in Waiters(i)
    BY <1>1, <2>1 DEF Waiters, Moves, WaitPlaces, BarrierPlaces
  <2>3. Cardinality(Waiters(i)') = Cardinality(Waiters(i)) - 1
    BY <2>2, WaitersCounted
  <2> QED
    BY <1>1, <2>1, <2>3, WaitersCounted DEF UInv, WaitInv, Counted, BarrierType
<1>3. b.generation \in Nat
  BY <1>1, Zenon DEF BarrierType
<1> QED
  BY <1>1, <1>2, <1>3, OtherBarriers DEF BarrierPlaces

-----------------------------------------------------------------------------
(* The functions over locks.                                                 *)

\* A step that touches no barrier.
LEMMA BarriersFrame ==
  ASSUME UInv, NEW s \in Sessions, Moves(s), UNCHANGED barriers,
         Stays(s) \/ (pc[s] \notin WaitPlaces /\ pc'[s] \notin BarrierPlaces \cup {"gone"})
  PROVE  NameInv' /\ WaitInv'
<1>1. UNCHANGED <<made, barrier_map, names, barrier, miscounted>>
  BY Zenon DEF barriers
<1>2. NameInv'
  BY <1>1, NameFrame, Zenon DEF UInv, NameInv
<1>3. Stays(s) \/ (pc'[s] \notin BarrierPlaces /\ \A i \in 1..made : s \notin Waiters(i))
  BY Zenon DEF Waiters, WaitPlaces
<1> QED
  BY <1>1, <1>2, <1>3, WaitFrame, Zenon DEF BarrierPlaces

\* A session takes locks for itself, or gives up its own.
LEMMA LocksStep ==
  ASSUME UInv, NEW s \in Sessions, Moves(s),
         lock_map' \in [Keys -> Sessions \cup {NoSession}], list' \in [Sessions -> SUBSET Keys],
         \A k \in Keys : lock_map'[k] \in {lock_map[k], NoSession, s},
         \A t \in Sessions \ {s} : list'[t] = list[t],
         \A k \in Keys : lock_map'[k] = s => k \in list'[s],
         pc'[s] \in KeyPlaces => local'[s].key \in Keys,
         pc'[s] = "gone" => list'[s] = {},
         pc'[s] = "create_cond" => lock_map'[local'[s].key] # s,
         pc'[s] \in {"lock", "release_cond"} => \A k \in Keys : lock_map'[k] # s
  PROVE  LockInv'
<1>1. \A k \in Keys, t \in Sessions : t # s /\ lock_map'[k] = t => lock_map[k] = t
  BY SessionsAssumption
<1>2. WaiterHoldsNothing'
  BY <1>1 DEF UInv, LockInv, WaiterHoldsNothing, Moves
<1>3. \A t \in Sessions : pc'[t] = "create_cond" => lock_map'[local'[t].key] # t
  BY <1>1 DEF UInv, LockInv, Moves, KeyPlaces
<1> QED
  BY <1>1, <1>2, <1>3 DEF UInv, LockInv, Moves

\* Giving up one lock leaves the other sessions' locks.
LEMMA EraseOneStep ==
  ASSUME UInv, NEW s \in Sessions, EraseOne(s)
  PROVE  /\ lock_map' \in [Keys -> Sessions \cup {NoSession}]
         /\ list' \in [Sessions -> SUBSET Keys]
         /\ \A k \in Keys : lock_map'[k] \in {lock_map[k], NoSession, s}
         /\ \A t \in Sessions \ {s} : list'[t] = list[t]
         /\ \A k \in Keys : lock_map'[k] = s => k \in list'[s]
BY SessionsAssumption DEF EraseOne, Erase, UInv, LockInv

\* get_lock() begins.
LEMMA GetLockStep ==
  ASSUME UInv, NEW s \in Sessions, NEW k \in Keys, get_lock(s, k), UNCHANGED barriers
  PROVE  UInv'
<1>1. PICK timed \in BOOLEAN : Enter(s, EraseBefore(s), [key |-> k, timed |-> timed])
  BY DEF get_lock
<1>2. EraseBefore(s) \in {"lock", "erase_lock"} /\ EraseBefore(s) \in Places
  BY Zenon DEF EraseBefore, Places
<1>3. Moves(s) /\ pc'[s] = EraseBefore(s) /\ local'[s] = [key |-> k, timed |-> timed]
  BY <1>1, <1>2, EnterMoves, Zenon
<1>4. pc[s] = "idle" /\ UNCHANGED <<lock_map, list>>
  BY Zenon DEF get_lock, Call
<1>5. pc'[s] = "lock" => list[s] = {}
  BY <1>3 DEF EraseBefore
<1>6. /\ lock_map' \in [Keys -> Sessions \cup {NoSession}] /\ list' \in [Sessions -> SUBSET Keys]
      /\ \A j \in Keys : lock_map'[j] \in {lock_map[j], NoSession, s}
      /\ \A t \in Sessions \ {s} : list'[t] = list[t]
      /\ \A j \in Keys : lock_map'[j] = s => j \in list'[s]
  BY <1>4, Zenon DEF UInv, LockInv
<1>8. /\ local'[s].key \in Keys /\ pc'[s] # "gone" /\ pc'[s] # "create_cond"
      /\ pc'[s] \in {"lock", "release_cond"} => \A j \in Keys : lock_map'[j] # s
  <2>1. pc'[s] \in {"lock", "release_cond"} => list'[s] = {}
    BY <1>2, <1>3, <1>4, <1>5, Zenon
  <2> QED
    BY <1>2, <1>3, <1>6, <2>1
<1>9. LockInv'
  BY <1>3, <1>6, <1>8, LocksStep, Zenon
<1>7. NameInv' /\ WaitInv'
  BY <1>2, <1>3, <1>4, BarriersFrame, Zenon DEF WaitPlaces, BarrierPlaces
<1> QED
  BY <1>7, <1>9, Zenon DEF UInv

\* get_lock() gives up the next of the session's locks.
LEMMA EraseAllStep ==
  ASSUME UInv, NEW s \in Sessions, erase_all(s), UNCHANGED barriers
  PROVE  UInv'
<1>1. pc[s] \in {"erase_lock", "erase_end"} /\ EraseOne(s)
  BY Zenon DEF erase_all
<1>2. PICK place \in {"erase_lock", "erase_end", "lock", "idle"} :
        /\ Goto(s, place)
        /\ place = "lock" => list'[s] = {}
        /\ place \in {"lock", "erase_lock"} => pc[s] = "erase_lock"
  BY <1>1, Zenon DEF erase_all
<1>3. Moves(s) /\ pc'[s] = place /\ local'[s] = local[s]
  BY <1>2, GotoMoves, Zenon DEF Places
<1>4. pc'[s] \in KeyPlaces => local'[s].key \in Keys
  BY <1>1, <1>2, <1>3 DEF UInv, LockInv, KeyPlaces
<1>5. LockInv'
  BY <1>1, <1>2, <1>3, <1>4, EraseOneStep, LocksStep, Zenon
<1>6. NameInv' /\ WaitInv'
  BY <1>1, <1>3, BarriersFrame, Zenon DEF WaitPlaces, BarrierPlaces
<1> QED
  BY <1>5, <1>6, Zenon DEF UInv

\* get_lock() takes the lock, or waits for it.
LEMMA LockLoopStep ==
  ASSUME UInv, NEW s \in Sessions, lock(s), UNCHANGED barriers
  PROVE  UInv'
<1> DEFINE k == local[s].key
<1>1. pc[s] \in {"lock", "release_cond"} /\ k \in Keys /\ lock_map[k] # s
  BY Zenon DEF lock, Awake, UInv, LockInv, KeyPlaces, WaiterHoldsNothing
<1>2. CASE /\ lock_map' = [lock_map EXCEPT ![k] = s]
           /\ list' = [list EXCEPT ![s] = @ \cup {k}]
           /\ Return(s)
  <2>1. Moves(s) /\ pc'[s] = "idle"
    BY <1>2, ReturnMoves, Zenon
  <2>2. LockInv'
    <3>1. lock_map' \in [Keys -> Sessions \cup {NoSession}] /\ list' \in [Sessions -> SUBSET Keys]
      BY <1>1, <1>2 DEF UInv, LockInv
    <3>2. \A j \in Keys : lock_map'[j] \in {lock_map[j], NoSession, s}
      BY <1>1, <1>2, Zenon DEF UInv, LockInv
    <3>3. \A j \in Keys : lock_map'[j] = s => j \in list'[s]
      BY <1>1, <1>2, Zenon DEF UInv, LockInv
    <3>4. \A t \in Sessions \ {s} : list'[t] = list[t]
      BY <1>2, Zenon DEF UInv, LockInv
    <3> QED
      BY <2>1, <3>1, <3>2, <3>3, <3>4, LocksStep, Zenon DEF KeyPlaces
  <2>3. NameInv' /\ WaitInv'
    BY <1>1, <2>1, BarriersFrame DEF WaitPlaces, BarrierPlaces
  <2> QED
    BY <2>2, <2>3, Zenon DEF UInv
<1>3. CASE Goto(s, "release_cond") /\ UNCHANGED <<lock_map, list>>
  <2>1. Moves(s) /\ pc'[s] = "release_cond" /\ local'[s] = local[s]
    BY <1>3, GotoMoves, Zenon DEF Places, Interruptible
  <2>2. LockInv'
    BY <1>1, <1>3, <2>1, LocksStep, Zenon DEF UInv, LockInv, WaiterHoldsNothing
  <2>3. NameInv' /\ WaitInv'
    BY <1>1, <2>1, BarriersFrame DEF WaitPlaces, BarrierPlaces
  <2> QED
    BY <2>2, <2>3, Zenon DEF UInv
<1> QED
  BY <1>2, <1>3, Zenon DEF lock

\* The steps of these functions that change neither locks nor barriers.
LEMMA NoLockStep ==
  ASSUME UInv, NEW s \in Sessions, UNCHANGED <<locks, barriers>>,
         \/ release_locks(s) \/ (\E k \in Keys : wait_for_lock(s, k)) \/ lock_timeout(s)
         \/ interrupted_wait(s) \/ isUsed(s) \/ waitCreate(s) \/ waited(s) \/ disconnect(s)
  PROVE  UInv'
<1>1. PICK place \in {"idle", "erase_end", "is_used", "wait_create", "create_timed", "leaving"} :
        Goto(s, place) \/ (\E l : Enter(s, place, l))
  BY Zenon DEF release_locks, wait_for_lock, lock_timeout, interrupted_wait, isUsed, waitCreate, waited,
         disconnect, Return
<1>2. pc[s] \notin WaitPlaces
  BY Zenon DEF release_locks, wait_for_lock, lock_timeout, interrupted_wait, isUsed, waitCreate, waited,
         disconnect, Call, WaitPlaces
<1>3. Moves(s) /\ pc'[s] = place
  BY <1>1, GotoMoves, EnterMoves, Zenon DEF Places, Interruptible
<1>4. LockInv'
  BY <1>3, LockFrame DEF KeyPlaces
<1>5. NameInv' /\ WaitInv'
  BY <1>2, <1>3, BarriersFrame, Zenon DEF BarrierPlaces, WaitPlaces
<1> QED
  BY <1>4, <1>5, Zenon DEF UInv

\* get_locks().
LEMMA GetLocksStep ==
  ASSUME UInv, NEW s \in Sessions, NEW K \in KeySets, get_locks(s, K), UNCHANGED barriers
  PROVE  UInv'
<1>1. pc[s] = "idle" /\ UNCHANGED <<pc, local>> /\ K \subseteq Keys
  BY FunctionsAssumption, Zenon DEF get_locks, Call
<1>2. Moves(s) /\ Stays(s) /\ pc'[s] = "idle"
  BY <1>1, StaysMoves, Zenon DEF Stays
<1>3. LockInv'
  <2>1. CASE UNCHANGED <<lock_map, list>>
    BY <1>2, <2>1, LockFrame, Zenon DEF locks
  <2>2. CASE /\ lock_map' = [k \in Keys |-> IF k \in K THEN s ELSE lock_map[k]]
             /\ list' = [list EXCEPT ![s] = @ \cup K]
    <3>1. lock_map' \in [Keys -> Sessions \cup {NoSession}] /\ list' \in [Sessions -> SUBSET Keys]
      BY <1>1, <2>2, Zenon DEF UInv, LockInv
    <3>2. \A k \in Keys : lock_map'[k] \in {lock_map[k], NoSession, s}
      BY <2>2, Zenon DEF UInv, LockInv
    <3>3. \A k \in Keys : lock_map'[k] = s => k \in list'[s]
      BY <2>2, Zenon DEF UInv, LockInv
    <3>4. \A t \in Sessions \ {s} : list'[t] = list[t]
      BY <2>2, Zenon DEF UInv, LockInv
    <3> QED
      BY <1>2, <3>1, <3>2, <3>3, <3>4, LocksStep, Zenon DEF KeyPlaces
  <2> QED
    BY <2>1, <2>2, Zenon DEF get_locks
<1>4. NameInv' /\ WaitInv'
  BY <1>2, BarriersFrame, Zenon
<1> QED
  BY <1>3, <1>4, Zenon DEF UInv

\* release_lock(), and is_free_lock(), which releases too.
LEMMA ReleaseStep ==
  ASSUME UInv, NEW s \in Sessions, NEW k \in Keys, UNCHANGED barriers,
         release_lock(s, k) \/ is_free_lock(s, k)
  PROVE  UInv'
<1>1. pc[s] = "idle" /\ UNCHANGED <<pc, local>>
  BY Zenon DEF release_lock, is_free_lock, Call
<1>2. Moves(s) /\ Stays(s) /\ pc'[s] = "idle"
  BY <1>1, StaysMoves DEF Stays
<1>3. LockInv'
  <2>1. CASE UNCHANGED <<lock_map, list>>
    BY <1>2, <2>1, LockFrame, Zenon DEF locks
  <2>2. CASE /\ lock_map' = [lock_map EXCEPT ![k] = NoSession]
             /\ list' = list \/ list' = [list EXCEPT ![s] = @ \ {k}]
    <3>1. lock_map' \in [Keys -> Sessions \cup {NoSession}] /\ list' \in [Sessions -> SUBSET Keys]
      BY <2>2 DEF UInv, LockInv
    <3>2. \A j \in Keys : lock_map'[j] \in {lock_map[j], NoSession, s}
      BY <2>2 DEF UInv, LockInv
    <3>3. \A j \in Keys : lock_map'[j] = s => j \in list'[s]
      BY <2>2, SessionsAssumption DEF UInv, LockInv
    <3>4. \A t \in Sessions \ {s} : list'[t] = list[t]
      BY <2>2, Zenon DEF UInv, LockInv
    <3> QED
      BY <1>2, <3>1, <3>2, <3>3, <3>4, LocksStep, Zenon DEF KeyPlaces
  <2> QED
    BY <2>1, <2>2, Zenon DEF release_lock, is_free_lock, Erase
<1>4. NameInv' /\ WaitInv'
  BY <1>2, BarriersFrame, Zenon
<1> QED
  BY <1>3, <1>4 DEF UInv

\* release_lock_and_wait() begins.
LEMMA ReleaseAndWaitStep ==
  ASSUME UInv, NEW s \in Sessions, NEW k \in Keys, UNCHANGED barriers,
         release_lock_and_wait(s, k)
  PROVE  UInv'
<1>1. pc[s] = "idle" /\ list' = list
  BY Zenon DEF release_lock_and_wait, Call
<1>2. CASE UNCHANGED <<lock_map, pc, local>>
  BY <1>1, <1>2, StaysMoves, LockFrame, BarriersFrame, Zenon DEF UInv, locks
<1>3. CASE lock_map' = [lock_map EXCEPT ![k] = NoSession] /\ Enter(s, "create_cond", [key |-> k])
  <2>1. Moves(s) /\ pc'[s] = "create_cond" /\ local'[s] = [key |-> k]
    BY <1>3, EnterMoves, Zenon DEF Places, Interruptible
  <2>2. /\ lock_map' \in [Keys -> Sessions \cup {NoSession}]
        /\ \A j \in Keys : lock_map'[j] \in {lock_map[j], NoSession, s}
        /\ \A j \in Keys : lock_map'[j] = s => lock_map[j] = s
        /\ lock_map'[k] # s
    BY <1>3, SessionsAssumption DEF UInv, LockInv
  <2>5. /\ list' \in [Sessions -> SUBSET Keys] /\ \A t \in Sessions \ {s} : list'[t] = list[t]
        /\ \A j \in Keys : lock_map'[j] = s => j \in list'[s]
    BY <1>1, <2>2, Zenon DEF UInv, LockInv
  <2>6. local'[s].key = k
    BY <2>1
  <2>3. LockInv'
    BY <2>1, <2>2, <2>5, <2>6, LocksStep, Zenon
  <2>4. NameInv' /\ WaitInv'
    BY <1>1, <2>1, BarriersFrame, Zenon DEF WaitPlaces, BarrierPlaces
  <2> QED
    BY <2>3, <2>4, Zenon DEF UInv
<1> QED
  BY <1>2, <1>3, Zenon DEF release_lock_and_wait

\* release_lock_and_wait() ends.
LEMMA ReleasedAndCreatedStep ==
  ASSUME UInv, NEW s \in Sessions, released_and_created(s), UNCHANGED barriers
  PROVE  UInv'
<1>1. pc[s] = "create_cond" /\ lock_map' = lock_map
  BY Zenon DEF released_and_created, Awake
<1>2. CASE UNCHANGED <<list, pc, local>>
  BY <1>1, <1>2, StaysMoves, LockFrame, BarriersFrame, Zenon DEF UInv, locks
<1>3. CASE Return(s) /\ list' = [list EXCEPT ![s] = @ \ {local[s].key}]
  <2>1. Moves(s) /\ pc'[s] = "idle"
    BY <1>3, ReturnMoves, Zenon
  <2>2. /\ list' \in [Sessions -> SUBSET Keys]
        /\ \A t \in Sessions \ {s} : list'[t] = list[t]
        /\ \A j \in Keys : lock_map'[j] = s => j \in list'[s]
    BY <1>1, <1>3, Zenon DEF UInv, LockInv
  <2>3. LockInv'
    BY <1>1, <2>1, <2>2, LocksStep, Zenon DEF UInv, LockInv, KeyPlaces
  <2>4. NameInv' /\ WaitInv'
    BY <1>1, <2>1, BarriersFrame DEF WaitPlaces, BarrierPlaces
  <2> QED
    BY <2>3, <2>4, Zenon DEF UInv
<1> QED
  BY <1>2, <1>3, Zenon DEF released_and_created

-----------------------------------------------------------------------------
(* The functions over barriers.                                              *)

\* A barrier is observed, or observers are taken off its list.
LEMMA ReadyType ==
  ASSUME NEW b \in BarrierType
  PROVE  /\ checkObservers(b) \in BarrierType
         /\ checkObservers(b).owner = b.owner
         /\ checkObservers(b).limit = b.limit
         /\ checkObservers(b).current_wait = b.current_wait
         /\ checkObservers(b).generation = b.generation
<1>1. Ready(b) \subseteq b.observers
  BY Zenon DEF Ready
<1> QED
  BY <1>1 DEF checkObservers, BarrierType

\* wakeAll() begins a generation with a full count.
LEMMA WakeAllBecomes ==
  ASSUME UInv, NEW i \in 1..made, NEW b \in BarrierType, wakeAll(i, b), UNCHANGED made,
         b.owner = barrier[i].owner, b.limit = barrier[i].limit,
         b.generation = barrier[i].generation
  PROVE  \E c : /\ Becomes(i, c)
               /\ c.generation = barrier[i].generation + 1
               /\ c.current_wait = c.limit
<1> DEFINE c == NextGeneration(b)
<1>1. b.limit \in Int /\ b.generation + 1 \in Nat
  BY DEF BarrierType
<1>2. c \in BarrierType
  BY <1>1, Zenon DEF NextGeneration, BarrierType
<1>3. c.owner = b.owner
  BY DEF NextGeneration, BarrierType
<1>4. c.limit = b.limit
  BY DEF NextGeneration, BarrierType
<1>5. c.generation = b.generation + 1
  BY Zenon DEF NextGeneration, BarrierType
<1>6. c.current_wait = b.limit
  BY Zenon DEF NextGeneration, BarrierType
<1> HIDE DEF c
<1>7. Becomes(i, checkObservers(c))
  BY <1>2, <1>3, <1>4, ReadyType, Zenon DEF wakeAll, Becomes, c
<1> QED
  BY <1>2, <1>4, <1>5, <1>6, <1>7, ReadyType

\* A waiter that arrives counts the barrier down by one.
LEMMA ArriveType ==
  ASSUME NEW b \in BarrierType
  PROVE  /\ Arrive(b) \in BarrierType
         /\ Arrive(b).owner = b.owner
         /\ Arrive(b).limit = b.limit
         /\ Arrive(b).current_wait = b.current_wait - 1
         /\ Arrive(b).generation = b.generation
BY DEF Arrive, BarrierType

\* ... and one that tells nobody changes nothing else.
LEMMA UntoldType ==
  ASSUME NEW b \in BarrierType
  PROVE  /\ Untold(b) \in BarrierType
         /\ Untold(b).owner = b.owner
         /\ Untold(b).limit = b.limit
         /\ Untold(b).current_wait = b.current_wait
         /\ Untold(b).generation = b.generation
         /\ Untold(b).observers = b.observers
         /\ Untold(b).untold = b.untold + 1
BY DEF Untold, BarrierType

\* The step of a session that has found barrier i.
LEMMA FoundType ==
  ASSUME UInv, NEW s \in Sessions, pc[s] \in BarrierPlaces
  PROVE  local[s].at \in 1..made /\ local[s].at \in 1..MaxBarriers
         /\ barrier[local[s].at] \in BarrierType
BY BarriersAssumption DEF UInv, NameInv, WaitInv

\* A new barrier has its limit to count.
LEMMA NewBarrier ==
  ASSUME NEW s \in Sessions, NEW limit \in Limits
  PROVE  LET b == Barrier(s, limit)
         IN  /\ b \in BarrierType /\ b.owner = s /\ b.limit = limit /\ b.current_wait = limit
             /\ limit \in Nat
BY BarriersAssumption DEF Barrier, BarrierType

\* create_barrier().
LEMMA CreateBarrierStep ==
  ASSUME UInv, NEW s \in Sessions, NEW n \in Names, create_barrier(s, n), UNCHANGED locks
  PROVE  UInv'
<1>1. pc[s] = "idle" /\ UNCHANGED <<pc, local, miscounted>>
  BY Zenon DEF create_barrier, Call
<1>2. Moves(s) /\ Stays(s)
  BY <1>1, StaysMoves, Zenon
<1>3. LockInv'
  BY <1>2, LockFrame
<1>4. CASE UNCHANGED <<barrier_map, barrier, made, names>>
  BY <1>2, <1>3, <1>4, <1>1, NameFrame, WaitFrame, Zenon DEF UInv, NameInv
<1>5. CASE /\ barrier_map[n] = 0
           /\ made < MaxBarriers
           /\ made' = made + 1
           /\ barrier_map' = [barrier_map EXCEPT ![n] = made']
           /\ \E limit \in Limits : barrier' = [barrier EXCEPT ![made'] = Barrier(s, limit)]
           /\ names' = [names EXCEPT ![s] = @ \cup {n}]
  <2>1. PICK limit \in Limits : barrier' = [barrier EXCEPT ![made'] = Barrier(s, limit)]
    BY <1>5, Zenon
  <2>0. PICK new : new = made'
    BY Zenon
  <2> DEFINE b == Barrier(s, limit)
  <2>2. /\ b \in BarrierType /\ b.owner = s /\ b.limit = limit /\ b.current_wait = limit
        /\ limit \in Nat
    BY NewBarrier, Zenon
  <2>6. barrier' = [barrier EXCEPT ![new] = b]
    BY <2>0, <2>1
  <2> HIDE DEF b
  <2>3. /\ made \in Nat /\ MaxBarriers \in Nat /\ new \in 1..MaxBarriers /\ new \notin 1..made
        /\ barrier' \in [1..MaxBarriers -> BarrierType] /\ barrier'[new] = b
        /\ \A i \in 1..made : barrier'[i] = barrier[i]
    <3>1. /\ made \in Nat /\ MaxBarriers \in Nat /\ new \in 1..MaxBarriers
          /\ new \notin 1..made /\ 1..made \subseteq 1..MaxBarriers
      BY <1>5, <2>0, BarriersAssumption DEF UInv, NameInv
    <3>2. barrier \in [1..MaxBarriers -> BarrierType]
      BY Zenon DEF UInv, NameInv
    <3>3. barrier' \in [1..MaxBarriers -> BarrierType] /\ barrier'[new] = b
      BY <2>2, <2>6, <3>1, <3>2
    <3>4. \A i \in 1..made : barrier'[i] = barrier[i]
      BY <2>6, <3>1, <3>2, Zenon
    <3> QED
      BY <3>1, <3>3, <3>4
  <2>4. NameInv'
    <3>1. /\ made' \in 0..MaxBarriers /\ barrier_map' \in [Names -> 0..made']
          /\ names' \in [Sessions -> SUBSET Names]
      BY <1>5, <2>0, <2>3 DEF UInv, NameInv
    <3>2. \A m \in Names : m # n => barrier_map'[m] = barrier_map[m]
      BY <1>5, Zenon DEF UInv, NameInv
    <3>7. \A m \in Names : barrier_map[m] # 0 => barrier'[barrier_map[m]] = barrier[barrier_map[m]]
      <4>1. \A m \in Names : barrier_map[m] # 0 => barrier_map[m] \in 1..made
        BY <2>3 DEF UInv, NameInv
      <4> QED
        BY <2>3, <4>1
    <3>3. barrier_map'[n] = new /\ barrier'[barrier_map'[n]].owner = s /\ new # 0
      BY <1>5, <2>0, <2>2, <2>3 DEF UInv, NameInv
    <3>4. \A t \in Sessions, m \in Names : Owns(t, m)' <=> m \in names'[t]
      BY <1>5, <3>2, <3>3, <3>7 DEF UInv, NameInv, Owns
    <3>5. \A m \in Names : barrier_map'[m] # 0 => barrier'[barrier_map'[m]].owner \in Sessions
      <4>1. ASSUME NEW m \in Names, m # n, barrier_map'[m] # 0
            PROVE  barrier'[barrier_map'[m]].owner \in Sessions
        <5>1. barrier_map'[m] = barrier_map[m] /\ barrier'[barrier_map[m]] = barrier[barrier_map[m]]
          BY <3>2, <3>7, <4>1, Zenon
        <5>2. barrier_map[m] # 0
          BY <4>1, <5>1, Zenon
        <5>3. barrier[barrier_map[m]].owner \in Sessions
          BY <5>2, Zenon DEF UInv, NameInv
        <5> QED
          BY <5>1, <5>3, Zenon
      <4> QED
        BY <3>3, <4>1, Zenon
    <3>6. \A t \in Sessions : pc'[t] = "gone" => names'[t] = {}
      BY <1>1, <1>5, Zenon DEF UInv, NameInv
    <3> QED
      BY <2>3, <3>1, <3>4, <3>5, <3>6, Zenon DEF NameInv
  <2>5. WaitInv'
    <3>1. \A t \in Sessions : pc'[t] \in BarrierPlaces => local'[t].at \in 1..made /\ local'[t].at \in 1..new
      BY <1>1, <1>5, <2>0, <2>3 DEF UInv, WaitInv
    <3>2. \A t \in Sessions : pc'[t] \in WaitPlaces =>
            /\ local'[t].my_generation \in Nat
            /\ local'[t].my_generation <= barrier'[local'[t].at].generation
      BY <1>1, <2>3, <3>1, Zenon DEF UInv, WaitInv, BarrierPlaces
    <3>3. ASSUME NEW i \in 1..made \ miscounted PROVE Counted(i)'
      <4>1. Waiters(i)' = Waiters(i)
        BY <1>1, <2>3, Zenon DEF Waiters
      <4> QED
        BY <2>3, <4>1, Zenon DEF UInv, WaitInv, Counted
    <3>4. Counted(new)'
      <4>1. Waiters(new)' = {}
        BY <2>3, <3>1 DEF Waiters, WaitPlaces, BarrierPlaces
      <4>2. Cardinality(Waiters(new)') = 0
        BY <4>1, Zenon DEF UInv, Counting
      <4>3. barrier'[new].limit - barrier'[new].current_wait = Cardinality(Waiters(new)')
        BY <2>2, <2>3, <4>2
      <4> QED
        BY <2>2, <2>3, <4>3 DEF Counted
    <3>5. 1..new = 1..made \cup {new}
      BY <1>5, <2>0, <2>3
    <3> QED
      BY <1>1, <2>0, <3>1, <3>2, <3>3, <3>4, <3>5, Zenon DEF WaitInv
  <2> QED
    BY <1>3, <2>4, <2>5 DEF UInv
<1> QED
  BY <1>4, <1>5, Zenon DEF create_barrier

\* Barriers::release() of a session's own barrier
LEMMA ReleaseOwn ==
  ASSUME UInv, NEW s \in Sessions, NEW n \in Names, Owns(s, n), Release(s, n),
         Moves(s), Stays(s), UNCHANGED <<made, miscounted>>, pc[s] \notin BarrierPlaces
  PROVE  NameInv' /\ WaitInv'
<1> DEFINE i == barrier_map[n]
<1>1. i \in 1..made /\ barrier[i] \in BarrierType
  BY BarriersAssumption DEF UInv, NameInv, Owns
<1>2. PICK c : /\ Becomes(i, c)
               /\ c.generation = barrier[i].generation + 1
               /\ c.current_wait = c.limit
  BY <1>1, WakeAllBecomes, Zenon DEF Release
<1>3. WaitInv'
  BY <1>2, WakeStep, Zenon DEF Stays, BarrierPlaces
<1>4. NameInv'
  <2>1. /\ barrier' \in [1..MaxBarriers -> BarrierType]
        /\ \A j \in 1..MaxBarriers : barrier'[j].owner = barrier[j].owner
    BY <1>2, BecomesFrame, Zenon
  <2>2. /\ barrier_map' = [barrier_map EXCEPT ![n] = 0]
        /\ names' = [names EXCEPT ![s] = @ \ {n}]
    BY Zenon DEF Release
  <2>3. barrier_map' \in [Names -> 0..made] /\ names' \in [Sessions -> SUBSET Names]
    BY <2>2 DEF UInv, NameInv
  <2>4. \A m \in Names : barrier_map'[m] = IF m = n THEN 0 ELSE barrier_map[m]
    BY <2>2, Zenon DEF UInv, NameInv
  <2>5. \A m \in Names : barrier_map[m] # 0 => barrier_map[m] \in 1..MaxBarriers
    BY BarriersAssumption DEF UInv, NameInv
  <2>6. \A t \in Sessions, m \in Names : Owns(t, m)' <=> m # n /\ Owns(t, m)
    BY <2>1, <2>4, <2>5, Zenon DEF Owns
  <2>7. \A t \in Sessions : n \in names[t] => t = s
    BY Zenon DEF UInv, NameInv, Owns
  <2>8. \A t \in Sessions : names'[t] = names[t] \ {n}
    BY <2>2, <2>7, Zenon DEF UInv, NameInv
  <2>9. \A m \in Names : barrier_map'[m] # 0 => barrier'[barrier_map'[m]].owner \in Sessions
    <3>1. ASSUME NEW m \in Names, barrier_map'[m] # 0
          PROVE  barrier'[barrier_map'[m]].owner \in Sessions
      <4>1. barrier_map'[m] = barrier_map[m] /\ barrier_map[m] # 0
        BY <2>4, <3>1, Zenon
      <4>2. barrier[barrier_map[m]].owner \in Sessions
        BY <4>1, Zenon DEF UInv, NameInv
      <4> QED
        BY <2>1, <2>5, <4>1, <4>2, Zenon
    <3> QED
      BY <3>1, Zenon
  <2>10. \A t \in Sessions : pc'[t] = "gone" => pc[t] = "gone"
    BY Zenon DEF Moves, Stays
  <2> QED
    BY <2>1, <2>3, <2>6, <2>8, <2>9, <2>10 DEF UInv, NameInv
<1> QED
  BY <1>3, <1>4, Zenon

\* release_barrier().
LEMMA ReleaseBarrierStep ==
  ASSUME UInv, NEW s \in Sessions, NEW n \in Names, release_barrier(s, n), UNCHANGED locks
  PROVE  UInv'
<1>1. pc[s] = "idle" /\ UNCHANGED <<pc, local, made, miscounted>>
  BY Zenon DEF release_barrier, Call
<1>2. Moves(s) /\ Stays(s)
  BY <1>1, StaysMoves
<1>3. LockInv'
  BY <1>2, LockFrame
<1>4. CASE Owns(s, n) /\ Release(s, n)
  BY <1>1, <1>2, <1>3, <1>4, ReleaseOwn DEF UInv, BarrierPlaces, WaitPlaces
<1>5. CASE UNCHANGED <<barrier_map, barrier, names, woken, asleep>>
  BY <1>1, <1>2, <1>3, <1>5, BarriersFrame, Zenon DEF UInv, barriers
<1> QED
  BY <1>4, <1>5, Zenon DEF release_barrier

\* Finding a barrier by its name.
LEMMA FindStep ==
  ASSUME UInv, NEW s \in Sessions, NEW n \in Names, UNCHANGED locks,
         NEW place \in {"arrive", "signal", "arrive_generation", "observe"}, NEW args,
         find(s, n, place, args), args.at = barrier_map[n]
  PROVE  UInv'
<1>2. pc[s] = "idle" /\ UNCHANGED barriers
  BY Zenon DEF find, Call
<1>3. CASE UNCHANGED <<pc, local>>
  BY <1>2, <1>3, StaysMoves, LockFrame, BarriersFrame, Zenon DEF UInv
<1>4. CASE Found(s, n, place) /\ Enter(s, place, args)
  <2>1. Moves(s) /\ pc'[s] = place /\ local'[s] = args
    BY <1>4, EnterMoves DEF Places
  <2>2. args.at \in 1..made
    <3>1. barrier_map[n] # 0 /\ barrier_map[n] \in 0..made /\ made \in Nat
      BY <1>4, BarriersAssumption DEF Found, UInv, NameInv
    <3> QED
      BY <3>1
  <2>3. LockInv'
    BY <2>1, LockFrame, Zenon DEF KeyPlaces
  <2>4. UNCHANGED <<made, barrier_map, names, barrier, miscounted>>
    BY <1>2, Zenon DEF barriers
  <2>5. NameInv'
    BY <2>1, <2>4, NameFrame, Zenon DEF UInv, NameInv
  <2>6. \A i \in 1..made : s \notin Waiters(i)
    BY <1>2, Zenon DEF Waiters
  <2>7. WaitInv'
    BY <2>1, <2>2, <2>4, <2>6, WaitFrame, Zenon DEF WaitPlaces
  <2> QED
    BY <2>3, <2>5, <2>7 DEF UInv
<1> QED
  BY <1>3, <1>4, Zenon DEF find

\* wakeAll() by a session that has found barrier i, before or after it has arrived
LEMMA WokenByStep ==
  ASSUME UInv, NEW s \in Sessions, NEW b \in BarrierType, UNCHANGED locks, Return(s),
         pc[s] \in BarrierPlaces \ WaitPlaces, wakeAll(local[s].at, b),
         b.owner = barrier[local[s].at].owner, b.limit = barrier[local[s].at].limit,
         b.generation = barrier[local[s].at].generation,
         UNCHANGED <<barrier_map, made, names, miscounted>>
  PROVE  UInv'
<1> DEFINE i == local[s].at
<1>1. i \in 1..made
  BY FoundType, Zenon
<1>2. PICK c : /\ Becomes(i, c)
               /\ c.generation = barrier[i].generation + 1
               /\ c.current_wait = c.limit
  BY <1>1, WakeAllBecomes, Zenon
<1>3. Moves(s) /\ pc'[s] = "idle"
  BY ReturnMoves, Zenon
<1>4. LockInv'
  BY <1>3, LockFrame, Zenon DEF KeyPlaces
<1>5. NameInv'
  BY <1>2, <1>3, BecomesFrame, NameFrame, Zenon
<1>6. WaitInv'
  BY <1>2, <1>3, WakeStep, Zenon DEF BarrierPlaces, WaitPlaces
<1> QED
  BY <1>4, <1>5, <1>6, Zenon DEF UInv

\* signal().
LEMMA SignalStep ==
  ASSUME UInv, NEW s \in Sessions, signal(s), UNCHANGED locks
  PROVE  UInv'
<1>1. pc[s] \in BarrierPlaces \ WaitPlaces
  BY Zenon DEF signal, BarrierPlaces, WaitPlaces
<1> QED
  BY <1>1, FoundType, WokenByStep DEF signal

\* A session that has found a barrier changes no more than its observers.
LEMMA ObserversStep ==
  ASSUME UInv, NEW s \in Sessions, UNCHANGED <<locks, barrier_map, made, names, miscounted>>,
         pc[s] \in BarrierPlaces, Moves(s), NEW O \in SUBSET Sessions,
         barrier' = barrier \/ barrier' = [barrier EXCEPT ![local[s].at].observers = O],
         \/ Stays(s)
         \/ /\ pc[s] \in WaitPlaces =>
                 local[s].my_generation # barrier[local[s].at].generation
            /\ \/ pc'[s] = "idle"
               \/ pc'[s] \in {"observer", "observing", "observer_cond"} /\ local'[s] = local[s]
  PROVE  UInv'
<1>1. LockInv'
  BY LockFrame, Zenon DEF KeyPlaces
<1>2. /\ barrier' \in [1..MaxBarriers -> BarrierType]
      /\ \A i \in 1..MaxBarriers :
           /\ barrier'[i].owner = barrier[i].owner
           /\ barrier'[i].limit = barrier[i].limit
           /\ barrier'[i].current_wait = barrier[i].current_wait
           /\ barrier'[i].generation = barrier[i].generation
  <2>1. barrier \in [1..MaxBarriers -> BarrierType]
    BY Zenon DEF UInv, NameInv
  <2>2. CASE barrier' = barrier
    BY <2>1, <2>2, Zenon
  <2>3. CASE barrier' = [barrier EXCEPT ![local[s].at].observers = O]
    <3> DEFINE j == local[s].at
               b == [barrier[j] EXCEPT !.observers = O]
    <3>1. j \in 1..MaxBarriers /\ barrier[j] \in BarrierType
      BY FoundType, Zenon
    <3>2. /\ b \in BarrierType
          /\ b.owner = barrier[j].owner /\ b.limit = barrier[j].limit
          /\ b.current_wait = barrier[j].current_wait
          /\ b.generation = barrier[j].generation
      BY <3>1, Zenon DEF BarrierType
    <3>3. barrier' = [barrier EXCEPT ![j] = b]
      BY <2>1, <2>3, <3>1, Zenon
    <3> HIDE DEF b, j
    <3> QED
      BY <2>1, <3>1, <3>2, <3>3, Zenon
  <2> QED
    BY <2>2, <2>3, Zenon
<1>3. NameInv'
  BY <1>2, NameFrame, Zenon
<1>4. \/ Stays(s)
      \/ /\ pc'[s] \notin WaitPlaces
         /\ pc'[s] \in BarrierPlaces => local'[s].at \in 1..made
         /\ \A i \in 1..made : s \notin Waiters(i)
  BY FoundType, Zenon DEF Waiters, WaitPlaces, BarrierPlaces
<1>5. WaitInv'
  BY <1>2, <1>4, WaitFrame, Zenon
<1> QED
  BY <1>1, <1>3, <1>5, Zenon DEF UInv

\* wait_woken(), wait_generation_woken(), and Observer::sleep()
LEMMA SleepStep ==
  ASSUME UInv, NEW s \in Sessions, UNCHANGED locks,
         \/ wait_woken(s) \/ wait_generation_woken(s)
         \/ observer(s) \/ observer_sleep(s) \/ observer_interrupted(s) \/ observe(s)
  PROVE  UInv'
<1>1. pc[s] \in BarrierPlaces /\ local[s].at \in 1..MaxBarriers
      /\ barrier[local[s].at] \in BarrierType
  <2>1. pc[s] \in BarrierPlaces
    BY Zenon DEF wait_woken, wait_generation_woken, observer, observer_sleep, observer_interrupted,
           observe, Awake, BarrierPlaces, WaitPlaces
  <2> QED
    BY <2>1, FoundType, Zenon
<1>2. UNCHANGED <<barrier_map, made, names, miscounted>>
  BY Zenon DEF wait_woken, wait_generation_woken, observer, observer_sleep, observer_interrupted,
         observe, barriers
<1>3. PICK O \in SUBSET Sessions :
        barrier' = barrier \/ barrier' = [barrier EXCEPT ![local[s].at].observers = O]
  <2>1. barrier[local[s].at].observers \subseteq Sessions
    BY <1>1, Zenon DEF BarrierType
  <2>2. CASE observe(s)
    <3>1. CASE barrier' = barrier
      BY <3>1, Zenon
    <3>2. CASE barrier' = [barrier EXCEPT ![local[s].at].observers = @ \cup {s}]
      <4>1. barrier[local[s].at].observers \cup {s} \in SUBSET Sessions
        BY <2>1, Zenon
      <4> QED
        BY <3>2, <4>1, Zenon
    <3> QED
      BY <2>2, <3>1, <3>2, Zenon DEF observe
  <2>3. CASE observer_interrupted(s)
    <3>1. barrier[local[s].at].observers \ {s} \in SUBSET Sessions
      BY <2>1, Zenon
    <3> QED
      BY <2>3, <3>1, Zenon DEF observer_interrupted
  <2>4. CASE barrier' = barrier
    BY <2>4
  <2> QED
    BY <2>2, <2>3, <2>4, Zenon DEF wait_woken, wait_generation_woken, observer, observer_sleep, barriers
<1>4. \/ UNCHANGED <<pc, local>>
      \/ /\ pc[s] \in WaitPlaces => local[s].my_generation # barrier[local[s].at].generation
         /\ \/ Return(s)
            \/ \E place \in {"observer", "observing", "observer_cond"} : Goto(s, place)
  BY Zenon DEF wait_woken, wait_generation_woken, observer, observer_sleep, observer_interrupted,
         observe, Awake, WaitPlaces
<1>5. Moves(s) /\ (\/ Stays(s)
                  \/ /\ pc[s] \in WaitPlaces =>
                          local[s].my_generation # barrier[local[s].at].generation
                     /\ \/ pc'[s] = "idle"
                        \/ /\ pc'[s] \in {"observer", "observing", "observer_cond"}
                           /\ local'[s] = local[s])
  <2>1. {"observer", "observing", "observer_cond"} \subseteq Places
    BY Zenon DEF Places, Interruptible
  <2> QED
    BY <1>4, <2>1, StaysMoves, ReturnMoves, GotoMoves, Zenon
<1> QED
  BY <1>1, <1>2, <1>3, <1>5, ObserversStep, Zenon

\* A waiter that is killed is counted out.
LEMMA WaitInterruptedStep ==
  ASSUME UInv, NEW s \in Sessions, wait_interrupted(s), UNCHANGED locks
  PROVE  UInv'
<1> DEFINE i == local[s].at
           gone == [barrier[i] EXCEPT !.current_wait = @ + 1]
<1>1. pc[s] = "wait" /\ Return(s) /\ UNCHANGED <<barrier_map, made, names>>
      /\ barrier' = [barrier EXCEPT ![i] = checkObservers(gone)]
      /\ miscounted' = IF local[s].my_generation = barrier[i].generation THEN miscounted
                       ELSE miscounted \cup {i}
  BY Zenon DEF wait_interrupted, Awake
<1>2. i \in 1..made /\ barrier[i] \in BarrierType
  BY <1>1, FoundType, Zenon DEF BarrierPlaces, WaitPlaces
<1>3. /\ gone \in BarrierType
      /\ gone.owner = barrier[i].owner /\ gone.limit = barrier[i].limit
      /\ gone.current_wait = barrier[i].current_wait + 1
      /\ gone.generation = barrier[i].generation
  BY <1>2 DEF BarrierType
<1>4. Becomes(i, checkObservers(gone))
  BY <1>1, <1>2, <1>3, ReadyType, Zenon DEF Becomes
<1>5. Moves(s) /\ pc'[s] = "idle"
  BY <1>1, ReturnMoves, Zenon
<1>6. LockInv'
  BY <1>5, LockFrame, Zenon DEF KeyPlaces
<1>7. NameInv'
  BY <1>1, <1>4, <1>5, BecomesFrame, NameFrame, Zenon
<1>8. WaitInv'
  <2> HIDE DEF gone
  <2> QED
    BY <1>1, <1>3, <1>4, <1>5, ReadyType, LeaveStep, Zenon DEF WaitPlaces, BarrierPlaces
<1> QED
  BY <1>6, <1>7, <1>8 DEF UInv

\* A session comes to barrier i and sleeps there; b is what it makes of the barrier.
LEMMA ComesStep ==
  ASSUME UInv, NEW s \in Sessions, NEW b \in BarrierType, NEW place \in WaitPlaces,
         UNCHANGED <<locks, barrier_map, made, names, miscounted>>,
         pc[s] \in BarrierPlaces \ WaitPlaces,
         barrier' = [barrier EXCEPT ![local[s].at] = b],
         b.owner = barrier[local[s].at].owner, b.limit = barrier[local[s].at].limit,
         b.generation = barrier[local[s].at].generation,
         b.current_wait = barrier[local[s].at].current_wait - 1,
         ~LimitMet(b),
         Enter(s, place, [at |-> local[s].at, my_generation |-> barrier[local[s].at].generation])
  PROVE  UInv'
<1> DEFINE i == local[s].at
<1>1. i \in 1..made
  BY FoundType, Zenon
<1>2. Becomes(i, b)
  BY <1>1, Zenon DEF Becomes
<1>3. /\ Moves(s) /\ pc'[s] = place
      /\ local'[s] = [at |-> i, my_generation |-> barrier[i].generation]
  <2> DEFINE l == [at |-> i, my_generation |-> barrier[i].generation]
  <2>1. place \in Places
    BY Zenon DEF Places, Interruptible, WaitPlaces
  <2>2. Enter(s, place, l)
    BY Zenon
  <2> HIDE DEF l
  <2>3. Moves(s) /\ pc'[s] = place /\ local'[s] = l
    BY ONLY s \in Sessions, UInv, <2>1, <2>2, EnterMoves
  <2> QED
    BY <2>3, Zenon DEF l
<1>4. LockInv'
  BY <1>3, LockFrame, Zenon DEF KeyPlaces, WaitPlaces
<1>5. NameInv'
  BY <1>2, <1>3, BecomesFrame, NameFrame, Zenon DEF WaitPlaces
<1>6. WaitInv'
  <2>1. ~(b.limit # 0 /\ b.current_wait = 0)
    BY Zenon DEF LimitMet
  <2>2. /\ b.generation = barrier[i].generation
        /\ b.current_wait = barrier[i].current_wait - 1
    BY Zenon
  <2>3. pc[s] \notin WaitPlaces
    BY Zenon
  <2>4. pc'[s] \in WaitPlaces
    BY <1>3, Zenon
  <2>5. local'[s].at = i
    BY ONLY <1>3
  <2>6. local'[s].my_generation = barrier[i].generation
    BY ONLY <1>3
  <2>7. local'[s].my_generation = b.generation
    BY ONLY <2>2, <2>6, Zenon
  <2> HIDE DEF i
  <2> QED
    BY <1>2, <1>3, <2>1, <2>2, <2>3, <2>4, <2>5, <2>7, ArriveStep, Zenon
<1> QED
  BY <1>4, <1>5, <1>6, Zenon DEF UInv

\* A session arrives at wait().
LEMMA WaitStep ==
  ASSUME UInv, NEW s \in Sessions, wait(s), UNCHANGED locks
  PROVE  UInv'
<1> DEFINE i == local[s].at
           come == Arrive(barrier[i])
           seen == checkObservers(come)
           back == [seen EXCEPT !.current_wait = @ + 1]
<1>1. /\ pc[s] = "arrive" /\ UNCHANGED <<barrier_map, made, names, miscounted>>
      /\ pc[s] \in BarrierPlaces \ WaitPlaces
  BY Zenon DEF wait, BarrierPlaces, WaitPlaces
<1>2. i \in 1..made /\ i \in 1..MaxBarriers /\ barrier[i] \in BarrierType
  BY <1>1, FoundType, Zenon
<1>3. /\ come \in BarrierType
      /\ come.owner = barrier[i].owner /\ come.limit = barrier[i].limit
      /\ come.current_wait = barrier[i].current_wait - 1
      /\ come.generation = barrier[i].generation
  BY <1>2, ArriveType, Zenon
<1>4. /\ seen \in BarrierType
      /\ seen.owner = barrier[i].owner /\ seen.limit = barrier[i].limit
      /\ seen.current_wait = barrier[i].current_wait - 1
      /\ seen.generation = barrier[i].generation
  BY <1>3, ReadyType, Zenon
<1>5. CASE wakeAll(i, come) /\ Return(s)
  <2> HIDE DEF come
  <2> QED
    BY <1>1, <1>3, <1>5, WokenByStep, Zenon
<1>6. CASE /\ ~LimitMet(come)
           /\ barrier' = [barrier EXCEPT ![i] = seen]
           /\ Enter(s, "wait", [at |-> i, my_generation |-> barrier[i].generation])
  <2>1. ~LimitMet(seen)
    BY <1>3, <1>4, <1>6, Zenon DEF LimitMet
  <2>2. "wait" \in WaitPlaces
    BY Zenon DEF WaitPlaces
  <2> HIDE DEF seen
  <2> QED
    BY <1>1, <1>4, <1>6, <2>1, <2>2, ComesStep, Zenon
<1>7. CASE barrier' = [barrier EXCEPT ![i] = checkObservers(back)] /\ Return(s)
  <2>1. /\ back \in BarrierType
        /\ back.owner = barrier[i].owner /\ back.limit = barrier[i].limit
        /\ back.current_wait = barrier[i].current_wait
        /\ back.generation = barrier[i].generation
    <3> HIDE DEF seen
    <3> QED
      BY <1>2, <1>4 DEF BarrierType
  <2> DEFINE b == checkObservers(back)
  <2>2. /\ b \in BarrierType
        /\ b.owner = barrier[i].owner /\ b.limit = barrier[i].limit
        /\ b.current_wait = barrier[i].current_wait
        /\ b.generation = barrier[i].generation
    <3> HIDE DEF back
    <3> QED
      BY <2>1, ReadyType, Zenon
  <2>3. barrier' = [barrier EXCEPT ![i] = b]
    BY <1>7, Zenon
  <2> HIDE DEF b
  <2>4. Becomes(i, b)
    BY <1>2, <2>2, <2>3, <1>1, Zenon DEF Becomes
  <2>5. \A j \in 1..MaxBarriers :
           /\ barrier'[j].limit = barrier[j].limit
           /\ barrier'[j].current_wait = barrier[j].current_wait
           /\ barrier'[j].generation = barrier[j].generation
    <3>1. barrier'[i] = b /\ \A j \in 1..MaxBarriers : j # i => barrier'[j] = barrier[j]
      BY <2>4, BecomesFrame, Zenon
    <3> HIDE DEF i
    <3>2. barrier'[i].limit = barrier[i].limit
      BY <2>2, <3>1, Zenon
    <3>3. barrier'[i].current_wait = barrier[i].current_wait
      BY <2>2, <3>1, Zenon
    <3>4. barrier'[i].generation = barrier[i].generation
      BY <2>2, <3>1, Zenon
    <3> QED
      BY <3>1, <3>2, <3>3, <3>4, Zenon
  <2>6. Moves(s) /\ pc'[s] = "idle"
    BY <1>7, ReturnMoves, Zenon
  <2>7. LockInv'
    BY <2>6, LockFrame DEF KeyPlaces
  <2>8. NameInv'
    BY <1>1, <2>4, <2>6, BecomesFrame, NameFrame, Zenon
  <2>9. /\ pc'[s] \notin WaitPlaces /\ pc'[s] \notin BarrierPlaces
        /\ \A j \in 1..made : s \notin Waiters(j)
    BY <1>1, <2>6, Zenon DEF Waiters, WaitPlaces, BarrierPlaces
  <2>10. WaitInv'
    BY <1>1, <2>5, <2>6, <2>9, WaitFrame, Zenon
  <2> QED
    BY <2>7, <2>8, <2>10 DEF UInv
<1> QED
  BY <1>5, <1>6, <1>7, Zenon DEF wait

\* A session arrives at wait(name, generation), unless that one has ended.
LEMMA WaitGenerationStep ==
  ASSUME UInv, NEW s \in Sessions, wait_generation(s), UNCHANGED locks
  PROVE  UInv'
<1> DEFINE i == local[s].at
           come == Arrive(barrier[i])
<1>1. /\ pc[s] = "arrive_generation" /\ UNCHANGED <<barrier_map, made, names, miscounted>>
      /\ pc[s] \in BarrierPlaces \ WaitPlaces
  BY Zenon DEF wait_generation, BarrierPlaces, WaitPlaces
<1>2. barrier[i] \in BarrierType
  BY <1>1, FoundType, Zenon
<1>3. /\ come \in BarrierType
      /\ come.owner = barrier[i].owner /\ come.limit = barrier[i].limit
      /\ come.current_wait = barrier[i].current_wait - 1
      /\ come.generation = barrier[i].generation
  BY <1>2, ArriveType, Zenon
<1>4. CASE Return(s) /\ UNCHANGED <<barrier, woken>>
  <2>1. UNCHANGED barriers
    BY <1>1, <1>4 DEF barriers
  <2>2. Moves(s) /\ pc'[s] = "idle"
    BY <1>4, ReturnMoves, Zenon
  <2> QED
    BY <1>1, <2>1, <2>2, LockFrame, BarriersFrame DEF UInv, KeyPlaces, BarrierPlaces, WaitPlaces
<1>5. CASE wakeAll(i, come) /\ Return(s)
  <2> HIDE DEF come
  <2> QED
    BY <1>1, <1>3, <1>5, WokenByStep, Zenon
<1>6. CASE /\ ~LimitMet(come)
           /\ barrier' = [barrier EXCEPT ![i] = Untold(come)]
           /\ Enter(s, "wait_generation", [at |-> i, my_generation |-> barrier[i].generation])
  <2>1. "wait_generation" \in WaitPlaces
    BY Zenon DEF WaitPlaces
  <2> HIDE DEF come
  <2>2. PICK c : c = Untold(come)
    BY Zenon
  <2>3. /\ c \in BarrierType
        /\ c.owner = come.owner /\ c.limit = come.limit
        /\ c.current_wait = come.current_wait /\ c.generation = come.generation
    BY <1>3, <2>2, UntoldType, Zenon
  <2>4. ~LimitMet(c)
    BY <1>6, <2>3, Zenon DEF LimitMet
  <2>5. /\ c.owner = barrier[i].owner /\ c.limit = barrier[i].limit
        /\ c.current_wait = barrier[i].current_wait - 1
        /\ c.generation = barrier[i].generation
    BY <1>3, <2>3, Zenon
  <2>6. barrier' = [barrier EXCEPT ![i] = c]
    BY <1>6, <2>2, Zenon
  <2> QED
    BY <1>1, <1>6, <2>1, <2>3, <2>4, <2>5, <2>6, ComesStep, Zenon
<1> QED
  BY <1>4, <1>5, <1>6, Zenon DEF wait_generation

-----------------------------------------------------------------------------
\* What is left in the list of a session is its own, and erase_all() releases it.
LEMMA EraseReleases ==
  ASSUME UInv, NEW s \in Sessions, \E n \in names[s] : EraseBarrier(s, n)
  PROVE  \E n \in names[s] : Release(s, n) /\ n \in Names /\ Owns(s, n)
<1>1. PICK n \in names[s] : EraseBarrier(s, n)
  BY Zenon
<1>2. n \in Names /\ Owns(s, n)
  BY Zenon DEF UInv, NameInv
<1> QED
  BY <1>1, <1>2, Zenon DEF EraseBarrier

\* The end of a session releases its locks and barriers.
LEMMA DestroyStep ==
  ASSUME UInv, NEW s \in Sessions, destroy(s)
  PROVE  UInv'
<1>1. pc[s] = "leaving"
  BY Zenon DEF destroy
<1>2. CASE EraseOne(s) /\ UNCHANGED <<pc, local, barriers>>
  <2>1. Moves(s) /\ Stays(s) /\ pc'[s] = "leaving"
    BY <1>1, <1>2, StaysMoves, Zenon DEF Stays
  <2>2. LockInv'
    BY <1>2, <2>1, EraseOneStep, LocksStep, Zenon DEF KeyPlaces
  <2> QED
    BY <1>2, <2>1, <2>2, BarriersFrame, Zenon DEF UInv
<1>3. CASE /\ \E n \in names[s] : EraseBarrier(s, n)
           /\ UNCHANGED <<pc, local, made, miscounted, locks>>
  <2>1. PICK n \in names[s] : Release(s, n) /\ n \in Names /\ Owns(s, n)
    BY <1>3, EraseReleases, Zenon
  <2>2. n \in Names /\ Owns(s, n)
    BY <2>1, Zenon
  <2>3. Moves(s) /\ Stays(s)
    BY <1>3, StaysMoves, Zenon
  <2>4. pc[s] \notin BarrierPlaces
    BY <1>1, Zenon DEF BarrierPlaces, WaitPlaces
  <2>5. NameInv' /\ WaitInv'
    BY <1>3, <2>1, <2>2, <2>3, <2>4, ReleaseOwn, Zenon
  <2> QED
    BY <1>3, <2>3, <2>5, LockFrame DEF UInv
<1>4. CASE /\ LeftBehind(s) = {}
           /\ Goto(s, "gone")
           /\ UNCHANGED <<asleep, locks, barriers>>
  <2>1. Moves(s) /\ pc'[s] = "gone" /\ local'[s] = local[s]
    BY <1>4, GotoMoves DEF Places
  <2>2. list[s] = {} /\ names[s] = {}
    BY <1>4, Zenon DEF LeftBehind
  <2>3. UNCHANGED <<lock_map, list, made, barrier_map, names, barrier, miscounted>>
    BY <1>4, Zenon DEF locks, barriers
  <2>4. LockInv'
    BY <2>1, <2>2, <2>3, LocksStep, Zenon DEF UInv, LockInv, KeyPlaces
  <2>5. NameInv'
    <3>1. \A t \in Sessions, n \in Names : Owns(t, n)' <=> Owns(t, n)
      BY <2>3, Zenon DEF Owns
    <3> QED
      BY <2>1, <2>2, <2>3, <3>1, Zenon DEF UInv, NameInv, Moves
  <2>6. /\ pc'[s] \notin WaitPlaces /\ pc'[s] \notin BarrierPlaces
        /\ \A j \in 1..made : s \notin Waiters(j)
    BY <1>1, <2>1, Zenon DEF Waiters, WaitPlaces, BarrierPlaces
  <2>7. WaitInv'
    BY <2>1, <2>3, <2>6, WaitFrame, Zenon
  <2> QED
    BY <2>4, <2>5, <2>7 DEF UInv
<1> QED
  BY <1>2, <1>3, <1>4, Zenon DEF destroy

\* KILL, and a step of something else, leave the functions where they are.
LEMMA StillStep ==
  ASSUME UInv, UNCHANGED <<pc, local, locks, barriers>>
  PROVE  UInv'
<1>1. UNCHANGED <<lock_map, list, barrier_map, barrier, made, names, miscounted>>
  BY Zenon DEF locks, barriers
<1>2. LockInv'
  BY <1>1, Zenon DEF UInv, LockInv, WaiterHoldsNothing
<1>3. NameInv'
  BY <1>1, Zenon DEF UInv, NameInv, Owns
<1>4. \A i : Counted(i)' <=> Counted(i)
  BY <1>1 DEF Counted, Waiters
<1>5. WaitInv'
  BY <1>1, <1>4, Zenon DEF UInv, WaitInv
<1> QED
  BY <1>2, <1>3, <1>5, Zenon DEF UInv

\* Every step keeps the invariant.
LEMMA NextUInv == UInv /\ [Next]_vars => UInv'
<1> SUFFICES ASSUME UInv, [Next]_vars PROVE UInv'
  BY Zenon
<1>1. CASE UNCHANGED vars
  BY <1>1, StillStep, Zenon DEF vars, session
<1>2. ASSUME NEW s \in Sessions, LockCall(s), UNCHANGED barriers PROVE UInv'
  <2>1. CASE \E k \in Keys : get_lock(s, k)
    BY <1>2, <2>1, GetLockStep
  <2>2. CASE \E K \in KeySets : get_locks(s, K)
    BY <1>2, <2>2, GetLocksStep, Zenon
  <2>3. CASE \E k \in Keys : release_lock(s, k) \/ is_free_lock(s, k)
    BY <1>2, <2>3, ReleaseStep, Zenon
  <2>4. CASE release_locks(s) \/ \E k \in Keys : wait_for_lock(s, k)
    <3>1. UNCHANGED locks
      BY <2>4, Zenon DEF release_locks, wait_for_lock
    <3> QED
      BY <1>2, <2>4, <3>1, NoLockStep
  <2>5. CASE \E k \in Keys : release_lock_and_wait(s, k)
    BY <1>2, <2>5, ReleaseAndWaitStep, Zenon
  <2> QED
    BY <1>2, <2>1, <2>2, <2>3, <2>4, <2>5, Zenon DEF LockCall
<1>3. ASSUME NEW s \in Sessions, LockStep(s), UNCHANGED barriers PROVE UInv'
  <2>1. CASE lock_timeout(s) \/ interrupted_wait(s) \/ isUsed(s) \/ waitCreate(s) \/ waited(s)
    <3>1. UNCHANGED locks
      BY <2>1, Zenon DEF lock_timeout, interrupted_wait, isUsed, waitCreate, waited
    <3> QED
      BY <1>3, <2>1, <3>1, NoLockStep, Zenon
  <2> QED
    BY <1>3, <2>1, EraseAllStep, LockLoopStep, ReleasedAndCreatedStep, Zenon DEF LockStep
<1>4. ASSUME NEW s \in Sessions, BarrierCall(s), UNCHANGED locks PROVE UInv'
  <2>1. CASE \E n \in Names : create_barrier(s, n) \/ release_barrier(s, n)
    BY <1>4, <2>1, CreateBarrierStep, ReleaseBarrierStep, Zenon
  <2>2. CASE \E n \in Names : find_to_wait(s, n) \/ find_to_signal(s, n)
    BY <1>4, <2>2, FindStep, Zenon DEF find_to_wait, find_to_signal
  <2>3. CASE \E n \in Names, g \in Generations : find_generation(s, n, g)
    BY <1>4, <2>3, FindStep, Zenon DEF find_generation
  <2>4. CASE \E n \in Names, u \in Counts : find_to_observe(s, n, u)
    BY <1>4, <2>4, FindStep, Zenon DEF find_to_observe
  <2> QED
    BY <1>4, <2>1, <2>2, <2>3, <2>4, Zenon DEF BarrierCall
<1>5. ASSUME NEW s \in Sessions, BarrierStep(s), UNCHANGED locks PROVE UInv'
  BY <1>5, SignalStep, WaitStep, WaitInterruptedStep, WaitGenerationStep, SleepStep, Zenon
     DEF BarrierStep
<1>6. ASSUME NEW s \in Sessions, disconnect(s) PROVE UInv'
  BY <1>6, NoLockStep, Zenon DEF disconnect
<1>7. ASSUME NEW s \in Sessions, awake(s) PROVE UInv'
  BY <1>7, StillStep DEF awake
<1> QED
  BY <1>1, <1>2, <1>3, <1>4, <1>5, <1>6, <1>7, DestroyStep, Zenon DEF Next, Run

-----------------------------------------------------------------------------
(* The rest of the types, and the observers: one that is on the list of a    *)
(* barrier is in Observer::sleep() there and has not been woken, so that it  *)
(* is told once only, and whoever has been woken has yet to notice.          *)
SleepPlaces == Interruptible \cup {"wait_generation"}
ObserverPlaces == {"observer", "observing", "observer_cond"}

\* the arguments of a function when m barriers have been made
LocalOK(l, m) ==
  /\ "key" \in DOMAIN l => l.key \in Keys
  /\ "at" \in DOMAIN l => l.at \in 1..m

SleepInv ==
  /\ asleep \subseteq Sessions
  /\ \A s \in asleep : pc[s] \in SleepPlaces
  /\ \A s \in Sessions : LocalOK(local[s], made)
  /\ interrupted \subseteq Sessions
  /\ left \in [Sessions -> Nat]

\* the waiters that were there when checkObservers() last ran
LookedAt(b) == count(b) - b.untold

Told(i) ==
  \A s \in barrier[i].observers :
    /\ pc[s] \in ObserverPlaces /\ local[s].at = i /\ s \notin woken
    /\ LookedAt(barrier[i]) < local[s].wait_until

Registered(s) ==
  pc[s] \in ObserverPlaces => s \in woken \/ s \in barrier[local[s].at].observers

Sought == {"observe"} \cup ObserverPlaces

ObserverInv ==
  /\ woken \subseteq Sessions /\ miscounted \subseteq 1..MaxBarriers
  /\ \A s \in Sessions : pc[s] \in Sought => local[s].wait_until \in Nat
  /\ \A s \in woken : pc[s] \in ObserverPlaces
  /\ \A i \in 1..made : Told(i)
  /\ \A s \in Sessions : Registered(s)

FInv == UInv /\ SleepInv /\ ObserverInv

\* The invariant contains the types and what observers are told.
LEMMA FInvImplies == FInv => TypeOK /\ ObserversAreTold
<1> SUFFICES ASSUME FInv PROVE TypeOK /\ ObserversAreTold
  OBVIOUS
<1>1. ObserversAreTold
  <2> SUFFICES ASSUME NEW s \in Sessions, pc[s] \in ObserverPlaces, s \notin woken
               PROVE  /\ s \in barrier[local[s].at].observers
                      /\ LookedAt(barrier[local[s].at]) < local[s].wait_until
    BY Zenon DEF ObserversAreTold, ObserverPlaces, LookedAt
  <2>1. s \in barrier[local[s].at].observers
    BY Zenon DEF FInv, ObserverInv, Registered
  <2>2. local[s].at \in 1..made
    BY Zenon DEF FInv, UInv, WaitInv, BarrierPlaces, ObserverPlaces
  <2> QED
    BY <2>1, <2>2, Zenon DEF FInv, ObserverInv, Told
<1>2. /\ pc \in [Sessions -> Places]
      /\ lock_map \in [Keys -> Sessions \cup {NoSession}]
      /\ list \in [Sessions -> SUBSET Keys]
  BY Zenon DEF FInv, UInv, LockInv
<1>3. /\ made \in 0..MaxBarriers
      /\ barrier_map \in [Names -> 0..made]
      /\ barrier \in [1..MaxBarriers -> BarrierType]
      /\ names \in [Sessions -> SUBSET Names]
  BY DEF FInv, UInv, NameInv
<1>4. /\ asleep \subseteq {s \in Sessions : pc[s] \in Interruptible \cup {"wait_generation"}}
      /\ interrupted \subseteq Sessions
      /\ left \in [Sessions -> Nat]
  BY Zenon DEF FInv, SleepInv, SleepPlaces
<1>5. \A s \in Sessions : /\ "key" \in DOMAIN local[s] => local[s].key \in Keys
                          /\ "at" \in DOMAIN local[s] => local[s].at \in 1..made
  BY Zenon DEF FInv, SleepInv, LocalOK
<1>6. woken \subseteq Sessions /\ miscounted \subseteq 1..MaxBarriers
  BY Zenon DEF FInv, ObserverInv
<1> QED
  BY <1>1, <1>2, <1>3, <1>4, <1>5, <1>6, Zenon DEF TypeOK, BarrierType

\* The local variables that the functions leave.
LEMMA LocalShapes ==
  ASSUME NEW m
  PROVE  /\ LocalOK(NoLocal, m)
         /\ \A k \in Keys : LocalOK([key |-> k], m)
         /\ \A k \in Keys, timed \in BOOLEAN : LocalOK([key |-> k, timed |-> timed], m)
         /\ \A i \in 1..m : LocalOK([at |-> i], m)
         /\ \A i \in 1..m : \A g : LocalOK([at |-> i, my_generation |-> g], m)
         /\ \A i \in 1..m : \A u : LocalOK([at |-> i, wait_until |-> u], m)
BY Zenon DEF LocalOK, NoLocal

\* A step of s: the others stay where they are, and none of them falls asleep.
Steps(s) ==
  /\ Moves(s)
  /\ asleep' \subseteq asleep \cup {s}
  /\ s \in asleep' => pc'[s] \in SleepPlaces
  /\ interrupted' \subseteq interrupted \cup {s}
  /\ left' \in [Sessions -> Nat]
  /\ local'[s] = local[s] \/ LocalOK(local'[s], made')

\* A step of one session wakes sleepers, and puts to sleep that session at most.
LEMMA SleepKept ==
  ASSUME FInv, NEW s \in Sessions, Steps(s), made' \in {made, made + 1}
  PROVE  SleepInv'
<1>1. made \in Nat
  BY BarriersAssumption DEF FInv, UInv, NameInv
<1>2. \A t \in Sessions : LocalOK(local'[t], made')
  <2> SUFFICES ASSUME NEW t \in Sessions, local'[t] = local[t] PROVE LocalOK(local'[t], made')
    BY Zenon DEF Steps, Moves
  <2>1. LocalOK(local[t], made)
    BY DEF FInv, SleepInv
  <2> QED
    BY <1>1, <2>1 DEF LocalOK
<1>3. asleep' \subseteq Sessions /\ interrupted' \subseteq Sessions /\ left' \in [Sessions -> Nat]
  BY Zenon DEF FInv, SleepInv, Steps
<1>4. \A t \in asleep' : pc'[t] \in SleepPlaces
  BY Zenon DEF FInv, SleepInv, Steps, Moves
<1> QED
  BY <1>2, <1>3, <1>4, Zenon DEF SleepInv

\* A call takes one of the functions left.
LEMMA CallLeft ==
  ASSUME FInv, NEW s \in Sessions, Call(s)
  PROVE  left' \in [Sessions -> Nat] /\ pc[s] = "idle" /\ s \notin asleep
<1>1. left \in [Sessions -> Nat]
  BY Zenon DEF FInv, SleepInv
<1>2. left' \in [Sessions -> Nat]
  BY <1>1 DEF Call
<1> QED
  BY <1>2, Zenon DEF Call, FInv, SleepInv, SleepPlaces, Interruptible

\* notify_one() wakes nobody else than a sleeper.
LEMMA Notified ==
  ASSUME NEW sleepers, NEW rest \in NotifyOne(sleepers)
  PROVE  rest \subseteq asleep
BY Zenon DEF NotifyOne

\* The session has nothing to do with an observer, before and after.
Elsewhere(s) == pc[s] \notin Sought /\ pc'[s] \notin Sought

\* A call that returns at once.
LEMMA IdleSteps ==
  ASSUME FInv, NEW s \in Sessions, Call(s), UNCHANGED <<pc, local>>,
         asleep' \subseteq asleep, UNCHANGED interrupted
  PROVE  Steps(s) /\ Elsewhere(s)
<1>1. UInv
  BY Zenon DEF FInv
<1>2. Moves(s) /\ Stays(s)
  BY <1>1, StaysMoves
<1> QED
  BY <1>2, CallLeft, Zenon DEF Steps, Stays, Elsewhere, Sought, ObserverPlaces

\* The calls of the lock functions touch no barrier.
LEMMA LockCallSteps ==
  ASSUME FInv, NEW s \in Sessions, LockCall(s), UNCHANGED barriers
  PROVE  Steps(s) /\ Elsewhere(s)
<1>0. UInv
  BY Zenon DEF FInv
<1>1. ASSUME Call(s) PROVE left' \in [Sessions -> Nat] /\ pc[s] = "idle" /\ s \notin asleep
  BY <1>1, CallLeft
<1>2. CASE release_locks(s)
  <2>1. PICK place \in {"idle", "erase_end"} : Goto(s, place)
    BY <1>2, Zenon DEF release_locks
  <2>2. Moves(s) /\ pc'[s] = place /\ local'[s] = local[s]
    BY <1>0, <2>1, GotoMoves DEF Places
  <2> QED
    BY <1>1, <1>2, <2>2, Zenon DEF release_locks, Steps, Elsewhere, Sought, ObserverPlaces
<1>3. CASE \E K \in KeySets : get_locks(s, K)
  BY <1>3, IdleSteps DEF get_locks
<1>4. CASE \E k \in Keys : get_lock(s, k)
  <2>1. PICK k \in Keys : get_lock(s, k)
    BY <1>4, Zenon
  <2>2. PICK timed \in BOOLEAN : Enter(s, EraseBefore(s), [key |-> k, timed |-> timed])
    BY <2>1, Zenon DEF get_lock
  <2>3. EraseBefore(s) \in {"lock", "erase_lock"}
    BY Zenon DEF EraseBefore
  <2>4. Moves(s) /\ pc'[s] = EraseBefore(s) /\ local'[s] = [key |-> k, timed |-> timed]
    BY <1>0, <2>2, <2>3, EnterMoves, Zenon DEF Places
  <2>5. LocalOK(local'[s], made')
    BY <2>4, LocalShapes, Zenon
  <2> QED
    BY <1>1, <2>1, <2>3, <2>4, <2>5, Zenon DEF get_lock, Steps, Elsewhere, Sought, ObserverPlaces
<1>5. CASE \E k \in Keys : release_lock(s, k)
  BY <1>5, IdleSteps, Notified, Zenon DEF release_lock, Erase
<1>6. CASE \E k \in Keys : is_free_lock(s, k)
  BY <1>6, IdleSteps, Notified, Zenon DEF is_free_lock, Erase
<1>7. CASE \E k \in Keys : release_lock_and_wait(s, k)
  <2>1. PICK k \in Keys : release_lock_and_wait(s, k)
    BY <1>7
  <2>2. CASE lock_map[k] # s
    BY <2>1, <2>2, IdleSteps, Zenon DEF release_lock_and_wait
  <2>3. CASE lock_map[k] = s
    <3>1. Enter(s, "create_cond", [key |-> k])
      BY <2>1, <2>3 DEF release_lock_and_wait
    <3>2. Moves(s) /\ pc'[s] = "create_cond" /\ local'[s] = [key |-> k]
      BY <1>0, <3>1, EnterMoves, Zenon DEF Places, Interruptible
    <3>3. LocalOK(local'[s], made')
      BY <3>2, LocalShapes, Zenon
    <3>4. asleep' \subseteq asleep \cup {s}
      BY <2>1, <2>3, Notified DEF release_lock_and_wait
    <3> QED
      BY <1>1, <2>1, <3>2, <3>3, <3>4, Zenon
         DEF release_lock_and_wait, Steps, Elsewhere, Sought, ObserverPlaces, SleepPlaces,
             Interruptible
  <2> QED
    BY <2>2, <2>3, Zenon
<1>8. CASE \E k \in Keys : wait_for_lock(s, k)
  <2>1. PICK k \in Keys : wait_for_lock(s, k)
    BY <1>8, Zenon
  <2>2. Moves(s) /\ pc'[s] = "is_used" /\ local'[s] = [key |-> k]
    BY <1>0, <2>1, EnterMoves, Zenon DEF Places, wait_for_lock
  <2>3. LocalOK(local'[s], made')
    BY <2>2, LocalShapes, Zenon
  <2> QED
    BY <1>1, <2>1, <2>2, <2>3, Zenon DEF wait_for_lock, Steps, Elsewhere, Sought, ObserverPlaces
<1> QED
  BY <1>2, <1>3, <1>4, <1>5, <1>6, <1>7, <1>8, Zenon DEF LockCall

\* A session that runs is at a place it sleeps at only when it is awake.
LEMMA NotSleeping ==
  ASSUME FInv, NEW s \in Sessions, pc[s] \notin SleepPlaces
  PROVE  s \notin asleep
BY Zenon DEF FInv, SleepInv

\* The session returns: nobody falls asleep.
LEMMA ReturnSteps ==
  ASSUME FInv, NEW s \in Sessions, Return(s), asleep' \subseteq asleep, s \notin asleep',
         interrupted' \subseteq interrupted, UNCHANGED left
  PROVE  Steps(s) /\ pc'[s] = "idle"
<1>0. UInv
  BY Zenon DEF FInv
<1>1. Moves(s) /\ pc'[s] = "idle"
  BY <1>0, ReturnMoves, Zenon
<1>2. local'[s] = NoLocal
  BY Zenon DEF FInv, UInv, LockInv, Return, Enter
<1>3. LocalOK(local'[s], made')
  BY <1>2, LocalShapes, Zenon
<1>4. left' \in [Sessions -> Nat]
  BY Zenon DEF FInv, SleepInv
<1> QED
  BY <1>1, <1>3, <1>4, Zenon DEF Steps

\* The session goes on to another place, or stays at its own.
LEMMA GotoSteps ==
  ASSUME FInv, NEW s \in Sessions, NEW place \in Places, Goto(s, place),
         asleep' \subseteq asleep \cup {s}, s \in asleep' => place \in SleepPlaces,
         interrupted' \subseteq interrupted, UNCHANGED left
  PROVE  Steps(s) /\ pc'[s] = place /\ local'[s] = local[s]
<1>0. UInv
  BY DEF FInv
<1>1. Moves(s) /\ pc'[s] = place /\ local'[s] = local[s]
  BY <1>0, GotoMoves, Zenon
<1>2. left' \in [Sessions -> Nat]
  BY DEF FInv, SleepInv
<1> QED
  BY <1>1, <1>2, Zenon DEF Steps

\* A step in which a session falls asleep or wakes where it is.
LEMMA StaySteps ==
  ASSUME FInv, NEW s \in Sessions, UNCHANGED <<pc, local>>,
         asleep' \subseteq asleep \cup {s}, s \in asleep' => pc[s] \in SleepPlaces,
         interrupted' \subseteq interrupted \cup {s}, UNCHANGED left
  PROVE  Steps(s) /\ Stays(s)
<1>0. UInv
  BY Zenon DEF FInv
<1>1. Moves(s) /\ Stays(s)
  BY <1>0, StaysMoves
<1>2. left' \in [Sessions -> Nat]
  BY Zenon DEF FInv, SleepInv
<1> QED
  BY <1>1, <1>2, Zenon DEF Steps, Stays

\* Giving up a lock puts nobody to sleep.
LEMMA EraseOneSleepers ==
  ASSUME NEW s, EraseOne(s)
  PROVE  asleep' \subseteq asleep
BY Notified, Zenon DEF EraseOne, Erase

\* The further steps of the lock functions touch no barrier.
LEMMA LockStepSteps ==
  ASSUME FInv, NEW s \in Sessions, LockStep(s), UNCHANGED barriers
  PROVE  Steps(s) /\ Elsewhere(s)
<1>1. CASE erase_all(s)
  <2>1. asleep' \subseteq asleep /\ s \notin asleep
    BY <1>1, EraseOneSleepers, NotSleeping DEF erase_all, SleepPlaces, Interruptible
  <2>2. PICK place \in {"erase_lock", "erase_end", "lock", "idle"} : Goto(s, place)
    BY <1>1, Zenon DEF erase_all
  <2>3. Steps(s) /\ pc'[s] = place
    BY <1>1, <2>1, <2>2, GotoSteps, Zenon DEF erase_all, Places
  <2> QED
    BY <1>1, <2>3, Zenon DEF erase_all, Elsewhere, Sought, ObserverPlaces
<1>2. CASE lock(s)
  <2>1. pc[s] \in {"lock", "release_cond"} /\ s \notin asleep
    BY <1>2, Zenon DEF lock, Awake
  <2>2. CASE Return(s) /\ asleep' \subseteq asleep
    <3>1. Steps(s) /\ pc'[s] = "idle"
      BY <1>2, <2>1, <2>2, ReturnSteps, Zenon DEF lock
    <3> QED
      BY <2>1, <3>1, Zenon DEF Elsewhere, Sought, ObserverPlaces
  <2>3. CASE Goto(s, "release_cond") /\ asleep' \subseteq asleep \cup {s}
    <3>1. Steps(s) /\ pc'[s] = "release_cond"
      BY <1>2, <2>3, GotoSteps, Zenon DEF lock, Places, SleepPlaces, Interruptible
    <3> QED
      BY <2>1, <3>1 DEF Elsewhere, Sought, ObserverPlaces
  <2> QED
    BY <1>2, <2>2, <2>3, Zenon DEF lock
<1>3. CASE lock_timeout(s) \/ interrupted_wait(s)
  <2>1. pc[s] \in {"release_cond", "create_cond", "create_timed"}
    BY <1>3, Zenon DEF lock_timeout, interrupted_wait
  <2>2. Steps(s) /\ pc'[s] = "idle"
    BY <1>3, ReturnSteps, Zenon DEF lock_timeout, interrupted_wait, Thrown
  <2> QED
    BY <2>1, <2>2, Zenon DEF Elsewhere, Sought, ObserverPlaces
<1>4. CASE released_and_created(s)
  <2>1. pc[s] = "create_cond" /\ s \notin asleep
    BY <1>4, Zenon DEF released_and_created, Awake
  <2>2. CASE Return(s) /\ UNCHANGED asleep
    <3>1. Steps(s) /\ pc'[s] = "idle"
      BY <1>4, <2>1, <2>2, ReturnSteps, Zenon DEF released_and_created
    <3> QED
      BY <2>1, <3>1, Zenon DEF Elsewhere, Sought, ObserverPlaces
  <2>3. CASE asleep' = asleep \cup {s} /\ UNCHANGED <<pc, local>>
    <3>1. Steps(s) /\ Stays(s)
      BY <1>4, <2>1, <2>3, StaySteps DEF released_and_created, SleepPlaces, Interruptible
    <3> QED
      BY <2>1, <3>1, Zenon DEF Stays, Elsewhere, Sought, ObserverPlaces
  <2> QED
    BY <1>4, <2>2, <2>3, Zenon DEF released_and_created
<1>5. CASE isUsed(s)
  <2>1. pc[s] = "is_used" /\ s \notin asleep
    BY <1>5, NotSleeping, Zenon DEF isUsed, SleepPlaces, Interruptible
  <2>2. Steps(s) /\ pc'[s] \in {"idle", "wait_create"}
    BY <1>5, <2>1, ReturnSteps, GotoSteps, Zenon DEF isUsed, Places
  <2> QED
    BY <2>1, <2>2 DEF Elsewhere, Sought, ObserverPlaces
<1>6. CASE waitCreate(s)
  <2>1. Steps(s) /\ pc'[s] = "create_timed"
    BY <1>6, GotoSteps, Zenon DEF waitCreate, Places, SleepPlaces, Interruptible
  <2> QED
    BY <1>6, <2>1, Zenon DEF waitCreate, Elsewhere, Sought, ObserverPlaces
<1>7. CASE waited(s)
  <2>1. Steps(s) /\ pc'[s] = "is_used"
    BY <1>7, GotoSteps, Zenon DEF waited, Places
  <2> QED
    BY <1>7, <2>1, Zenon DEF waited, Elsewhere, Sought, ObserverPlaces
<1> QED
  BY <1>1, <1>2, <1>3, <1>4, <1>5, <1>6, <1>7 DEF LockStep

-----------------------------------------------------------------------------
(* What keeps the observers of one barrier told.  Either nobody came ...     *)
LEMMA ToldKept ==
  ASSUME FInv, NEW s \in Sessions, Moves(s), NEW i \in 1..made,
         barrier'[i].observers \subseteq barrier[i].observers,
         LookedAt(barrier'[i]) = LookedAt(barrier[i]),
         barrier'[i].observers \cap woken' = {},
         s \in barrier'[i].observers => pc'[s] \in ObserverPlaces /\ local'[s] = local[s]
  PROVE  Told(i)'
<1> SUFFICES ASSUME NEW t \in barrier'[i].observers
             PROVE  /\ pc'[t] \in ObserverPlaces /\ local'[t].at = i /\ t \notin woken'
                    /\ LookedAt(barrier'[i]) < local'[t].wait_until
  BY Zenon DEF Told, LookedAt, count
<1>1. /\ pc[t] \in ObserverPlaces /\ local[t].at = i
      /\ LookedAt(barrier[i]) < local[t].wait_until
  BY Zenon DEF FInv, ObserverInv, Told
<1>2. t \in Sessions
  <2>1. barrier[i] \in BarrierType
    BY BarriersAssumption DEF FInv, UInv, NameInv
  <2> QED
    BY <2>1, Zenon DEF BarrierType
<1>3. pc'[t] \in ObserverPlaces /\ local'[t] = local[t]
  BY <1>1, <1>2, Zenon DEF Moves
<1> QED
  BY <1>1, <1>3, Zenon

\* ... or checkObservers() has just looked at them.
LEMMA ToldChecked ==
  ASSUME FInv, NEW s \in Sessions, Moves(s), NEW i \in 1..made, NEW b \in BarrierType,
         b.observers \subseteq barrier[i].observers,
         barrier'[i] = checkObservers(b),
         barrier'[i].observers \cap woken' = {},
         pc[s] \notin ObserverPlaces
  PROVE  Told(i)'
<1> SUFFICES ASSUME NEW t \in barrier'[i].observers
             PROVE  /\ pc'[t] \in ObserverPlaces /\ local'[t].at = i /\ t \notin woken'
                    /\ LookedAt(barrier'[i]) < local'[t].wait_until
  BY Zenon DEF Told, LookedAt, count
<1>0. PICK c : c = barrier'[i] /\ c = checkObservers(b)
  BY Zenon
<1>1. c.observers = b.observers \ Ready(b) /\ count(c) = count(b) /\ c.untold = 0
  BY <1>0, Zenon DEF checkObservers, BarrierType, count
<1>2. t \in Sessions /\ pc[t] \in ObserverPlaces /\ local[t].at = i
  BY <1>0, <1>1, Zenon DEF BarrierType, FInv, ObserverInv, Told
<1>3. pc'[t] = pc[t] /\ local'[t] = local[t]
  BY <1>2, Zenon DEF Moves
<1>4. local[t].wait_until \in Nat /\ count(b) \in Int
  BY <1>2 DEF FInv, ObserverInv, Sought, count, BarrierType
<1>5. ~(local[t].wait_until <= count(b))
  BY <1>0, <1>1, Zenon DEF Ready
<1>6. LookedAt(c) < local[t].wait_until
  BY <1>1, <1>4, <1>5 DEF LookedAt
<1> QED
  BY <1>0, <1>2, <1>3, <1>6, Zenon

\* Nothing happens to a barrier, and an observer stays one.
LEMMA ObserversQuiet ==
  ASSUME FInv, NEW s \in Sessions, Moves(s), UNCHANGED barriers,
         \/ Elsewhere(s)
         \/ Stays(s)
         \/ pc[s] \in ObserverPlaces /\ pc'[s] \in ObserverPlaces /\ local'[s] = local[s]
         \/ pc[s] = "idle" /\ pc'[s] = "observe" /\ local'[s].wait_until \in Nat
         \/ pc[s] = "observe" /\ pc'[s] = "idle"
  PROVE  ObserverInv'
<1>1. UNCHANGED <<barrier, made, woken, miscounted>>
  BY Zenon DEF barriers
<1>2. \A t \in Sessions : pc'[t] \in Sought => local'[t].wait_until \in Nat
  BY DEF FInv, ObserverInv, Moves, Elsewhere, Stays, Sought, ObserverPlaces
<1>3. pc[s] \in ObserverPlaces => pc'[s] \in ObserverPlaces /\ local'[s] = local[s]
  BY Zenon DEF Elsewhere, Stays, Sought, ObserverPlaces
<1>4. \A t \in woken' : pc'[t] \in ObserverPlaces
  BY <1>1, <1>3, Zenon DEF FInv, ObserverInv, Moves
<1>5. ASSUME NEW i \in 1..made PROVE Told(i)'
  <2>1. Told(i)
    BY Zenon DEF FInv, ObserverInv
  <2>2. barrier'[i].observers \cap woken' = {}
    BY <1>1, <2>1, Zenon DEF Told
  <2>3. s \in barrier'[i].observers => pc'[s] \in ObserverPlaces /\ local'[s] = local[s]
    BY <1>1, <1>3, <2>1, Zenon DEF Told
  <2>4. barrier'[i] = barrier[i]
    BY <1>1, Zenon
  <2> QED
    BY <2>2, <2>3, <2>4, ToldKept, Zenon
<1>6. pc'[s] \in ObserverPlaces => pc[s] \in ObserverPlaces /\ local'[s] = local[s]
  BY Zenon DEF Elsewhere, Stays, Sought, ObserverPlaces
<1>7. \A t \in Sessions : Registered(t)'
  BY <1>1, <1>6, Zenon DEF FInv, ObserverInv, Registered, Moves
<1> QED
  BY <1>1, <1>2, <1>4, <1>5, <1>7, Zenon DEF FInv, ObserverInv

\* Barrier i changes in a way checkObservers() sees; those it wakes were its observers.
LEMMA ObserversChecked ==
  ASSUME FInv, NEW s \in Sessions, Moves(s), UNCHANGED made,
         Elsewhere(s),
         NEW i \in 1..made, NEW b \in BarrierType, NEW W \in SUBSET barrier[i].observers,
         b.observers \subseteq barrier[i].observers,
         barrier' = [barrier EXCEPT ![i] = checkObservers(b)],
         woken' = woken \cup W,
         W \cap (b.observers \ Ready(b)) = {},
         barrier[i].observers \subseteq W \cup (b.observers \ Ready(b)),
         miscounted' \in SUBSET (1..MaxBarriers)
  PROVE  ObserverInv'
<1>1. /\ barrier'[i] = checkObservers(b)
      /\ \A j \in 1..made : j # i => barrier'[j] = barrier[j]
  BY BarriersAssumption DEF FInv, UInv, NameInv
<1>2. barrier'[i].observers = b.observers \ Ready(b)
  BY <1>1 DEF checkObservers, BarrierType
<1>3. \A j \in 1..made : Told(j)
  BY Zenon DEF FInv, ObserverInv
<1>4. W \subseteq Sessions /\ \A t \in W : pc[t] \in ObserverPlaces /\ local[t].at = i
  <2>1. barrier[i] \in BarrierType
    BY BarriersAssumption DEF FInv, UInv, NameInv
  <2> QED
    BY <1>3, <2>1, Zenon DEF BarrierType, Told
<1>5. pc[s] \notin ObserverPlaces /\ pc'[s] \notin Sought
  BY Zenon DEF Elsewhere, Sought
<1>6. woken' \subseteq Sessions /\ \A t \in woken' : pc'[t] \in ObserverPlaces
  BY <1>4, <1>5, Zenon DEF FInv, ObserverInv, Moves
<1>7. \A t \in Sessions : pc'[t] \in Sought => local'[t].wait_until \in Nat
  BY <1>5, Zenon DEF FInv, ObserverInv, Moves
<1>8. ASSUME NEW j \in 1..made PROVE Told(j)'
  <2>1. CASE j = i
    <3>1. barrier'[i].observers \cap woken' = {}
      BY <1>2, <1>3, Zenon DEF Told
    <3> QED
      BY <1>1, <1>5, <2>1, <3>1, ToldChecked, Zenon
  <2>2. CASE j # i
    <3>1. barrier'[j] = barrier[j]
      BY <1>1, <2>2, Zenon
    <3>2. barrier'[j].observers \cap woken' = {}
      BY <1>3, <1>4, <2>2, <3>1 DEF Told
    <3>3. s \notin barrier'[j].observers
      BY <1>3, <1>5, <3>1, Zenon DEF Told
    <3> QED
      BY <3>1, <3>2, <3>3, ToldKept, Zenon
  <2> QED
    BY <2>1, <2>2
<1>9. ASSUME NEW t \in Sessions PROVE Registered(t)'
  <2> SUFFICES ASSUME pc'[t] \in ObserverPlaces, t \notin woken'
               PROVE  t \in barrier'[local'[t].at].observers
    BY Zenon DEF Registered
  <2>1. pc'[t] = pc[t] /\ local'[t] = local[t]
    BY <1>5, Zenon DEF Moves, Sought
  <2>2. t \in barrier[local[t].at].observers /\ t \notin W
    BY <2>1, Zenon DEF FInv, ObserverInv, Registered
  <2>3. local[t].at \in 1..made
    BY <2>1, Zenon DEF FInv, UInv, WaitInv, BarrierPlaces, ObserverPlaces
  <2> QED
    BY <1>1, <1>2, <2>1, <2>2, <2>3, Zenon
<1> QED
  BY <1>6, <1>7, <1>8, <1>9, Zenon DEF ObserverInv

\* wakeAll() is one of these.
LEMMA ObserversWoken ==
  ASSUME FInv, NEW s \in Sessions, Moves(s), UNCHANGED <<made, miscounted>>,
         Elsewhere(s),
         NEW i \in 1..made, NEW b \in BarrierType,
         b.observers = barrier[i].observers, wakeAll(i, b)
  PROVE  ObserverInv' /\ asleep' \subseteq asleep
<1>1. PICK c : c = NextGeneration(b)
  BY Zenon
<1>2. c \in BarrierType /\ c.observers = b.observers
  <2>1. b.limit \in Int /\ b.generation + 1 \in Nat
    BY DEF BarrierType
  <2>2. c \in BarrierType
    BY <1>1, <2>1, Zenon DEF NextGeneration, BarrierType
  <2>3. c.observers = b.observers
    BY <1>1, Zenon DEF NextGeneration, BarrierType
  <2> QED
    BY <2>2, <2>3, Zenon
<1>3. /\ barrier' = [barrier EXCEPT ![i] = checkObservers(c)]
      /\ woken' = woken \cup Ready(c)
      /\ asleep' \subseteq asleep
  BY <1>1 DEF wakeAll
<1>4. /\ Ready(c) \subseteq barrier[i].observers
      /\ barrier[i].observers \subseteq Ready(c) \cup (c.observers \ Ready(c))
  BY <1>2, Zenon DEF Ready
<1>5. miscounted' \in SUBSET (1..MaxBarriers)
  BY Zenon DEF FInv, ObserverInv
<1> QED
  BY <1>2, <1>3, <1>4, <1>5, ObserversChecked, Zenon

\* the call of a function over barriers, and its search for the barrier
LEMMA FindSteps ==
  ASSUME FInv, NEW s \in Sessions, NEW n \in Names, NEW args,
         NEW place \in {"arrive", "signal", "arrive_generation", "observe"},
         find(s, n, place, args),
         \A m : barrier_map[n] \in 1..m => LocalOK(args, m),
         place = "observe" => args.wait_until \in Nat
  PROVE  SleepInv' /\ ObserverInv'
<1>0. UInv /\ made \in Nat /\ barrier_map[n] \in 0..made
  BY BarriersAssumption DEF FInv, UInv, NameInv
<1>1. left' \in [Sessions -> Nat] /\ pc[s] = "idle" /\ s \notin asleep
  BY CallLeft, Zenon DEF find
<1>2. UNCHANGED <<asleep, interrupted, barriers>> /\ UNCHANGED made
  BY Zenon DEF find, barriers
<1>3. CASE UNCHANGED <<pc, local>>
  <2>1. Steps(s) /\ Elsewhere(s)
    BY <1>2, <1>3, IdleSteps, Zenon DEF find
  <2>2. Moves(s)
    BY <2>1, Zenon DEF Steps
  <2> QED
    BY <1>2, <2>1, <2>2, SleepKept, ObserversQuiet, Zenon
<1>4. CASE Enter(s, place, args) /\ barrier_map[n] # 0
  <2>1. Moves(s) /\ pc'[s] = place /\ local'[s] = args
    BY <1>0, <1>4, EnterMoves, Zenon DEF Places
  <2>2. LocalOK(local'[s], made')
    BY <1>0, <1>2, <1>4, <2>1
  <2>3. Steps(s)
    BY <1>1, <1>2, <2>1, <2>2, Zenon DEF Steps
  <2>4. Elsewhere(s) \/ (pc[s] = "idle" /\ pc'[s] = "observe" /\ local'[s].wait_until \in Nat)
    BY <1>1, <2>1, Zenon DEF Elsewhere, Sought, ObserverPlaces
  <2> QED
    BY <1>2, <2>1, <2>3, <2>4, SleepKept, ObserversQuiet, Zenon
<1> QED
  BY <1>3, <1>4, Zenon DEF find, Found

\* A new barrier has no observers.
LEMMA CreateBarrierObservers ==
  ASSUME FInv, NEW s \in Sessions, NEW n \in Names, create_barrier(s, n)
  PROVE  SleepInv' /\ ObserverInv'
<1>0. UInv /\ made \in Nat /\ barrier \in [1..MaxBarriers -> BarrierType] /\ MaxBarriers \in Nat
  BY BarriersAssumption DEF FInv, UInv, NameInv
<1>1. UNCHANGED <<pc, local, asleep, interrupted, woken, miscounted>> /\ Call(s)
  BY DEF create_barrier
<1>2. Steps(s) /\ Elsewhere(s)
  BY <1>1, IdleSteps
<1>3. Moves(s) /\ Stays(s)
  BY <1>0, <1>1, StaysMoves, Zenon
<1>4. CASE UNCHANGED <<barrier_map, barrier, made, names>>
  <2>1. UNCHANGED barriers
    BY <1>1, <1>4, Zenon DEF barriers
  <2> QED
    BY <1>2, <1>3, <1>4, <2>1, SleepKept, ObserversQuiet, Zenon
<1>5. CASE made < MaxBarriers /\ made' = made + 1
           /\ \E limit \in Limits : barrier' = [barrier EXCEPT ![made'] = Barrier(s, limit)]
  <2>1. SleepInv'
    BY <1>2, <1>5, SleepKept, Zenon
  <2>2. PICK limit \in Limits : barrier' = [barrier EXCEPT ![made'] = Barrier(s, limit)]
    BY <1>5, Zenon
  <2>3. /\ made' \in 1..MaxBarriers /\ 1..made' = 1..made \cup {made'}
        /\ made' \notin 1..made /\ 1..made \subseteq 1..MaxBarriers
    BY <1>0, <1>5
  <2>4. barrier'[made'].observers = {} /\ \A i \in 1..made : barrier'[i] = barrier[i]
    BY <1>0, <2>2, <2>3, Zenon DEF Barrier
  <2>5. ASSUME NEW i \in 1..made PROVE Told(i)'
    <3>1. Told(i) /\ barrier'[i] = barrier[i]
      BY <2>4, Zenon DEF FInv, ObserverInv
    <3>2. barrier'[i].observers \cap woken' = {}
      BY <1>1, <3>1, Zenon DEF Told
    <3>3. s \in barrier'[i].observers => pc'[s] \in ObserverPlaces /\ local'[s] = local[s]
      BY <1>3, <3>1, Zenon DEF Told, Stays
    <3> QED
      BY <1>3, <3>1, <3>2, <3>3, ToldKept, Zenon
  <2>6. \A i \in 1..made' : Told(i)'
    BY <2>3, <2>4, <2>5, Zenon DEF Told
  <2>7. ASSUME NEW t \in Sessions PROVE Registered(t)'
    <3>1. pc[t] \in ObserverPlaces => local[t].at \in 1..made
      BY Zenon DEF FInv, UInv, WaitInv, BarrierPlaces, ObserverPlaces
    <3> QED
      BY <1>1, <2>4, <3>1, Zenon DEF FInv, ObserverInv, Registered
  <2> QED
    BY <1>1, <2>1, <2>6, <2>7, Zenon DEF FInv, ObserverInv
<1> QED
  BY <1>4, <1>5 DEF create_barrier

\* Barriers::release() by the owner, called or in the destructor of the session
LEMMA ReleaseObservers ==
  ASSUME FInv, NEW s \in Sessions, NEW n \in Names, Owns(s, n), Release(s, n),
         UNCHANGED <<pc, local, made, miscounted>>, pc[s] \in {"idle", "leaving"}
  PROVE  ObserverInv' /\ asleep' \subseteq asleep
<1>1. UInv /\ barrier_map[n] \in 1..made /\ barrier[barrier_map[n]] \in BarrierType
  BY BarriersAssumption DEF FInv, UInv, NameInv, Owns
<1>2. Moves(s) /\ Elsewhere(s)
  BY <1>1, StaysMoves, Zenon DEF Elsewhere, Sought, ObserverPlaces
<1>3. wakeAll(barrier_map[n], barrier[barrier_map[n]])
  BY DEF Release
<1> QED
  BY <1>1, <1>2, <1>3, ObserversWoken, Zenon

\* release_barrier(), for those who observe the barrier.
LEMMA ReleaseBarrierObservers ==
  ASSUME FInv, NEW s \in Sessions, NEW n \in Names, release_barrier(s, n)
  PROVE  SleepInv' /\ ObserverInv'
<1>1. UNCHANGED <<pc, local, interrupted, made, miscounted>> /\ Call(s) /\ pc[s] = "idle"
  BY Zenon DEF release_barrier, Call
<1>2. asleep' \subseteq asleep /\ ObserverInv'
  <2>1. CASE Owns(s, n) /\ Release(s, n)
    BY <1>1, <2>1, ReleaseObservers, Zenon
  <2>2. CASE UNCHANGED <<barrier_map, barrier, names, woken, asleep>>
    <3>1. UInv /\ UNCHANGED barriers
      BY <1>1, <2>2, Zenon DEF FInv, barriers
    <3>2. Moves(s) /\ Stays(s)
      BY <1>1, <3>1, StaysMoves
    <3> QED
      BY <2>2, <3>1, <3>2, ObserversQuiet, Zenon
  <2> QED
    BY <2>1, <2>2, Zenon DEF release_barrier
<1>3. Steps(s)
  BY <1>1, <1>2, IdleSteps
<1> QED
  BY <1>1, <1>2, <1>3, SleepKept, Zenon

\* a session that has found its barrier
LEMMA AtBarrier ==
  ASSUME FInv, NEW s \in Sessions, pc[s] \in BarrierPlaces
  PROVE  /\ UInv /\ local[s].at \in 1..made /\ local[s].at \in 1..MaxBarriers
         /\ barrier[local[s].at] \in BarrierType
         /\ miscounted \subseteq 1..MaxBarriers /\ left \in [Sessions -> Nat]
<1>1. UInv
  BY Zenon DEF FInv
<1> QED
  BY <1>1, FoundType, Zenon DEF FInv, ObserverInv, SleepInv

\* signal(), and a waiter that meets the limit, wake everybody and return.
LEMMA WakeAllObservers ==
  ASSUME FInv, NEW s \in Sessions, pc[s] \in {"signal", "arrive", "arrive_generation"},
         Return(s), NEW b \in BarrierType,
         b.observers = barrier[local[s].at].observers, wakeAll(local[s].at, b),
         UNCHANGED <<interrupted, left, made, miscounted>>
  PROVE  SleepInv' /\ ObserverInv'
<1>1. UInv /\ local[s].at \in 1..made
  BY AtBarrier, Zenon DEF BarrierPlaces
<1>2. s \notin asleep
  BY NotSleeping, Zenon DEF SleepPlaces, Interruptible
<1>3. Moves(s) /\ pc'[s] = "idle"
  BY <1>1, ReturnMoves, Zenon
<1>4. Elsewhere(s)
  BY <1>3, Zenon DEF Elsewhere, Sought, ObserverPlaces
<1>5. ObserverInv' /\ asleep' \subseteq asleep
  BY <1>1, <1>3, <1>4, ObserversWoken, Zenon
<1>6. Steps(s)
  BY <1>2, <1>5, ReturnSteps, Zenon
<1> QED
  BY <1>5, <1>6, SleepKept, Zenon

\* signal(), for those who observe the barrier.
LEMMA SignalObservers ==
  ASSUME FInv, NEW s \in Sessions, signal(s)
  PROVE  SleepInv' /\ ObserverInv'
<1>1. pc[s] = "signal" /\ barrier[local[s].at] \in BarrierType
  BY AtBarrier, Zenon DEF signal, BarrierPlaces
<1> QED
  BY <1>1, WakeAllObservers, Zenon DEF signal

\* Barrier::wait(): the observers are looked at on the way in, and again on the way out
\* when an interruption is pending.
LEMMA WaitObservers ==
  ASSUME FInv, NEW s \in Sessions, wait(s)
  PROVE  SleepInv' /\ ObserverInv'
<1>0. pc[s] = "arrive" /\ s \notin asleep
  BY NotSleeping, Zenon DEF wait, SleepPlaces, Interruptible
<1>1. PICK i \in 1..made : i = local[s].at
  BY <1>0, AtBarrier, Zenon DEF BarrierPlaces
<1>2. UInv /\ barrier[i] \in BarrierType /\ miscounted \subseteq 1..MaxBarriers
      /\ left \in [Sessions -> Nat]
  BY <1>0, <1>1, AtBarrier, Zenon DEF BarrierPlaces
<1>3. PICK come \in BarrierType : come = Arrive(barrier[i])
  BY <1>2, ArriveType, Zenon
<1>4. come.observers = barrier[i].observers
  BY <1>2, <1>3, Zenon DEF Arrive, BarrierType
<1>5. UNCHANGED <<left, made, miscounted>>
  BY Zenon DEF wait
<1>6. Ready(come) \subseteq barrier[i].observers
  BY <1>4, Zenon DEF Ready
<1>7. CASE wakeAll(i, come) /\ Return(s) /\ UNCHANGED interrupted
  BY <1>0, <1>1, <1>4, <1>5, <1>7, WakeAllObservers
<1>8. CASE /\ barrier' = [barrier EXCEPT ![i] = checkObservers(come)]
           /\ woken' = woken \cup Ready(come)
           /\ asleep' = (asleep \ Ready(come)) \cup {s}
           /\ Enter(s, "wait", [at |-> i, my_generation |-> barrier[i].generation])
           /\ UNCHANGED interrupted
  <2>1. /\ Moves(s) /\ pc'[s] = "wait"
        /\ local'[s] = [at |-> i, my_generation |-> barrier[i].generation]
    BY <1>2, <1>8, EnterMoves DEF Places, Interruptible
  <2>2. LocalOK(local'[s], made')
    BY <1>5, <2>1, LocalShapes, Zenon
  <2>3. Steps(s)
    BY <1>2, <1>5, <1>8, <2>1, <2>2, Zenon DEF Steps, SleepPlaces, Interruptible
  <2>4. Elsewhere(s)
    BY <1>0, <2>1, Zenon DEF Elsewhere, Sought, ObserverPlaces
  <2>5. miscounted' \in SUBSET (1..MaxBarriers)
    BY <1>2, <1>5, Zenon
  <2>6. /\ Ready(come) \cap (come.observers \ Ready(come)) = {}
        /\ barrier[i].observers \subseteq Ready(come) \cup (come.observers \ Ready(come))
    BY <1>4, Zenon
  <2>7. ObserverInv'
    BY <1>0, <1>4, <1>5, <1>6, <1>8, <2>1, <2>4, <2>5, <2>6, ObserversChecked, Zenon
  <2> QED
    BY <1>5, <2>3, <2>7, SleepKept
<1>9. ASSUME NEW back, back = [checkObservers(come) EXCEPT !.current_wait = @ + 1],
             Thrown(s), Return(s),
             barrier' = [barrier EXCEPT ![i] = checkObservers(back)],
             woken' = woken \cup Ready(come) \cup Ready(back),
             asleep' = asleep \ (Ready(come) \cup Ready(back))
      PROVE  SleepInv' /\ ObserverInv'
  <2>1. checkObservers(come) \in BarrierType
    BY ReadyType, Zenon
  <2>2. checkObservers(come).observers = come.observers \ Ready(come)
    BY Zenon DEF checkObservers, BarrierType
  <2>3. back \in BarrierType /\ back.observers = come.observers \ Ready(come)
    <3>1. checkObservers(come).current_wait + 1 \in Int
      BY <2>1 DEF BarrierType
    <3>2. PICK seen \in BarrierType : seen = checkObservers(come)
      BY <2>1, Zenon
    <3>3. back \in BarrierType
      BY <1>9, <3>1, <3>2 DEF BarrierType
    <3>4. back.observers = seen.observers
      BY <1>9, <3>2, Zenon DEF BarrierType
    <3> QED
      BY <2>2, <3>2, <3>3, <3>4, Zenon
  <2>4. PICK W \in SUBSET barrier[i].observers : W = Ready(come) \cup Ready(back)
    BY <1>4, <1>6, <2>3, Zenon DEF Ready
  <2>5. /\ W \cap (back.observers \ Ready(back)) = {}
        /\ barrier[i].observers \subseteq W \cup (back.observers \ Ready(back))
    BY <1>4, <2>3, <2>4, Zenon
  <2>6. Steps(s) /\ pc'[s] = "idle"
    BY <1>0, <1>5, <1>9, ReturnSteps, Zenon DEF Thrown
  <2>7. Moves(s) /\ Elsewhere(s)
    BY <1>0, <2>6, Zenon DEF Steps, Elsewhere, Sought, ObserverPlaces
  <2>8. miscounted' \in SUBSET (1..MaxBarriers) /\ woken' = woken \cup W
    BY <1>2, <1>5, <1>9, <2>4, Zenon
  <2>9. ObserverInv'
    BY <1>0, <1>4, <1>5, <1>9, <2>3, <2>5, <2>7, <2>8, ObserversChecked, Zenon
  <2> QED
    BY <1>5, <2>6, <2>9, SleepKept, Zenon
<1> QED
  BY <1>1, <1>3, <1>7, <1>8, <1>9, Zenon DEF wait

\* ... and when the wait is interrupted.
LEMMA WaitInterruptedObservers ==
  ASSUME FInv, NEW s \in Sessions, wait_interrupted(s)
  PROVE  SleepInv' /\ ObserverInv'
<1>0. pc[s] = "wait" /\ s \notin asleep /\ Thrown(s) /\ Return(s) /\ UNCHANGED <<left, made>>
  BY Zenon DEF wait_interrupted, Awake
<1>1. PICK i \in 1..made : i = local[s].at
  BY <1>0, AtBarrier, Zenon DEF BarrierPlaces, WaitPlaces
<1>2. /\ UInv /\ barrier[i] \in BarrierType /\ i \in 1..MaxBarriers
      /\ miscounted \subseteq 1..MaxBarriers
  BY <1>0, <1>1, AtBarrier, Zenon DEF BarrierPlaces, WaitPlaces
<1>3. PICK gone : gone = [barrier[i] EXCEPT !.current_wait = @ + 1]
  BY Zenon
<1>4. gone \in BarrierType /\ gone.observers = barrier[i].observers
  <2>1. barrier[i].current_wait + 1 \in Int
    BY <1>2 DEF BarrierType
  <2>2. gone \in BarrierType
    BY <1>2, <1>3, <2>1, Zenon DEF BarrierType
  <2>3. gone.observers = barrier[i].observers
    BY <1>2, <1>3 DEF BarrierType
  <2> QED
    BY <2>2, <2>3
<1>5. /\ barrier' = [barrier EXCEPT ![i] = checkObservers(gone)]
      /\ woken' = woken \cup Ready(gone)
      /\ asleep' = asleep \ Ready(gone)
      /\ miscounted' \in {miscounted, miscounted \cup {i}}
  BY <1>1, <1>3, Zenon DEF wait_interrupted
<1>6. Ready(gone) \subseteq barrier[i].observers
  BY <1>4 DEF Ready
<1>7. Steps(s) /\ pc'[s] = "idle"
  BY <1>0, <1>5, ReturnSteps DEF Thrown
<1>8. Moves(s) /\ Elsewhere(s)
  BY <1>0, <1>7, Zenon DEF Steps, Elsewhere, Sought, ObserverPlaces
<1>9. miscounted' \in SUBSET (1..MaxBarriers)
  BY <1>2, <1>5, Zenon
<1>10. /\ Ready(gone) \cap (gone.observers \ Ready(gone)) = {}
       /\ barrier[i].observers \subseteq Ready(gone) \cup (gone.observers \ Ready(gone))
  BY <1>4, Zenon
<1>11. ObserverInv'
  BY <1>0, <1>4, <1>5, <1>6, <1>8, <1>9, <1>10, ObserversChecked, Zenon
<1> QED
  BY <1>0, <1>7, <1>11, SleepKept, Zenon

\* One arrival makes the count greater by one at most.
LEMMA ComesLooked ==
  ASSUME NEW b \in BarrierType, NEW c \in BarrierType,
         c.limit = b.limit, c.current_wait = b.current_wait - 1, c.untold = b.untold + 1
  PROVE  /\ LookedAt(c) <= LookedAt(b)
         /\ LookedAt(c) \in Int /\ LookedAt(b) \in Int
<1>1. /\ b.limit \in Nat /\ b.current_wait \in Int /\ b.untold \in Nat
  BY DEF BarrierType
<1>2. count(b) \in Int /\ count(c) \in Int /\ count(c) <= count(b) + 1
  BY <1>1 DEF count
<1> QED
  BY <1>1, <1>2 DEF LookedAt

\* Barrier::wait(generation) tells no observer, which untold remembers.
LEMMA WaitGenerationObservers ==
  ASSUME FInv, NEW s \in Sessions, wait_generation(s)
  PROVE  SleepInv' /\ ObserverInv'
<1>0. /\ pc[s] = "arrive_generation" /\ s \notin asleep
      /\ UNCHANGED <<interrupted, left, barrier_map, made, names, miscounted>>
  BY NotSleeping, Zenon DEF wait_generation, SleepPlaces, Interruptible
<1>1. PICK i \in 1..made : i = local[s].at
  BY <1>0, AtBarrier, Zenon DEF BarrierPlaces
<1>2. /\ UInv /\ barrier[i] \in BarrierType /\ left \in [Sessions -> Nat]
      /\ i \in 1..MaxBarriers /\ made \in 0..MaxBarriers
      /\ barrier \in [1..MaxBarriers -> BarrierType]
  BY <1>0, <1>1, AtBarrier, Zenon DEF BarrierPlaces, FInv, UInv, NameInv
<1>3. PICK come \in BarrierType : come = Arrive(barrier[i])
  BY <1>2, ArriveType
<1>4. come.observers = barrier[i].observers
  BY <1>2, <1>3 DEF Arrive, BarrierType
<1>5. PICK c \in BarrierType : c = Untold(come)
  BY UntoldType, Zenon
<1>6. CASE Return(s) /\ UNCHANGED <<barrier, woken, asleep>>
  <2>1. UNCHANGED barriers
    BY <1>0, <1>6 DEF barriers
  <2>2. Steps(s) /\ pc'[s] = "idle"
    BY <1>0, <1>6, ReturnSteps, Zenon
  <2>3. Moves(s) /\ Elsewhere(s)
    BY <1>0, <2>2, Zenon DEF Steps, Elsewhere, Sought, ObserverPlaces
  <2> QED
    BY <1>0, <2>1, <2>2, <2>3, SleepKept, ObserversQuiet, Zenon
<1>7. CASE wakeAll(i, come) /\ Return(s)
  BY <1>0, <1>1, <1>4, <1>7, WakeAllObservers, Zenon
<1>8. CASE /\ barrier' = [barrier EXCEPT ![i] = c]
           /\ asleep' = asleep \cup {s}
           /\ Enter(s, "wait_generation", [at |-> i, my_generation |-> barrier[i].generation])
           /\ UNCHANGED woken
  <2>1. /\ Moves(s) /\ pc'[s] = "wait_generation"
        /\ local'[s] = [at |-> i, my_generation |-> barrier[i].generation]
    <3>1. "wait_generation" \in Places
      BY DEF Places
    <3> QED
      BY <1>2, <1>8, <3>1, EnterMoves
  <2>2. LocalOK(local'[s], made')
    BY <1>0, <2>1, LocalShapes, Zenon
  <2>3. Steps(s)
    BY <1>0, <1>2, <1>8, <2>1, <2>2, Zenon DEF Steps, SleepPlaces
  <2>4. barrier'[i] = c /\ \A j \in 1..made : j # i => barrier'[j] = barrier[j]
    BY <1>2, <1>8
  <2>5. /\ c.observers = barrier[i].observers
        /\ LookedAt(c) <= LookedAt(barrier[i])
        /\ LookedAt(c) \in Int /\ LookedAt(barrier[i]) \in Int
    <3>1. /\ c.observers = come.observers /\ c.limit = come.limit
          /\ c.current_wait = come.current_wait /\ c.untold = come.untold + 1
      BY <1>5, UntoldType, Zenon
    <3>2. come.limit = barrier[i].limit /\ come.current_wait = barrier[i].current_wait - 1
      BY <1>2, <1>3, ArriveType, Zenon
    <3>3. come.untold = barrier[i].untold
      BY <1>2, <1>3 DEF Arrive, BarrierType
    <3>4. c.limit = barrier[i].limit /\ c.current_wait = barrier[i].current_wait - 1
      BY <3>1, <3>2, Zenon
    <3>5. c.untold = barrier[i].untold + 1
      BY <3>1, <3>3, Zenon
    <3> QED
      BY <1>2, <1>4, <3>1, <3>4, <3>5, ComesLooked, Zenon
  <2>6. \A j \in 1..made : Told(j)
    BY DEF FInv, ObserverInv
  <2>7. \A j \in 1..made : s \notin barrier[j].observers
    BY <1>0, <2>6, Zenon DEF Told, ObserverPlaces
  <2>8. ASSUME NEW t \in c.observers
        PROVE  /\ pc'[t] \in ObserverPlaces /\ local'[t].at = i /\ t \notin woken'
               /\ LookedAt(c) < local'[t].wait_until
    <3>1. t \in barrier[i].observers /\ t \in Sessions /\ t # s
      BY <1>2, <2>5, <2>7, Zenon DEF BarrierType
    <3>2. pc'[t] = pc[t] /\ local'[t] = local[t]
      BY <2>1, <3>1, Zenon DEF Moves
    <3>3. /\ pc[t] \in ObserverPlaces /\ local[t].at = i /\ t \notin woken
          /\ LookedAt(barrier[i]) < local[t].wait_until
      BY <2>6, <3>1, Zenon DEF Told
    <3>4. local[t].wait_until \in Nat
      BY <3>1, <3>3, Zenon DEF FInv, ObserverInv, Sought
    <3>5. LookedAt(c) < local[t].wait_until
      BY <2>5, <3>3, <3>4
    <3> QED
      BY <1>8, <3>2, <3>3, <3>5, Zenon
  <2>9. Told(i)'
    BY <2>4, <2>8, Zenon DEF Told, LookedAt, count
  <2>10. ASSUME NEW j \in 1..made, j # i PROVE Told(j)'
    <3>1. barrier'[j] = barrier[j] /\ s \notin barrier'[j].observers
      BY <2>4, <2>7, <2>10, Zenon
    <3>2. barrier'[j].observers \cap woken' = {}
      BY <1>8, <2>6, <3>1, Zenon DEF Told
    <3> QED
      BY <1>0, <2>1, <3>1, <3>2, ToldKept, Zenon
  <2>11. /\ \A t \in Sessions : pc'[t] \in Sought => local'[t].wait_until \in Nat
         /\ \A t \in woken' : pc'[t] \in ObserverPlaces
    BY <1>0, <1>8, <2>1, Zenon DEF FInv, ObserverInv, Moves, Sought, ObserverPlaces
  <2>12. ASSUME NEW t \in Sessions PROVE Registered(t)'
    <3> SUFFICES ASSUME pc'[t] \in ObserverPlaces, t \notin woken'
                 PROVE  t \in barrier'[local'[t].at].observers
      BY Zenon DEF Registered
    <3>1. pc'[t] = pc[t] /\ local'[t] = local[t]
      BY <2>1, Zenon DEF Moves, ObserverPlaces
    <3>2. t \in barrier[local[t].at].observers
      BY <1>8, <3>1, Zenon DEF FInv, ObserverInv, Registered
    <3>3. local[t].at \in 1..made
      BY <3>1, Zenon DEF FInv, UInv, WaitInv, BarrierPlaces, ObserverPlaces
    <3> QED
      BY <2>4, <2>5, <3>1, <3>2, <3>3, Zenon
  <2>13. ObserverInv'
    BY <1>0, <1>8, <2>9, <2>10, <2>11, <2>12, Zenon DEF FInv, ObserverInv
  <2> QED
    BY <1>0, <2>3, <2>13, SleepKept, Zenon
<1> QED
  BY <1>1, <1>3, <1>5, <1>6, <1>7, <1>8, Zenon DEF wait_generation

\* A waiter that is woken returns or sleeps again; the observers do not see it.
LEMMA WokenObservers ==
  ASSUME FInv, NEW s \in Sessions, wait_woken(s) \/ wait_generation_woken(s)
  PROVE  SleepInv' /\ ObserverInv'
<1>1. /\ pc[s] \in WaitPlaces /\ s \notin asleep
      /\ UNCHANGED <<interrupted, left, barriers>>
  BY Zenon DEF wait_woken, wait_generation_woken, Awake, WaitPlaces
<1>2. UNCHANGED made
  BY <1>1 DEF barriers
<1>3. CASE Return(s) /\ UNCHANGED asleep
  <2>1. Steps(s) /\ pc'[s] = "idle"
    BY <1>1, <1>3, ReturnSteps, Zenon
  <2>2. Moves(s)
    BY <2>1 DEF Steps
  <2>3. Elsewhere(s)
    BY <1>1, <2>1 DEF Elsewhere, WaitPlaces, Sought, ObserverPlaces
  <2> QED
    BY <1>1, <1>2, <2>1, <2>2, <2>3, SleepKept, ObserversQuiet
<1>4. CASE asleep' = asleep \cup {s} /\ UNCHANGED <<pc, local>>
  <2>1. Steps(s) /\ Stays(s)
    BY <1>1, <1>4, StaySteps, Zenon DEF WaitPlaces, SleepPlaces, Interruptible
  <2>2. Moves(s)
    BY <2>1, Zenon DEF Steps
  <2> QED
    BY <1>1, <1>2, <2>1, <2>2, SleepKept, ObserversQuiet, Zenon
<1> QED
  BY <1>3, <1>4, Zenon DEF wait_woken, wait_generation_woken

\* An observer returns: it is on no list any more, and woken is forgotten.
LEMMA ObserverLeaves ==
  ASSUME FInv, NEW s \in Sessions, pc[s] \in ObserverPlaces, Moves(s), pc'[s] = "idle",
         woken' = woken \ {s}, UNCHANGED <<made, miscounted>>,
         \A j \in 1..made : /\ barrier'[j].observers = barrier[j].observers \ {s}
                            /\ LookedAt(barrier'[j]) = LookedAt(barrier[j])
  PROVE  ObserverInv'
<1>1. ASSUME NEW j \in 1..made PROVE Told(j)'
  <2>1. barrier'[j].observers \cap woken' = {}
    BY Zenon DEF FInv, ObserverInv, Told
  <2> QED
    BY <2>1, ToldKept, Zenon DEF ObserverPlaces
<1>2. /\ \A t \in Sessions : pc'[t] \in Sought => local'[t].wait_until \in Nat
      /\ \A t \in woken' : pc'[t] \in ObserverPlaces
  BY Zenon DEF FInv, ObserverInv, Moves, Sought, ObserverPlaces
<1>3. ASSUME NEW t \in Sessions PROVE Registered(t)'
  <2> SUFFICES ASSUME pc'[t] \in ObserverPlaces, t \notin woken'
               PROVE  t \in barrier'[local'[t].at].observers
    BY Zenon DEF Registered
  <2>1. t # s /\ pc'[t] = pc[t] /\ local'[t] = local[t]
    BY Zenon DEF Moves, ObserverPlaces
  <2>2. t \in barrier[local[t].at].observers
    BY <2>1, Zenon DEF FInv, ObserverInv, Registered
  <2>3. local[t].at \in 1..made
    BY <2>1, Zenon DEF FInv, UInv, WaitInv, BarrierPlaces, ObserverPlaces
  <2> QED
    BY <2>1, <2>2, <2>3, Zenon
<1> QED
  BY <1>1, <1>2, <1>3, Zenon DEF FInv, ObserverInv

\* An observer registers only if it has to wait.
LEMMA ObserveObservers ==
  ASSUME FInv, NEW s \in Sessions, observe(s)
  PROVE  SleepInv' /\ ObserverInv'
<1>0. /\ pc[s] = "observe" /\ s \notin asleep
      /\ UNCHANGED <<asleep, interrupted, left, barrier_map, made, names, woken, miscounted>>
  BY NotSleeping, Zenon DEF observe, SleepPlaces, Interruptible
<1>1. PICK i \in 1..made : i = local[s].at
  BY <1>0, AtBarrier, Zenon DEF BarrierPlaces
<1>2. /\ UInv /\ barrier[i] \in BarrierType /\ i \in 1..MaxBarriers /\ made \in 0..MaxBarriers
      /\ barrier \in [1..MaxBarriers -> BarrierType]
  BY <1>0, <1>1, AtBarrier, Zenon DEF BarrierPlaces, FInv, UInv, NameInv
<1>3. CASE Return(s) /\ UNCHANGED barrier
  <2>1. UNCHANGED barriers
    BY <1>0, <1>3 DEF barriers
  <2>2. Steps(s) /\ pc'[s] = "idle"
    BY <1>0, <1>3, ReturnSteps, Zenon
  <2>3. Moves(s)
    BY <2>2, Zenon DEF Steps
  <2> QED
    BY <1>0, <2>1, <2>2, <2>3, SleepKept, ObserversQuiet, Zenon
<1>4. CASE /\ ~(local[s].wait_until <= count(barrier[i]))
           /\ barrier' = [barrier EXCEPT ![i].observers = @ \cup {s}]
           /\ Goto(s, "observer")
  <2>1. Steps(s) /\ pc'[s] = "observer" /\ local'[s] = local[s]
    BY <1>0, <1>4, GotoSteps, Zenon DEF Places
  <2>2. Moves(s)
    BY <2>1 DEF Steps
  <2>3. PICK seen \in BarrierType : seen = barrier[i]
    BY <1>2
  <2>4. barrier'[i] = [seen EXCEPT !.observers = @ \cup {s}]
        /\ \A j \in 1..made : j # i => barrier'[j] = barrier[j]
    BY <1>2, <1>4, <2>3
  <2>5. PICK c : c = barrier'[i]
    BY Zenon
  <2>6. local[s].wait_until \in Nat /\ s \notin woken /\ \A j \in 1..made : Told(j)
    BY <1>0 DEF FInv, ObserverInv, Sought, ObserverPlaces
  <2>7. \A j \in 1..made : s \notin barrier[j].observers
    BY <1>0, <2>6, Zenon DEF Told, ObserverPlaces
  <2>8. /\ c.observers = seen.observers \cup {s}
        /\ LookedAt(c) = LookedAt(seen) /\ LookedAt(seen) < local[s].wait_until
    <3>1. /\ c.observers = seen.observers \cup {s}
          /\ count(c) = count(seen) /\ count(seen) \in Int
          /\ c.untold = seen.untold /\ seen.untold \in Nat
      BY <2>3, <2>4, <2>5 DEF BarrierType, count
    <3> QED
      BY <1>4, <2>3, <2>6, <3>1 DEF LookedAt
  <2>9. ASSUME NEW t \in c.observers
        PROVE  /\ pc'[t] \in ObserverPlaces /\ local'[t].at = i /\ t \notin woken'
               /\ LookedAt(c) < local'[t].wait_until
    <3>1. CASE t = s
      BY <1>0, <1>1, <2>1, <2>6, <2>8, <3>1, Zenon DEF ObserverPlaces
    <3>2. CASE t # s
      <4>1. t \in barrier[i].observers /\ t \in Sessions
        BY <2>3, <2>8, <3>2, Zenon DEF BarrierType
      <4>2. pc'[t] = pc[t] /\ local'[t] = local[t]
        BY <2>2, <3>2, <4>1 DEF Moves
      <4>3. /\ pc[t] \in ObserverPlaces /\ local[t].at = i /\ t \notin woken
            /\ LookedAt(barrier[i]) < local[t].wait_until
        BY <2>6, <4>1, Zenon DEF Told
      <4> QED
        BY <1>0, <2>3, <2>8, <4>2, <4>3, Zenon
    <3> QED
      BY <3>1, <3>2, Zenon
  <2>10. Told(i)'
    BY <2>5, <2>9, Zenon DEF Told, LookedAt, count
  <2>11. ASSUME NEW j \in 1..made, j # i PROVE Told(j)'
    <3>1. barrier'[j] = barrier[j] /\ s \notin barrier'[j].observers
      BY <2>4, <2>7, <2>11, Zenon
    <3>2. barrier'[j].observers \cap woken' = {}
      BY <1>0, <2>6, <3>1, Zenon DEF Told
    <3> QED
      BY <1>0, <2>2, <3>1, <3>2, ToldKept, Zenon
  <2>12. /\ \A t \in Sessions : pc'[t] \in Sought => local'[t].wait_until \in Nat
         /\ \A t \in woken' : pc'[t] \in ObserverPlaces
    BY <1>0, <2>1, <2>2, <2>6, Zenon DEF FInv, ObserverInv, Moves
  <2>13. ASSUME NEW t \in Sessions PROVE Registered(t)'
    <3>1. CASE t = s
      BY <1>1, <2>1, <2>5, <2>8, <3>1, Zenon DEF Registered
    <3>2. CASE t # s
      <4> SUFFICES ASSUME pc'[t] \in ObserverPlaces, t \notin woken'
                   PROVE  t \in barrier'[local'[t].at].observers
        BY Zenon DEF Registered
      <4>1. pc'[t] = pc[t] /\ local'[t] = local[t]
        BY <2>2, <3>2, Zenon DEF Moves
      <4>2. t \in barrier[local[t].at].observers
        BY <1>0, <4>1, Zenon DEF FInv, ObserverInv, Registered
      <4>3. local[t].at \in 1..made
        BY <4>1, Zenon DEF FInv, UInv, WaitInv, BarrierPlaces, ObserverPlaces
      <4> QED
        BY <2>3, <2>4, <2>5, <2>8, <4>1, <4>2, <4>3, Zenon
    <3> QED
      BY <3>1, <3>2, Zenon
  <2>14. ObserverInv'
    BY <1>0, <2>10, <2>11, <2>12, <2>13, Zenon DEF FInv, ObserverInv
  <2> QED
    BY <1>0, <2>1, <2>14, SleepKept, Zenon
<1> QED
  BY <1>1, <1>3, <1>4, Zenon DEF observe

\* What an observer does once it is registered.
LEMMA ObserverObservers ==
  ASSUME FInv, NEW s \in Sessions,
         observer(s) \/ observer_sleep(s) \/ observer_interrupted(s)
  PROVE  SleepInv' /\ ObserverInv'
<1>0. pc[s] \in ObserverPlaces /\ UNCHANGED <<left, made, miscounted>>
  BY Zenon DEF observer, observer_sleep, observer_interrupted, Awake, ObserverPlaces, barriers
<1>1. PICK i \in 1..made : i = local[s].at
  BY <1>0, AtBarrier, Zenon DEF ObserverPlaces, BarrierPlaces
<1>2. /\ UInv /\ barrier[i] \in BarrierType /\ i \in 1..MaxBarriers /\ made \in 0..MaxBarriers
      /\ barrier \in [1..MaxBarriers -> BarrierType]
  BY <1>0, <1>1, AtBarrier, Zenon DEF ObserverPlaces, BarrierPlaces, FInv, UInv, NameInv
<1>3. \A j \in 1..made : s \in barrier[j].observers => j = i /\ s \notin woken
  BY <1>1, Zenon DEF FInv, ObserverInv, Told
<1>4. CASE observer(s)
  <2>1. s \notin asleep /\ UNCHANGED <<asleep, interrupted, barrier>>
    BY <1>4, NotSleeping DEF observer, Awake, SleepPlaces, Interruptible
  <2>2. CASE s \in woken
    <3>1. Steps(s) /\ pc'[s] = "idle"
      BY <1>0, <1>4, <2>1, <2>2, ReturnSteps DEF observer
    <3>2. Moves(s) /\ woken' = woken \ {s}
      BY <1>4, <3>1, Zenon DEF Steps, observer
    <3>3. ObserverInv'
      BY <1>0, <1>3, <2>1, <2>2, <3>1, <3>2, ObserverLeaves, Zenon
    <3> QED
      BY <1>0, <3>1, <3>3, SleepKept, Zenon
  <2>3. CASE s \notin woken
    <3>1. Steps(s) /\ pc'[s] = "observing" /\ local'[s] = local[s]
      BY <1>0, <1>4, <2>1, <2>3, GotoSteps, Zenon DEF observer, Places
    <3>2. Moves(s) /\ UNCHANGED barriers /\ pc'[s] \in ObserverPlaces
      BY <1>0, <1>4, <2>3, <3>1, Zenon DEF Steps, observer, barriers, ObserverPlaces
    <3> QED
      BY <1>0, <3>1, <3>2, SleepKept, ObserversQuiet
  <2> QED
    BY <2>2, <2>3
<1>5. CASE observer_sleep(s)
  <2>1. Steps(s) /\ pc'[s] = "observer_cond" /\ local'[s] = local[s]
    BY <1>5, GotoSteps, Zenon DEF observer_sleep, Places, SleepPlaces, Interruptible
  <2>2. Moves(s) /\ UNCHANGED barriers /\ pc'[s] \in ObserverPlaces
    BY <1>5, <2>1, Zenon DEF Steps, observer_sleep, ObserverPlaces
  <2> QED
    BY <1>0, <2>1, <2>2, SleepKept, ObserversQuiet, Zenon
<1>6. CASE observer_interrupted(s)
  <2>1. /\ s \notin asleep /\ UNCHANGED asleep /\ interrupted' \subseteq interrupted /\ Return(s)
        /\ woken' = woken \ {s} /\ barrier' = [barrier EXCEPT ![i].observers = @ \ {s}]
    BY <1>1, <1>6, Zenon DEF observer_interrupted, Awake, Thrown
  <2>2. Steps(s) /\ pc'[s] = "idle"
    BY <1>0, <2>1, ReturnSteps
  <2>3. PICK seen \in BarrierType : seen = barrier[i]
    BY <1>2, Zenon
  <2>4. barrier'[i] = [seen EXCEPT !.observers = @ \ {s}]
        /\ \A j \in 1..made : j # i => barrier'[j] = barrier[j]
    BY <1>2, <2>1, <2>3
  <2>5. PICK c : c = barrier'[i]
    BY Zenon
  <2>6. Moves(s)
    BY <2>2, Zenon DEF Steps
  <2>7. \A j \in 1..made : /\ barrier'[j].observers = barrier[j].observers \ {s}
                           /\ LookedAt(barrier'[j]) = LookedAt(barrier[j])
    <3>1. c.observers = seen.observers \ {s} /\ LookedAt(c) = LookedAt(seen)
      BY <2>3, <2>4, <2>5 DEF BarrierType, count, LookedAt
    <3>2. \A j \in 1..made : j # i => barrier[j].observers \ {s} = barrier[j].observers
      BY <1>3, Zenon
    <3> QED
      BY <2>3, <2>4, <2>5, <3>1, <3>2, Zenon
  <2>8. ObserverInv'
    BY <1>0, <2>1, <2>2, <2>6, <2>7, ObserverLeaves, Zenon
  <2> QED
    BY <1>0, <2>2, <2>8, SleepKept, Zenon
<1> QED
  BY <1>4, <1>5, <1>6, Zenon

\* The end of a session, for those who observe its barriers.
LEMMA DestroyObservers ==
  ASSUME FInv, NEW s \in Sessions, destroy(s)
  PROVE  SleepInv' /\ ObserverInv'
<1>0. /\ pc[s] = "leaving" /\ s \notin asleep /\ UInv
      /\ UNCHANGED <<interrupted, left>>
  BY NotSleeping, Zenon DEF destroy, SleepPlaces, Interruptible, FInv
<1>1. CASE EraseOne(s) /\ UNCHANGED <<pc, local, barriers>>
  <2>1. asleep' \subseteq asleep /\ UNCHANGED made
    BY <1>1, EraseOneSleepers, Zenon DEF barriers
  <2>2. Steps(s) /\ Stays(s)
    BY <1>0, <1>1, <2>1, StaySteps, Zenon
  <2>3. Moves(s)
    BY <2>2 DEF Steps
  <2> QED
    BY <1>1, <2>1, <2>2, <2>3, SleepKept, ObserversQuiet, Zenon
<1>2. CASE /\ \E n \in names[s] : EraseBarrier(s, n)
           /\ UNCHANGED <<pc, local, made, miscounted, locks>>
  <2>1. PICK n \in names[s] : Release(s, n) /\ n \in Names /\ Owns(s, n)
    BY <1>0, <1>2, EraseReleases, Zenon
  <2>2. n \in Names /\ Owns(s, n)
    BY <2>1, Zenon
  <2>3. ObserverInv' /\ asleep' \subseteq asleep
    BY <1>0, <1>2, <2>1, <2>2, ReleaseObservers, Zenon
  <2>4. Steps(s) /\ Stays(s)
    BY <1>0, <1>2, <2>3, StaySteps, Zenon
  <2> QED
    BY <1>2, <2>3, <2>4, SleepKept
<1>3. CASE Goto(s, "gone") /\ UNCHANGED <<asleep, locks, barriers>>
  <2>1. Steps(s) /\ pc'[s] = "gone" /\ UNCHANGED made
    BY <1>0, <1>3, GotoSteps DEF Places, barriers
  <2>2. Moves(s) /\ Elsewhere(s)
    BY <1>0, <2>1 DEF Steps, Elsewhere, Sought, ObserverPlaces
  <2> QED
    BY <1>3, <2>1, <2>2, SleepKept, ObserversQuiet, Zenon
<1> QED
  BY <1>1, <1>2, <1>3, Zenon DEF destroy

\* Every step keeps the invariant.
LEMMA NextFInv == FInv /\ [Next]_vars => FInv'
<1> SUFFICES ASSUME FInv, [Next]_vars PROVE SleepInv' /\ ObserverInv'
  BY NextUInv, Zenon DEF FInv
<1>1. CASE UNCHANGED vars
  <2>1. UNCHANGED <<pc, local, asleep, interrupted, left, barrier, made, woken, miscounted>>
    BY <1>1 DEF vars, session, barriers
  <2>2. SleepInv'
    BY <2>1 DEF FInv, SleepInv
  <2>3. \A i : Told(i)' <=> Told(i)
    BY <2>1, Zenon DEF Told, LookedAt, count
  <2>4. \A s \in Sessions : Registered(s)' <=> Registered(s)
    BY <2>1, Zenon DEF Registered
  <2> QED
    BY <2>1, <2>2, <2>3, <2>4, Zenon DEF FInv, ObserverInv
<1>2. ASSUME NEW s \in Sessions, LockCall(s) \/ LockStep(s), UNCHANGED barriers
      PROVE  SleepInv' /\ ObserverInv'
  <2>1. Steps(s) /\ Elsewhere(s) /\ UNCHANGED made
    BY <1>2, LockCallSteps, LockStepSteps, Zenon DEF barriers
  <2>2. Moves(s)
    BY <2>1, Zenon DEF Steps
  <2> QED
    BY <1>2, <2>1, <2>2, SleepKept, ObserversQuiet, Zenon
<1>3. ASSUME NEW s \in Sessions, BarrierCall(s) PROVE SleepInv' /\ ObserverInv'
  <2>1. CASE \E n \in Names : create_barrier(s, n) \/ release_barrier(s, n)
    BY <2>1, CreateBarrierObservers, ReleaseBarrierObservers, Zenon
  <2>2. CASE \E n \in Names : find_to_wait(s, n) \/ find_to_signal(s, n)
    <3>1. PICK n \in Names : find_to_wait(s, n) \/ find_to_signal(s, n)
      BY <2>2
    <3>2. PICK args : args = [at |-> barrier_map[n]]
      BY Zenon
    <3>3. \A m : barrier_map[n] \in 1..m => LocalOK(args, m)
      BY <3>2, LocalShapes, Zenon
    <3> QED
      BY <3>1, <3>2, <3>3, FindSteps, Zenon DEF find_to_wait, find_to_signal
  <2>3. CASE \E n \in Names, g \in Generations : find_generation(s, n, g)
    <3>1. PICK n \in Names, g \in Generations : find_generation(s, n, g)
      BY <2>3
    <3>2. PICK args : args = [at |-> barrier_map[n], my_generation |-> g]
      BY Zenon
    <3>3. \A m : barrier_map[n] \in 1..m => LocalOK(args, m)
      BY <3>2, LocalShapes, Zenon
    <3> QED
      BY <3>1, <3>2, <3>3, FindSteps, Zenon DEF find_generation
  <2>4. CASE \E n \in Names, u \in Counts : find_to_observe(s, n, u)
    <3>1. PICK n \in Names, u \in Counts : find_to_observe(s, n, u)
      BY <2>4, Zenon
    <3>2. PICK args : args = [at |-> barrier_map[n], wait_until |-> u]
      BY Zenon
    <3>3. \A m : barrier_map[n] \in 1..m => LocalOK(args, m)
      BY <3>2, LocalShapes, Zenon
    <3>4. args.wait_until \in Nat
      BY <3>2, FunctionsAssumption, Zenon
    <3> QED
      BY <3>1, <3>2, <3>3, <3>4, FindSteps, Zenon DEF find_to_observe
  <2> QED
    BY <1>3, <2>1, <2>2, <2>3, <2>4, Zenon DEF BarrierCall
<1>4. ASSUME NEW s \in Sessions, BarrierStep(s) PROVE SleepInv' /\ ObserverInv'
  BY <1>4, SignalObservers, WaitObservers, WokenObservers, WaitInterruptedObservers,
     WaitGenerationObservers, ObserveObservers, ObserverObservers, Zenon DEF BarrierStep
<1>5. ASSUME NEW s \in Sessions, disconnect(s) PROVE SleepInv' /\ ObserverInv'
  <2>1. /\ pc[s] = "idle" /\ s \notin asleep /\ Goto(s, "leaving")
        /\ UNCHANGED <<asleep, interrupted, left, locks, barriers>>
    BY <1>5, NotSleeping, Zenon DEF disconnect, SleepPlaces, Interruptible
  <2>2. Steps(s) /\ pc'[s] = "leaving" /\ UNCHANGED made
    BY <2>1, GotoSteps DEF Places, barriers
  <2>3. Moves(s) /\ Elsewhere(s)
    BY <2>1, <2>2, Zenon DEF Steps, Elsewhere, Sought, ObserverPlaces
  <2> QED
    BY <2>1, <2>2, <2>3, SleepKept, ObserversQuiet, Zenon
<1>6. ASSUME NEW s \in Sessions, awake(s) PROVE SleepInv' /\ ObserverInv'
  <2>1. /\ UNCHANGED <<pc, local, left, barriers>> /\ asleep' \subseteq asleep
        /\ interrupted' \subseteq interrupted \cup {s}
    BY <1>6, Zenon DEF awake
  <2>2. s \in asleep' => pc[s] \in SleepPlaces
    BY <2>1, Zenon DEF FInv, SleepInv
  <2>3. Steps(s) /\ Stays(s) /\ UNCHANGED made
    BY <2>1, <2>2, StaySteps, Zenon DEF barriers
  <2>4. Moves(s)
    BY <2>3 DEF Steps
  <2> QED
    BY <2>1, <2>3, <2>4, SleepKept, ObserversQuiet, Zenon
<1> QED
  BY <1>1, <1>2, <1>3, <1>4, <1>5, <1>6, DestroyObservers, Zenon DEF Next, Run

-----------------------------------------------------------------------------
(* No wake-up is lost.  A sleeper's own state changes only when it runs, so  *)
(* what has to be shown is that whoever ends a generation or takes a lock    *)
(* wakes all who sleep for it, and that nobody falls asleep too late.        *)
SleepsWell(t) ==
  /\ pc[t] \in WaitPlaces => local[t].my_generation = barrier[local[t].at].generation
  /\ pc[t] = "create_cond" => lock_map[local[t].key] = NoSession

\* A step of s ends no generation, and takes no lock, that others still sleep for.
KeepsGenerations(s) ==
  \A t \in asleep' \ {s} : pc[t] \in WaitPlaces =>
    barrier'[local[t].at].generation = barrier[local[t].at].generation

KeepsFree(s) ==
  \A t \in asleep' \ {s} : pc[t] = "create_cond" /\ lock_map[local[t].key] = NoSession =>
    lock_map'[local[t].key] = NoSession

\* The property is that everybody who sleeps does so well.
LEMMA VainMeans ==
  ASSUME asleep \subseteq Sessions
  PROVE  NobodySleepsInVain <=> \A t \in asleep : SleepsWell(t)
BY Zenon DEF NobodySleepsInVain, LetGo, SleepsWell, WaitPlaces

\* A step that keeps what the others sleep for.
LEMMA VainStep ==
  ASSUME FInv, NobodySleepsInVain, NEW s \in Sessions, Moves(s), asleep' \subseteq asleep \cup {s},
         KeepsGenerations(s), KeepsFree(s), s \in asleep' => SleepsWell(s)'
  PROVE  NobodySleepsInVain'
<1>1. asleep \subseteq Sessions
  BY Zenon DEF FInv, SleepInv
<1>2. asleep' \subseteq Sessions
  BY <1>1, Zenon
<1>3. ASSUME NEW t \in asleep', t # s PROVE SleepsWell(t)'
  <2>1. t \in asleep /\ t \in Sessions /\ pc'[t] = pc[t] /\ local'[t] = local[t]
    BY <1>1, <1>3, Zenon DEF Moves
  <2>2. SleepsWell(t)
    BY <1>1, <2>1, VainMeans, Zenon
  <2>3. pc[t] \in WaitPlaces => barrier'[local[t].at].generation = barrier[local[t].at].generation
    BY <1>3, Zenon DEF KeepsGenerations
  <2>4. pc[t] = "create_cond" /\ lock_map[local[t].key] = NoSession =>
          lock_map'[local[t].key] = NoSession
    BY <1>3, Zenon DEF KeepsFree
  <2> QED
    BY <2>1, <2>2, <2>3, <2>4, Zenon DEF SleepsWell
<1>4. \A t \in asleep' : SleepsWell(t)'
  BY <1>3, Zenon
<1> QED
  BY <1>2, <1>4, Zenon DEF NobodySleepsInVain, LetGo, SleepsWell, WaitPlaces

\* A lock that is given up is free, and whoever slept for another one still does.
LEMMA EraseKeepsFree ==
  ASSUME FInv, NEW s, asleep' \subseteq Sessions, NEW k \in Keys,
         lock_map' = [lock_map EXCEPT ![k] = NoSession] \/ lock_map' = lock_map
  PROVE  KeepsFree(s)
<1>1. lock_map \in [Keys -> Sessions \cup {NoSession}]
  BY Zenon DEF FInv, UInv, LockInv
<1>2. \A j \in Keys : lock_map[j] = NoSession => lock_map'[j] = NoSession
  BY <1>1, Zenon
<1>3. \A t \in Sessions : pc[t] = "create_cond" => local[t].key \in Keys
  BY Zenon DEF FInv, UInv, LockInv, KeyPlaces
<1> QED
  BY <1>2, <1>3, Zenon DEF KeepsFree

\* The further steps of the lock functions.
LEMMA LockStepKeeps ==
  ASSUME FInv, NEW s \in Sessions, LockStep(s), asleep' \subseteq Sessions
  PROVE  KeepsFree(s) /\ (s \in asleep' => SleepsWell(s)')
<1>0. UInv /\ lock_map \in [Keys -> Sessions \cup {NoSession}]
  BY Zenon DEF FInv, UInv, LockInv
<1>1. lock_map' = lock_map => KeepsFree(s)
  BY Zenon DEF KeepsFree
<1>2. ASSUME NEW place \in Places, Goto(s, place),
             place \notin WaitPlaces \cup {"create_cond"}
      PROVE  SleepsWell(s)'
  BY <1>0, <1>2, GotoMoves, Zenon DEF SleepsWell
<1>3. ASSUME Return(s) PROVE SleepsWell(s)'
  BY <1>0, <1>3, ReturnMoves, Zenon DEF SleepsWell, WaitPlaces
<1>4. CASE erase_all(s)
  <2>1. PICK k \in list[s] : \/ lock_map' = [lock_map EXCEPT ![k] = NoSession]
                             \/ lock_map' = lock_map
    BY <1>4, Zenon DEF erase_all, EraseOne, Erase
  <2>2. k \in Keys
    BY <2>1, Zenon DEF FInv, UInv, LockInv
  <2>3. PICK place \in {"erase_lock", "erase_end", "lock", "idle"} : Goto(s, place)
    BY <1>4, Zenon DEF erase_all
  <2>4. place \in Places /\ place \notin WaitPlaces \cup {"create_cond"}
    BY <2>3 DEF Places, WaitPlaces
  <2> QED
    BY <1>2, <2>1, <2>2, <2>3, <2>4, EraseKeepsFree, Zenon
<1>5. CASE lock(s)
  <2>1. CASE Return(s) /\ asleep' = asleep \ CreateSleepers
    BY <1>3, <2>1, Zenon DEF KeepsFree, CreateSleepers
  <2>2. CASE /\ lock_map[local[s].key] = s /\ Return(s)
             /\ lock_map' = [lock_map EXCEPT ![local[s].key] = s]
    <3>1. lock_map' = lock_map
      BY <1>0, <2>2, Zenon
    <3> QED
      BY <1>1, <1>3, <2>2, <3>1, Zenon
  <2>3. CASE Goto(s, "release_cond") /\ lock_map' = lock_map
    BY <1>1, <1>2, <2>3, Zenon DEF Places, Interruptible, WaitPlaces
  <2> QED
    BY <1>5, <2>1, <2>2, <2>3, Zenon DEF lock
<1>6. CASE lock_timeout(s) \/ interrupted_wait(s)
  BY <1>1, <1>3, <1>6, Zenon DEF lock_timeout, interrupted_wait, locks
<1>7. CASE released_and_created(s)
  <2>1. pc[s] = "create_cond" /\ lock_map' = lock_map
    BY <1>7, Zenon DEF released_and_created, Awake
  <2>2. CASE lock_map[local[s].key] # NoSession
    BY <1>1, <1>3, <1>7, <2>1, <2>2, Zenon DEF released_and_created
  <2>3. CASE lock_map[local[s].key] = NoSession
    BY <1>1, <1>7, <2>1, <2>3, Zenon DEF released_and_created, SleepsWell, WaitPlaces
  <2> QED
    BY <2>2, <2>3, Zenon
<1>8. CASE isUsed(s)
  BY <1>1, <1>2, <1>3, <1>8, Zenon DEF isUsed, locks, Places, WaitPlaces
<1>9. CASE waitCreate(s)
  BY <1>1, <1>2, <1>9, Zenon DEF waitCreate, locks, Places, Interruptible, WaitPlaces
<1>10. CASE waited(s)
  BY <1>1, <1>2, <1>10, Zenon DEF waited, locks, Places, WaitPlaces
<1> QED
  BY <1>4, <1>5, <1>6, <1>7, <1>8, <1>9, <1>10, Zenon DEF LockStep

\* The lock functions: a session that takes a lock wakes everybody who waits for the
\* creation of one.
LEMMA LockVain ==
  ASSUME FInv, NobodySleepsInVain, NEW s \in Sessions, LockCall(s) \/ LockStep(s),
         UNCHANGED barriers
  PROVE  NobodySleepsInVain'
<1>1. /\ Moves(s) /\ asleep' \subseteq asleep \cup {s} /\ asleep \subseteq Sessions
      /\ s \in asleep' => pc'[s] \in SleepPlaces
  BY LockCallSteps, LockStepSteps, Zenon DEF Steps, FInv, SleepInv
<1>2. KeepsGenerations(s)
  BY Zenon DEF KeepsGenerations, barriers
<1>3. asleep' \subseteq Sessions
  BY <1>1, Zenon
<1>4. ASSUME Call(s), s \in asleep' => s \in asleep PROVE s \in asleep' => SleepsWell(s)'
  BY <1>4, CallLeft, Zenon
<1>5. lock_map' = lock_map => KeepsFree(s)
  BY Zenon DEF KeepsFree
<1>6. asleep' = asleep \ CreateSleepers => KeepsFree(s)
  BY Zenon DEF KeepsFree, CreateSleepers
<1>7. KeepsFree(s) /\ (s \in asleep' => SleepsWell(s)')
  <2>1. CASE release_locks(s)
    BY <1>4, <1>5, <2>1, Zenon DEF release_locks, locks
  <2>2. CASE \E K \in KeySets : get_locks(s, K)
    <3>1. PICK K \in KeySets : get_locks(s, K)
      BY <2>2, Zenon
    <3> QED
      BY <1>4, <1>5, <1>6, <3>1, Zenon DEF get_locks
  <2>3. CASE \E k \in Keys : get_lock(s, k) \/ wait_for_lock(s, k)
    BY <1>4, <1>5, <2>3, Zenon DEF get_lock, wait_for_lock, locks
  <2>4. CASE \E k \in Keys : release_lock(s, k) \/ is_free_lock(s, k)
    <3>1. PICK k \in Keys : release_lock(s, k) \/ is_free_lock(s, k)
      BY <2>4, Zenon
    <3>2. lock_map' = [lock_map EXCEPT ![k] = NoSession] \/ lock_map' = lock_map
      BY <3>1, Zenon DEF release_lock, is_free_lock, Erase
    <3>3. Call(s) /\ asleep' \subseteq asleep
      BY <3>1, Notified, Zenon DEF release_lock, is_free_lock, Erase
    <3> QED
      BY <1>3, <1>4, <3>2, <3>3, EraseKeepsFree, Zenon
  <2>5. CASE \E k \in Keys : release_lock_and_wait(s, k)
    <3>1. PICK k \in Keys : release_lock_and_wait(s, k)
      BY <2>5, Zenon
    <3>2. CASE lock_map[k] # s
      BY <1>4, <1>5, <3>1, <3>2, Zenon DEF release_lock_and_wait
    <3>3. CASE lock_map[k] = s
      <4>1. lock_map' = [lock_map EXCEPT ![k] = NoSession] /\ Enter(s, "create_cond", [key |-> k])
        BY <3>1, <3>3, Zenon DEF release_lock_and_wait
      <4>2. pc'[s] = "create_cond" /\ local'[s] = [key |-> k]
        BY <4>1, EnterMoves, Zenon DEF FInv, Places, Interruptible
      <4>3. lock_map'[k] = NoSession
        BY <4>1, Zenon DEF FInv, UInv, LockInv
      <4>4. local'[s].key = k
        BY <4>2
      <4>5. SleepsWell(s)'
        BY <4>2, <4>3, <4>4, Zenon DEF SleepsWell, WaitPlaces
      <4> QED
        BY <1>3, <4>1, <4>5, EraseKeepsFree, Zenon
    <3> QED
      BY <3>2, <3>3, Zenon
  <2>6. CASE LockStep(s)
    BY <1>3, <2>6, LockStepKeeps, Zenon
  <2> QED
    BY <2>1, <2>2, <2>3, <2>4, <2>5, <2>6, Zenon DEF LockCall
<1> QED
  BY <1>1, <1>2, <1>7, VainStep, Zenon

\* wakeAll() wakes everybody who sleeps at the barrier whose generation it ends.
LEMMA WakeAllKeeps ==
  ASSUME FInv, NEW s, NEW i \in 1..MaxBarriers, NEW b, wakeAll(i, b)
  PROVE  KeepsGenerations(s) /\ asleep' \subseteq asleep
<1>1. /\ barrier' = [barrier EXCEPT ![i] = checkObservers(NextGeneration(b))]
      /\ asleep' \subseteq asleep \ Sleepers(i)
  BY Zenon DEF wakeAll
<1>2. asleep \subseteq Sessions /\ barrier \in [1..MaxBarriers -> BarrierType]
  BY Zenon DEF FInv, UInv, NameInv, SleepInv
<1> SUFFICES ASSUME NEW t \in asleep' \ {s}, pc[t] \in WaitPlaces
             PROVE  barrier'[local[t].at].generation = barrier[local[t].at].generation
  BY <1>1, Zenon DEF KeepsGenerations
<1>3. local[t].at # i
  BY <1>1, Zenon DEF Sleepers, WaitPlaces
<1>4. local[t].at \in 1..MaxBarriers
  BY <1>1, <1>2, AtBarrier, Zenon DEF BarrierPlaces
<1> QED
  BY <1>1, <1>2, <1>3, <1>4, Zenon

\* A step that changes one barrier and leaves its generation.
LEMMA GenerationKeeps ==
  ASSUME FInv, NEW s, asleep' \subseteq Sessions, NEW i \in 1..MaxBarriers, NEW c,
         barrier' = [barrier EXCEPT ![i] = c], c.generation = barrier[i].generation
  PROVE  /\ KeepsGenerations(s)
         /\ \A j \in 1..MaxBarriers : barrier'[j].generation = barrier[j].generation
<1>1. \A j \in 1..MaxBarriers : barrier'[j].generation = barrier[j].generation
  BY Zenon DEF FInv, UInv, NameInv
<1>2. \A t \in Sessions : pc[t] \in WaitPlaces => local[t].at \in 1..MaxBarriers
  BY AtBarrier, Zenon DEF BarrierPlaces
<1> QED
  BY <1>1, <1>2, Zenon DEF KeepsGenerations

\* The counting operations leave the generation of a barrier.
LEMMA SameGeneration ==
  ASSUME NEW b \in BarrierType
  PROVE  /\ Arrive(b) \in BarrierType /\ Arrive(b).generation = b.generation
         /\ checkObservers(b) \in BarrierType /\ checkObservers(b).generation = b.generation
         /\ [b EXCEPT !.current_wait = @ + 1] \in BarrierType
         /\ [b EXCEPT !.current_wait = @ + 1].generation = b.generation
         /\ \A S \in SUBSET Sessions :
              [b EXCEPT !.observers = S].generation = b.generation
<1>1. checkObservers(b) \in BarrierType /\ checkObservers(b).generation = b.generation
  BY ReadyType, Zenon
<1>2. Arrive(b) \in BarrierType /\ Arrive(b).generation = b.generation
  BY ArriveType, Zenon
<1>3. b.current_wait + 1 \in Int
  BY DEF BarrierType
<1>4. [b EXCEPT !.current_wait = @ + 1] \in BarrierType
  BY <1>3, Zenon DEF BarrierType
<1>5. [b EXCEPT !.current_wait = @ + 1].generation = b.generation
  BY DEF BarrierType
<1>6. \A S \in SUBSET Sessions : [b EXCEPT !.observers = S].generation = b.generation
  BY DEF BarrierType
<1> QED
  BY <1>1, <1>2, <1>4, <1>5, <1>6, Zenon

\* A step of the barrier functions after which the session is not in a wait that it
\* has to be woken from, or has just begun one.
LEMMA BarrierKeeps ==
  ASSUME FInv, NobodySleepsInVain, NEW s \in Sessions, UNCHANGED locks, Moves(s),
         asleep' \subseteq asleep \cup {s}, KeepsGenerations(s),
         \/ s \notin asleep'
         \/ pc'[s] \notin WaitPlaces \cup {"create_cond"}
         \/ /\ pc'[s] \in WaitPlaces
            /\ local'[s].my_generation = barrier'[local'[s].at].generation
  PROVE  NobodySleepsInVain'
<1>1. KeepsFree(s)
  BY Zenon DEF KeepsFree, locks
<1>2. s \in asleep' => SleepsWell(s)'
  BY Zenon DEF SleepsWell, WaitPlaces
<1> QED
  BY <1>1, <1>2, VainStep, Zenon

\* The calls of the barrier functions.
LEMMA BarrierCallVain ==
  ASSUME FInv, NobodySleepsInVain, NEW s \in Sessions, BarrierCall(s), UNCHANGED locks
  PROVE  NobodySleepsInVain'
<1>0. UInv /\ asleep \subseteq Sessions
  BY Zenon DEF FInv, SleepInv
<1>1. Call(s) => s \notin asleep
  BY CallLeft, Zenon
<1>2. UNCHANGED barrier => KeepsGenerations(s)
  BY Zenon DEF KeepsGenerations
<1>3. CASE \E n \in Names : create_barrier(s, n)
  <2>1. PICK n \in Names : create_barrier(s, n)
    BY <1>3, Zenon
  <2>2. UNCHANGED <<pc, local, asleep>> /\ s \notin asleep
    BY <1>1, <2>1, Zenon DEF create_barrier
  <2>3. Moves(s)
    BY <1>0, <2>2, StaysMoves, Zenon
  <2>4. made \in Nat /\ barrier \in [1..MaxBarriers -> BarrierType]
    BY BarriersAssumption DEF FInv, UInv, NameInv
  <2>5. \A j \in 1..made : barrier'[j] = barrier[j]
    <3>1. CASE UNCHANGED barrier
      BY <3>1, Zenon
    <3>2. CASE made' = made + 1 /\ \E limit \in Limits :
                 barrier' = [barrier EXCEPT ![made'] = Barrier(s, limit)]
      <4>1. \A j \in 1..made : j # made'
        BY <2>4, <3>2
      <4>2. 1..made \subseteq 1..MaxBarriers
        BY BarriersAssumption DEF FInv, UInv, NameInv
      <4> QED
        BY <2>4, <3>2, <4>1, <4>2, Zenon
    <3> QED
      BY <2>1, <3>1, <3>2, Zenon DEF create_barrier
  <2>6. KeepsGenerations(s)
    BY <1>0, <2>2, <2>5, AtBarrier, Zenon DEF KeepsGenerations, BarrierPlaces
  <2> QED
    BY <2>2, <2>3, <2>6, BarrierKeeps, Zenon
<1>4. CASE \E n \in Names : release_barrier(s, n)
  <2>1. PICK n \in Names : release_barrier(s, n)
    BY <1>4, Zenon
  <2>2. UNCHANGED <<pc, local>> /\ s \notin asleep
    BY <1>1, <2>1, Zenon DEF release_barrier
  <2>3. Moves(s)
    BY <1>0, <2>2, StaysMoves, Zenon
  <2>4. CASE Owns(s, n) /\ Release(s, n)
    <3>1. barrier_map[n] \in 1..MaxBarriers
      BY <2>4, BarriersAssumption DEF FInv, UInv, NameInv, Owns
    <3>2. KeepsGenerations(s) /\ asleep' \subseteq asleep
      BY <2>4, <3>1, WakeAllKeeps, Zenon DEF Release
    <3> QED
      BY <2>2, <2>3, <3>2, BarrierKeeps, Zenon
  <2>5. CASE UNCHANGED <<barrier, asleep>>
    BY <1>2, <2>2, <2>3, <2>5, BarrierKeeps, Zenon
  <2> QED
    BY <2>1, <2>4, <2>5, Zenon DEF release_barrier
<1>5. ASSUME NEW n \in Names, NEW args, NEW place \in Places, find(s, n, place, args)
      PROVE  NobodySleepsInVain'
  <2>1. UNCHANGED <<asleep, barrier>> /\ s \notin asleep
    BY <1>1, <1>5, Zenon DEF find, barriers
  <2>2. Moves(s)
    BY <1>0, <1>5, StaysMoves, EnterMoves, Zenon DEF find
  <2> QED
    BY <1>2, <2>1, <2>2, BarrierKeeps, Zenon
<1>6. {"arrive", "signal", "arrive_generation", "observe"} \subseteq Places
  BY DEF Places
<1>7. CASE \E n \in Names : find_to_wait(s, n) \/ find_to_signal(s, n)
  <2>1. PICK n \in Names : find_to_wait(s, n) \/ find_to_signal(s, n)
    BY <1>7, Zenon
  <2>2. PICK args : args = [at |-> barrier_map[n]]
    BY Zenon
  <2>3. find(s, n, "arrive", args) \/ find(s, n, "signal", args)
    BY <2>1, <2>2, Zenon DEF find_to_wait, find_to_signal
  <2> QED
    BY <1>5, <1>6, <2>3, Zenon
<1>8. CASE \E n \in Names, g \in Generations : find_generation(s, n, g)
  <2>1. PICK n \in Names, g \in Generations : find_generation(s, n, g)
    BY <1>8, Zenon
  <2>2. PICK args : args = [at |-> barrier_map[n], my_generation |-> g]
    BY Zenon
  <2>3. find(s, n, "arrive_generation", args)
    BY <2>1, <2>2, Zenon DEF find_generation
  <2> QED
    BY <1>5, <1>6, <2>3, Zenon
<1>9. CASE \E n \in Names, u \in Counts : find_to_observe(s, n, u)
  <2>1. PICK n \in Names, u \in Counts : find_to_observe(s, n, u)
    BY <1>9, Zenon
  <2>2. PICK args : args = [at |-> barrier_map[n], wait_until |-> u]
    BY Zenon
  <2>3. find(s, n, "observe", args)
    BY <2>1, <2>2, Zenon DEF find_to_observe
  <2> QED
    BY <1>5, <1>6, <2>3, Zenon
<1> QED
  BY <1>3, <1>4, <1>7, <1>8, <1>9, Zenon DEF BarrierCall

\* A session that returns from a barrier function, having ended the generation of its
\* barrier or left it as it was.
LEMMA BarrierReturns ==
  ASSUME FInv, NobodySleepsInVain, NEW s \in Sessions, UNCHANGED locks, Return(s),
         asleep' \subseteq asleep, KeepsGenerations(s)
  PROVE  NobodySleepsInVain'
<1>1. Moves(s) /\ pc'[s] = "idle"
  BY ReturnMoves, Zenon DEF FInv
<1>2. pc'[s] \notin WaitPlaces \cup {"create_cond"}
  BY <1>1, Zenon DEF WaitPlaces
<1> QED
  BY <1>1, <1>2, BarrierKeeps, Zenon

\* signal(), and the two waits: who comes last wakes everybody, who comes earlier sleeps
\* in the generation it has found, who is interrupted leaves the generation.
LEMMA WaitVain ==
  ASSUME FInv, NobodySleepsInVain, NEW s \in Sessions, UNCHANGED locks,
         signal(s) \/ wait(s) \/ wait_generation(s) \/ wait_interrupted(s)
  PROVE  NobodySleepsInVain'
<1>1. pc[s] \in {"signal", "arrive", "arrive_generation", "wait"}
  BY Zenon DEF signal, wait, wait_generation, wait_interrupted, Awake
<1>2. PICK i \in 1..MaxBarriers : i = local[s].at /\ barrier[i] \in BarrierType
  BY <1>1, AtBarrier, Zenon DEF BarrierPlaces, WaitPlaces
<1>3. UInv /\ asleep \subseteq Sessions
  BY Zenon DEF FInv, SleepInv
<1>4. ASSUME NEW b, wakeAll(i, b), Return(s) PROVE NobodySleepsInVain'
  BY <1>4, WakeAllKeeps, BarrierReturns, Zenon
<1>5. ASSUME NEW c, barrier' = [barrier EXCEPT ![i] = c], c.generation = barrier[i].generation,
             asleep' \subseteq asleep, Return(s)
      PROVE  NobodySleepsInVain'
  <2>1. KeepsGenerations(s)
    BY <1>3, <1>5, GenerationKeeps, Zenon
  <2> QED
    BY <1>5, <2>1, BarrierReturns, Zenon
<1>6. ASSUME NEW c, barrier' = [barrier EXCEPT ![i] = c], c.generation = barrier[i].generation,
             asleep' \subseteq asleep \cup {s}, NEW place \in WaitPlaces, NEW l,
             Enter(s, place, l), l.at = i, l.my_generation = barrier[i].generation
      PROVE  NobodySleepsInVain'
  <2>1. asleep' \subseteq Sessions
    BY <1>3, <1>6, Zenon
  <2>2. KeepsGenerations(s) /\ barrier'[i].generation = barrier[i].generation
    BY <1>6, <2>1, GenerationKeeps, Zenon
  <2>3. place \in Places
    BY Zenon DEF WaitPlaces, Places, Interruptible
  <2>4. Moves(s) /\ pc'[s] = place /\ local'[s] = l
    BY <1>3, <1>6, <2>3, EnterMoves, Zenon
  <2> QED
    BY <1>6, <2>2, <2>4, BarrierKeeps, Zenon
<1>7. PICK come : come = Arrive(barrier[i])
  BY Zenon
<1>8. come \in BarrierType /\ come.generation = barrier[i].generation
  BY <1>2, <1>7, SameGeneration, Zenon
<1>9. PICK l : l = [at |-> i, my_generation |-> barrier[i].generation]
  BY Zenon
<1>10. l.at = i /\ l.my_generation = barrier[i].generation
  BY <1>9
<1>11. CASE signal(s)
  BY <1>2, <1>4, <1>11, Zenon DEF signal
<1>12. CASE wait(s)
  <2>1. PICK seen : seen = checkObservers(come)
    BY Zenon
  <2>2. PICK back : back = [seen EXCEPT !.current_wait = @ + 1]
    BY Zenon
  <2>3. /\ seen \in BarrierType /\ seen.generation = barrier[i].generation
        /\ back \in BarrierType /\ back.generation = barrier[i].generation
        /\ checkObservers(back).generation = barrier[i].generation
    <3>1. seen \in BarrierType /\ seen.generation = barrier[i].generation
      BY <1>8, <2>1, SameGeneration, Zenon
    <3>2. back \in BarrierType /\ back.generation = seen.generation
      BY <2>2, <3>1, SameGeneration, Zenon
    <3>3. checkObservers(back).generation = back.generation
      BY <3>2, SameGeneration, Zenon
    <3> QED
      BY <3>1, <3>2, <3>3, Zenon
  <2>4. CASE wakeAll(i, come) /\ Return(s)
    BY <1>4, <2>4, Zenon
  <2>5. CASE /\ barrier' = [barrier EXCEPT ![i] = seen]
             /\ asleep' \subseteq asleep \cup {s} /\ Enter(s, "wait", l)
    BY <1>6, <1>10, <2>3, <2>5, Zenon DEF WaitPlaces
  <2>6. CASE /\ barrier' = [barrier EXCEPT ![i] = checkObservers(back)]
             /\ asleep' \subseteq asleep /\ Return(s)
    BY <1>5, <2>3, <2>6, Zenon
  <2> QED
    BY <1>2, <1>7, <1>9, <1>12, <2>1, <2>2, <2>4, <2>5, <2>6, Zenon DEF wait
<1>13. CASE wait_generation(s)
  <2>1. CASE Return(s) /\ UNCHANGED <<barrier, asleep>>
    <3>1. KeepsGenerations(s)
      BY <2>1, Zenon DEF KeepsGenerations
    <3> QED
      BY <2>1, <3>1, BarrierReturns, Zenon
  <2>2. CASE wakeAll(i, come) /\ Return(s)
    BY <1>4, <2>2, Zenon
  <2>3. CASE /\ barrier' = [barrier EXCEPT ![i] = Untold(come)]
             /\ asleep' \subseteq asleep \cup {s} /\ Enter(s, "wait_generation", l)
    <3>1. PICK c : c = Untold(come)
      BY Zenon
    <3>2. c.generation = come.generation
      BY <1>8, <3>1, UntoldType, Zenon
    <3>3. c.generation = barrier[i].generation
      BY <1>8, <3>2, Zenon
    <3>4. barrier' = [barrier EXCEPT ![i] = c]
      BY <2>3, <3>1, Zenon
    <3>5. "wait_generation" \in WaitPlaces
      BY Zenon DEF WaitPlaces
    <3> QED
      BY <1>6, <1>10, <2>3, <3>3, <3>4, <3>5
  <2> QED
    BY <1>2, <1>7, <1>9, <1>13, <2>1, <2>2, <2>3, Zenon DEF wait_generation
<1>14. CASE wait_interrupted(s)
  <2>1. PICK gone : gone = [barrier[i] EXCEPT !.current_wait = @ + 1]
    BY Zenon
  <2>2. checkObservers(gone).generation = barrier[i].generation
    BY <1>2, <2>1, SameGeneration
  <2>3. /\ barrier' = [barrier EXCEPT ![i] = checkObservers(gone)]
        /\ asleep' \subseteq asleep /\ Return(s)
    BY <1>2, <1>14, <2>1, Zenon DEF wait_interrupted
  <2> QED
    BY <1>5, <2>2, <2>3, Zenon
<1> QED
  BY <1>11, <1>12, <1>13, <1>14, Zenon

\* A waiter that is woken looks at the generation before it sleeps again; the steps of
\* an observer touch no generation.
LEMMA ObserverVain ==
  ASSUME FInv, NobodySleepsInVain, NEW s \in Sessions, UNCHANGED locks,
         \/ wait_woken(s) \/ wait_generation_woken(s) \/ observe(s) \/ observer(s)
         \/ observer_sleep(s) \/ observer_interrupted(s)
  PROVE  NobodySleepsInVain'
<1>1. UInv /\ asleep \subseteq Sessions
  BY Zenon DEF FInv, SleepInv
<1>2. UNCHANGED barrier => KeepsGenerations(s)
  BY Zenon DEF KeepsGenerations
<1>3. CASE wait_woken(s) \/ wait_generation_woken(s)
  <2>1. UNCHANGED barrier /\ pc[s] \in WaitPlaces
    BY <1>3, Zenon DEF wait_woken, wait_generation_woken, Awake, barriers, WaitPlaces
  <2>2. CASE Return(s) /\ UNCHANGED asleep
    BY <1>2, <2>1, <2>2, BarrierReturns, Zenon
  <2>3. CASE /\ local[s].my_generation = barrier[local[s].at].generation
             /\ asleep' = asleep \cup {s} /\ UNCHANGED <<pc, local>>
    <3>1. Moves(s)
      BY <1>1, <2>3, StaysMoves, Zenon
    <3> QED
      BY <1>2, <2>1, <2>3, <3>1, BarrierKeeps, Zenon
  <2> QED
    BY <1>3, <2>2, <2>3, Zenon DEF wait_woken, wait_generation_woken
<1>4. ASSUME NEW S \in SUBSET Sessions, pc[s] \in BarrierPlaces,
             barrier' = [barrier EXCEPT ![local[s].at].observers = S],
             asleep' \subseteq Sessions
      PROVE  KeepsGenerations(s)
  <2>1. PICK i \in 1..MaxBarriers : i = local[s].at /\ barrier[i] \in BarrierType
    BY <1>4, AtBarrier, Zenon
  <2>2. PICK c : c = [barrier[i] EXCEPT !.observers = S]
    BY Zenon
  <2>3. c.generation = barrier[i].generation
    BY <1>4, <2>1, <2>2, SameGeneration, Zenon
  <2>4. barrier' = [barrier EXCEPT ![i] = c]
    BY <1>4, <2>1, <2>2, Zenon
  <2> QED
    BY <1>4, <2>3, <2>4, GenerationKeeps, Zenon
<1>5. ASSUME NEW place \in {"observer", "observing", "observer_cond"}, Goto(s, place),
             asleep' \subseteq asleep \cup {s}, KeepsGenerations(s)
      PROVE  NobodySleepsInVain'
  <2>1. place \in Places /\ place \notin WaitPlaces \cup {"create_cond"}
    BY Zenon DEF Places, Interruptible, WaitPlaces
  <2>2. Moves(s) /\ pc'[s] = place
    BY <1>1, <1>5, <2>1, GotoMoves, Zenon
  <2> QED
    BY <1>5, <2>1, <2>2, BarrierKeeps, Zenon
<1>6. pc[s] \in BarrierPlaces => barrier[local[s].at].observers \in SUBSET Sessions
  BY AtBarrier, Zenon DEF BarrierType
<1>7. CASE observe(s)
  <2>1. pc[s] \in BarrierPlaces /\ UNCHANGED asleep
    BY <1>7, Zenon DEF observe, BarrierPlaces
  <2>2. CASE Return(s) /\ UNCHANGED barrier
    BY <1>2, <2>1, <2>2, BarrierReturns, Zenon
  <2>3. CASE /\ barrier' = [barrier EXCEPT ![local[s].at].observers = @ \cup {s}]
             /\ Goto(s, "observer")
    <3>1. PICK S \in SUBSET Sessions : S = barrier[local[s].at].observers \cup {s}
      BY <1>6, <2>1, Zenon
    <3>2. barrier' = [barrier EXCEPT ![local[s].at].observers = S]
      BY <2>3, <3>1, Zenon
    <3>3. KeepsGenerations(s)
      BY <1>1, <1>4, <2>1, <3>2, Zenon
    <3> QED
      BY <1>5, <2>1, <2>3, <3>3, Zenon
  <2> QED
    BY <1>7, <2>2, <2>3, Zenon DEF observe
<1>8. CASE observer(s)
  BY <1>2, <1>5, <1>8, BarrierReturns, Zenon DEF observer
<1>9. CASE observer_sleep(s)
  BY <1>2, <1>5, <1>9, Zenon DEF observer_sleep, barriers
<1>10. CASE observer_interrupted(s)
  <2>1. /\ pc[s] \in BarrierPlaces /\ UNCHANGED asleep /\ Return(s)
        /\ barrier' = [barrier EXCEPT ![local[s].at].observers = @ \ {s}]
    BY <1>10, Zenon DEF observer_interrupted, Awake, BarrierPlaces
  <2>2. PICK S \in SUBSET Sessions : S = barrier[local[s].at].observers \ {s}
    BY <1>6, <2>1, Zenon
  <2>3. barrier' = [barrier EXCEPT ![local[s].at].observers = S]
    BY <2>1, <2>2, Zenon
  <2>4. KeepsGenerations(s)
    BY <1>1, <1>4, <2>1, <2>3, Zenon
  <2> QED
    BY <2>1, <2>4, BarrierReturns, Zenon
<1> QED
  BY <1>3, <1>7, <1>8, <1>9, <1>10, Zenon

\* The end of a session gives its locks up and ends the generations of its barriers.
LEMMA DestroyVain ==
  ASSUME FInv, NobodySleepsInVain, NEW s \in Sessions, destroy(s)
  PROVE  NobodySleepsInVain'
<1>1. UInv /\ asleep \subseteq Sessions /\ s \notin asleep
  BY NotSleeping, Zenon DEF destroy, SleepPlaces, Interruptible, FInv, SleepInv
<1>2. CASE EraseOne(s) /\ UNCHANGED <<pc, local, barriers>>
  <2>1. PICK k \in list[s] : \/ lock_map' = [lock_map EXCEPT ![k] = NoSession]
                             \/ lock_map' = lock_map
    BY <1>2, Zenon DEF EraseOne, Erase
  <2>2. k \in Keys /\ asleep' \subseteq asleep
    BY <1>2, <2>1, EraseOneSleepers, Zenon DEF FInv, UInv, LockInv
  <2>3. asleep' \subseteq Sessions /\ s \notin asleep'
    BY <1>1, <2>2, Zenon
  <2>4. KeepsFree(s)
    BY <2>1, <2>2, <2>3, EraseKeepsFree, Zenon
  <2>5. Moves(s)
    BY <1>1, <1>2, StaysMoves, Zenon
  <2>6. KeepsGenerations(s)
    BY <1>2, Zenon DEF KeepsGenerations, barriers
  <2> QED
    BY <2>2, <2>3, <2>4, <2>5, <2>6, VainStep, Zenon
<1>3. CASE /\ \E n \in names[s] : EraseBarrier(s, n)
           /\ UNCHANGED <<pc, local, made, miscounted, locks>>
  <2>1. PICK n \in names[s] : Release(s, n) /\ n \in Names /\ Owns(s, n)
    BY <1>1, <1>3, EraseReleases, Zenon
  <2>2. n \in Names /\ Owns(s, n)
    BY <2>1, Zenon
  <2>3. barrier_map[n] \in 1..MaxBarriers
    BY <2>2, BarriersAssumption DEF FInv, UInv, NameInv, Owns
  <2>4. KeepsGenerations(s) /\ asleep' \subseteq asleep
    BY <2>1, <2>3, WakeAllKeeps, Zenon DEF Release
  <2>5. Moves(s)
    BY <1>1, <1>3, StaysMoves, Zenon
  <2> QED
    BY <1>1, <1>3, <2>4, <2>5, BarrierKeeps, Zenon
<1>4. CASE Goto(s, "gone") /\ UNCHANGED <<asleep, locks, barriers>>
  <2>1. Moves(s)
    BY <1>1, <1>4, GotoMoves, Zenon DEF Places
  <2>2. KeepsGenerations(s)
    BY <1>4, Zenon DEF KeepsGenerations, barriers
  <2> QED
    BY <1>1, <1>4, <2>1, <2>2, BarrierKeeps, Zenon
<1> QED
  BY <1>2, <1>3, <1>4, Zenon DEF destroy

\* Every step leaves everybody asleep only for what is to come.
LEMMA NextVain == FInv /\ NobodySleepsInVain /\ [Next]_vars => NobodySleepsInVain'
<1> SUFFICES ASSUME FInv, NobodySleepsInVain, [Next]_vars PROVE NobodySleepsInVain'
  BY Zenon
<1>1. CASE /\ UNCHANGED <<pc, local, lock_map, barrier>>
           /\ asleep' \subseteq asleep
  BY <1>1, Zenon DEF NobodySleepsInVain, LetGo
<1>2. CASE UNCHANGED vars
  BY <1>1, <1>2, Zenon DEF vars, session, locks, barriers
<1>3. ASSUME NEW s \in Sessions, BarrierStep(s), UNCHANGED locks PROVE NobodySleepsInVain'
  BY <1>3, WaitVain, ObserverVain, Zenon DEF BarrierStep
<1>4. ASSUME NEW s \in Sessions, disconnect(s) PROVE NobodySleepsInVain'
  <2>1. Goto(s, "leaving") /\ UNCHANGED <<asleep, locks, barriers>>
    BY <1>4, Zenon DEF disconnect
  <2>2. Moves(s) /\ pc'[s] = "leaving"
    BY <2>1, GotoMoves, Zenon DEF FInv, Places
  <2>3. KeepsGenerations(s)
    BY <2>1, Zenon DEF KeepsGenerations, barriers
  <2> QED
    BY <2>1, <2>2, <2>3, BarrierKeeps, Zenon DEF WaitPlaces
<1>5. ASSUME NEW s \in Sessions, awake(s) PROVE NobodySleepsInVain'
  BY <1>1, <1>5, Zenon DEF awake, locks, barriers
<1> QED
  BY <1>2, <1>3, <1>4, <1>5, LockVain, BarrierCallVain, DestroyVain, Zenon DEF Next, Run

-----------------------------------------------------------------------------
(* The initial state, and the theorems.                                      *)
INSTANCE FiniteSetTheorems

\* There are finitely many sessions, and they can be counted.
LEMMA SessionsCounted == Counting
<1>1. Cardinality({}) = 0
  BY FS_EmptySet, Zenon
<1>2. ASSUME NEW T \in SUBSET Sessions
      PROVE  /\ Cardinality(T) \in Nat
             /\ \A s \in Sessions \ T : Cardinality(T \cup {s}) = Cardinality(T) + 1
  <2>1. IsFiniteSet(T)
    BY SessionsAssumption, FS_Subset
  <2> QED
    BY <2>1, FS_CardinalityType, FS_AddElement, Zenon
<1> QED
  BY <1>1, <1>2 DEF Counting

\* The invariant holds before the first call.
LEMMA InitUInv == Init => UInv
<1> SUFFICES ASSUME Init PROVE UInv
  OBVIOUS
<1>1. LockInv
  BY SessionsAssumption DEF Init, LockInv, WaiterHoldsNothing, Places, KeyPlaces
<1>2. NameInv
  BY SessionsAssumption, BarriersAssumption DEF Init, NameInv, Barrier, BarrierType, Owns
<1>3. WaitInv
  BY BarriersAssumption DEF Init, WaitInv, BarrierPlaces, WaitPlaces
<1> QED
  BY <1>1, <1>2, <1>3, SessionsCounted DEF UInv

\* So does the rest of it.
LEMMA InitFInv == Init => FInv
<1> SUFFICES ASSUME Init PROVE FInv
  OBVIOUS
<1>1. SleepInv
  <2>1. PICK w \in Workloads : left = w.budget
    BY DEF Init
  <2>2. left \in [Sessions -> Nat]
    BY <2>1, FunctionsAssumption, Zenon
  <2>3. \A s \in Sessions : LocalOK(local[s], made)
    <3>1. \A s \in Sessions : local[s] = NoLocal
      BY Zenon DEF Init
    <3> QED
      BY <3>1, LocalShapes
  <2> QED
    BY <2>2, <2>3, Zenon DEF Init, SleepInv
<1>2. ObserverInv
  BY BarriersAssumption DEF Init, ObserverInv, Told, Registered, Sought, ObserverPlaces
<1> QED
  BY <1>1, <1>2, InitUInv DEF FInv

\* Whatever the sessions call and whoever is killed: a lock or barrier that is there is
\* in the list its owner's Storable works through when the session ends, and no session
\* that is gone owns one.
THEOREM LocksAndBarriersDoNotDangle == Spec => []NothingDangles
<1> QED
  BY InitUInv, NextUInv, UInvImplies, PTL DEF Spec

\* A session that waits in Locks::lock() has no lock, for any number of keys and sessions.
THEOREM LockWaitersHoldNothing == Spec => []WaiterHoldsNothing
<1> QED
  BY InitUInv, NextUInv, UInvImplies, PTL DEF Spec

\* Barrier::count() is the number of waiters of the current generation and stays below
\* the limit, on every barrier no waiter was counted out of twice.
THEOREM BarriersCountTheirWaiters == Spec => []CountIsRight
<1> QED
  BY InitUInv, NextUInv, UInvImplies, PTL DEF Spec


\* Every variable of the sessions, locks and barriers keeps its type, and whoever is
\* asleep is in a wait.
THEOREM UserFunctionsTypeCorrect == Spec => []TypeOK
<1> QED
  BY InitFInv, NextFInv, FInvImplies, PTL DEF Spec

\* Barrier::checkObservers() misses no observer, for any number of them and of waiters,
\* killed or not: whoever is in wait_until() has been told or is on the list, and one on
\* the list waits for more than there were when checkObservers() last ran.
THEOREM NoObserverIsMissed == Spec => []ObserversAreTold
<1> QED
  BY InitFInv, NextFInv, FInvImplies, PTL DEF Spec

\* wakeAll(), lock() and get_locks() wake whoever sleeps for what they do, for any number
\* of sessions, keys and barriers: nobody sleeps at a barrier for a generation that has
\* ended, or in release_lock_and_wait() for a lock that is there.
THEOREM NoSleeperIsForgotten == Spec => []NobodySleepsInVain
<1>1. Init => NobodySleepsInVain
  BY Zenon DEF Init, NobodySleepsInVain
<1> QED
  BY <1>1, InitFInv, NextFInv, NextVain, PTL DEF Spec
=============================================================================
