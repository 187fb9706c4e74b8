--------------------------- MODULE ThrLockProofs ---------------------------
(* What ThrLock promises, for any sessions, tables and statements.           *)
EXTENDS ThrLockSteps

-----------------------------------------------------------------------------
(* wait_for_lock().                                                          *)
LEMMA UnlockedIsFree ==
  ASSUME TInv, NEW d \in Data, Named(d)
  PROVE  /\ type[d] = TL_UNLOCK => Free(d)
         /\ ~(Held(d) /\ Waits(d))
<1>1. PICK lock : lock = THR_LOCK(Home(d)) /\ Sound(lock)
  BY HomeOfNamed, Zenon DEF TInv, TableInv
<1>2. TL_UNLOCK \notin ReadTypes \cup WriteTypes
  BY DEF TL_UNLOCK, ReadTypes, WriteTypes, TL_READ, TL_READ_WITH_SHARED_LOCKS,
         TL_WRITE_ALLOW_WRITE, TL_WRITE_ALLOW_READ, TL_WRITE, TL_WRITE_ONLY
<1>3. (Held(d) <=> Holds(lock, d)) /\ (Waits(d) <=> Queued(lock, d))
  BY <1>1, Zenon DEF Held, Waits
<1>4. type[d] = TL_UNLOCK => ~Holds(lock, d) /\ ~Queued(lock, d)
  BY <1>1, <1>2, Zenon DEF Sound, Holds, Queued
<1>5. ~(Holds(lock, d) /\ Queued(lock, d))
  BY <1>1, Zenon DEF Sound
<1> QED
  BY <1>3, <1>4, <1>5, Zenon DEF Free

(* The lock a session waits for.                                             *)
LEMMA WaitSetup ==
  ASSUME TInv, NEW s \in Sessions, pc[s] = "wait", NEW d, d = Current(s)
  PROVE  /\ d \in Data /\ Named(d) /\ d[1] = s /\ Home(d) = Table(s, d[2]) /\ Home(d) \in Tables
         /\ Held(d) \/ Waits(d) \/ type[d] = TL_UNLOCK
         /\ Waits(d) <=> In(d, read_wait[Home(d)]) \/ In(d, write_wait[Home(d)])
<1>1. PICK n : n = Len(stmt[s].tables)
  BY Zenon
<1>2. d = Sorted(s, pos[s]) /\ d \in Data /\ Named(d)
  BY <1>1, AtLock, Zenon
<1>3. d[1] = s /\ Home(d) \in Tables
  BY <1>2, HomeOfNamed DEF Sorted
<1>4. Home(d) = Table(s, d[2])
  BY <1>3, Zenon DEF Home
<1>5. Held(d) \/ Waits(d) \/ type[d] = TL_UNLOCK
  BY Zenon DEF TInv, SessionInv
<1>6. Waits(d) <=> In(d, read_wait[Home(d)]) \/ In(d, write_wait[Home(d)])
  BY Zenon DEF Waits, Queued, THR_LOCK
<1> QED
  BY <1>2, <1>3, <1>4, <1>5, <1>6, Zenon

(* A wait ends with the lock, or without.                                    *)
LEMMA WokenKeeps ==
  ASSUME TInv, NEW s \in Sessions, pc[s] = "wait", NEW d, d = Current(s), ~Waits(d),
         IF type[d] = TL_UNLOCK THEN Fail(s) ELSE NextLock(s),
         UNCHANGED << lists, type, stmt, left, killed, abort >>
  PROVE  TInv'
<1>1. d \in Data /\ Named(d) /\ d[1] = s /\ (Held(d) \/ type[d] = TL_UNLOCK)
  BY WaitSetup, Zenon
<1>2. TypeTypes' /\ TypeInv(d)'
  BY <1>1, SameTypes, Zenon
<1>3. PICK none \in SUBSET Data : none = {}
  BY Zenon
<1>4. UNCHANGED lists
  BY Zenon DEF lists
<1>5. /\ ListTypes' /\ \A u \in Tables : TableInv(u)'
      /\ Others(none) /\ \A e \in Data : Free(e) => Free(e)'
  BY <1>3, <1>4, StillStep, Zenon
<1>6. Others({d}) /\ (Held(d) => Held(d)') /\ (~Waits(d) => ~Waits(d)')
  BY <1>1, <1>3, <1>5, Zenon DEF Others
<1>7. CASE type[d] = TL_UNLOCK
  <2>1. Free(d)'
    BY <1>1, <1>5, <1>7, UnlockedIsFree, Zenon
  <2> QED
    BY <1>1, <1>2, <1>5, <1>6, <1>7, <2>1, FailureKeeps
<1>8. CASE type[d] # TL_UNLOCK
  <2>1. SessionInv(s)'
    BY <1>1, <1>6, <1>8, GoesOn
  <2>2. ThreadTypes' /\ \A u \in Sessions \ {s} : pc'[u] = pc[u] /\ pos'[u] = pos[u]
    BY <1>8, ThreadAfterLock, Zenon
  <2> QED
    BY <1>2, <1>3, <1>5, <2>1, <2>2, Assemble, Zenon
<1> QED
  BY <1>7, <1>8, Zenon

(* The wait for a lock.                                                      *)
LEMMA wait_for_lock_Keeps ==
  ASSUME TInv, NEW s \in Sessions, wait_for_lock(s)
  PROVE  TInv'
<1>1. PICK d : d = Current(s)
  BY Zenon
<1>2. pc[s] = "wait" /\ UNCHANGED << stmt, left, killed, abort >>
  BY Zenon DEF wait_for_lock, At
<1>3. /\ d \in Data /\ Named(d) /\ d[1] = s /\ Home(d) = Table(s, d[2])
      /\ Waits(d) <=> In(d, read_wait[Home(d)]) \/ In(d, write_wait[Home(d)])
  BY <1>1, <1>2, WaitSetup, Zenon
<1>4. CASE /\ ~Waits(d) /\ UNCHANGED << lists, type >>
           /\ IF type[d] = TL_UNLOCK THEN Fail(s) ELSE NextLock(s)
  BY <1>1, <1>2, <1>4, WokenKeeps, Zenon
<1>5. CASE /\ Waits(d) /\ type' = [type EXCEPT ![d] = TL_UNLOCK]
           /\ Install(Home(d), wake_up_waiters(Dequeue(THR_LOCK(Home(d)), d)))
           /\ Fail(s)
  <2>1. ~Held(d)
    BY <1>3, <1>5, UnlockedIsFree, Zenon
  <2>2. TypeTypes' /\ TypeInv(d)' /\ \A e \in Data \ {d} : type'[e] = type[e]
    BY <1>2, <1>3, <1>5, UnlockType, Zenon
  <2>3. ListTypes' /\ (\A u \in Tables : TableInv(u)') /\ Others({d}) /\ Free(d)'
    BY <1>2, <1>3, <1>5, <2>1, <2>2, DequeueStep, Zenon
  <2> QED
    BY <1>1, <1>2, <1>3, <1>5, <2>2, <2>3, FailureKeeps, Zenon
<1> QED
  BY <1>1, <1>3, <1>4, <1>5, Zenon DEF wait_for_lock

-----------------------------------------------------------------------------
(* The end of a statement.                                                   *)
LEMMA NobodyWaits ==
  ASSUME TInv, NEW s \in Sessions, pc[s] # "wait", NEW out, Others(out), stmt' = stmt,
         \A e \in out : ~Waits(e)', NEW n, n = Len(stmt[s].tables)
  PROVE  \A i \in 1..n : ~Waits(<< s, i >>) /\ ~Waits(<< s, i >>)'
<1>1. \A i \in 1..n : ~Waits(<< s, i >>)
  BY Zenon DEF TInv, SessionInv
<1>2. \A i \in 1..n : << s, i >> \notin out => (Waits(<< s, i >>)' => Waits(<< s, i >>))
  BY OwnLocks, Zenon
<1> QED
  BY <1>1, <1>2, Zenon

(* Nothing but the waits matters of a session about to unlock.               *)
LEMMA AtUnlock ==
  ASSUME TInv, NEW s \in Sessions, pc[s] # "wait", NEW out, Others(out), stmt' = stmt,
         \A e \in out : ~Waits(e)', pc'[s] = "unlock"
  PROVE  SessionInv(s)'
<1>1. PICK n : n = Len(stmt[s].tables)
  BY Zenon
<1>2. \A i \in 1..n : ~Waits(<< s, i >>)'
  BY <1>1, NobodyWaits, Zenon
<1>3. n = Len(stmt'[s].tables)
  BY <1>1, Zenon
<1> QED
  BY <1>2, <1>3, Zenon DEF SessionInv

(* Steps that are not about locks.                                           *)
LEMMA QuietKeeps ==
  ASSUME TInv, NEW s \in Sessions, UNCHANGED << lists, type, stmt, pos >>, ThreadTypes',
         pc' = pc \/ (pc' = [pc EXCEPT ![s] = "unlock"] /\ pc[s] # "wait")
  PROVE  TInv'
<1>1. TypeTypes'
  BY SameTypes, Zenon
<1>2. PICK none \in SUBSET Data : none = {}
  BY Zenon
<1>3. UNCHANGED lists
  BY Zenon DEF lists
<1>4. ListTypes' /\ (\A u \in Tables : TableInv(u)') /\ Others(none)
  BY <1>2, <1>3, StillStep
<1>5. \A u \in Sessions \ {s} : pc'[u] = pc[u] /\ pos'[u] = pos[u]
  BY TypeParts, Zenon DEF ThreadTypes
<1>6. SessionInv(s)'
  <2>1. CASE pc' = pc
    BY <1>2, <1>4, <2>1, SessionKeeps, Zenon
  <2>2. CASE pc' = [pc EXCEPT ![s] = "unlock"] /\ pc[s] # "wait"
    <3>1. pc'[s] = "unlock"
      BY <2>2, TypeParts, Zenon DEF ThreadTypes
    <3> QED
      BY <1>2, <1>4, <2>2, <3>1, AtUnlock, Zenon
  <2> QED
    BY <2>1, <2>2, Zenon
<1> QED
  BY <1>1, <1>2, <1>4, <1>5, <1>6, Assemble, Zenon

(* The actions that change no lock.                                          *)
LEMMA QuietActionsKeep ==
  ASSUME TInv, NEW s \in Sessions,
         execute(s) \/ table_removed(s) \/ awake(s) \/ lockOnSys(s)
  PROVE  TInv'
<1>1. ThreadTypes
  BY TypeParts, Zenon
<1>2. CASE execute(s) \/ table_removed(s)
  <2>1. /\ pc' = [pc EXCEPT ![s] = "unlock"] /\ pc[s] # "wait"
        /\ UNCHANGED << lists, type, stmt, pos, answer, left, killed, abort >>
    BY <1>2, Zenon DEF execute, table_removed, At, Goto
  <2>2. ThreadTypes'
    BY <1>1, <2>1, Zenon DEF ThreadTypes, Places
  <2> QED
    BY <2>1, <2>2, QuietKeeps, Zenon
<1>3. CASE awake(s) \/ lockOnSys(s)
  <2>1. UNCHANGED << lists, type, pc, stmt, pos, answer, left >>
    BY <1>3, Zenon DEF awake, lockOnSys, thread
  <2>2. /\ killed' \in [Sessions -> { "NOT_KILLED", "KILL_QUERY", "KILL_CONNECTION" }]
        /\ abort' \subseteq Sessions
    BY <1>1, <1>3, Zenon DEF awake, lockOnSys, ThreadTypes
  <2>3. ThreadTypes'
    BY <1>1, <2>1, <2>2, Zenon DEF ThreadTypes
  <2> QED
    BY <2>1, <2>3, QuietKeeps, Zenon
<1> QED
  BY <1>2, <1>3, Zenon

(* One lock is given back.                                                   *)
LEMMA UnlockKeeps ==
  ASSUME TInv, NEW s \in Sessions, NEW i \in 1..Len(stmt[s].tables), thr_unlock(s, i),
         pc[s] \in { "fail", "unlock" } \/ (pc[s] = "locked" /\ stmt[s].command = "SELECT"),
         UNCHANGED << thread, killed, abort >>
  PROVE  TInv'
<1>0. UNCHANGED << pc, stmt, pos, answer, left, killed, abort >>
  BY Zenon DEF thread
<1>1. PICK d : d = << s, i >>
  BY Zenon
<1>2. PICK n : n = Len(stmt[s].tables)
  BY Zenon
<1>3. ~Waits(d)
  BY <1>1, Zenon DEF TInv, SessionInv
<1>4. /\ ListTypes' /\ \A u \in Tables : TableInv(u)'
      /\ Others({d}) /\ Free(d)'
      /\ type' = [type EXCEPT ![d] = TL_UNLOCK] /\ d \in Data /\ Named(d)
  BY <1>0, <1>1, <1>3, UnlockStep, Zenon
<1>5. TypeTypes' /\ TypeInv(d)' /\ type'[d] = TL_UNLOCK
  BY <1>0, <1>4, UnlockType, Zenon
<1>6. ThreadTypes'
  BY <1>0, TypeParts, Zenon DEF ThreadTypes
<1>7. /\ n = Len(stmt'[s].tables) /\ n \in Nat
      /\ \A k : Sorted(s, k)' = Sorted(s, k)
      /\ \A k \in 1..n : Sorted(s, k) \notin {d} => (Free(Sorted(s, k)) => Free(Sorted(s, k))')
  BY <1>0, <1>2, <1>4, OwnLocks, Zenon
<1>8. \A j \in 1..n : << s, j >> \notin {d} =>
         /\ Held(<< s, j >>) => Held(<< s, j >>)'
         /\ type[<< s, j >>] = TL_UNLOCK => type'[<< s, j >>] = TL_UNLOCK
  BY <1>0, <1>2, <1>4, OwnLocks, Zenon
<1>9. \A j \in 1..n : ~Waits(<< s, j >>)'
  <2>1. \A e \in {d} : ~Waits(e)'
    BY <1>4, Zenon DEF Free
  <2> QED
    BY <1>0, <1>2, <1>4, <2>1, NobodyWaits, Zenon
<1>10. SessionInv(s)'
  <2>1. CASE pc[s] = "fail"
    <3>1. pos'[s] \in 1..n
      BY <1>0, <1>2, <2>1, Zenon DEF TInv, SessionInv
    <3>2. ASSUME NEW k \in 1..n, k >= pos'[s] PROVE Free(Sorted(s, k))'
      <4>1. Free(Sorted(s, k))
        BY <1>0, <1>2, <2>1, <3>2 DEF TInv, SessionInv
      <4>2. CASE Sorted(s, k) = d
        <5>1. Sorted(s, k)' = d
          BY <1>7, <4>2, Zenon
        <5> QED
          BY <1>4, <5>1, Zenon DEF Free, Held, Waits, Holds, Queued, Home, In
      <4> QED
        BY <1>7, <4>1, <4>2, Zenon
    <3> QED
      BY <1>0, <1>7, <1>9, <2>1, <3>1, <3>2, Zenon DEF SessionInv
  <2>2. CASE pc[s] = "locked" /\ stmt[s].command = "SELECT"
    <3>1. \A j \in 1..n :
            Held(<< s, j >>) \/ (stmt[s].command = "SELECT" /\ type[<< s, j >>] = TL_UNLOCK)
      BY <1>2, <2>2 DEF TInv, SessionInv
    <3>2. \A j \in 1..n :
            Held(<< s, j >>)' \/ (stmt'[s].command = "SELECT" /\ type'[<< s, j >>] = TL_UNLOCK)
      BY <1>0, <1>5, <1>8, <2>2, <3>1, Zenon
    <3> QED
      BY <1>0, <1>7, <1>9, <2>2, <3>2, Zenon DEF SessionInv
  <2>3. CASE pc[s] = "unlock"
    BY <1>0, <1>7, <1>9, <2>3, Zenon DEF SessionInv
  <2> QED
    BY <2>1, <2>2, <2>3, Zenon
<1>11. PICK out \in SUBSET Data : out = {d}
  BY <1>4, Zenon
<1>12. \A e \in out : e[1] = s
  BY <1>1, <1>11
<1> QED
  BY <1>0, <1>4, <1>5, <1>6, <1>10, <1>11, <1>12, Assemble, Zenon

(* All have been given back.                                                 *)
LEMMA CloseKeeps ==
  ASSUME TInv, NEW s \in Sessions, pc[s] \in { "fail", "unlock" },
         \A i \in 1..Len(stmt[s].tables) : Free(<< s, i >>), Close(s),
         \/ type' = type
         \/ type' = [d \in Data |-> IF d[1] = s THEN TL_UNLOCK ELSE type[d]],
         UNCHANGED << lists, stmt, pos, left >>
  PROVE  TInv'
<1>0. UNCHANGED << stmt, pos, left >> /\ UNCHANGED lists
  BY Zenon DEF lists
<1>1. PICK n : n = Len(stmt[s].tables)
  BY Zenon
<1>2. PICK out \in SUBSET Data : out = { d \in Data : d[1] = s }
  BY Zenon
<1>3. \A e \in out : Named(e) => Free(e)
  <2>1. \A e \in Data : e[1] = s /\ Named(e) => \E i \in 1..n : e = << s, i >>
    BY <1>1, DataOfSession, Zenon DEF TInv
  <2> QED
    BY <1>1, <1>2, <2>1, Zenon
<1>4. \A e \in Data \ out : type'[e] = type[e]
  BY <1>2, Zenon
<1>5. /\ ListTypes' /\ \A u \in Tables : TableInv(u)'
      /\ Others(out) /\ \A e \in Data : Free(e) => Free(e)'
  BY <1>0, <1>3, <1>4, StillStep, Zenon
<1>6. TypeTypes' /\ \A e \in out : e[1] = s /\ (Named(e) => TypeInv(e)')
  <2>1. CASE type' = type
    BY <1>0, <1>2, <2>1, SameTypes, Zenon
  <2>2. CASE type' = [d \in Data |-> IF d[1] = s THEN TL_UNLOCK ELSE type[d]]
    <3>1. \A e \in out : e \in Data /\ e[1] = s /\ type'[e] = TL_UNLOCK
      BY <1>2, <2>2, Zenon
    <3>2. \A e \in out : TypeInv(e)'
      BY <3>1, Zenon DEF TypeInv, TL_UNLOCK
    <3>3. TypeTypes'
      <4>1. TL_UNLOCK \in TL_UNLOCK..TL_WRITE_ONLY
        BY DEF TL_UNLOCK, TL_WRITE_ONLY
      <4>2. type' \in [Data -> TL_UNLOCK..TL_WRITE_ONLY]
        BY <2>2, <4>1, TypeParts, Zenon DEF TypeTypes
      <4> QED
        BY <4>2, Zenon DEF TypeTypes, Data, TL_UNLOCK, TL_WRITE_ONLY
    <3> QED
      BY <3>1, <3>2, <3>3, Zenon
  <2> QED
    BY <2>1, <2>2, Zenon
<1>7. pc' = [pc EXCEPT ![s] = "idle"] /\ ThreadTypes'
  <2>1. ThreadTypes
    BY TypeParts, Zenon
  <2>2. /\ pc' = [pc EXCEPT ![s] = "idle"]
        /\ answer' \in [Sessions -> { "none", "ok", "error" }]
        /\ killed' \in [Sessions -> { "NOT_KILLED", "KILL_QUERY", "KILL_CONNECTION" }]
        /\ abort' \subseteq Sessions
    BY <2>1, Zenon DEF Close, Goto, ThreadTypes
  <2> QED
    BY <1>0, <2>1, <2>2, Zenon DEF ThreadTypes, Places
<1>8. pc'[s] = "idle" /\ \A u \in Sessions \ {s} : pc'[u] = pc[u] /\ pos'[u] = pos[u]
  BY <1>0, <1>7, TypeParts, Zenon DEF ThreadTypes
<1>9. SessionInv(s)'
  <2>1. \A i \in 1..n : << s, i >> \in Data /\ Free(<< s, i >>)
    BY <1>1, DataOfSession, Zenon DEF TInv
  <2>2. \A i \in 1..n : Free(<< s, i >>)'
    BY <1>5, <2>1, Zenon
  <2>3. n = Len(stmt'[s].tables)
    BY <1>0, <1>1, Zenon
  <2> QED
    BY <1>8, <2>2, <2>3, Zenon DEF SessionInv, Free
<1> QED
  BY <1>0, <1>5, <1>6, <1>7, <1>8, <1>9, Assemble, Zenon

(* The first of a set of indices.                                            *)
LEMMA FirstIn ==
  ASSUME NatIsWellOrdered, NEW n \in Nat, NEW got \in SUBSET (1..n), got # {}
  PROVE  (CHOOSE k \in got : \A l \in got : k <= l) \in got
<1>1. got \in SUBSET Nat
  OBVIOUS
<1>2. \E k \in got : \A l \in got : k <= l
  BY <1>1, Zenon DEF NatIsWellOrdered
<1> QED
  BY <1>2, Zenon

(* Giving back the locks of a call that failed.                              *)
LEMMA thr_multi_unlock_Keeps ==
  ASSUME TInv, NEW s \in Sessions, thr_multi_unlock(s)
  PROVE  TInv'
<1>0. pc[s] = "fail" /\ UNCHANGED << stmt, pos, left >>
  BY Zenon DEF thr_multi_unlock, At
<1>1. PICK n \in Nat : n = Len(stmt[s].tables)
  BY DataOfSession, Zenon DEF TInv
<1>2. PICK got : got = AlreadyLocked(s)
  BY Zenon
<1>3. pos[s] \in 1..n /\ \A k \in 1..n : k >= pos[s] => Free(Sorted(s, k))
  BY <1>0, <1>1, Zenon DEF TInv, SessionInv
<1>4. got = { k \in 1..(pos[s] - 1) : type[<< s, Order[stmt[s]][k] >>] # TL_UNLOCK }
  BY <1>2, Zenon DEF AlreadyLocked
<1>5. got \in SUBSET (1..n)
  BY <1>1, <1>3, <1>4
<1>6. CASE got # {}
  <2>1. PICK k \in 1..n : thr_unlock(s, Order[stmt[s]][k]) /\ UNCHANGED << pc, answer, killed, abort >>
    <3>1. (CHOOSE k \in got : \A l \in got : k <= l) \in 1..n
      BY <1>1, <1>5, <1>6, FirstIn, Zenon DEF TInv
    <3> QED
      BY <1>2, <1>6, <3>1, Zenon DEF thr_multi_unlock
  <2>2. Order[stmt[s]][k] \in 1..Len(stmt[s].tables)
    BY <1>1, DataInOrder, Zenon DEF TInv
  <2> QED
    BY <1>0, <2>1, <2>2, UnlockKeeps, Zenon DEF thread
<1>7. CASE got = {}
  <2>1. /\ type' = [d \in Data |-> IF d[1] = s THEN TL_UNLOCK ELSE type[d]]
        /\ Close(s) /\ UNCHANGED lists
    BY <1>2, <1>7, Zenon DEF thr_multi_unlock
  <2>2. ASSUME NEW k \in 1..n PROVE Free(Sorted(s, k))
    <3>1. CASE k >= pos[s]
      BY <1>3, <3>1, Zenon
    <3>2. CASE ~(k >= pos[s])
      <4>1. k \in 1..(pos[s] - 1)
        BY <1>1, <1>3, <3>2
      <4>2. type[Sorted(s, k)] = TL_UNLOCK
        BY <1>4, <1>7, <4>1, Zenon DEF Sorted
      <4>3. Sorted(s, k) \in Data /\ Named(Sorted(s, k))
        BY <1>1, DataInOrder, Zenon DEF TInv
      <4> QED
        BY <4>2, <4>3, UnlockedIsFree, Zenon
    <3> QED
      BY <3>1, <3>2, Zenon
  <2>3. \A i \in 1..Len(stmt[s].tables) : Free(<< s, i >>)
    <3>1. \A i \in 1..n : \E k \in 1..n : << s, i >> = Sorted(s, k)
      BY <1>1, DataInOrder, Zenon DEF TInv
    <3> QED
      BY <1>1, <2>2, <3>1, Zenon
  <2> QED
    BY <1>0, <2>1, <2>3, CloseKeeps, Zenon
<1> QED
  BY <1>6, <1>7, Zenon

(* A SELECT gives its read locks back early.                                 *)
LEMMA unlockSomeTables_Keeps ==
  ASSUME TInv, NEW s \in Sessions, unlockSomeTables(s)
  PROVE  TInv'
BY UnlockKeeps, Zenon DEF unlockSomeTables, At

(* The end of a statement gives all locks back.                              *)
LEMMA unlockTables_Keeps ==
  ASSUME TInv, NEW s \in Sessions, unlockTables(s)
  PROVE  TInv'
<1>0. pc[s] = "unlock" /\ UNCHANGED << stmt, pos, left >>
  BY Zenon DEF unlockTables, At
<1>1. PICK n \in Nat : n = Len(stmt[s].tables)
  BY DataOfSession, Zenon DEF TInv
<1>2. PICK got \in SUBSET (1..n) : got = { i \in 1..Len(stmt[s].tables) : type[<< s, i >>] # TL_UNLOCK }
  BY <1>1, Zenon
<1>3. CASE got # {}
  <2>1. PICK i \in 1..n : thr_unlock(s, i) /\ UNCHANGED << pc, answer, killed, abort >>
    <3>1. (CHOOSE k \in got : \A l \in got : k <= l) \in 1..n
      <4>1. NatIsWellOrdered
        BY Zenon DEF TInv
      <4>2. (CHOOSE k \in got : \A l \in got : k <= l) \in got
        BY <1>1, <1>3, <4>1, FirstIn, Zenon
      <4> QED
        BY <4>2, Zenon
    <3> QED
      BY <1>2, <1>3, <3>1, Zenon DEF unlockTables
  <2> QED
    BY <1>0, <1>1, <2>1, UnlockKeeps, Zenon DEF thread
<1>4. CASE got = {}
  <2>1. Close(s) /\ UNCHANGED << lists, type >>
    BY <1>2, <1>4, Zenon DEF unlockTables
  <2>2. ASSUME NEW i \in 1..n PROVE Free(<< s, i >>)
    <3>1. type[<< s, i >>] = TL_UNLOCK
      BY <1>1, <1>2, <1>4
    <3>2. << s, i >> \in Data /\ Named(<< s, i >>)
      BY <1>1, DataOfSession, Zenon DEF TInv
    <3> QED
      BY <3>1, <3>2, UnlockedIsFree, Zenon
  <2> QED
    BY <1>0, <1>1, <2>1, <2>2, CloseKeeps, Zenon
<1> QED
  BY <1>3, <1>4, Zenon

-----------------------------------------------------------------------------
(* ALTER TABLE.  Its lock is the only write lock of the table.               *)
LEMMA AlterSetup ==
  ASSUME TInv, NEW s \in Sessions, pc[s] \in { "locked", "removing" },
         stmt[s].command = "ALTER_TABLE", NEW d, d = << s, 1 >>
  PROVE  /\ Len(stmt[s].tables) = 1 /\ d \in Data /\ Named(d) /\ Held(d)
         /\ Home(d) = Table(s, 1) /\ Home(d) \in Tables
         /\ THR_LOCK(Home(d)) \in LockRecord /\ Sound(THR_LOCK(Home(d)))
         /\ In(d, THR_LOCK(Home(d)).write)
         /\ \A e \in Data : In(e, THR_LOCK(Home(d)).write) => e = d
<1>1. stmt[s] \in Statements
  BY DataOfSession, Zenon DEF TInv
<1>2. Len(stmt[s].tables) = 1 /\ stmt[s].written = {1}
  BY <1>1, StatementsAssumption, Zenon
<1>3. 1 \in 1..Len(stmt[s].tables)
  BY <1>2
<1>4. d \in Data /\ Named(d) /\ Home(d) \in Tables
  BY <1>3, DataOfSession, Zenon DEF TInv
<1>5. Home(d) = Table(s, 1)
  BY Zenon DEF Home
<1>6. Held(d)
  BY <1>3 DEF TInv, SessionInv
<1>7. PICK lock \in LockRecord : lock = THR_LOCK(Home(d)) /\ Sound(lock)
  BY <1>4, LockOfTable DEF TInv, TableInv
<1>8. Holds(lock, d) /\ type[d] # TL_UNLOCK
  BY <1>4, <1>6, <1>7, UnlockedIsFree, Zenon DEF Free, Held
<1>9. type[d] \in { TL_WRITE_ALLOW_READ, TL_WRITE_ONLY }
  <2>1. TypeInv(d)
    BY <1>4, Zenon DEF TInv
  <2>2. d[1] = s /\ d[2] = 1
    BY Zenon
  <2>3. LockType(stmt[s], 1) = TL_WRITE_ALLOW_READ
    BY <1>1, <1>2, LockTypes, Zenon
  <2> QED
    BY <1>8, <2>1, <2>2, <2>3, Zenon DEF TypeInv
<1>10. /\ type[d] \in WriteTypes /\ type[d] \notin ReadTypes /\ type[d] # TL_WRITE_ALLOW_WRITE
  BY <1>9 DEF ReadTypes, WriteTypes, TL_READ, TL_READ_WITH_SHARED_LOCKS,
              TL_WRITE_ALLOW_WRITE, TL_WRITE_ALLOW_READ, TL_WRITE, TL_WRITE_ONLY
<1>11. In(d, lock.write)
  BY <1>4, <1>7, <1>8, <1>10, Zenon DEF Sound, Holds
<1>12. ASSUME NEW e \in Data, In(e, lock.write) PROVE e = d
  <2>1. Holds(lock, e) /\ type[e] \in WriteTypes
    BY <1>7, <1>12, Zenon DEF Sound, Holds
  <2>5. owner(e) # owner(d) => Compatible(type[d], type[e])
    BY <1>4, <1>7, <1>8, <2>1, Zenon DEF Sound
  <2>2. owner(e) = owner(d)
    BY <1>10, <2>1, <2>5, CompatibleTypes, Zenon
  <2>3. Named(e)
    BY <1>4, <1>7, <2>1 DEF TInv, TableInv
  <2>6. e[1] = s
    BY <2>2, Zenon DEF owner
  <2>7. e[2] \in 1..1
    BY <1>2, <2>3, <2>6, Zenon DEF Named
  <2>4. e[1] = s /\ e[2] = 1
    BY <2>6, <2>7
  <2> QED
    BY <2>4 DEF Data
<1> QED
  BY <1>2, <1>4, <1>5, <1>6, <1>7, <1>11, <1>12, Zenon

(* abort_locks(): the others that hold a lock read.                          *)
LEMMA AbortIsSound ==
  ASSUME NEW lock \in LockRecord, Sound(lock), NEW d \in Data, In(d, lock.write),
         \A e \in Data : In(e, lock.write) => e = d, NEW t \in Tables,
         read'[t] = lock.read, write'[t] = lock.write,
         read_wait'[t] = << >>, write_wait'[t] = << >>,
         type'[d] = TL_WRITE_ONLY,
         \A e \in Data : In(e, lock.read) => type'[e] = type[e]
  PROVE  Sound(THR_LOCK(t))' /\ Attended(THR_LOCK(t))'
<1> DEFINE now == THR_LOCK(t)'
<1>1. /\ now.read = lock.read /\ now.write = lock.write
      /\ now.read_wait = << >> /\ now.write_wait = << >>
  BY Zenon DEF THR_LOCK
<1> HIDE DEF now
<1>2. \A e : ~In(e, << >>)
  BY DEF In
<1>3. Uniq(<< >>)
  BY DEF Uniq
<1>4. Uniq(now.read) /\ Uniq(now.write) /\ Uniq(now.read_wait) /\ Uniq(now.write_wait)
  BY <1>1, <1>3, Zenon DEF Sound
<1>5. \A e \in Data : ~(Holds(now, e) /\ Queued(now, e))
  BY <1>1, <1>2, Zenon DEF Queued
<1>6. \A e \in Data : In(e, now.read) \/ In(e, now.read_wait) => type'[e] \in ReadTypes
  BY <1>1, <1>2, Zenon DEF Sound
<1>7. TL_WRITE_ONLY \in WriteTypes \ {TL_WRITE}
  BY DEF WriteTypes, TL_WRITE, TL_WRITE_ONLY
<1>8. \A e \in Data : In(e, now.write) \/ In(e, now.write_wait) => type'[e] \in WriteTypes
  BY <1>1, <1>2, <1>7, Zenon
<1>9. \A e \in Data : Holds(now, e) => e = d \/ type'[e] \in ReadTypes
  BY <1>1, <1>6, Zenon DEF Holds
<1>10. ASSUME NEW e \in Data, NEW f \in Data, Holds(now, e), Holds(now, f), owner(e) # owner(f)
       PROVE  Compatible(type'[e], type'[f])
  <2>1. e # f
    BY <1>10, Zenon
  <2> QED
    BY <1>7, <1>9, <1>10, <2>1, ReadsCompatible, Zenon
<1>11. Attended(now)
  BY <1>1, Zenon DEF Attended
<1> QED
  BY <1>4, <1>5, <1>6, <1>8, <1>10, <1>11, Zenon DEF Sound, Attended, now, Holds, Queued, In, Uniq, owner,
     Compatible, IsRead, TL_READ_NO_INSERT, TL_WRITE_ALLOW_WRITE, TL_WRITE_ALLOW_READ, TL_WRITE_ONLY,
     ReadTypes, WriteTypes, TL_READ, TL_READ_WITH_SHARED_LOCKS, TL_WRITE, Data

(* ALTER TABLE sends away those who wait.                                    *)
LEMMA abort_locks_Keeps ==
  ASSUME TInv, NEW s \in Sessions, abort_locks(s)
  PROVE  TInv'
<1>0. /\ pc[s] = "locked" /\ stmt[s].command = "ALTER_TABLE"
      /\ pc' = [pc EXCEPT ![s] = "removing"] /\ UNCHANGED << stmt, pos, answer, left, killed, abort >>
  BY Zenon DEF abort_locks, At, Goto
<1>1. PICK d : d = << s, 1 >>
  BY Zenon
<1>2. /\ Len(stmt[s].tables) = 1 /\ d \in Data /\ Named(d) /\ Held(d)
      /\ Home(d) = Table(s, 1) /\ Home(d) \in Tables
      /\ THR_LOCK(Home(d)) \in LockRecord /\ Sound(THR_LOCK(Home(d)))
      /\ In(d, THR_LOCK(Home(d)).write)
      /\ \A e \in Data : In(e, THR_LOCK(Home(d)).write) => e = d
  BY <1>0, <1>1, AlterSetup, Zenon
<1>3. PICK t \in Tables : t = Home(d)
  BY <1>2, Zenon
<1>4. PICK lock \in LockRecord : lock = THR_LOCK(t)
  BY <1>2, <1>3, Zenon
<1>5. /\ Sound(lock) /\ In(d, lock.write) /\ \A e \in Data : In(e, lock.write) => e = d
  BY <1>2, <1>3, <1>4, Zenon
<1>6. /\ lock.read = read[t] /\ lock.write = write[t]
      /\ lock.read_wait = read_wait[t] /\ lock.write_wait = write_wait[t]
  BY <1>4, Zenon DEF THR_LOCK
<1>7. write[t] # << >> /\ write[t][1] = d
  <2>1. lock.write \in Seq(Data) /\ lock.write # << >>
    BY <1>5 DEF LockRecord, In
  <2> QED
    BY <1>5, <1>6, <2>1, HeadIsQueued, Zenon
<1>8. PICK new : new = [lock EXCEPT !.read_wait = << >>, !.write_wait = << >>]
  BY Zenon
<1>9. /\ new \in LockRecord /\ new.read = lock.read /\ new.write = lock.write
      /\ new.read_wait = << >> /\ new.write_wait = << >>
  <2>1. << >> \in Seq(Data)
    OBVIOUS
  <2> QED
    BY <1>8, <2>1, Zenon DEF LockRecord
<1>10. Install(t, new)
  BY <1>2, <1>3, <1>4, <1>8, Zenon DEF abort_locks
<1>11. /\ \A e \in Data : Queued(lock, e) => type'[e] = TL_UNLOCK
       /\ \A e \in Data : ~Queued(lock, e) /\ e # d => type'[e] = type[e]
       /\ ~Queued(lock, d) => type'[d] = TL_WRITE_ONLY
       /\ type' = [e \in Data |-> IF Queued(lock, e) THEN TL_UNLOCK
                                  ELSE IF e = d THEN TL_WRITE_ONLY ELSE type[e]]
  <2>1. type' = [e \in Data |->
                   IF e \in { f \in Data : In(f, read_wait[t]) \/ In(f, write_wait[t]) } THEN TL_UNLOCK
                   ELSE IF write[t] # << >> /\ e = write[t][1] THEN TL_WRITE_ONLY ELSE type[e]]
    BY <1>2, <1>3, Zenon DEF abort_locks
  <2>2. type' = [e \in Data |-> IF Queued(lock, e) THEN TL_UNLOCK
                                ELSE IF e = d THEN TL_WRITE_ONLY ELSE type[e]]
    BY <1>6, <1>7, <2>1, Zenon DEF Queued
  <2> QED
    BY <1>2, <2>2, Zenon
<1>12. Holds(lock, d) /\ ~Queued(lock, d) /\ type'[d] = TL_WRITE_ONLY
  <2>1. Holds(lock, d) /\ ~Queued(lock, d)
    BY <1>2, <1>5, Zenon DEF Sound, Holds
  <2> QED
    BY <1>11, <2>1, Zenon
<1>13. \A e \in Data : In(e, lock.read) => type'[e] = type[e]
  <2>1. ~In(d, lock.read)
    BY <1>2, <1>5, CompatibleTypes, Zenon DEF Sound
  <2>2. \A e \in Data : In(e, lock.read) => ~Queued(lock, e)
    BY <1>5, Zenon DEF Sound, Holds
  <2> QED
    BY <1>11, <2>1, <2>2, Zenon
<1>14. Sound(THR_LOCK(t))' /\ Attended(new)
  <2>1. /\ read'[t] = lock.read /\ write'[t] = lock.write
        /\ read_wait'[t] = << >> /\ write_wait'[t] = << >>
    BY <1>9, <1>10, Installed, Zenon DEF TInv
  <2> QED
    BY <1>2, <1>5, <1>9, <1>12, <1>13, <2>1, AbortIsSound, Zenon DEF Attended
<1>15. /\ \A e \in Data : Holds(new, e) <=> Holds(lock, e)
       /\ \A e \in Data : ~Queued(new, e)
  BY <1>9 DEF Holds, Queued, In
<1>16. /\ \A e \in Data : Holds(lock, e) \/ Queued(lock, e) => Named(e) /\ Home(e) = t
  BY <1>4 DEF TInv, TableInv
<1>17. /\ \A e \in Data : Holds(new, e) \/ Queued(new, e) => Named(e) /\ Home(e) = t
       /\ \A e \in Data : Home(e) # t => type'[e] = type[e]
  BY <1>3, <1>11, <1>15, <1>16, Zenon
<1>18. /\ ListTypes' /\ \A u \in Tables : TableInv(u)'
       /\ \A e \in Data : Home(e) = t =>
             (Held(e)' <=> Holds(new, e)) /\ (Waits(e)' <=> Queued(new, e))
       /\ \A e \in Data : Home(e) \in Tables \ {t} =>
             (Held(e)' <=> Held(e)) /\ (Waits(e)' <=> Waits(e))
  BY <1>0, <1>9, <1>10, <1>14, <1>17, TableStep, Zenon
<1>19. Others({d})
  <2> SUFFICES ASSUME NEW e \in Data \ {d}, Named(e)
               PROVE  /\ Held(e) <=> Held(e)'
                      /\ Waits(e)' => Waits(e)
                      /\ Waits(e) => Waits(e)' \/ type'[e] = TL_UNLOCK
                      /\ type'[e] = type[e] \/ (Waits(e) /\ type'[e] = TL_UNLOCK)
    BY Zenon DEF Others
  <2>1. CASE Home(e) = t
    <3>1. (Held(e) <=> Holds(lock, e)) /\ (Waits(e) <=> Queued(lock, e))
      BY <1>4, <2>1, Zenon DEF Held, Waits
    <3> QED
      BY <1>11, <1>15, <1>18, <2>1, <3>1, Zenon
  <2>2. CASE Home(e) # t
    BY <1>17, <1>18, <2>2, HomeOfNamed, Zenon
  <2> QED
    BY <2>1, <2>2
<1>20. Held(d)' /\ ~Waits(d)'
  BY <1>2, <1>3, <1>12, <1>15, <1>18, Zenon
<1>21. TypeTypes' /\ TypeInv(d)'
  <2>1. TL_UNLOCK \in TL_UNLOCK..TL_WRITE_ONLY /\ TL_WRITE_ONLY \in TL_UNLOCK..TL_WRITE_ONLY
    BY DEF TL_UNLOCK, TL_WRITE_ONLY
  <2>2. type' \in [Data -> TL_UNLOCK..TL_WRITE_ONLY]
    BY <1>11, <2>1, TypeParts, Zenon DEF TypeTypes
  <2>3. TypeTypes'
    BY <2>2, Zenon DEF TypeTypes, Data, TL_UNLOCK, TL_WRITE_ONLY
  <2>4. stmt'[d[1]].command = "ALTER_TABLE"
    BY <1>0, <1>1
  <2> QED
    BY <1>12, <2>3, <2>4, Zenon DEF TypeInv, TL_WRITE_ONLY
<1>22. ThreadTypes' /\ pc'[s] = "removing" /\ \A u \in Sessions \ {s} : pc'[u] = pc[u] /\ pos'[u] = pos[u]
  BY <1>0, TypeParts, Zenon DEF ThreadTypes, Places
<1>23. SessionInv(s)'
  <2>1. Len(stmt'[s].tables) = 1 /\ stmt'[s].command = "ALTER_TABLE"
    BY <1>0, <1>2, Zenon
  <2>2. \A i \in 1..1 : Held(<< s, i >>)' /\ ~Waits(<< s, i >>)'
    BY <1>1, <1>20
  <2> QED
    BY <1>22, <2>1, <2>2 DEF SessionInv
<1>24. PICK out \in SUBSET Data : out = {d}
  BY <1>2, Zenon
<1>25. \A e \in out : e[1] = s /\ (Named(e) => TypeInv(e)')
  BY <1>1, <1>21, <1>24
<1> QED
  BY <1>0, <1>18, <1>19, <1>21, <1>22, <1>23, <1>24, <1>25, Assemble

(* removeTable() aborts the waits of the others.                             *)
LEMMA removeTable_Keeps ==
  ASSUME TInv, NEW s \in Sessions, removeTable(s)
  PROVE  TInv'
<1>0. UNCHANGED << pc, stmt, pos, answer, left, killed, abort >>
  BY Zenon DEF removeTable, thread
<1>9. PICK u \in Sessions : \E i \in 1..Len(stmt[u].tables) :
         /\ type' = IF In(<< u, i >>, read_wait[Table(u, i)]) \/ In(<< u, i >>, write_wait[Table(u, i)])
                    THEN [type EXCEPT ![<< u, i >>] = TL_UNLOCK] ELSE type
         /\ Install(Table(u, i), wake_up_waiters(Dequeue(THR_LOCK(Table(u, i)), << u, i >>)))
  BY Zenon DEF removeTable
<1>1. PICK i \in 1..Len(stmt[u].tables) :
         /\ type' = IF In(<< u, i >>, read_wait[Table(u, i)]) \/ In(<< u, i >>, write_wait[Table(u, i)])
                    THEN [type EXCEPT ![<< u, i >>] = TL_UNLOCK] ELSE type
         /\ Install(Table(u, i), wake_up_waiters(Dequeue(THR_LOCK(Table(u, i)), << u, i >>)))
  BY <1>9, Zenon
<1>2. PICK d : d = << u, i >>
  BY Zenon
<1>3. d \in Data /\ Named(d) /\ Home(d) \in Tables
  BY <1>2, DataOfSession DEF TInv
<1>4. Home(d) = Table(u, i)
  BY <1>2, Zenon DEF Home
<1>5. /\ Waits(d) => type' = [type EXCEPT ![d] = TL_UNLOCK]
      /\ ~Waits(d) => type' = type
      /\ Waits(d) <=> In(d, read_wait[Home(d)]) \/ In(d, write_wait[Home(d)])
      /\ Install(Home(d), wake_up_waiters(Dequeue(THR_LOCK(Home(d)), d)))
  <2>1. Waits(d) <=> In(d, read_wait[Home(d)]) \/ In(d, write_wait[Home(d)])
    BY Zenon DEF Waits, Queued, THR_LOCK
  <2> QED
    BY <1>1, <1>2, <1>4, <2>1, Zenon
<1>6. ThreadTypes' /\ \A v \in Sessions \ {u} : pc'[v] = pc[v] /\ pos'[v] = pos[v]
  BY <1>0, TypeParts, Zenon DEF ThreadTypes
<1>7. CASE Waits(d)
  <2>1. pc[u] = "wait" /\ d = Current(u)
    BY <1>2, <1>7 DEF TInv, SessionInv
  <2>2. ~Held(d)
    BY <1>3, <1>7, UnlockedIsFree
  <2>3. /\ TypeTypes' /\ TypeInv(d)' /\ type'[d] = TL_UNLOCK
        /\ \A e \in Data \ {d} : type'[e] = type[e]
    BY <1>0, <1>3, <1>5, <1>7, UnlockType, Zenon
  <2>4. ListTypes' /\ (\A v \in Tables : TableInv(v)') /\ Others({d}) /\ Free(d)'
    BY <1>0, <1>3, <1>5, <2>2, <2>3, DequeueStep, Zenon
  <2>5. SessionInv(u)'
    BY <1>0, <2>1, <2>3, <2>4, StartsWaiting, Zenon
  <2>6. PICK out \in SUBSET Data : out = {d}
    BY <1>3, Zenon
  <2>7. \A e \in out : e[1] = u /\ (Named(e) => TypeInv(e)')
    BY <1>2, <2>3, <2>6
  <2> QED
    BY <1>0, <1>6, <2>3, <2>4, <2>5, <2>6, <2>7, Assemble, Zenon
<1>8. CASE ~Waits(d)
  <2>1. PICK t \in Tables : t = Home(d)
    BY <1>3, Zenon
  <2>2. PICK mid \in LockRecord : mid = THR_LOCK(t) /\ Sound(mid)
    BY <2>1, LockOfTable, Zenon DEF TInv, TableInv
  <2>3. Dequeue(mid, d) = mid
    <3>1. mid.read_wait = read_wait[t] /\ mid.write_wait = write_wait[t]
      BY <2>2, Zenon DEF THR_LOCK
    <3>2. Unlink(mid.read_wait, d) = mid.read_wait /\ Unlink(mid.write_wait, d) = mid.write_wait
      BY <1>5, <1>8, <2>1, <3>1, Zenon DEF Unlink
    <3> QED
      BY <3>2, Zenon DEF Dequeue, LockRecord
  <2>4. Install(t, wake_up_waiters(mid))
    BY <1>5, <2>1, <2>2, <2>3, Zenon
  <2>5. PICK none \in SUBSET Data : none = {}
    BY Zenon
  <2>6. TypeTypes' /\ type' = type
    BY <1>0, <1>5, <1>8, SameTypes, Zenon
  <2>7. /\ \A e \in none : Home(e) = t
        /\ \A e \in Data : Holds(mid, e) <=> Holds(THR_LOCK(t), e) /\ e \notin none
        /\ \A e \in Data : Queued(mid, e) <=> Queued(THR_LOCK(t), e) /\ e \notin none
        /\ \A e \in Data \ none : type'[e] = type[e]
    BY <2>2, <2>5, <2>6, Zenon
  <2>8. ListTypes' /\ (\A v \in Tables : TableInv(v)') /\ Others(none)
    BY <1>0, <2>2, <2>4, <2>7, WakeStep, Zenon
  <2>9. SessionInv(u)'
    BY <1>0, <2>5, <2>8, SessionKeeps, Zenon
  <2> QED
    BY <1>0, <1>6, <2>5, <2>6, <2>8, <2>9, Assemble, Zenon
<1> QED
  BY <1>7, <1>8, Zenon

-----------------------------------------------------------------------------
(* open_tables(): a session between two statements is in no list at all.     *)
LEMMA IdleIsNowhere ==
  ASSUME TInv, NEW s \in Sessions, pc[s] = "idle", NEW t \in Tables, NEW d \in Data, d[1] = s
  PROVE  ~Holds(THR_LOCK(t), d) /\ ~Queued(THR_LOCK(t), d)
<1> SUFFICES ASSUME Holds(THR_LOCK(t), d) \/ Queued(THR_LOCK(t), d) PROVE FALSE
  BY Zenon
<1>1. Named(d) /\ Home(d) = t
  BY Zenon DEF TInv, TableInv
<1>2. Held(d) \/ Waits(d)
  BY <1>1, Zenon DEF Held, Waits
<1>3. PICK i \in 1..Len(stmt[s].tables) : d = << s, i >>
  BY <1>1, DataOfSession, Zenon DEF TInv
<1>4. Free(d)
  BY <1>3 DEF TInv, SessionInv
<1> QED
  BY <1>2, <1>4, Zenon DEF Free

(* The statement and the types of one session change, and it is in no list.  *)
LEMMA OpenTableInv ==
  ASSUME TInv, NEW s \in Sessions, pc[s] = "idle", UNCHANGED lists,
         \A u \in Sessions \ {s} : stmt'[u] = stmt[u],
         \A e \in Data : e[1] # s => type'[e] = type[e], NEW t \in Tables
  PROVE  TableInv(t)'
<1>1. PICK lock : lock = THR_LOCK(t) /\ lock = THR_LOCK(t)'
  BY Zenon DEF lists, THR_LOCK
<1>2. /\ Sound(lock) /\ Attended(lock)
      /\ \A d \in Data : Holds(lock, d) \/ Queued(lock, d) => Named(d) /\ Home(d) = t
  BY <1>1, Zenon DEF TInv, TableInv
<1>3. \A e \in Data : Holds(lock, e) \/ Queued(lock, e) => e[1] \in Sessions \ {s}
  BY <1>1, IdleIsNowhere, Zenon DEF Data
<1>4. \A e \in Data : Holds(lock, e) \/ Queued(lock, e) => Named(e)' /\ Home(e)' = t
  BY <1>2, <1>3, Zenon DEF Named, Home, Table
<1>5. Sound(THR_LOCK(t))'
  <2>1. /\ read'[t] = lock.read /\ write'[t] = lock.write
        /\ read_wait'[t] = lock.read_wait /\ write_wait'[t] = lock.write_wait
    BY <1>1 DEF THR_LOCK
  <2>2. \A e \in Data : Holds(lock, e) \/ Queued(lock, e) => type'[e] = type[e]
    BY <1>3, Zenon
  <2> QED
    BY <1>2, <2>1, <2>2, SoundAfter
<1>6. Attended(THR_LOCK(t))'
  BY <1>1, <1>2, Zenon DEF Attended
<1>7. \A d \in Data : (Holds(THR_LOCK(t), d) \/ Queued(THR_LOCK(t), d))' => (Named(d) /\ Home(d) = t)'
  BY <1>1, <1>4, Zenon DEF Holds, Queued, In
<1> QED
  BY <1>5, <1>6, <1>7, Zenon DEF TableInv

(* A new statement, with the types of its locks.                             *)
LEMMA open_tables_Keeps ==
  ASSUME TInv, NEW s \in Sessions, open_tables(s)
  PROVE  TInv'
<1>0. /\ pc[s] = "idle" /\ left[s] > 0 /\ pc' = [pc EXCEPT ![s] = "lock"]
      /\ pos' = [pos EXCEPT ![s] = 1] /\ answer' = [answer EXCEPT ![s] = "none"]
      /\ left' = [left EXCEPT ![s] = left[s] - 1] /\ UNCHANGED << lists, killed, abort >>
  BY Zenon DEF open_tables, At, Goto
<1>1. PICK st \in Allowed[s] :
         /\ stmt' = [stmt EXCEPT ![s] = st]
         /\ type' = [d \in Data |-> IF d[1] = s /\ d[2] <= Len(st.tables)
                                    THEN LockType(st, d[2]) ELSE type[d]]
  BY Zenon DEF open_tables
<1>2. st \in Statements
  BY AllowedAssumption, Zenon
<1>3. stmt \in [Sessions -> Statements] /\ ThreadTypes /\ TypeTypes /\ ListTypes
  BY TypeParts, Zenon
<1>4. stmt' \in [Sessions -> Statements] /\ stmt'[s] = st /\ \A u \in Sessions \ {s} : stmt'[u] = stmt[u]
  BY <1>1, <1>2, <1>3, Zenon
<1>5. PICK n \in 1..MaxLocks : n = Len(st.tables)
  BY <1>2, StatementsAssumption, Zenon
<1>6. MaxLocks \in Nat /\ n \in Nat /\ n >= 1 /\ st.tables \in Seq(Tables)
  BY <1>2, <1>5, BoundsAssumption, StatementsAssumption
<1>7. \A i : LockType(st, i) \in TL_UNLOCK..TL_WRITE_ONLY
  BY <1>2, LockTypes DEF TL_UNLOCK, TL_READ, TL_READ_WITH_SHARED_LOCKS, TL_WRITE_ALLOW_WRITE,
                         TL_WRITE_ALLOW_READ, TL_WRITE, TL_WRITE_ONLY
<1>8. TypeTypes'
  <2>1. type' \in [Data -> TL_UNLOCK..TL_WRITE_ONLY]
    BY <1>1, <1>3, <1>7 DEF TypeTypes
  <2> QED
    BY <2>1, Zenon DEF TypeTypes, Data, TL_UNLOCK, TL_WRITE_ONLY
<1>9. ThreadTypes'
  <2>1. left[s] - 1 \in Nat /\ 1 \in 1..MaxLocks + 1 /\ "lock" \in Places
    BY <1>0, <1>3, <1>6 DEF ThreadTypes, Places
  <2> QED
    BY <1>0, <1>3, <2>1, Zenon DEF ThreadTypes
<1>10. UNCHANGED lists /\ ListTypes'
  BY <1>0, <1>3, Zenon DEF lists, ListTypes
<1>11. TypeOK'
  BY <1>4, <1>8, <1>9, <1>10, Zenon DEF TypeOK, ThreadTypes, TypeTypes, ListTypes
<1>12. \A e \in Data : e[1] # s => type'[e] = type[e]
  BY <1>1, Zenon
<1>13. \A t \in Tables : TableInv(t)'
  BY <1>0, <1>4, <1>10, <1>12, OpenTableInv, Zenon
<1>14. \A i \in 1..n : << s, i >> \in Data /\ type'[<< s, i >>] = LockType(st, i)
  <2>1. \A i \in 1..n : << s, i >> \in Data /\ i <= n
    BY <1>6 DEF Data
  <2> QED
    BY <1>1, <1>5, <2>1, Zenon
<1>15. ASSUME NEW e \in Data, Named(e)' PROVE TypeInv(e)'
  <2>1. CASE e[1] = s
    <3>1. e[2] \in 1..n /\ stmt'[e[1]] = st
      BY <1>4, <1>5, <1>15, <2>1 DEF Named
    <3>2. e = << s, e[2] >>
      BY <2>1 DEF Data
    <3>3. type'[e] = LockType(st, e[2])
      BY <1>14, <3>1, <3>2, Zenon
    <3> QED
      BY <3>1, <3>3, Zenon DEF TypeInv, LockType, store_lock
  <2>2. CASE e[1] # s
    <3>1. e[1] \in Sessions /\ stmt'[e[1]] = stmt[e[1]] /\ type'[e] = type[e]
      BY <1>4, <1>12, <2>2 DEF Data
    <3>2. TypeInv(e)
      BY <1>15, <3>1, Zenon DEF TInv, Named
    <3> QED
      BY <3>1, <3>2, Zenon DEF TypeInv, LockType, store_lock
  <2> QED
    BY <2>1, <2>2, Zenon
<1>16. PICK out : out = { d \in Data : d[1] = s }
  BY Zenon
<1>17. Others(out)
  <2> SUFFICES ASSUME NEW e \in Data \ out
               PROVE  (Held(e)' <=> Held(e)) /\ (Waits(e)' <=> Waits(e)) /\ type'[e] = type[e]
    BY Zenon DEF Others
  <2>1. e[1] # s /\ e[1] \in Sessions
    BY <1>16, Zenon DEF Data
  <2>2. Home(e)' = Home(e)
    BY <1>4, <2>1, Zenon DEF Home, Table
  <2>3. THR_LOCK(Home(e))' = THR_LOCK(Home(e))
    BY <1>10, <2>2, Zenon DEF THR_LOCK, lists
  <2> QED
    BY <1>12, <2>1, <2>3, Zenon DEF Held, Waits, Holds, Queued, In
<1>18. ASSUME NEW u \in Sessions, u # s PROVE SessionInv(u)'
  <2>1. stmt'[u] = stmt[u] /\ pc'[u] = pc[u] /\ pos'[u] = pos[u] /\ \A e \in out : e[1] # u
    BY <1>0, <1>3, <1>4, <1>16, <1>18, Zenon DEF ThreadTypes
  <2> QED
    BY <1>17, <2>1, SessionKeeps, Zenon
<1>19. ASSUME NEW i \in 1..n PROVE Free(<< s, i >>)'
  <2>1. PICK d \in Data : d = << s, i >>
    BY <1>14, Zenon
  <2>2. PICK t \in Tables : t = st.tables[i]
    BY <1>5, <1>6, Elements
  <2>3. Home(d)' = t
    BY <1>4, <2>1, <2>2, Zenon DEF Home, Table
  <2>4. ~Holds(THR_LOCK(t), d) /\ ~Queued(THR_LOCK(t), d)
    BY <1>0, <2>1, IdleIsNowhere, Zenon
  <2>5. THR_LOCK(Home(d))' = THR_LOCK(t)
    BY <1>10, <2>3 DEF THR_LOCK, lists
  <2>6. ~Held(d)' /\ ~Waits(d)'
    BY <2>4, <2>5, Zenon DEF Held, Waits, Holds, Queued, In
  <2> QED
    BY <2>1, <2>6, Zenon DEF Free
<1>20. SessionInv(s)'
  <2>1. pc'[s] = "lock" /\ pos'[s] = 1
    BY <1>0, <1>3, Zenon DEF ThreadTypes
  <2>2. \A k \in 1..n : Order[st][k] \in 1..n
    BY <1>2, <1>5 DEF TInv, OrderIsComplete
  <2>3. ASSUME NEW k \in 1..n PROVE Free(Sorted(s, k))' /\ Asked(s, k)'
    <3>1. PICK i \in 1..n : i = Order[st][k]
      BY <2>2, Zenon
    <3>2. Sorted(s, k)' = << s, i >> /\ (Order[stmt[s]][k])' = i
      BY <1>4, <3>1, Zenon DEF Sorted, Order, sort_locks, LOCK_CMP, LockType, store_lock
    <3>3. Free(Sorted(s, k))'
      BY <1>19, <3>2, Zenon DEF Free, Held, Waits, Holds, Queued, Home, In
    <3>4. Asked(s, k)'
      BY <1>4, <1>14, <3>2 DEF Asked, LockType, store_lock
    <3> QED
      BY <3>3, <3>4, Zenon
  <2>4. \A k \in 1..n : ~(k < 1)
    BY <1>6
  <2>5. 1 \in 1..n
    BY <1>6
  <2>6. \A i \in 1..n : ~Waits(<< s, i >>)'
    BY <1>19, Zenon DEF Free
  <2>7. n = Len(stmt'[s].tables)
    BY <1>4, <1>5, Zenon
  <2> QED
    BY <2>1, <2>3, <2>4, <2>5, <2>6, <2>7, Zenon DEF SessionInv
<1> QED
  BY <1>11, <1>13, <1>15, <1>18, <1>20, Zenon DEF TInv

(* Every step keeps the invariant.                                           *)
LEMMA NextKeeps ==
  ASSUME TInv, [Next]_vars
  PROVE  TInv'
<1>1. CASE UNCHANGED vars
  <2>1. UNCHANGED << lists, type, pc, stmt, pos, answer, left, killed, abort >>
    BY <1>1, Zenon DEF vars, thread
  <2>2. ThreadTypes'
    BY <2>1, TypeParts DEF ThreadTypes
  <2>3. CASE Sessions # {}
    <3>1. PICK s \in Sessions : TRUE
      BY <2>3, Zenon
    <3> QED
      BY <2>1, <2>2, QuietKeeps
  <2>4. CASE Sessions = {}
    <3>1. PICK none \in SUBSET Data : none = {}
      BY Zenon
    <3>2. UNCHANGED lists /\ stmt' = stmt /\ type' = type
      BY <2>1, Zenon DEF lists
    <3>3. ListTypes' /\ (\A u \in Tables : TableInv(u)')
      BY <3>1, <3>2, StillStep, Zenon
    <3>4. TypeTypes' /\ \A e \in Data : FALSE
      BY <2>4, <3>2, SameTypes, Zenon DEF Data
    <3>5. TypeOK'
      BY <2>2, <3>2, <3>3, <3>4, TypeParts, Zenon DEF TypeOK, ListTypes, ThreadTypes, TypeTypes
    <3> QED
      BY <2>4, <3>3, <3>4, <3>5, Zenon DEF TInv
  <2> QED
    BY <2>3, <2>4, Zenon
<1>2. CASE Next
  <2>1. PICK s \in Sessions : \/ open_tables(s) \/ Run(s) \/ unlockSomeTables(s)
                              \/ awake(s) \/ lockOnSys(s)
    BY <1>2, Zenon DEF Next
  <2>2. CASE open_tables(s)
    BY <2>2, open_tables_Keeps
  <2>3. CASE unlockSomeTables(s)
    BY <2>3, unlockSomeTables_Keeps, Zenon
  <2>4. CASE thr_lock(s)
    BY <2>4, thr_lock_Keeps, Zenon
  <2>5. CASE wait_for_lock(s)
    BY <2>5, wait_for_lock_Keeps, Zenon
  <2>6. CASE thr_multi_unlock(s)
    BY <2>6, thr_multi_unlock_Keeps, Zenon
  <2>7. CASE unlockTables(s)
    BY <2>7, unlockTables_Keeps, Zenon
  <2>8. CASE abort_locks(s)
    BY <2>8, abort_locks_Keeps, Zenon
  <2>9. CASE removeTable(s)
    BY <2>9, removeTable_Keeps, Zenon
  <2>10. CASE execute(s) \/ table_removed(s) \/ awake(s) \/ lockOnSys(s)
    BY <2>10, QuietActionsKeep
  <2> QED
    BY <2>1, <2>2, <2>3, <2>4, <2>5, <2>6, <2>7, <2>8, <2>9, <2>10, Zenon DEF Run
<1> QED
  BY <1>1, <1>2, Zenon

-----------------------------------------------------------------------------
(* table_removed(): who is in a list of the table has it open.               *)
LEMMA NotOpenNotLocked ==
  ASSUME TInv, NEW s \in Sessions, pc[s] = "removing", NEW t \in Tables,
         \A u \in Sessions \ {s} : t \notin OpenTables(u)
  PROVE  /\ \A d \in Active(t) : owner(d) = s
         /\ read_wait[t] = << >> /\ write_wait[t] = << >>
<1>1. ASSUME NEW d \in Data, Holds(THR_LOCK(t), d) \/ Queued(THR_LOCK(t), d) PROVE d[1] = s
  <2> SUFFICES ASSUME d[1] # s PROVE FALSE
    BY Zenon
  <2>1. PICK u \in Sessions \ {s} : d[1] = u
    BY Zenon DEF Data
  <2>2. Named(d) /\ Home(d) = t
    BY <1>1, Zenon DEF TInv, TableInv
  <2>3. pc[u] # "idle"
    BY <1>1, <2>1, IdleIsNowhere, Zenon
  <2>4. t \in { Table(u, i) : i \in 1..Len(stmt[u].tables) }
    BY <2>1, <2>2, Zenon DEF Named, Home
  <2> QED
    BY <2>1, <2>3, <2>4 DEF OpenTables
<1>2. \A d \in Active(t) : owner(d) = s
  BY <1>1, Zenon DEF Active, Holds, THR_LOCK, owner
<1>3. ASSUME NEW d \in Data PROVE ~Queued(THR_LOCK(t), d)
  <2> SUFFICES ASSUME Queued(THR_LOCK(t), d) PROVE FALSE
    BY Zenon
  <2>1. d[1] = s
    BY <1>1, Zenon
  <2>2. Named(d) /\ Home(d) = t
    BY Zenon DEF TInv, TableInv
  <2>3. PICK i \in 1..Len(stmt[s].tables) : d = << s, i >>
    BY <2>1, <2>2, DataOfSession, Zenon DEF TInv
  <2>4. Waits(d)
    BY <2>2, Zenon DEF Waits
  <2> QED
    BY <2>3, <2>4, Zenon DEF TInv, SessionInv
<1>4. read_wait[t] \in Seq(Data) /\ write_wait[t] \in Seq(Data)
  BY TypeParts, Zenon DEF ListTypes
<1>5. \A d \in Data : ~In(d, read_wait[t]) /\ ~In(d, write_wait[t])
  BY <1>3, Zenon DEF Queued, THR_LOCK
<1>6. read_wait[t] = << >> /\ write_wait[t] = << >>
  BY <1>4, <1>5, HeadIsQueued
<1> QED
  BY <1>2, <1>6, Zenon

(* Only table_removed() leads from there to the end of the statement.        *)
LEMMA OnlyTableRemoved ==
  ASSUME TInv, Next, NEW s \in Sessions, pc[s] = "removing", pc'[s] = "unlock"
  PROVE  table_removed(s)
<1>1. PICK u \in Sessions : \/ open_tables(u) \/ Run(u) \/ unlockSomeTables(u)
                            \/ awake(u) \/ lockOnSys(u)
  BY Zenon DEF Next
<1>2. pc \in [Sessions -> Places]
  BY TypeParts, Zenon DEF ThreadTypes
<1>3. CASE open_tables(u) \/ unlockSomeTables(u) \/ awake(u) \/ lockOnSys(u) \/ removeTable(u)
  BY <1>2, <1>3, Zenon DEF open_tables, unlockSomeTables, awake, lockOnSys, removeTable, thread, Goto, At
<1>4. CASE thr_lock(u)
  <2>1. pc[u] = "lock" /\ \E place : pc' = [pc EXCEPT ![u] = place]
    BY <1>4, Zenon DEF thr_lock, At, NextLock, Fail, Goto
  <2> QED
    BY <1>2, <2>1, Zenon
<1>5. CASE wait_for_lock(u)
  <2>1. pc[u] = "wait" /\ \E place : pc' = [pc EXCEPT ![u] = place]
    BY <1>5, Zenon DEF wait_for_lock, At, NextLock, Fail, Goto
  <2> QED
    BY <1>2, <2>1
<1>6. CASE thr_multi_unlock(u) \/ unlockTables(u)
  <2>1. pc[u] \in { "fail", "unlock" } /\ (pc' = pc \/ \E place : pc' = [pc EXCEPT ![u] = place])
    BY <1>6, Zenon DEF thr_multi_unlock, unlockTables, At, Close, Goto
  <2> QED
    BY <1>2, <2>1, Zenon
<1>7. CASE execute(u) \/ abort_locks(u)
  <2>1. pc[u] = "locked" /\ \E place : pc' = [pc EXCEPT ![u] = place]
    BY <1>7, Zenon DEF execute, abort_locks, At, Goto
  <2> QED
    BY <1>2, <2>1, Zenon
<1>8. CASE table_removed(u)
  <2>1. pc[u] = "removing" /\ pc' = [pc EXCEPT ![u] = "unlock"]
    BY <1>8, Zenon DEF table_removed, At, Goto
  <2>2. u = s
    BY <1>2, <2>1, Zenon
  <2> QED
    BY <1>8, <2>2, Zenon
<1> QED
  BY <1>1, <1>3, <1>4, <1>5, <1>6, <1>7, <1>8, Zenon DEF Run

-----------------------------------------------------------------------------
(* The order of the writers, of a THR_LOCK before and after a step.          *)
InTurn(old, new) ==
    \A d \in Data :
        In(d, new.write) /\ ~In(d, old.write) =>
           \/ \E i \in 1..Len(old.write) : owner(old.write[i]) = owner(d)
           \/ \A j \in 1..Len(new.write_wait) :
                 ~\E i \in 1..Len(old.write_wait) :
                     /\ old.write_wait[i] = new.write_wait[j]
                     /\ \A k \in 1..i : old.write_wait[k] # d

(* Who is before another in queue was before it in list.                     *)
Follows(queue, list) ==
    \A i, j \in 1..Len(queue) : i < j =>
        \E a, b \in 1..Len(list) : a < b /\ list[a] = queue[i] /\ list[b] = queue[j]

(* wake_up_waiters() takes the first of the queue.                           *)
LEMMA WakeInTurn ==
  ASSUME NEW old \in LockRecord, NEW mid \in LockRecord, NEW new,
         NEW n \in 0..Len(mid.write_wait), NEW freed \in BOOLEAN, Wakes(mid, new, n, freed),
         Uniq(old.write_wait), \A e : In(e, mid.write) => In(e, old.write),
         Follows(mid.write_wait, old.write_wait)
  PROVE  InTurn(old, new)
<1>1. PICK queue \in Seq(Data) : queue = mid.write_wait
  BY Zenon DEF LockRecord
<1>2. PICK before \in Seq(Data) : before = old.write_wait
  BY Zenon DEF LockRecord
<1>3. Len(queue) \in Nat /\ Len(before) \in Nat /\ n \in Nat /\ n <= Len(queue)
  BY <1>1, Elements
<1> DEFINE p == SubSeq(queue, 1, n)
           q == SubSeq(queue, n + 1, Len(queue))
<1>4. /\ p \in Seq(Data) /\ Len(p) = n /\ Len(q) = Len(queue) - n
      /\ \A i \in 1..n : p[i] = queue[i]
      /\ \A i \in 1..Len(q) : n + i \in 1..Len(queue) /\ q[i] = queue[n + i]
  BY <1>1, Served
<1>5. new.write = mid.write \o p /\ new.write_wait = q /\ mid.write \in Seq(Data)
  BY <1>1, Zenon DEF Wakes, LockRecord
<1> HIDE DEF p, q
<1> SUFFICES ASSUME NEW d \in Data, In(d, new.write), ~In(d, old.write),
                    NEW j \in 1..Len(new.write_wait), NEW i \in 1..Len(old.write_wait),
                    old.write_wait[i] = new.write_wait[j],
                    \A k \in 1..i : old.write_wait[k] # d
             PROVE  FALSE
  BY Zenon DEF InTurn
<1>a. /\ j \in 1..Len(q) /\ i \in 1..Len(before) /\ before[i] = q[j]
      /\ \A k \in 1..i : before[k] # d
  BY <1>2, <1>5, Zenon
<1>6. In(d, p)
  BY <1>4, <1>5, Joined
<1>7. PICK a \in 1..n : queue[a] = d
  BY <1>4, <1>6 DEF In
<1>8. a \in 1..Len(queue) /\ n + j \in 1..Len(queue) /\ a < n + j /\ q[j] = queue[n + j]
  <2>1. n + j \in 1..Len(queue) /\ q[j] = queue[n + j]
    BY <1>4, <1>a, Zenon
  <2>2. j \in Nat /\ j >= 1
    BY <1>3, <1>4, <1>a
  <2> QED
    BY <1>3, <2>1, <2>2
<1>9. PICK x \in 1..Len(before), y \in 1..Len(before) :
         x < y /\ before[x] = queue[a] /\ before[y] = queue[n + j]
  <2>1. Follows(queue, before)
    BY <1>1, <1>2, Zenon
  <2> QED
    BY <1>8, <2>1, Zenon DEF Follows
<1>10. y = i
  <2>1. Uniq(before)
    BY <1>2, Zenon
  <2> QED
    BY <1>8, <1>9, <1>a, <2>1, Zenon DEF Uniq
<1>11. x \in 1..i
  BY <1>3, <1>9, <1>10
<1> QED
  BY <1>7, <1>9, <1>11, <1>a, Zenon

(* A request is granted beside the queue only to a session that writes.      *)
LEMMA GrantInTurn ==
  ASSUME NEW old \in LockRecord, NEW d \in Data, MayLock(old, d)
  PROVE  InTurn(old, Grant(old, d))
<1>1. CASE IsRead(type[d])
  <2>1. Grant(old, d).write = old.write
    BY <1>1, Zenon DEF Grant, LockRecord
  <2> QED
    BY <2>1, Zenon DEF InTurn
<1>2. CASE ~IsRead(type[d])
  <2>1. PICK new : new = Grant(old, d)
    BY Zenon
  <2>2. old.write \in Seq(Data) /\ old.write_wait \in Seq(Data)
    BY Zenon DEF LockRecord
  <2>3. new.write = Append(old.write, d) /\ new.write_wait = old.write_wait
    BY <1>2, <2>1, Zenon DEF Grant, LockRecord
  <2>4. \A e : In(e, new.write) <=> In(e, old.write) \/ e = d
    BY <2>2, <2>3, Appended
  <2>5. \/ \E i \in 1..Len(old.write) : owner(old.write[i]) = owner(d)
        \/ old.write_wait = << >>
    <3>1. MayWrite(old, d)
      BY <1>2, Zenon DEF MayLock
    <3>2. CASE old.write # << >>
      <4>1. 1 \in 1..Len(old.write)
        BY <2>2, <3>2, HeadIsQueued, Zenon
      <4> QED
        BY <3>1, <3>2, <4>1, Zenon DEF MayWrite
    <3> QED
      BY <3>1, <3>2, Zenon DEF MayWrite
  <2>6. old.write_wait = << >> => \A i : i \notin 1..Len(old.write_wait)
    OBVIOUS
  <2> QED
    BY <2>1, <2>4, <2>5, <2>6 DEF InTurn
<1> QED
  BY <1>1, <1>2, Zenon

(* The two, as steps.                                                        *)
OrderKept == \A t \in Tables : InTurn(THR_LOCK(t), THR_LOCK(t)')

(* One THR_LOCK changes, in turn.                                            *)
LEMMA InstallInTurn ==
  ASSUME TInv, NEW t \in Tables, NEW new \in LockRecord, Install(t, new), InTurn(THR_LOCK(t), new)
  PROVE  OrderKept
<1>1. /\ read'[t] = new.read /\ write'[t] = new.write
      /\ read_wait'[t] = new.read_wait /\ write_wait'[t] = new.write_wait
      /\ \A u \in Tables \ {t} : THR_LOCK(u)' = THR_LOCK(u)
  BY Installed, Zenon DEF TInv
<1>2. PICK now : now = THR_LOCK(t)'
  BY Zenon
<1>3. now.write = new.write /\ now.write_wait = new.write_wait
  BY <1>1, <1>2, Zenon DEF THR_LOCK
<1>4. InTurn(THR_LOCK(t), now)
  BY <1>3 DEF InTurn
<1>5. ASSUME NEW u \in Tables \ {t} PROVE InTurn(THR_LOCK(u), THR_LOCK(u)')
  <2>1. PICK lock : lock = THR_LOCK(u) /\ lock = THR_LOCK(u)'
    BY <1>1, Zenon
  <2>2. InTurn(lock, lock)
    BY Zenon DEF InTurn
  <2> QED
    BY <2>1, <2>2, Zenon
<1> QED
  BY <1>2, <1>4, <1>5 DEF OrderKept

(* wake_up_waiters() takes writers from the head of the queue.               *)
LEMMA WakeStepInTurn ==
  ASSUME TInv, NEW t \in Tables, NEW mid \in LockRecord, Install(t, wake_up_waiters(mid)),
         \A e : In(e, mid.write) => In(e, write[t]),
         \A e : In(e, mid.write_wait) => In(e, write_wait[t]),
         Follows(mid.write_wait, write_wait[t])
  PROVE  OrderKept
<1>1. PICK old \in LockRecord : old = THR_LOCK(t) /\ Sound(old)
  BY LockOfTable, Zenon DEF TInv, TableInv
<1>2. old.write = write[t] /\ old.write_wait = write_wait[t]
  BY <1>1, Zenon DEF THR_LOCK
<1>3. PICK new : new = wake_up_waiters(mid)
  BY Zenon
<1>4. PICK n \in 0..Len(mid.write_wait), freed \in BOOLEAN : Wakes(mid, new, n, freed)
  <2>1. mid.write_wait # << >> => type[mid.write_wait[1]] \in WriteTypes
    BY <1>1, <1>2, HeadIsQueued, Zenon DEF LockRecord, Sound
  <2>2. NatIsWellOrdered
    BY Zenon DEF TInv
  <2> QED
    BY <1>3, <2>1, <2>2, WakeUp, Zenon
<1>5. Uniq(old.write_wait)
  BY <1>1 DEF Sound
<1>8. Follows(mid.write_wait, old.write_wait) /\ \A e : In(e, mid.write) => In(e, old.write)
  BY <1>2, Zenon
<1>6. InTurn(old, new)
  BY <1>4, <1>5, <1>8, WakeInTurn
<1>7. new \in LockRecord
  BY <1>4, Zenon DEF Wakes
<1> QED
  BY <1>1, <1>3, <1>6, <1>7, InstallInTurn

(* The actions.                                                              *)
LEMMA UnlinkFollows ==
  ASSUME NEW l \in Seq(Data), Uniq(l), NEW d
  PROVE  /\ Unlink(l, d) \in Seq(Data) /\ Follows(Unlink(l, d), l) /\ Follows(l, l)
         /\ \A e : In(e, Unlink(l, d)) => In(e, l)
<1>1. /\ Unlink(l, d) \in Seq(Data)
      /\ \A e : In(e, Unlink(l, d)) <=> In(e, l) /\ e # d
      /\ \A i, j \in 1..Len(Unlink(l, d)) : i < j =>
           \E a, b \in 1..Len(l) : a < b /\ l[a] = Unlink(l, d)[i] /\ l[b] = Unlink(l, d)[j]
  BY Unlinked
<1>2. Follows(l, l)
  BY Zenon DEF Follows
<1> QED
  BY <1>1, <1>2, Zenon DEF Follows

(* Who leaves the queue lets nobody overtake.                                *)
LEMMA DequeueInTurn ==
  ASSUME TInv, NEW t \in Tables, NEW d, Install(t, wake_up_waiters(Dequeue(THR_LOCK(t), d)))
  PROVE  OrderKept
<1>1. PICK old \in LockRecord : old = THR_LOCK(t) /\ Sound(old)
  BY LockOfTable, Zenon DEF TInv, TableInv
<1>2. old.write = write[t] /\ old.write_wait = write_wait[t]
  BY <1>1, Zenon DEF THR_LOCK
<1>3. /\ old.read_wait \in Seq(Data) /\ old.write_wait \in Seq(Data)
      /\ Uniq(old.read_wait) /\ Uniq(old.write_wait)
  BY <1>1, Zenon DEF LockRecord, Sound
<1>4. /\ Unlink(old.write_wait, d) \in Seq(Data) /\ Follows(Unlink(old.write_wait, d), old.write_wait)
      /\ \A e : In(e, Unlink(old.write_wait, d)) => In(e, old.write_wait)
  BY <1>3, UnlinkFollows, Zenon
<1>5. Unlink(old.read_wait, d) \in Seq(Data)
  BY <1>3, UnlinkFollows, Zenon
<1>6. PICK mid : mid = Dequeue(old, d)
  BY Zenon
<1>7. mid \in LockRecord /\ mid.write = old.write /\ mid.write_wait = Unlink(old.write_wait, d)
  BY <1>4, <1>5, <1>6, Zenon DEF Dequeue, LockRecord
<1>8. Install(t, wake_up_waiters(mid))
  BY <1>1, <1>6
<1> QED
  BY <1>2, <1>4, <1>7, <1>8, WakeStepInTurn, Zenon

(* thr_unlock() lets nobody overtake.                                        *)
LEMMA UnlockInTurn ==
  ASSUME TInv, NEW s \in Sessions, NEW i \in 1..Len(stmt[s].tables), thr_unlock(s, i)
  PROVE  OrderKept
<1>9. PICK d : d = << s, i >>
  BY Zenon
<1>0. PICK t \in Tables : t = Table(s, i)
  <2>1. Home(d) \in Tables
    BY <1>9, DataOfSession DEF TInv
  <2>2. Home(d) = Table(s, i)
    BY <1>9, Zenon DEF Home
  <2> QED
    BY <2>1, <2>2, Zenon
<1>1. PICK old \in LockRecord : old = THR_LOCK(t) /\ Sound(old)
  BY LockOfTable, Zenon DEF TInv, TableInv
<1>2. old.write = write[t] /\ old.write_wait = write_wait[t]
  BY <1>1, Zenon DEF THR_LOCK
<1>3. /\ old.read \in Seq(Data) /\ old.write \in Seq(Data) /\ old.write_wait \in Seq(Data)
      /\ Uniq(old.read) /\ Uniq(old.write) /\ Uniq(old.write_wait)
  BY <1>1, Zenon DEF LockRecord, Sound
<1>4. /\ Unlink(old.write, d) \in Seq(Data)
      /\ \A e : In(e, Unlink(old.write, d)) => In(e, old.write)
  BY <1>3, UnlinkFollows, Zenon
<1>5. Unlink(old.read, d) \in Seq(Data) /\ Follows(old.write_wait, old.write_wait)
  BY <1>3, UnlinkFollows, Zenon
<1>6. PICK mid : mid = [old EXCEPT !.read = Unlink(old.read, d), !.write = Unlink(old.write, d)]
  BY Zenon
<1>7. mid \in LockRecord /\ mid.write = Unlink(old.write, d) /\ mid.write_wait = old.write_wait
  BY <1>4, <1>5, <1>6, Zenon DEF LockRecord
<1>8. Install(t, wake_up_waiters(mid))
  BY <1>0, <1>1, <1>6, <1>9 DEF thr_unlock
<1> QED
  BY <1>2, <1>4, <1>5, <1>7, <1>8, WakeStepInTurn

(* No writer gets a lock.                                                    *)
LEMMA NoWriterInTurn ==
  ASSUME TInv, write' = write
  PROVE  OrderKept
<1> SUFFICES ASSUME NEW t \in Tables PROVE InTurn(THR_LOCK(t), THR_LOCK(t)')
  BY Zenon DEF OrderKept
<1>1. PICK old, new : old = THR_LOCK(t) /\ new = THR_LOCK(t)'
  BY Zenon
<1>2. old.write = new.write
  BY <1>1, Zenon DEF THR_LOCK
<1>3. InTurn(old, new)
  BY <1>2, Zenon DEF InTurn
<1> QED
  BY <1>1, <1>3, Zenon

(* thr_lock() gives a write lock at once only to who may have it.            *)
LEMMA thr_lock_InTurn ==
  ASSUME TInv, NEW s \in Sessions, thr_lock(s)
  PROVE  OrderKept
<1>1. PICK d : d = Current(s)
  BY Zenon
<1>2. /\ d \in Data /\ Home(d) = Table(s, d[2]) /\ Home(d) \in Tables
      /\ type[d] \in ReadTypes \cup WriteTypes /\ Named(d) /\ Free(d)
      /\ Uniform(THR_LOCK(Home(d)), d)
  BY <1>1, LockSetup, Zenon DEF thr_lock, At
<1>3. PICK t \in Tables : t = Home(d)
  BY <1>2, Zenon
<1>4. PICK old \in LockRecord : old = THR_LOCK(t) /\ Sound(old) /\ Attended(old)
  BY LockOfTable, Zenon DEF TInv, TableInv
<1>5. ~Holds(old, d) /\ ~Queued(old, d)
  BY <1>2, <1>3, <1>4, Zenon DEF Free, Held, Waits
<1>6. CASE MayLock(old, d) /\ Install(t, Grant(old, d))
  <2>1. PICK new : new = Grant(old, d)
    BY Zenon
  <2>2. new \in LockRecord
    BY <1>2, <1>3, <1>4, <1>5, <1>6, <2>1, Granted
  <2>3. InTurn(old, new)
    BY <1>2, <1>6, <2>1, GrantInTurn
  <2> QED
    BY <1>4, <1>6, <2>1, <2>2, <2>3, InstallInTurn
<1>7. CASE UNCHANGED lists
  BY <1>7, NoWriterInTurn DEF lists
<1>8. CASE ~MayLock(old, d) /\ Install(t, Queue(old, d))
  <2>1. Queue(old, d).write = old.write
    BY Zenon DEF Queue, LockRecord
  <2>2. write' = write
    BY <1>4, <1>8, <2>1, TypeParts, Zenon DEF Install, ListTypes, THR_LOCK
  <2> QED
    BY <2>2, NoWriterInTurn, Zenon
<1>9. CASE Install(t, wake_up_waiters(old))
  <2>1. old.write = write[t] /\ old.write_wait = write_wait[t]
    BY <1>4, Zenon DEF THR_LOCK
  <2>2. Follows(old.write_wait, old.write_wait)
    BY Zenon DEF Follows
  <2> QED
    BY <1>9, <2>1, <2>2, WakeStepInTurn, Zenon
<1> QED
  BY <1>1, <1>2, <1>3, <1>4, <1>6, <1>7, <1>8, <1>9, Zenon DEF thr_lock

(* No step lets a writer overtake.                                           *)
LEMMA StepInTurn ==
  ASSUME TInv, [Next]_vars
  PROVE  OrderKept
<1>1. CASE UNCHANGED vars
  BY <1>1, NoWriterInTurn, Zenon DEF vars, lists
<1>2. CASE Next
  <2>1. PICK s \in Sessions : \/ open_tables(s) \/ Run(s) \/ unlockSomeTables(s)
                              \/ awake(s) \/ lockOnSys(s)
    BY <1>2, Zenon DEF Next
  <2>2. CASE open_tables(s) \/ execute(s) \/ table_removed(s) \/ awake(s) \/ lockOnSys(s)
    <3>1. UNCHANGED lists
      BY <2>2 DEF open_tables, execute, table_removed, awake, lockOnSys, lists
    <3> QED
      BY <3>1, NoWriterInTurn, Zenon DEF lists
  <2>3. CASE unlockSomeTables(s)
    BY <2>3, UnlockInTurn, Zenon DEF unlockSomeTables
  <2>4. CASE thr_lock(s)
    BY <2>4, thr_lock_InTurn
  <2>5. CASE wait_for_lock(s)
    <3>1. PICK d : d = Current(s)
      BY Zenon
    <3>2. Home(d) = Table(s, d[2]) /\ Home(d) \in Tables
      BY <2>5, <3>1, WaitSetup, Zenon DEF wait_for_lock, At
    <3>3. CASE UNCHANGED lists
      BY <3>3, NoWriterInTurn, Zenon DEF lists
    <3>4. CASE Install(Table(s, d[2]), wake_up_waiters(Dequeue(THR_LOCK(Table(s, d[2])), d)))
      BY <3>2, <3>4, DequeueInTurn, Zenon
    <3> QED
      BY <2>5, <3>1, <3>3, <3>4, Zenon DEF wait_for_lock
  <2>6. CASE thr_multi_unlock(s)
    <3>0. pc[s] = "fail"
      BY <2>6, Zenon DEF thr_multi_unlock, At
    <3>1. PICK n \in Nat : n = Len(stmt[s].tables)
      BY DataOfSession, Zenon DEF TInv
    <3>2. pos[s] \in 1..n
      BY <3>0, <3>1, Zenon DEF TInv, SessionInv
    <3>3. PICK got : got = AlreadyLocked(s)
      BY Zenon
    <3>4. got \in SUBSET (1..n)
      BY <3>1, <3>2, <3>3 DEF AlreadyLocked
    <3>5. CASE got = {}
      <4>1. UNCHANGED lists
        BY <2>6, <3>3, <3>5 DEF thr_multi_unlock
      <4> QED
        BY <4>1, NoWriterInTurn, Zenon DEF lists
    <3>6. CASE got # {}
      <4>1. PICK k \in 1..n : thr_unlock(s, Order[stmt[s]][k])
        <5>1. (CHOOSE k \in got : \A l \in got : k <= l) \in 1..n
          BY <3>1, <3>4, <3>6, FirstIn, Zenon DEF TInv
        <5> QED
          BY <2>6, <3>3, <3>6, <5>1 DEF thr_multi_unlock
      <4>2. Order[stmt[s]][k] \in 1..Len(stmt[s].tables)
        BY <3>1, DataInOrder, Zenon DEF TInv
      <4> QED
        BY <4>1, <4>2, UnlockInTurn, Zenon
    <3> QED
      BY <3>5, <3>6, Zenon
  <2>7. CASE unlockTables(s)
    <3>1. PICK n \in Nat : n = Len(stmt[s].tables)
      BY DataOfSession, Zenon DEF TInv
    <3>2. PICK got \in SUBSET (1..n) :
             got = { i \in 1..Len(stmt[s].tables) : type[<< s, i >>] # TL_UNLOCK }
      BY <3>1, Zenon
    <3>3. CASE got = {}
      <4>1. UNCHANGED lists
        BY <2>7, <3>2, <3>3, Zenon DEF unlockTables, lists
      <4> QED
        BY <4>1, NoWriterInTurn, Zenon DEF lists
    <3>4. CASE got # {}
      <4>1. (CHOOSE k \in got : \A l \in got : k <= l) \in 1..n
        <5>1. NatIsWellOrdered
          BY Zenon DEF TInv
        <5>2. (CHOOSE k \in got : \A l \in got : k <= l) \in got
          BY <3>1, <3>4, <5>1, FirstIn, Zenon
        <5> QED
          BY <5>2, Zenon
      <4>2. PICK i \in 1..n : thr_unlock(s, i)
        BY <2>7, <3>2, <3>4, <4>1 DEF unlockTables
      <4> QED
        BY <3>1, <4>2, UnlockInTurn
    <3> QED
      BY <3>3, <3>4, Zenon
  <2>8. CASE abort_locks(s)
    <3>1. write' = write
      BY <2>8, TypeParts, Zenon DEF abort_locks, Install, THR_LOCK, ListTypes
    <3> QED
      BY <3>1, NoWriterInTurn, Zenon
  <2>9. CASE removeTable(s)
    <3>1. PICK u \in Sessions : \E i \in 1..Len(stmt[u].tables) :
             Install(Table(u, i), wake_up_waiters(Dequeue(THR_LOCK(Table(u, i)), << u, i >>)))
      BY <2>9, Zenon DEF removeTable
    <3>2. PICK i \in 1..Len(stmt[u].tables) :
             Install(Table(u, i), wake_up_waiters(Dequeue(THR_LOCK(Table(u, i)), << u, i >>)))
      BY <3>1, Zenon
    <3>3. Home(<< u, i >>) \in Tables /\ Home(<< u, i >>) = Table(u, i)
      <4>1. Home(<< u, i >>) \in Tables
        BY DataOfSession, Zenon DEF TInv
      <4> QED
        BY <4>1, Zenon DEF Home
    <3> QED
      BY <3>2, <3>3, DequeueInTurn, Zenon
  <2> QED
    BY <2>1, <2>2, <2>3, <2>4, <2>5, <2>6, <2>7, <2>8, <2>9, Zenon DEF Run
<1> QED
  BY <1>1, <1>2, Zenon

-----------------------------------------------------------------------------
(* The facts about the constants, the initial state and the theorems.        *)
INSTANCE FiniteSetTheorems

(* sort_locks(): the place of an element in a total order is the number of   *)
(* elements before it, so that every place is taken exactly once.            *)
LEMMA Ranked ==
  ASSUME NEW n \in Nat, NEW B,
         \A i \in 1..n : << i, i >> \notin B,
         \A i, j, k \in 1..n : << i, j >> \in B /\ << j, k >> \in B => << i, k >> \in B,
         \A i, j \in 1..n : i # j => << i, j >> \in B \/ << j, i >> \in B
  PROVE  LET rank(i) == Cardinality({ j \in 1..n : << j, i >> \in B })
         IN  /\ \A i, j \in 1..n : rank(i) = rank(j) => i = j
             /\ \A i \in 1..n : rank(i) \in 0..n - 1
             /\ \A k \in 1..n : \E i \in 1..n : rank(i) = k - 1
<1> DEFINE before(i) == { j \in 1..n : << j, i >> \in B }
           rank(i) == Cardinality(before(i))
<1>1. IsFiniteSet(1..n) /\ Cardinality(1..n) = n
  BY FS_Interval
<1>2. \A i \in 1..n : IsFiniteSet(before(i)) /\ rank(i) \in Nat
  <2> TAKE i \in 1..n
  <2>1. before(i) \in SUBSET (1..n)
    BY Zenon
  <2> HIDE DEF before
  <2>2. IsFiniteSet(before(i))
    BY <1>1, <2>1, FS_Subset, Zenon
  <2> QED
    BY <2>2, FS_CardinalityType, Zenon
<1>3. ASSUME NEW i \in 1..n PROVE rank(i) <= n - 1
  <2>1. before(i) \in SUBSET (1..n \ {i})
    BY Zenon
  <2>2. IsFiniteSet(1..n \ {i}) /\ Cardinality(1..n \ {i}) = n - 1
    BY <1>1, FS_RemoveElement, Zenon
  <2> HIDE DEF before
  <2> QED
    BY <2>1, <2>2, FS_Subset
<1>4. ASSUME NEW i \in 1..n, NEW j \in 1..n, << i, j >> \in B PROVE rank(i) # rank(j)
  <2>1. before(i) \in SUBSET before(j) /\ i \in before(j) /\ i \notin before(i)
    BY <1>4
  <2> HIDE DEF before
  <2>2. before(i) # before(j)
    BY <2>1, Zenon
  <2> QED
    BY <1>2, <2>1, <2>2, FS_Subset, Zenon
<1> HIDE DEF before
<1>5. \A i, j \in 1..n : rank(i) = rank(j) => i = j
  BY <1>4, Zenon
<1>6. \A i \in 1..n : rank(i) \in 0..n - 1
  BY <1>2, <1>3
<1> HIDE DEF rank
<1>7. \A k \in 1..n : \E i \in 1..n : rank(i) = k - 1
  <2> DEFINE f == [i \in 1..n |-> rank(i)]
  <2>1. f \in [1..n -> 0..n - 1] /\ \A i, j \in 1..n : f[i] = f[j] => i = j
    BY <1>5, <1>6
  <2>2. f \in Injection(1..n, 0..n - 1)
    BY <2>1, Zenon DEF Injection, IsInjective
  <2>3. IsFiniteSet(0..n - 1) /\ Cardinality(0..n - 1) = n
    BY FS_Interval
  <2>4. f \in Surjection(1..n, 0..n - 1)
    BY <1>1, <2>2, <2>3, FS_Injection
  <2>5. ASSUME NEW k \in 1..n PROVE \E i \in 1..n : rank(i) = k - 1
    <3>1. k - 1 \in 0..n - 1
      OBVIOUS
    <3>2. \E i \in 1..n : f[i] = k - 1
      BY <2>4, <3>1, Zenon DEF Surjection
    <3> QED
      BY <3>2
  <2> QED
    BY <2>5
<1> QED
  BY <1>5, <1>6, <1>7, Zenon DEF rank, before

(* Every lock of a statement has one place in the order of thr_multi_lock(). *)
LEMMA Permuted ==
  ASSUME NEW st \in Statements
  PROVE  LET n == Len(st.tables)
         IN  /\ n \in Nat /\ \A k \in 1..n : Order[st][k] \in 1..n
             /\ \A k, l \in 1..n : Order[st][k] = Order[st][l] => k = l
             /\ \A i \in 1..n : \E k \in 1..n : Order[st][k] = i
<1> DEFINE n == Len(st.tables)
           Before(i, j) == LOCK_CMP(st, i, j) \/ (~LOCK_CMP(st, j, i) /\ i < j)
           rank(i) == Cardinality({ j \in 1..n : Before(j, i) })
           B == { p \in (1..n) \X (1..n) : Before(p[1], p[2]) }
<1>1. n \in Nat /\ \A i \in 1..n : st.tables[i] \in Nat /\ LockType(st, i) \in Nat
  <2>1. st.tables \in Seq(Tables)
    BY StatementsAssumption
  <2>2. \A i \in 1..n : st.tables[i] \in Nat
    BY <2>1, BoundsAssumption, Elements, Zenon
  <2>3. \A i \in 1..n : LockType(st, i) \in Nat
    BY LockTypes DEF TL_READ, TL_READ_WITH_SHARED_LOCKS, TL_WRITE_ALLOW_WRITE,
                     TL_WRITE_ALLOW_READ, TL_WRITE
  <2> QED
    BY <2>1, <2>2, <2>3, Elements
<1> HIDE DEF n
<1>2. /\ \A i \in 1..n : ~Before(i, i)
      /\ \A i, j \in 1..n : i # j => Before(i, j) \/ Before(j, i)
  BY <1>1 DEF LOCK_CMP
<1>3. \A i, j, k \in 1..n : Before(i, j) /\ Before(j, k) => Before(i, k)
  BY <1>1 DEF LOCK_CMP
<1>4. \A i, j \in 1..n : << i, j >> \in B <=> Before(i, j)
  BY Zenon
<1> HIDE DEF Before
<1>5. \A i \in 1..n : { j \in 1..n : Before(j, i) } = { j \in 1..n : << j, i >> \in B }
  BY <1>4
<1> HIDE DEF B
<1>6. /\ \A i, j \in 1..n : rank(i) = rank(j) => i = j
      /\ \A i \in 1..n : rank(i) \in 0..n - 1
      /\ \A k \in 1..n : \E i \in 1..n : rank(i) = k - 1
  <2>1. /\ \A i \in 1..n : << i, i >> \notin B
        /\ \A i, j, k \in 1..n : << i, j >> \in B /\ << j, k >> \in B => << i, k >> \in B
        /\ \A i, j \in 1..n : i # j => << i, j >> \in B \/ << j, i >> \in B
    BY <1>2, <1>3, <1>4
  <2> DEFINE r(i) == Cardinality({ j \in 1..n : << j, i >> \in B })
  <2>2. /\ \A i, j \in 1..n : r(i) = r(j) => i = j
        /\ \A i \in 1..n : r(i) \in 0..n - 1
        /\ \A k \in 1..n : \E i \in 1..n : r(i) = k - 1
    BY <1>1, <2>1, Ranked, Zenon
  <2>3. \A i \in 1..n : r(i) = rank(i)
    BY <1>5, Zenon
  <2> HIDE DEF r, rank
  <2> QED
    BY <2>2, <2>3
<1>7. Order[st] = [k \in 1..n |-> CHOOSE i \in 1..n : rank(i) = k - 1]
  BY Zenon DEF Order, sort_locks, n, Before
<1> HIDE DEF rank
<1>8. \A k \in 1..n : Order[st][k] \in 1..n /\ rank(Order[st][k]) = k - 1
  BY <1>6, <1>7, Zenon
<1>9. \A k, l \in 1..n : Order[st][k] = Order[st][l] => k = l
  <2> SUFFICES ASSUME NEW k \in 1..n, NEW l \in 1..n, Order[st][k] = Order[st][l] PROVE k = l
    BY Zenon
  <2>1. k - 1 = l - 1
    BY <1>8, Zenon
  <2> QED
    BY <1>1, <2>1
<1>10. ASSUME NEW i \in 1..n PROVE \E k \in 1..n : Order[st][k] = i
  <2> DEFINE k == rank(i) + 1
  <2>1. k \in 1..n /\ k - 1 = rank(i)
    BY <1>1, <1>6
  <2>2. Order[st][k] = i
    BY <1>6, <1>8, <2>1
  <2> QED
    BY <2>1, <2>2
<1> QED
  BY <1>1, <1>8, <1>9, <1>10 DEF n

(* A set of numbers has a least one.                                         *)
LEMMA Smallest ==
  ASSUME NEW T \in SUBSET Nat, T # {}
  PROVE  \E m \in T : \A k \in T : m <= k
<1> DEFINE R == { ss \in Nat \X Nat : ss[1] < ss[2] }
<1>1. IsWellFoundedOn(R, Nat)
  BY NatLessThanWellFounded, Zenon DEF OpToRel
<1>2. \E m \in T : \A k \in T : ~(<< k, m >> \in R)
  <2> HIDE DEF R
  <2> QED
    BY <1>1, WFMin, Zenon
<1>3. \A k, m \in Nat : << k, m >> \in R <=> k < m
  BY Zenon
<1> HIDE DEF R
<1>4. \A k, m \in T : ~(k < m) => m <= k
  OBVIOUS
<1> QED
  BY <1>2, <1>3, <1>4, Zenon

(* The two facts about the constants.                                        *)
LEMMA ConstantFacts == NatIsWellOrdered /\ OrderIsComplete
<1>1. NatIsWellOrdered
  BY Smallest, Zenon DEF NatIsWellOrdered
<1>2. OrderIsComplete
  BY Permuted, Zenon DEF OrderIsComplete
<1> QED
  BY <1>1, <1>2, Zenon

(* The inductive invariant holds before the first statement.                *)
LEMMA InitHolds ==
  ASSUME Init
  PROVE  TInv
<1> DEFINE first == CHOOSE st \in Statements : TRUE
<1>1. first \in Statements
  BY SomeStatementAssumption, Zenon
<1> HIDE DEF first
<1>2. /\ read = [t \in Tables |-> << >>] /\ write = [t \in Tables |-> << >>]
      /\ read_wait = [t \in Tables |-> << >>] /\ write_wait = [t \in Tables |-> << >>]
      /\ write_lock_count = [t \in Tables |-> 0]
  BY Zenon DEF Init
<1>3. ListTypes
  <2>1. << >> \in Seq(Data)
    OBVIOUS
  <2> QED
    BY <1>2, <2>1, Zenon DEF ListTypes
<1>4. type = [d \in Data |-> TL_UNLOCK] /\ stmt = [s \in Sessions |-> first] /\ pc = [s \in Sessions |-> "idle"]
  BY DEF Init, first
<1>5. TypeTypes
  BY <1>4 DEF TypeTypes, TL_UNLOCK, TL_WRITE_ONLY
<1>6. ThreadTypes
  BY BoundsAssumption DEF Init, ThreadTypes, Places
<1>7. TypeOK
  BY <1>1, <1>3, <1>4, <1>5, <1>6 DEF TypeOK, ListTypes, TypeTypes, ThreadTypes
<1>8. \A t \in Tables : /\ THR_LOCK(t).read = << >> /\ THR_LOCK(t).write = << >>
                        /\ THR_LOCK(t).read_wait = << >> /\ THR_LOCK(t).write_wait = << >>
  BY <1>2, Zenon DEF THR_LOCK
<1>9. ASSUME NEW t \in Tables PROVE TableInv(t) /\ \A e : ~Holds(THR_LOCK(t), e) /\ ~Queued(THR_LOCK(t), e)
  <2>1. PICK lock : lock = THR_LOCK(t)
    BY Zenon
  <2>2. lock.read = << >> /\ lock.write = << >> /\ lock.read_wait = << >> /\ lock.write_wait = << >>
    BY <1>8, <2>1
  <2>3. \A e : ~In(e, << >>)
    BY DEF In
  <2>4. Uniq(<< >>)
    BY DEF Uniq
  <2>5. \A e : ~Holds(lock, e) /\ ~Queued(lock, e)
    BY <2>2, <2>3 DEF Holds, Queued
  <2>6. Sound(lock) /\ Attended(lock)
    BY <2>2, <2>3, <2>4, <2>5 DEF Sound, Attended
  <2> QED
    BY <2>1, <2>5, <2>6 DEF TableInv
<1>10. \A d \in Data : TypeInv(d)
  BY <1>4, Zenon DEF TypeInv
<1>11. ASSUME NEW s \in Sessions PROVE SessionInv(s)
  <2>1. \A i \in 1..Len(stmt[s].tables) : Home(<< s, i >>) \in Tables
    BY <1>7, DataOfSession
  <2>2. \A i \in 1..Len(stmt[s].tables) : Free(<< s, i >>)
    BY <1>9, <2>1 DEF Free, Held, Waits
  <2>3. pc[s] = "idle"
    BY <1>4, Zenon
  <2> QED
    BY <2>2, <2>3, Zenon DEF SessionInv, Free
<1> QED
  BY <1>7, <1>9, <1>10, <1>11, ConstantFacts DEF TInv

(* The inductive invariant holds in every state of every session, table and  *)
(* statement: the lists of thr_lock.cc stay sound, and every session knows   *)
(* what it holds.                                                            *)
THEOREM ThrLockInvariance == Spec => []TInv
<1>1. Init => TInv
  BY InitHolds
<1>2. TInv /\ [Next]_vars => TInv'
  BY NextKeeps
<1> QED
  BY <1>1, <1>2, PTL DEF Spec

(* The types of the variables: no list holds anything but lock data.         *)
THEOREM ThrLockTypeCorrect == Spec => []TypeOK
<1>1. TInv => TypeOK
  BY Zenon DEF TInv
<1> QED
  BY <1>1, ThrLockInvariance, PTL

(* Two sessions hold locks on a table only if the types of the locks allow   *)
(* it, whatever thr_lock(), wake_up_waiters() and abort_locks() have done.   *)
THEOREM LocksAreCompatible == Spec => []LocksCompatible
<1>1. TInv => LocksCompatible
  <2> SUFFICES ASSUME TInv, NEW t \in Tables, NEW d \in Active(t), NEW e \in Active(t), owner(d) # owner(e)
               PROVE  Compatible(type[d], type[e])
    BY Zenon DEF LocksCompatible
  <2>1. d \in Data /\ e \in Data /\ Holds(THR_LOCK(t), d) /\ Holds(THR_LOCK(t), e)
    BY Zenon DEF Active, Holds, THR_LOCK
  <2> QED
    BY <2>1 DEF TInv, TableInv, Sound
<1> QED
  BY <1>1, ThrLockInvariance, PTL

(* Somebody who waits for a table waits for a session that holds it: no      *)
(* grant, failure, abort or shutdown leaves a queue that nobody looks after. *)
THEOREM NoWaiterIsForgotten == Spec => []NobodyForgotten
<1>1. TInv => NobodyForgotten
  <2> SUFFICES ASSUME TInv, NEW t \in Tables, read_wait[t] # << >> \/ write_wait[t] # << >>
               PROVE  Active(t) # {}
    BY Zenon DEF NobodyForgotten
  <2>1. read[t] # << >> \/ write[t] # << >>
    BY Zenon DEF TInv, TableInv, Attended, THR_LOCK
  <2>2. read[t] \in Seq(Data) /\ write[t] \in Seq(Data)
    BY TypeParts DEF ListTypes
  <2>3. \E d \in Data : In(d, read[t]) \/ In(d, write[t])
    BY <2>1, <2>2, HeadIsQueued, Zenon
  <2> QED
    BY <2>3, Zenon DEF Active
<1> QED
  BY <1>1, ThrLockInvariance, PTL

(* A statement runs with all its locks, but for those a SELECT has given     *)
(* back, and a session between two statements is in no list of any table.    *)
THEOREM LocksAllOrNothing == Spec => []AllOrNothing
<1>1. TInv => AllOrNothing
  <2> SUFFICES ASSUME TInv, NEW s \in Sessions
               PROVE  /\ pc[s] \in { "locked", "removing" } =>
                           \A i \in 1..Len(stmt[s].tables) :
                               \/ << s, i >> \in Active(Table(s, i))
                               \/ stmt[s].command = "SELECT" /\ type[<< s, i >>] = TL_UNLOCK
                      /\ pc[s] = "idle" =>
                           \A t \in Tables, i \in 1..MaxLocks :
                               /\ << s, i >> \notin Active(t)
                               /\ ~In(<< s, i >>, read_wait[t]) /\ ~In(<< s, i >>, write_wait[t])
    BY Zenon DEF AllOrNothing
  <2>1. ASSUME pc[s] \in { "locked", "removing" }, NEW i \in 1..Len(stmt[s].tables), Held(<< s, i >>)
        PROVE  << s, i >> \in Active(Table(s, i))
    <3>1. << s, i >> \in Data
      BY DataOfSession DEF TInv
    <3> QED
      BY <2>1, <3>1 DEF Active, Held, Holds, THR_LOCK, Home
  <2>2. ASSUME pc[s] = "idle", NEW t \in Tables, NEW i \in 1..MaxLocks
        PROVE  /\ << s, i >> \notin Active(t)
               /\ ~In(<< s, i >>, read_wait[t]) /\ ~In(<< s, i >>, write_wait[t])
    <3>0. << s, i >> \in Data
      BY <2>2 DEF Data
    <3>1. PICK d \in Data : d = << s, i >> /\ d[1] = s
      BY <3>0
    <3>2. ~Holds(THR_LOCK(t), d) /\ ~Queued(THR_LOCK(t), d)
      BY <2>2, <3>1, IdleIsNowhere
    <3> QED
      BY <3>1, <3>2 DEF Holds, Queued, THR_LOCK, Active
  <2>3. pc[s] \in { "locked", "removing" } => \A i \in 1..Len(stmt[s].tables) :
           Held(<< s, i >>) \/ (stmt[s].command = "SELECT" /\ type[<< s, i >>] = TL_UNLOCK)
    BY DEF TInv, SessionInv
  <2> QED
    BY <2>1, <2>2, <2>3
<1> QED
  BY <1>1, ThrLockInvariance, PTL

(* ALTER TABLE goes on to replace the table only when no other session holds *)
(* it or waits for it.                                                       *)
THEOREM AlterTableIsAlone == Spec => AloneWhenRemoved
<1>1. ASSUME TInv, [Next]_vars, NEW s \in Sessions, pc[s] = "removing", pc'[s] = "unlock"
      PROVE  LET t == Table(s, 1)
             IN  /\ \A d \in Active(t) : owner(d) = s
                 /\ read_wait[t] = << >> /\ write_wait[t] = << >>
  <2>1. Next
    BY <1>1 DEF vars, thread
  <2>2. table_removed(s)
    BY <1>1, <2>1, OnlyTableRemoved, Zenon
  <2>3. stmt[s].command = "ALTER_TABLE"
    BY <1>1 DEF TInv, SessionInv
  <2>4. PICK t \in Tables : t = Table(s, 1)
    BY <1>1, <2>3, AlterSetup, Zenon
  <2>5. \A u \in Sessions \ {s} : t \notin OpenTables(u)
    BY <2>2, <2>4 DEF table_removed
  <2> QED
    BY <1>1, <2>4, <2>5, NotOpenNotLocked, Zenon
<1>2. TInv /\ [Next]_vars =>
         [\A s \in Sessions : pc[s] = "removing" /\ pc'[s] = "unlock" =>
             LET t == Table(s, 1)
             IN  /\ \A d \in Active(t) : owner(d) = s
                 /\ read_wait[t] = << >> /\ write_wait[t] = << >>]_vars
  BY <1>1, Zenon
<1> QED
  BY <1>2, ThrLockInvariance, PTL DEF Spec, AloneWhenRemoved

(* Writers are served in the order they came: nobody gets a write lock while *)
(* a session that queued before stays queued, unless the session already     *)
(* writes the table.                                                         *)
THEOREM WritersAreServedInOrder == Spec => WritersInOrder
<1>1. ASSUME TInv, [Next]_vars, NEW t \in Tables, NEW d \in Data, In(d, write[t])', ~In(d, write[t])
      PROVE  \/ \E i \in 1..Len(write[t]) : owner(write[t][i]) = owner(d)
             \/ \A j \in 1..Len(write_wait'[t]) :
                   ~\E i \in 1..Len(write_wait[t]) :
                       /\ write_wait[t][i] = write_wait'[t][j]
                       /\ \A k \in 1..i : write_wait[t][k] # d
  <2>1. PICK old, new : old = THR_LOCK(t) /\ new = THR_LOCK(t)'
    BY Zenon
  <2>2. /\ old.write = write[t] /\ old.write_wait = write_wait[t]
        /\ new.write = write'[t] /\ new.write_wait = write_wait'[t]
    BY <2>1, Zenon DEF THR_LOCK
  <2>3. InTurn(old, new)
    BY <1>1, <2>1, StepInTurn DEF OrderKept
  <2>4. In(d, write'[t])
    BY <1>1, Zenon DEF In
  <2>5. In(d, new.write) /\ ~In(d, old.write)
    BY <1>1, <2>2, <2>4, Zenon
  <2>6. \/ \E i \in 1..Len(old.write) : owner(old.write[i]) = owner(d)
        \/ \A j \in 1..Len(new.write_wait) :
              ~\E i \in 1..Len(old.write_wait) :
                  /\ old.write_wait[i] = new.write_wait[j]
                  /\ \A k \in 1..i : old.write_wait[k] # d
    BY <2>3, <2>5, Zenon DEF InTurn
  <2> QED
    BY <2>2, <2>6, Zenon
<1>2. TInv /\ [Next]_vars =>
         [\A t \in Tables : \A d \in Data :
             In(d, write[t])' /\ ~In(d, write[t]) =>
                \/ \E i \in 1..Len(write[t]) : owner(write[t][i]) = owner(d)
                \/ \A j \in 1..Len(write_wait'[t]) :
                      ~\E i \in 1..Len(write_wait[t]) :
                          /\ write_wait[t][i] = write_wait'[t][j]
                          /\ \A k \in 1..i : write_wait[t][k] # d]_vars
  BY <1>1
<1> QED
  BY <1>2, ThrLockInvariance, PTL DEF Spec, WritersInOrder
=============================================================================
