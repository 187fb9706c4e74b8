------------------------ MODULE GlobalReadLockWakeupProofs ------------------------
(***************************************************************************)
(* No wake-up of locking/global.cc is lost, for any number of sessions.     *)
(* NobodySleepsInVain is inductive together with IInv: that the last        *)
(* protection is given back with a notification rests on the counters       *)
(* counting the sleepers.                                                   *)
(***************************************************************************)
EXTENDS GlobalReadLockProofs

-----------------------------------------------------------------------------
(* What a session that sleeps waits for is still to come.                    *)
Sound(t) ==
    /\ pc[t] \in {"wait_grl", "wait_make"} =>
           protect_against_global_read_lock > 0 \/ owes # {}
    /\ pc[t] \in {"wait_job", "wait_lock", "wait_commit"} =>
           global_read_lock > 0 \/ owes # {}
    /\ pc[t] = "wait_flush" => \E u \in Sessions \ {t} : tab[u] = "old"
    /\ pc[t] = "wait_open" => \E u \in Sessions : tab[u] = "old"

(* A step of s that adds at most s to the sleepers, and takes nothing away   *)
(* that the others wait for.                                                 *)
SleepersStay(s) == \A t \in asleep' : t # s => t \in asleep /\ pc'[t] = pc[t]

KeepsProtections(s) ==
    \A t \in asleep' : t # s /\ pc[t] \in {"wait_grl", "wait_make"} =>
        (protect_against_global_read_lock > 0 \/ owes # {} =>
             protect_against_global_read_lock' > 0 \/ owes' # {})

KeepsLock(s) ==
    \A t \in asleep' : t # s /\ pc[t] \in {"wait_job", "wait_lock", "wait_commit"} =>
        (global_read_lock > 0 \/ owes # {} => global_read_lock' > 0 \/ owes' # {})

KeepsTables(s) ==
    \A t \in asleep' : t # s /\ pc[t] \in {"wait_flush", "wait_open"} =>
        \A u \in Sessions : tab[u] = "old" => tab'[u] = "old"

(* Such a step keeps everybody's sleep sound, if s sleeps soundly itself.    *)
LEMMA SoundStep ==
  ASSUME NobodySleepsInVain, NEW s, SleepersStay(s), KeepsProtections(s), KeepsLock(s),
         KeepsTables(s), s \in asleep' => Sound(s)'
  PROVE  NobodySleepsInVain'
<1> SUFFICES ASSUME NEW t \in asleep', t # s
             PROVE  Sound(t)'
  BY Zenon DEF NobodySleepsInVain, Sound
<1>1. t \in asleep /\ pc'[t] = pc[t]
  BY Zenon DEF SleepersStay
<1>2. Sound(t)
  BY <1>1, Zenon DEF NobodySleepsInVain, Sound
<1>3. pc'[t] \in {"wait_grl", "wait_make"} =>
         protect_against_global_read_lock' > 0 \/ owes' # {}
  BY <1>1, <1>2, Zenon DEF Sound, KeepsProtections
<1>4. pc'[t] \in {"wait_job", "wait_lock", "wait_commit"} =>
         global_read_lock' > 0 \/ owes' # {}
  BY <1>1, <1>2, Zenon DEF Sound, KeepsLock
<1>5. pc'[t] = "wait_flush" => \E u \in Sessions \ {t} : tab'[u] = "old"
  BY <1>1, <1>2, Zenon DEF Sound, KeepsTables
<1>6. pc'[t] = "wait_open" => \E u \in Sessions : tab'[u] = "old"
  BY <1>1, <1>2, Zenon DEF Sound, KeepsTables
<1> QED
  BY <1>3, <1>4, <1>5, <1>6, Zenon DEF Sound

(* A thread that runs and goes somewhere else, with the sleepers unchanged   *)
(* or joined by it.                                                          *)
LEMMA Moves ==
  ASSUME TypeOK, NEW s \in Sessions, NEW l, Goto(s, l)
  PROVE  /\ pc'[s] = l
         /\ asleep' \subseteq asleep \cup {s} => SleepersStay(s)
<1>1. pc'[s] = l /\ \A t \in Sessions : t # s => pc'[t] = pc[t]
  BY DEF TypeOK, Goto
<1>2. asleep \subseteq Sessions
  BY Zenon DEF TypeOK
<1> QED
  BY <1>1, <1>2, Zenon DEF SleepersStay

(* A step of a running thread that leaves the counters, the tables and the   *)
(* sleepers alone.                                                           *)
LEMMA PlainStep ==
  ASSUME IInv, NobodySleepsInVain, NEW s \in Sessions, s \notin asleep, NEW l, Goto(s, l),
         UNCHANGED << counters, tab, asleep, owes >>
  PROVE  NobodySleepsInVain'
<1>1. SleepersStay(s)
  BY Moves, Zenon DEF IInv
<1>2. KeepsProtections(s) /\ KeepsLock(s) /\ KeepsTables(s)
  BY Zenon DEF KeepsProtections, KeepsLock, KeepsTables, counters
<1> QED
  BY <1>1, <1>2, SoundStep, Zenon

-----------------------------------------------------------------------------
(* The actions, in the order of Next.                                        *)

(* Steps that only move the thread on.                                       *)
LEMMA PlainActions ==
  ASSUME IInv, NobodySleepsInVain, NEW s \in Sessions,
         \/ execute(s) \/ cleanup(s) \/ engine_error(s) \/ alter_schema(s) \/ engine(s)
         \/ commitPhaseOne(s) \/ rollbackTransaction(s) \/ autocommitOrRollback(s) \/ answer(s)
  PROVE  NobodySleepsInVain'
<1>1. /\ s \notin asleep
      /\ \E l : Goto(s, l)
      /\ UNCHANGED << counters, tab, asleep, owes >>
  <2>1. CASE execute(s)
    BY <2>1, Zenon DEF execute, At, tables, wakeups
  <2>2. CASE cleanup(s)
    BY <2>2, Zenon DEF cleanup, At, tables, wakeups
  <2>3. CASE engine_error(s)
    BY <2>3, Zenon DEF engine_error, At, tables, wakeups
  <2>4. CASE alter_schema(s)
    BY <2>4, Zenon DEF alter_schema, At, tables, wakeups
  <2>5. CASE engine(s)
    BY <2>5, Zenon DEF engine, At, tables, wakeups
  <2>6. CASE commitPhaseOne(s)
    BY <2>6, Zenon DEF commitPhaseOne, At, tables, wakeups
  <2>7. CASE rollbackTransaction(s)
    BY <2>7, Zenon DEF rollbackTransaction, At, tables, wakeups
  <2>8. CASE autocommitOrRollback(s)
    BY <2>8, Zenon DEF autocommitOrRollback, At, tables, wakeups
  <2>9. CASE answer(s)
    BY <2>9, Zenon DEF answer, At, tables, wakeups
  <2> QED
    BY <2>1, <2>2, <2>3, <2>4, <2>5, <2>6, <2>7, <2>8, <2>9, Zenon
<1>2. PICK l : Goto(s, l)
  BY <1>1, Zenon
<1> QED
  BY <1>1, <1>2, PlainStep, Zenon

(* Signals: notify_all() wakes everybody who waits for the global read lock, *)
(* and a KILL takes nothing away.                                            *)
LEMMA SignalActions ==
  ASSUME IInv, NobodySleepsInVain, NEW s \in Sessions,
         NotifyGlobalReadLock(s) \/ awake(s) \/ awake_signal(s)
  PROVE  NobodySleepsInVain'
<1>1. /\ pc' = pc /\ tab' = tab /\ UNCHANGED counters
      /\ asleep' \subseteq asleep
      /\ owes' = owes \/ \A t \in asleep' : pc[t] \notin GrlWaits
  <2>1. CASE NotifyGlobalReadLock(s)
    BY <2>1, Zenon DEF NotifyGlobalReadLock, AfterNotifyGrl, tables
  <2>2. CASE awake(s)
    BY <2>2, Zenon DEF awake, tables
  <2>3. CASE awake_signal(s)
    <3>1. Signalled(s) \subseteq asleep
      BY DEF Signalled, AfterNotifyGrl
    <3> QED
      BY <2>3, <3>1, Zenon DEF awake_signal, tables
  <2> QED
    BY <2>1, <2>2, <2>3, Zenon
<1> SUFFICES ASSUME NEW t \in asleep'
             PROVE  Sound(t)'
  BY Zenon DEF NobodySleepsInVain, Sound
<1>2. Sound(t)
  BY <1>1, Zenon DEF NobodySleepsInVain, Sound
<1>3. CASE owes' = owes
  BY <1>1, <1>2, <1>3, Zenon DEF Sound, counters
<1>4. CASE pc[t] \notin GrlWaits
  BY <1>1, <1>2, <1>4, Zenon DEF Sound, counters, GrlWaits
<1> QED
  BY <1>1, <1>3, <1>4, Zenon

(* wait_if_global_read_lock() sleeps only while somebody has the lock, and   *)
(* only takes protections.                                                   *)
LEMMA WaitActions ==
  ASSUME IInv, NobodySleepsInVain, NEW s \in Sessions, NEW abort_on_refresh,
         NEW is_not_commit, NEW from, NEW at, NEW ok, NEW fail, NEW for,
         at = "wait_job" \/ at = "wait_lock" \/ at = "wait_commit",
         wait_if_global_read_lock(s, abort_on_refresh, is_not_commit, from, at, ok, fail, for)
  PROVE  NobodySleepsInVain'
<1>1. UNCHANGED << global_read_lock, tab, owes >> /\ s \notin asleep
  BY Zenon DEF wait_if_global_read_lock, At, tables
<1>2. \/ /\ protect_against_global_read_lock' = protect_against_global_read_lock
         /\ \/ asleep' = asleep /\ \E l : Goto(s, l)
            \/ asleep' = asleep \cup {s} /\ Goto(s, at) /\ global_read_lock > 0
      \/ /\ protect_against_global_read_lock' = protect_against_global_read_lock + 1
         /\ asleep' = asleep /\ \E l : Goto(s, l)
  BY Zenon DEF wait_if_global_read_lock, WaitLoop, MissedKill, Sleep, must_wait
<1>3. PICK l : Goto(s, l)
  BY <1>2, Zenon
<1>4. asleep' \subseteq asleep \cup {s}
  BY <1>2, Zenon
<1>5. SleepersStay(s)
  BY <1>3, <1>4, Moves, Zenon DEF IInv
<1>6. KeepsLock(s) /\ KeepsTables(s)
  BY <1>1, Zenon DEF KeepsLock, KeepsTables
<1>7. protect_against_global_read_lock > 0 => protect_against_global_read_lock' > 0
  BY <1>2 DEF IInv, TypeOK
<1>8. KeepsProtections(s)
  BY <1>1, <1>7, Zenon DEF KeepsProtections
<1>9. s \in asleep' => pc'[s] = at /\ global_read_lock' > 0
  BY <1>1, <1>2, Moves, Zenon DEF IInv
<1>10. s \in asleep' => Sound(s)'
  BY <1>9 DEF Sound
<1> QED
  BY <1>5, <1>6, <1>8, <1>10, SoundStep, Zenon

(* The callers whose statement or commit takes a protection.                 *)
LEMMA ProtectionActions ==
  ASSUME IInv, NobodySleepsInVain, NEW s \in Sessions, wait_for_job(s) \/ wait_for_commit(s)
  PROVE  NobodySleepsInVain'
<1>1. CASE wait_for_job(s)
  <2>1. wait_if_global_read_lock(s, FALSE, TRUE, "job", "wait_job", AfterProtection(s),
                                 "endstmt", "job")
    BY <1>1, Zenon DEF wait_for_job
  <2> QED
    BY <2>1, WaitActions, Zenon
<1>2. CASE wait_for_commit(s)
  <2>1. wait_if_global_read_lock(s, FALSE, FALSE, "commit", "wait_commit", "committing",
                                 "rollback", "commit")
    BY <1>2, Zenon DEF wait_for_commit
  <2> QED
    BY <2>1, WaitActions, Zenon
<1> QED
  BY <1>1, <1>2, Zenon

(* lockTables() waits in the gate, or goes on.                               *)
LEMMA LockTablesActions ==
  ASSUME IInv, NobodySleepsInVain, NEW s \in Sessions, lockTables(s)
  PROVE  NobodySleepsInVain'
<1>1. CASE wait_if_global_read_lock(s, TRUE, TRUE, "gate", "wait_lock", "recheck",
                                    AfterFailure(s), "lock")
  BY <1>1, WaitActions, Zenon
<1>2. CASE At(s, "lock") \/ At(s, "recheck")
  <2>1. s \notin asleep
    BY <1>2, Zenon DEF At
  <2>2. CASE ~wait_if_global_read_lock(s, TRUE, TRUE, "gate", "wait_lock", "recheck",
                                       AfterFailure(s), "lock")
    <3>1. /\ \E l : Goto(s, l)
          /\ UNCHANGED << counters, tab, asleep, owes >>
      BY <2>2, Zenon DEF lockTables, Granted, Refused, tables, wakeups
    <3>2. PICK l : Goto(s, l)
      BY <3>1, Zenon
    <3> QED
      BY <2>1, <3>1, <3>2, PlainStep, Zenon
  <2> QED
    BY <1>1, <2>2, Zenon
<1> QED
  BY <1>1, <1>2, Zenon DEF lockTables

(* A flusher that waits for the protections is counted in one of the two     *)
(* counters that startWaitingGlobalReadLock() looks at.                      *)
LEMMA SleeperIsCounted ==
  ASSUME IInv, NEW t \in Sessions, pc[t] \in {"wait_grl", "wait_make"}
  PROVE  waiting_for_read_lock > 0 \/ global_read_lock_blocks_commit > 0
<1>1. /\ waiting_for_read_lock \in Nat /\ global_read_lock_blocks_commit \in Nat
      /\ waiting_for_read_lock = Cardinality(Waiters)
  BY Zenon DEF IInv, TypeOK, CountersAgree
<1>2. CASE pc[t] = "wait_grl"
  <2>1. Waiters # {}
    BY <1>2, Zenon DEF Waiters
  <2>2. waiting_for_read_lock # 0
    BY <1>1, <2>1, FiniteParts, FS_EmptySet, Zenon
  <2> QED
    BY <1>1, <2>2
<1>3. CASE pc[t] = "wait_make"
  <2>1. Blockers # {}
    BY <1>3, Zenon DEF Blockers
  <2>2. global_read_lock_blocks_commit # 0
    BY <2>1, ZeroMeansNobody, Zenon
  <2> QED
    BY <1>1, <2>2
<1> QED
  BY <1>2, <1>3, Zenon

(* A protection is given back: the last one with a notification, if there    *)
(* is anybody to notify.                                                     *)
LEMMA GiveBackActions ==
  ASSUME IInv, NobodySleepsInVain, NEW s \in Sessions, NEW from, NEW to, NEW for,
         startWaitingGlobalReadLock(s, from, to, for)
  PROVE  NobodySleepsInVain'
<1>1. /\ s \notin asleep /\ Goto(s, to)
      /\ UNCHANGED << global_read_lock, tab, asleep >>
  BY Zenon DEF startWaitingGlobalReadLock, At, tables
<1>2. \/ UNCHANGED << protect_against_global_read_lock, owes >>
      \/ /\ protect_against_global_read_lock' = protect_against_global_read_lock - 1
         /\ owes' = IF LastProtection THEN owes \cup {s} ELSE owes
  BY Zenon DEF startWaitingGlobalReadLock
<1>3. SleepersStay(s) /\ KeepsTables(s)
  BY <1>1, Moves, Zenon DEF IInv, KeepsTables
<1>4. owes \subseteq owes'
  BY <1>2, Zenon
<1>5. KeepsLock(s)
  BY <1>1, <1>4, Zenon DEF KeepsLock
<1>6. ASSUME NEW t \in asleep, pc[t] \in {"wait_grl", "wait_make"},
             protect_against_global_read_lock > 0
      PROVE  protect_against_global_read_lock' > 0 \/ owes' # {}
  <2>1. t \in Sessions /\ protect_against_global_read_lock \in Nat
    BY <1>6, Zenon DEF IInv, TypeOK
  <2>2. waiting_for_read_lock > 0 \/ global_read_lock_blocks_commit > 0
    BY <1>6, <2>1, SleeperIsCounted, Zenon
  <2>3. CASE protect_against_global_read_lock = 1
    BY <1>2, <1>6, <2>2, <2>3, Zenon DEF LastProtection
  <2>4. CASE protect_against_global_read_lock # 1
    BY <1>2, <1>6, <2>1, <2>4
  <2> QED
    BY <2>3, <2>4, Zenon
<1>7. KeepsProtections(s)
  BY <1>1, <1>4, <1>6, Zenon DEF KeepsProtections
<1> QED
  BY <1>1, <1>3, <1>5, <1>7, SoundStep, Zenon

(* The callers of startWaitingGlobalReadLock().                              *)
LEMMA ReleaseActions ==
  ASSUME IInv, NobodySleepsInVain, NEW s \in Sessions, release_job(s) \/ release_commit(s)
  PROVE  NobodySleepsInVain'
  BY GiveBackActions, Zenon DEF release_job, release_commit

(* The loops of lockGlobalReadLock() and makeGlobalReadLockBlockCommit()     *)
(* sleep only while there are protections, and never let go of the lock.     *)
LEMMA LockActions ==
  ASSUME IInv, NobodySleepsInVain, NEW s \in Sessions,
         lockGlobalReadLock(s) \/ makeGlobalReadLockBlockCommit(s)
  PROVE  NobodySleepsInVain'
<1>1. /\ s \notin asleep
      /\ UNCHANGED << protect_against_global_read_lock, tab, owes >>
      /\ global_read_lock' = global_read_lock \/ global_read_lock' = global_read_lock + 1
      /\ \/ asleep' = asleep /\ \E l : Goto(s, l)
         \/ /\ asleep' = asleep \cup {s} /\ protect_against_global_read_lock > 0
            /\ Goto(s, "wait_grl") \/ Goto(s, "wait_make")
  <2>1. ASSUME NEW waiting, LockLoop(s, waiting), s \notin asleep
        PROVE  /\ UNCHANGED << protect_against_global_read_lock, tab, owes >>
               /\ global_read_lock' = global_read_lock \/ global_read_lock' = global_read_lock + 1
               /\ \/ asleep' = asleep /\ \E l : Goto(s, l)
                  \/ /\ asleep' = asleep \cup {s} /\ protect_against_global_read_lock > 0
                     /\ Goto(s, "wait_grl")
    BY <2>1, Zenon DEF LockLoop, MissedKill, Sleep, tables
  <2>2. ASSUME NEW blocks, MakeLoop(s, blocks), s \notin asleep
        PROVE  /\ UNCHANGED << protect_against_global_read_lock, tab, owes, global_read_lock >>
               /\ \/ asleep' = asleep /\ \E l : Goto(s, l)
                  \/ /\ asleep' = asleep \cup {s} /\ protect_against_global_read_lock > 0
                     /\ Goto(s, "wait_make")
    BY <2>2, Zenon DEF MakeLoop, MissedKill, Sleep, tables
  <2>3. CASE lockGlobalReadLock(s)
    <3>1. s \notin asleep
      BY <2>3, Zenon DEF lockGlobalReadLock, At
    <3>2. CASE \E waiting : LockLoop(s, waiting)
      BY <2>1, <3>1, <3>2, Zenon
    <3>3. CASE /\ Goto(s, "flush")
               /\ UNCHANGED << counters, grl, killed, own, da, tables, wakeups, protections >>
      BY <3>1, <3>3, Zenon DEF counters, tables, wakeups
    <3> QED
      BY <2>3, <3>2, <3>3, Zenon DEF lockGlobalReadLock
  <2>4. CASE makeGlobalReadLockBlockCommit(s)
    <3>1. s \notin asleep
      BY <2>4, Zenon DEF makeGlobalReadLockBlockCommit, At
    <3>2. CASE \E blocks : MakeLoop(s, blocks)
      BY <2>2, <3>1, <3>2, Zenon
    <3>3. CASE /\ Goto(s, "endstmt")
               /\ UNCHANGED << counters, grl, killed, own, tables, wakeups, protections >>
      BY <3>1, <3>3, Zenon DEF counters, tables, wakeups
    <3> QED
      BY <2>4, <3>2, <3>3, Zenon DEF makeGlobalReadLockBlockCommit
  <2> QED
    BY <2>3, <2>4, Zenon
<1>2. PICK l : Goto(s, l)
  BY <1>1, Zenon
<1>3. asleep' \subseteq asleep \cup {s}
  BY <1>1, Zenon
<1>4. SleepersStay(s)
  BY <1>2, <1>3, Moves, Zenon DEF IInv
<1>5. KeepsProtections(s) /\ KeepsTables(s)
  BY <1>1, Zenon DEF KeepsProtections, KeepsTables
<1>6. global_read_lock > 0 => global_read_lock' > 0
  BY <1>1 DEF IInv, TypeOK
<1>7. KeepsLock(s)
  BY <1>1, <1>6, Zenon DEF KeepsLock
<1>8. s \in asleep' => pc'[s] \in {"wait_grl", "wait_make"} /\ protect_against_global_read_lock' > 0
  BY <1>1, Moves, Zenon DEF IInv
<1>9. s \in asleep' => Sound(s)'
  BY <1>8 DEF Sound
<1> QED
  BY <1>4, <1>5, <1>7, <1>9, SoundStep, Zenon

(* The last owner of the lock notifies; the session's own state follows.     *)
LEMMA UnlockActions ==
  ASSUME IInv, NobodySleepsInVain, NEW s \in Sessions, unlockGlobalReadLock(s)
  PROVE  NobodySleepsInVain'
<1>1. CASE At(s, "unlocked")
  <2>1. s \notin asleep
    BY <1>1, Zenon DEF At
  <2>2. pc[s] # "unlock"
    BY <1>1, Zenon DEF At
  <2>3. /\ \E l : Goto(s, l)
        /\ UNCHANGED << counters, tab, asleep, owes >>
    BY <2>2, Zenon DEF unlockGlobalReadLock, At, tables, wakeups
  <2>4. PICK l : Goto(s, l)
    BY <2>3, Zenon
  <2> QED
    BY <2>1, <2>3, <2>4, PlainStep, Zenon
<1>2. CASE At(s, "unlock")
  <2>1. pc[s] # "unlocked"
    BY <1>2, Zenon DEF At
  <2>2. /\ s \notin asleep /\ Goto(s, "unlocked")
        /\ global_read_lock' = global_read_lock - 1
        /\ owes' = IF global_read_lock = 1 THEN owes \cup {s} ELSE owes
        /\ UNCHANGED << protect_against_global_read_lock, tab, asleep >>
    BY <2>1, Zenon DEF unlockGlobalReadLock, At, tables
  <2>3. SleepersStay(s) /\ KeepsTables(s)
    BY <2>2, Moves, Zenon DEF IInv, KeepsTables
  <2>4. owes \subseteq owes'
    BY <2>2, Zenon
  <2>5. KeepsProtections(s)
    BY <2>2, <2>4, Zenon DEF KeepsProtections
  <2>6. global_read_lock = 1 => owes' # {}
    BY <2>2, Zenon
  <2>7. global_read_lock > 0 /\ global_read_lock # 1 => global_read_lock' > 0
    BY <2>2 DEF IInv, TypeOK
  <2>8. KeepsLock(s)
    BY <2>4, <2>6, <2>7, Zenon DEF KeepsLock
  <2> QED
    BY <2>2, <2>3, <2>5, <2>8, SoundStep, Zenon
<1> QED
  BY <1>1, <1>2, Zenon DEF unlockGlobalReadLock

(* close_cached_tables() makes instances old and sleeps while there are any. *)
LEMMA FlushActions ==
  ASSUME IInv, NobodySleepsInVain, NEW s \in Sessions, close_cached_tables(s)
  PROVE  NobodySleepsInVain'
<1>1. /\ s \notin asleep
      /\ UNCHANGED << counters, owes >>
      /\ \/ tab' = [t \in Sessions |-> IF tab[t] = "closed" THEN "closed" ELSE "old"]
         \/ tab' = tab
      /\ FlushLoop(s)
  BY Zenon DEF close_cached_tables, At, tables
<1>2. \/ asleep' = asleep /\ \E l : Goto(s, l)
      \/ asleep' = asleep \cup {s} /\ Goto(s, "wait_flush") /\ OldInstance(s)
  BY <1>1, Zenon DEF FlushLoop, MissedKill, Sleep
<1>3. PICK l : Goto(s, l)
  BY <1>2, Zenon
<1>4. asleep' \subseteq asleep \cup {s}
  BY <1>2, Zenon
<1>5. SleepersStay(s)
  BY <1>3, <1>4, Moves, Zenon DEF IInv
<1>6. KeepsProtections(s) /\ KeepsLock(s)
  BY <1>1, Zenon DEF KeepsProtections, KeepsLock, counters
<1>7. \A u \in Sessions : tab[u] = "old" => tab'[u] = "old"
  BY <1>1
<1>8. KeepsTables(s)
  BY <1>7, Zenon DEF KeepsTables
<1>9. s \in asleep' => pc'[s] = "wait_flush" /\ \E u \in Sessions \ {s} : tab'[u] = "old"
  BY <1>1, <1>2, Moves, Zenon DEF IInv, OldInstance
<1>10. s \in asleep' => Sound(s)'
  BY <1>9 DEF Sound
<1> QED
  BY <1>5, <1>6, <1>8, <1>10, SoundStep, Zenon

(* openTable() sleeps while there is an old instance, and takes a fresh one  *)
(* only when there is none.                                                  *)
LEMMA OpenActions ==
  ASSUME IInv, NobodySleepsInVain, NEW s \in Sessions, openTable(s)
  PROVE  NobodySleepsInVain'
<1>1. s \notin asleep /\ UNCHANGED << counters, owes >>
  BY Zenon DEF openTable, At
<1>2. /\ tab' = tab \/ \A t \in Sessions : tab[t] # "old"
      /\ \/ asleep' = asleep /\ \E l : Goto(s, l)
         \/ /\ asleep' = asleep \cup {s} /\ Goto(s, "wait_open") /\ tab' = tab
            /\ \E t \in Sessions : tab[t] = "old"
  BY Zenon DEF openTable, MissedKill, Sleep, tables
<1>3. PICK l : Goto(s, l)
  BY <1>2, Zenon
<1>4. asleep' \subseteq asleep \cup {s}
  BY <1>2, Zenon
<1>5. SleepersStay(s)
  BY <1>3, <1>4, Moves, Zenon DEF IInv
<1>6. KeepsProtections(s) /\ KeepsLock(s)
  BY <1>1, Zenon DEF KeepsProtections, KeepsLock, counters
<1>7. KeepsTables(s)
  BY <1>2, Zenon DEF KeepsTables
<1>8. s \in asleep' => pc'[s] = "wait_open" /\ \E u \in Sessions : tab'[u] = "old"
  BY <1>1, <1>2, Moves, Zenon DEF IInv
<1>9. s \in asleep' => Sound(s)'
  BY <1>8 DEF Sound
<1> QED
  BY <1>5, <1>6, <1>7, <1>9, SoundStep, Zenon

(* close_thread_tables() gives an old instance back with a broadcast.        *)
LEMMA CloseActions ==
  ASSUME IInv, NobodySleepsInVain, NEW s \in Sessions, close_thread_tables(s)
  PROVE  NobodySleepsInVain'
<1>1. /\ s \notin asleep /\ Goto(s, "idle")
      /\ tab' = [tab EXCEPT ![s] = "closed"]
      /\ asleep' = IF tab[s] = "old" THEN {} ELSE asleep
      /\ UNCHANGED << counters, owes >>
  BY Zenon DEF close_thread_tables, At, AfterBroadcast
<1>2. SleepersStay(s)
  BY <1>1, Moves, Zenon DEF IInv
<1>3. KeepsProtections(s) /\ KeepsLock(s)
  BY <1>1, Zenon DEF KeepsProtections, KeepsLock, counters
<1>4. tab[s] # "old" => \A u \in Sessions : tab[u] = "old" => tab'[u] = "old"
  BY <1>1 DEF IInv, TypeOK
<1>5. KeepsTables(s)
  BY <1>1, <1>4, Zenon DEF KeepsTables
<1>6. s \notin asleep'
  BY <1>1, Zenon
<1> QED
  BY <1>2, <1>3, <1>5, <1>6, SoundStep, Zenon

-----------------------------------------------------------------------------
(* Every step keeps everybody's sleep sound.                                 *)
LEMMA NextSound == IInv /\ NobodySleepsInVain /\ [Next]_vars => NobodySleepsInVain'
<1> SUFFICES ASSUME IInv, NobodySleepsInVain, [Next]_vars
             PROVE  NobodySleepsInVain'
  BY Zenon
<1>1. CASE UNCHANGED vars
  BY <1>1, Zenon DEF NobodySleepsInVain, vars, counters, tables, wakeups
<1>2. CASE Next
  <2> SUFFICES ASSUME NEW s \in Sessions,
                      \/ execute(s) \/ cleanup(s) \/ Run(s) \/ engine_error(s)
                      \/ awake(s) \/ awake_signal(s)
               PROVE  NobodySleepsInVain'
    BY <1>2, Zenon DEF Next
  <2>1. CASE Run(s)
    BY <2>1, PlainActions, SignalActions, LockActions, FlushActions, UnlockActions,
       ProtectionActions, ReleaseActions, OpenActions, LockTablesActions, CloseActions,
       Zenon DEF Run
  <2> QED
    BY <2>1, PlainActions, SignalActions, Zenon
<1> QED
  BY <1>1, <1>2, Zenon

(* No wake-up is lost, whatever sessions flush, write, commit, are killed or *)
(* disconnect: whoever sleeps on COND_global_read_lock or COND_refresh has   *)
(* something to wait for, or will be notified.                               *)
THEOREM NoWakeupIsLost == Spec => []NobodySleepsInVain
<1>1. Init => NobodySleepsInVain
  BY Zenon DEF Init, NobodySleepsInVain
<1> QED
  BY <1>1, NextSound, Invariance, PTL DEF Spec
===================================================================================
