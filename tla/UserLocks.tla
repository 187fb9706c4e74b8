----------------------------- MODULE UserLocks -----------------------------
(***************************************************************************)
(* The named locks of plugin/user_locks: class Locks, the list of its locks *)
(* that a session keeps (Storable), and the functions over them.            *)
(***************************************************************************)
EXTENDS UserSession

CONSTANT Keys

VARIABLES lock_map,      \* the session that has a lock, or NoSession
          list           \* Storable::list_of_locks of each session

locks == <<lock_map, list>>

\* everybody asleep on create_cond, and on release_cond
CreateSleepers == {t \in asleep : pc[t] \in {"create_cond", "create_timed"}}
ReleaseSleepers == {t \in asleep : pc[t] = "release_cond"}

\* what Locks::release() does to a lock of its owner
Erase(k) ==
  /\ lock_map' = [lock_map EXCEPT ![k] = NoSession]
  /\ asleep' \in NotifyOne(ReleaseSleepers)

\* Storable::erase_all() releases lock by lock; one that is not the session's any more
\* is passed over.  list_of_locks.clear() comes at the end, but only the session sees it.
EraseOne(s) ==
  \E k \in list[s] :
    /\ list' = [list EXCEPT ![s] = @ \ {k}]
    /\ \/ lock_map[k] = s /\ Erase(k)
       \/ lock_map[k] # s /\ UNCHANGED <<lock_map, asleep>>

\* get_lock() gives up all the locks of the session, then waits for the one it wants
EraseNothing(s) == "lock"
EraseBefore(s) == IF list[s] = {} THEN "lock" ELSE "erase_lock"

get_lock(s, k) ==
  /\ Call(s)
  /\ \E timed \in BOOLEAN : Enter(s, EraseBefore(s), [key |-> k, timed |-> timed])
  /\ UNCHANGED <<lock_map, list, asleep, interrupted>>

erase_all(s) ==
  /\ pc[s] \in {"erase_lock", "erase_end"}
  /\ EraseOne(s)
  /\ Goto(s, CASE list'[s] # {} -> pc[s]
               [] list'[s] = {} /\ pc[s] = "erase_lock" -> "lock"
               [] list'[s] = {} /\ pc[s] = "erase_end" -> "idle")
  /\ UNCHANGED <<interrupted, left>>

\* The loop of Locks::lock(): at the start, and after each notification
lock(s) ==
  LET k == local[s].key
  IN /\ \/ Awake(s, "lock")
        \/ Awake(s, "release_cond") /\ s \notin interrupted
     /\ \/ /\ lock_map[k] \in {NoSession, s}
           /\ lock_map' = [lock_map EXCEPT ![k] = s]
           /\ asleep' = IF lock_map[k] = s THEN asleep ELSE asleep \ CreateSleepers
           /\ list' = [list EXCEPT ![s] = @ \cup {k}]
           /\ Return(s)
        \/ /\ lock_map[k] \notin {NoSession, s}
           /\ asleep' = IF s \in interrupted THEN asleep ELSE asleep \cup {s}
           /\ Goto(s, "release_cond")
           /\ UNCHANGED <<lock_map, list>>
     /\ UNCHANGED <<interrupted, left>>

\* timed_wait() runs out: get_lock() returns 0 without another look
lock_timeout(s) ==
  /\ pc[s] = "release_cond" /\ s \in asleep /\ local[s].timed
  /\ asleep' = asleep \ {s}
  /\ Return(s)
  /\ UNCHANGED <<locks, interrupted, left>>

\* The exception leaves lock(), waitCreate() or release() for the function, which
\* reports it; release_lock_and_wait() then keeps the key in its list.
interrupted_wait(s) ==
  /\ pc[s] \in {"release_cond", "create_cond", "create_timed"} /\ s \notin asleep
  /\ Thrown(s)
  /\ Return(s)
  /\ UNCHANGED <<locks, asleep, left>>

\* get_locks() takes all of them or none, and waits for nobody
AllFree(s, K) == \A k \in K : lock_map[k] \in {NoSession, s}

get_locks(s, K) ==
  /\ Call(s)
  /\ IF AllFree(s, K)
     THEN /\ lock_map' = [k \in Keys |-> IF k \in K THEN s ELSE lock_map[k]]
          /\ list' = [list EXCEPT ![s] = @ \cup K]
          /\ asleep' = asleep \ CreateSleepers
     ELSE UNCHANGED <<lock_map, list, asleep>>
  /\ UNCHANGED <<pc, local, interrupted>>

release_lock(s, k) ==
  /\ Call(s)
  /\ IF lock_map[k] = s
     THEN Erase(k) /\ list' = [list EXCEPT ![s] = @ \ {k}]
     ELSE UNCHANGED <<lock_map, list, asleep>>
  /\ UNCHANGED <<pc, local, interrupted>>

\* is_free_lock() calls Locks::release(), and leaves the key in the session's list
is_free_lock(s, k) ==
  /\ Call(s)
  /\ IF lock_map[k] = s THEN Erase(k) ELSE UNCHANGED <<lock_map, asleep>>
  /\ UNCHANGED <<pc, local, list, interrupted>>

release_locks(s) ==
  /\ Call(s)
  /\ Goto(s, IF list[s] = {} THEN "idle" ELSE "erase_end")
  /\ UNCHANGED <<locks, asleep, interrupted>>

\* release_lock_and_wait(): Locks::release() with and_wait
release_lock_and_wait(s, k) ==
  /\ Call(s)
  /\ IF lock_map[k] = s
     THEN /\ lock_map' = [lock_map EXCEPT ![k] = NoSession]
          /\ \E rest \in NotifyOne(ReleaseSleepers) :
               asleep' = IF s \in interrupted THEN rest ELSE rest \cup {s}
          /\ Enter(s, "create_cond", [key |-> k])
     ELSE UNCHANGED <<lock_map, asleep, pc, local>>
  /\ UNCHANGED <<list, interrupted>>

released_and_created(s) ==
  /\ Awake(s, "create_cond") /\ s \notin interrupted
  /\ IF lock_map[local[s].key] # NoSession
     THEN /\ list' = [list EXCEPT ![s] = @ \ {local[s].key}]
          /\ Return(s)
          /\ UNCHANGED asleep
     ELSE asleep' = asleep \cup {s} /\ UNCHANGED <<pc, local, list>>
  /\ UNCHANGED <<lock_map, interrupted, left>>

wait_for_lock(s, k) ==
  /\ Call(s)
  /\ Enter(s, "is_used", [key |-> k])
  /\ UNCHANGED <<locks, asleep, interrupted>>

\* the lock is there (an error, if it is the session's own), or the session will wait
isUsed(s) ==
  /\ pc[s] = "is_used"
  /\ IF lock_map[local[s].key] # NoSession THEN Return(s) ELSE Goto(s, "wait_create")
  /\ UNCHANGED <<locks, asleep, interrupted, left>>

\* in another section than isUsed(); two seconds at most
waitCreate(s) ==
  /\ pc[s] = "wait_create"
  /\ asleep' = IF s \in interrupted THEN asleep ELSE asleep \cup {s}
  /\ Goto(s, "create_timed")
  /\ UNCHANGED <<locks, interrupted, left>>

TimesOutNever(s) == FALSE
TimesOut(s) == s \in asleep

waited(s) ==
  /\ pc[s] = "create_timed"
  /\ TimesOut(s) \/ s \notin asleep \cup interrupted
  /\ asleep' = asleep \ {s}
  /\ Goto(s, "is_used")
  /\ UNCHANGED <<locks, interrupted, left>>
=============================================================================
