-------------------------- MODULE MCUserFunctions --------------------------
(* A small instance of UserFunctions for TLC. *)
EXTENDS UserFunctions, TLC

CONSTANTS a, b, c, x, y

ThreeSessions == {a, b, c}
MCKillable == {b}
Calls(na, nb, nc) == (a :> na) @@ (b :> nb) @@ (c :> nc)

\* a has locks, b and c wait for them to be released or created
LockWorkload ==
  [functions |->
     (a :> {"get_locks", "is_free_lock", "release_lock", "release_lock_and_wait"})
     @@ (b :> {"get_lock"})
     @@ (c :> {"get_lock"}),
   budget |-> Calls(2, 2, 1)]

\* a has a barrier, where b and c wait
BarrierWorkload ==
  [functions |->
     (a :> {"create_barrier", "release_barrier", "signal"})
     @@ (b :> {"wait", "wait_until"})
     @@ (c :> {"wait", "wait_generation"}),
   budget |-> Calls(2, 2, 1)]

\* b waits at a barrier and for a lock, and may be interrupted in the one by a KILL of
\* the other
MixedWorkload ==
  [functions |->
     (a :> {"get_locks", "create_barrier"})
     @@ (b :> {"get_lock", "wait", "wait_until", "wait_for_lock"})
     @@ (c :> {}),
   budget |-> Calls(1, 2, 0)]

\* a has keys in its list whose locks are not its own any more, and releases them all
StaleWorkload ==
  [functions |->
     (a :> {"get_locks", "is_free_lock", "release_locks"})
     @@ (b :> {"get_lock"})
     @@ (c :> {}),
   budget |-> Calls(3, 1, 0)]

MCWorkloads == {LockWorkload, BarrierWorkload, MixedWorkload, StaleWorkload}
MCKeySets == {{x}, {x, y}}
=============================================================================
