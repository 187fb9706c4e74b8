---------------------------- MODULE UserSession ----------------------------
(***************************************************************************)
(* What the functions of plugin/user_locks share: a session executes one   *)
(* function at a time and may sleep on a condition variable in it.  KILL    *)
(* interrupts its thread (MultiThreadScheduler::killSession); the           *)
(* interruption is noticed by a wait that has interruption restored, now or *)
(* in a later function, and ends it with boost::thread_interrupted.         *)
(*                                                                         *)
(* All keys belong to one user: those of different users never meet.  The   *)
(* functions that only read (is_used_lock, the tables of DATA_DICTIONARY)   *)
(* are left out.  A section under a mutex is one step.                      *)
(***************************************************************************)
EXTENDS Integers, FiniteSets

CONSTANTS Sessions,
          NoSession,
          Killable       \* the sessions that may be killed

ASSUME SessionsAssumption == IsFiniteSet(Sessions) /\ NoSession \notin Sessions

VARIABLES pc,            \* where each session is in its function
          local,         \* the arguments and local variables of the function
          asleep,        \* the sessions asleep in the wait at their place
          interrupted,   \* the threads whose interruption is pending
          left           \* bound on the functions a session calls

session == <<pc, local, asleep, interrupted, left>>

NoLocal == [function |-> "none"]

Enter(s, place, l) == pc' = [pc EXCEPT ![s] = place] /\ local' = [local EXCEPT ![s] = l]
Goto(s, place) == pc' = [pc EXCEPT ![s] = place] /\ UNCHANGED local
Return(s) == Enter(s, "idle", NoLocal)
Awake(s, place) == pc[s] = place /\ s \notin asleep

\* a client sends a statement that calls a function
Call(s) ==
  /\ pc[s] = "idle"
  /\ left[s] > 0
  /\ left' = [left EXCEPT ![s] = @ - 1]

\* an interruption becomes an exception
Thrown(s) == s \in interrupted /\ interrupted' = interrupted \ {s}

\* the set of sleepers when one of these is notified
NotifyOne(sleepers) ==
  IF sleepers = {} THEN {asleep} ELSE {asleep \ {t} : t \in sleepers}
=============================================================================
