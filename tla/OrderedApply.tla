---------------------------- MODULE OrderedApply ----------------------------
(***************************************************************************)
(* What a slave promises about a master's commits: it executes them in the *)
(* order of their ids and executes each one before any later one, so that  *)
(* its data always is the master's data at some earlier commit.  The       *)
(* promise ends when the slave is told to ignore errors, or when one was   *)
(* hidden from it.                                                         *)
(***************************************************************************)
EXTENDS Naturals, Sequences

VARIABLES commits,   \* the commit ids the master shows
          executed,  \* the ids the slave has executed, in order
          excused    \* the promise no longer holds

applyvars == <<commits, executed, excused>>

Reached == IF executed = << >> THEN 0 ELSE executed[Len(executed)]

ApplyInit ==
  /\ commits = {}
  /\ executed = << >>
  /\ excused \in BOOLEAN

\* the first commit after the last one executed
Execute ==
  /\ \E id \in commits :
       /\ id > Reached
       /\ \A j \in commits : j > Reached => id <= j
       /\ executed' = Append(executed, id)
  /\ UNCHANGED <<commits, excused>>

\* the master commits, or loses commits in a crash that the slave has not executed
Commit ==
  /\ \A id \in commits \ commits' : id > Reached
  /\ UNCHANGED <<executed, excused>>

\* the step that ends the promise, and whatever follows it
Excused == excused'

ApplyNext == Execute \/ Commit \/ Excused

ApplySpec == ApplyInit /\ [][ApplyNext]_applyvars
=============================================================================
