----------------------------- MODULE CommitLog -----------------------------
(***************************************************************************)
(* What a master's replication log (InnoDB's SYS_REPLICATION_LOG table)    *)
(* promises to whoever reads it.  A client that commits first draws a      *)
(* commit id from the shared counter trx_sys_commit_id and only later      *)
(* makes its transaction visible, so ids may become visible out of order.  *)
(* Every commit also writes the counter's current value to the system      *)
(* header; a crash loses the commits the redo log had not reached and the  *)
(* counter restarts from the last value that survived.                     *)
(***************************************************************************)
EXTENDS Naturals, Sequences

CONSTANTS Clients,   \* the sessions that commit
          MaxRows    \* segments one transaction may be logged in (a bound)

ASSUME MaxRowsAssumption == MaxRows \in Nat \ {0}

VARIABLES counter,   \* trx_sys_commit_id
          pending,   \* the id a client has drawn and not yet made visible, or 0
          log,       \* the committed transactions, in the order of their commit
          flushed    \* how many of them the redo log on disk holds

logvars == <<counter, pending, log, flushed>>

Entry == [commit_id : Nat \ {0}, rows : 1..MaxRows, disk : Nat]

LogInit ==
  /\ counter = 0
  /\ pending = [c \in Clients |-> 0]
  /\ log = << >>
  /\ flushed = 0

\* insert_replication_message of the end segment: trx_sys_commit_id.increment()
Draw(c) ==
  /\ pending[c] = 0
  /\ counter' = counter + 1
  /\ pending' = [pending EXCEPT ![c] = counter + 1]
  /\ UNCHANGED <<log, flushed>>

\* trx_commit_off_kernel: the rows become visible and the counter's value at
\* this moment goes to the system header in the same mini-transaction
Publish(c, rows) ==
  /\ pending[c] # 0
  /\ log' = Append(log, [commit_id |-> pending[c], rows |-> rows, disk |-> counter])
  /\ pending' = [pending EXCEPT ![c] = 0]
  /\ UNCHANGED <<counter, flushed>>

\* another applier refuses the message, commitTransaction rolls back: the id
\* that insert_replication_message drew is never used
Waste ==
  /\ counter' = counter + 1
  /\ UNCHANGED <<pending, log, flushed>>

\* log_write_up_to
Flush ==
  /\ flushed < Len(log)
  /\ flushed' = Len(log)
  /\ UNCHANGED <<counter, pending, log>>

\* Mutant of OnDisk: a commit writes the value from before its own.
OnDiskBehind(l, k) == IF k <= 1 THEN 0 ELSE l[k - 1].disk

\* the value the k-th commit wrote to the system header.  A commit that logs
\* nothing writes it as well when its trx object once logged a message, so
\* trx_sys_read_commit_id may find a later value.
OnDisk(l, k) == IF k = 0 THEN 0 ELSE l[k].disk

\* the server stops without warning and recovers
Crash ==
  /\ \E k \in flushed..Len(log) :
       /\ log' = SubSeq(log, 1, k)
       /\ flushed' = k
       /\ counter' \in OnDisk(log, k)..counter
  /\ pending' = [c \in Clients |-> 0]

LogNext ==
  \/ \E c \in Clients : Draw(c) \/ \E rows \in 1..MaxRows : Publish(c, rows)
  \/ Waste
  \/ Flush
  \/ Crash

LogSpec == LogInit /\ [][LogNext]_logvars

LogTypeOK ==
  /\ counter \in Nat
  /\ pending \in [Clients -> Nat]
  /\ log \in Seq(Entry)
  /\ flushed \in 0..Len(log)

\* No two transactions of the log carry the same commit id, crashes of the
\* master included: insert_replication_message takes the id from a counter in
\* memory, which recovery must never set behind an id that survived.
CommitIdsDistinct ==
  \A i, j \in DOMAIN log : i # j => log[i].commit_id # log[j].commit_id
=============================================================================
