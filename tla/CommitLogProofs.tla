-------------------------- MODULE CommitLogProofs --------------------------
(***************************************************************************)
(* The commit ids of a master's replication log are distinct for any       *)
(* number of clients, commits and crashes.                                 *)
(***************************************************************************)
EXTENDS CommitLog, SequenceTheorems, TLAPS

\* What makes CommitIdsDistinct inductive: an id that is drawn or in the log is never
\* beyond the counter, and the value the last surviving commit wrote to the system
\* header bounds every surviving id.
LogInv ==
  /\ LogTypeOK
  /\ \A c \in Clients : pending[c] <= counter
  /\ \A c, d \in Clients : pending[c] # 0 /\ pending[c] = pending[d] => c = d
  /\ \A i \in 1..Len(log) : log[i].commit_id <= log[i].disk /\ log[i].disk <= counter
  /\ \A i, j \in 1..Len(log) : i <= j => log[i].disk <= log[j].disk
  /\ \A c \in Clients, i \in 1..Len(log) : pending[c] # log[i].commit_id
  /\ CommitIdsDistinct

\* The empty log satisfies the invariant.
LEMMA LogInvInit == LogInit => LogInv
BY DEF LogInit, LogInv, LogTypeOK, CommitIdsDistinct, Entry

\* Appending one entry keeps the earlier ones.
LEMMA AppendEntry ==
  ASSUME NEW l \in Seq(Entry), NEW e \in Entry
  PROVE  /\ Append(l, e) \in Seq(Entry)
         /\ Len(Append(l, e)) = Len(l) + 1
         /\ \A i \in 1..Len(l) : Append(l, e)[i] = l[i]
         /\ Append(l, e)[Len(l) + 1] = e
OBVIOUS

\* A crash keeps a prefix of the log.
LEMMA PrefixEntries ==
  ASSUME NEW l \in Seq(Entry), NEW k \in 0..Len(l)
  PROVE  /\ SubSeq(l, 1, k) \in Seq(Entry)
         /\ Len(SubSeq(l, 1, k)) = k
         /\ \A i \in 1..k : SubSeq(l, 1, k)[i] = l[i]
OBVIOUS

\* Every step of the master, its crashes included, preserves the invariant.
LEMMA LogInvStep == LogInv /\ [LogNext]_logvars => LogInv'
<1> SUFFICES ASSUME LogInv, [LogNext]_logvars PROVE LogInv'
  OBVIOUS
<1>0. /\ counter \in Nat /\ pending \in [Clients -> Nat] /\ log \in Seq(Entry)
      /\ Len(log) \in Nat /\ DOMAIN log = 1..Len(log) /\ flushed \in 0..Len(log)
      /\ \A i \in 1..Len(log) :
           log[i].commit_id \in Nat \ {0} /\ log[i].disk \in Nat
  <2>1. /\ counter \in Nat /\ pending \in [Clients -> Nat] /\ log \in Seq(Entry)
        /\ flushed \in 0..Len(log)
    BY DEF LogInv, LogTypeOK
  <2>2. \A i \in 1..Len(log) : log[i] \in Entry
    BY <2>1
  <2> QED
    BY <2>1, <2>2 DEF Entry
<1> USE <1>0
<1>1. ASSUME NEW c \in Clients, Draw(c) PROVE LogInv'
  <2>1. /\ counter' = counter + 1 /\ UNCHANGED <<log, flushed>>
        /\ pending' = [pending EXCEPT ![c] = counter + 1]
    BY <1>1 DEF Draw
  <2>2. LogTypeOK'
    BY <2>1 DEF LogTypeOK
  <2>3. /\ \A d \in Clients : pending'[d] = IF d = c THEN counter + 1 ELSE pending[d]
        /\ \A d \in Clients : pending[d] <= counter
    BY <2>1 DEF LogInv
  <2>4. \A d, g \in Clients : pending'[d] # 0 /\ pending'[d] = pending'[g] => d = g
    BY <2>3 DEF LogInv
  <2>5. \A i \in 1..Len(log) : log[i].commit_id <= log[i].disk /\ log[i].disk <= counter
    BY DEF LogInv
  <2>6. \A i \in 1..Len(log) : log[i].commit_id <= counter /\ log[i].disk <= counter + 1
    BY <2>5
  <2>7. \A d \in Clients, i \in 1..Len(log) : pending'[d] # log[i].commit_id
    BY <2>3, <2>6 DEF LogInv
  <2> QED
    BY <2>1, <2>2, <2>3, <2>4, <2>5, <2>6, <2>7 DEF LogInv, CommitIdsDistinct
<1>2. ASSUME NEW c \in Clients, NEW rows \in 1..MaxRows, Publish(c, rows) PROVE LogInv'
  <2> DEFINE e == [commit_id |-> pending[c], rows |-> rows, disk |-> counter]
  <2>1. e \in Entry
    BY <1>2 DEF Publish, Entry
  <2>2. log' = Append(log, e)
    BY <1>2 DEF Publish
  <2>3. e.commit_id = pending[c] /\ e.disk = counter
    OBVIOUS
  <2> HIDE DEF e
  <2>4. /\ log' \in Seq(Entry) /\ Len(log') = Len(log) + 1
        /\ \A i \in 1..Len(log) : log'[i] = log[i]
        /\ log'[Len(log) + 1] = e
    BY <2>1, <2>2, AppendEntry
  <2>5. /\ UNCHANGED <<counter, flushed>> /\ pending[c] # 0
        /\ pending' = [pending EXCEPT ![c] = 0]
    BY <1>2 DEF Publish
  <2>6. \A i \in 1..Len(log') : i \in 1..Len(log) \/ i = Len(log) + 1
    BY <2>4
  <2>7. LogTypeOK'
    BY <2>4, <2>5 DEF LogTypeOK
  <2>8. /\ \A d \in Clients : pending'[d] = IF d = c THEN 0 ELSE pending[d]
        /\ \A d \in Clients : pending[d] <= counter
    BY <2>5 DEF LogInv
  <2>9. \A i \in 1..Len(log) : log[i].commit_id <= log[i].disk /\ log[i].disk <= counter
    BY DEF LogInv
  <2>10. \A i \in 1..Len(log') : log'[i].commit_id <= log'[i].disk /\ log'[i].disk <= counter'
    BY <2>3, <2>4, <2>5, <2>6, <2>8, <2>9
  <2>11. \A i, j \in 1..Len(log') : i <= j => log'[i].disk <= log'[j].disk
    <3> SUFFICES ASSUME NEW i \in 1..Len(log'), NEW j \in 1..Len(log'), i <= j
                 PROVE  log'[i].disk <= log'[j].disk
      OBVIOUS
    <3>1. CASE j \in 1..Len(log)
      <4>1. i \in 1..Len(log)
        BY <3>1
      <4> QED
        BY <3>1, <4>1, <2>4 DEF LogInv
    <3>2. CASE j = Len(log) + 1
      BY <3>2, <2>3, <2>4, <2>5, <2>10
    <3> QED
      BY <3>1, <3>2, <2>6
  <2>12. \A d \in Clients, i \in 1..Len(log') : pending'[d] # log'[i].commit_id
    <3> SUFFICES ASSUME NEW d \in Clients, NEW i \in 1..Len(log')
                 PROVE  pending'[d] # log'[i].commit_id
      OBVIOUS
    <3>1. CASE i \in 1..Len(log)
      <4>1. log'[i] = log[i] /\ log[i].commit_id # 0 /\ pending[d] # log[i].commit_id
        BY <3>1, <2>4 DEF LogInv
      <4> QED
        BY <4>1, <2>8
    <3>2. CASE i = Len(log) + 1
      <4>1. log'[i].commit_id = pending[c]
        BY <3>2, <2>3, <2>4
      <4>2. d # c => pending[d] # pending[c]
        BY <2>5 DEF LogInv
      <4> QED
        BY <4>1, <4>2, <2>5, <2>8
    <3> QED
      BY <3>1, <3>2, <2>6
  <2>13. CommitIdsDistinct'
    <3>1. DOMAIN log' = 1..Len(log')
      BY <2>4
    <3>2. \A i, j \in 1..Len(log) : i # j => log[i].commit_id # log[j].commit_id
      BY DEF LogInv, CommitIdsDistinct
    <3>3. \A i \in 1..Len(log) : log[i].commit_id # pending[c]
      BY DEF LogInv
    <3> QED
      BY <3>1, <3>2, <3>3, <2>3, <2>4, <2>6 DEF CommitIdsDistinct
  <2>14. \A d, g \in Clients : pending'[d] # 0 /\ pending'[d] = pending'[g] => d = g
    BY <2>8 DEF LogInv
  <2> QED
    BY <2>5, <2>7, <2>8, <2>10, <2>11, <2>12, <2>13, <2>14 DEF LogInv
<1>3. CASE Waste
  <2>1. counter' = counter + 1 /\ UNCHANGED <<pending, log, flushed>>
    BY <1>3 DEF Waste
  <2>2. LogTypeOK'
    BY <2>1 DEF LogTypeOK
  <2> QED
    BY <2>1, <2>2 DEF LogInv, CommitIdsDistinct
<1>4. CASE Flush
  <2>1. flushed' = Len(log) /\ UNCHANGED <<counter, pending, log>>
    BY <1>4 DEF Flush
  <2>2. LogTypeOK'
    BY <2>1 DEF LogTypeOK
  <2> QED
    BY <2>1, <2>2 DEF LogInv, CommitIdsDistinct
<1>5. CASE Crash
  <2>1. PICK k \in flushed..Len(log) :
          log' = SubSeq(log, 1, k) /\ flushed' = k /\ counter' \in OnDisk(log, k)..counter
    BY <1>5 DEF Crash
  <2>2. k \in 0..Len(log)
    BY <2>1
  <2>3. log' \in Seq(Entry) /\ Len(log') = k /\ \A i \in 1..k : log'[i] = log[i]
    BY <2>1, <2>2, PrefixEntries
  <2>4. \A i \in 1..k : log[i].commit_id <= log[i].disk /\ log[i].disk <= OnDisk(log, k)
    <3>1. \A i, j \in 1..Len(log) : i <= j => log[i].disk <= log[j].disk
      BY DEF LogInv
    <3>2. \A i \in 1..k : log[i].commit_id <= log[i].disk
      BY <2>2 DEF LogInv
    <3> QED
      BY <3>1, <3>2, <2>2 DEF OnDisk
  <2>5. counter' \in Nat /\ OnDisk(log, k) \in Nat /\ OnDisk(log, k) <= counter'
    <3>1. OnDisk(log, k) \in Nat
      BY <2>2 DEF OnDisk
    <3> QED
      BY <3>1, <2>1
  <2>6. \A c \in Clients : pending'[c] = 0
    BY <1>5 DEF Crash
  <2>7. LogTypeOK'
    BY <1>5, <2>1, <2>2, <2>3, <2>5 DEF Crash, LogTypeOK
  <2>8. \A i \in 1..k : log'[i].commit_id <= log'[i].disk /\ log'[i].disk <= counter'
    BY <2>2, <2>3, <2>4, <2>5
  <2>9. \A i, j \in 1..k : i <= j => log'[i].disk <= log'[j].disk
    BY <2>2, <2>3 DEF LogInv
  <2>10. \A c \in Clients, i \in 1..k : pending'[c] # log'[i].commit_id
    BY <2>2, <2>3, <2>6
  <2>11. CommitIdsDistinct'
    BY <2>2, <2>3 DEF LogInv, CommitIdsDistinct
  <2> QED
    BY <2>3, <2>5, <2>6, <2>7, <2>8, <2>9, <2>10, <2>11 DEF LogInv
<1>6. CASE UNCHANGED logvars
  BY <1>6 DEF LogInv, LogTypeOK, logvars, CommitIdsDistinct
<1> QED
  BY <1>1, <1>2, <1>3, <1>4, <1>5, <1>6 DEF LogNext

\* No two transactions of the log ever carry the same commit id: the ids come from a
\* counter in memory, and recovery never sets it behind an id that survived.
THEOREM CommitIdsStayDistinct == LogSpec => []CommitIdsDistinct
<1>1. LogInv => CommitIdsDistinct
  BY DEF LogInv
<1> QED
  BY <1>1, LogInvInit, LogInvStep, PTL DEF LogSpec
=============================================================================
