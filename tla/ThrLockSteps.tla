--------------------------- MODULE ThrLockSteps ---------------------------
(* What the functions of thr_lock.cc do to one THR_LOCK and to the sessions  *)
(* that hold it or wait for it, for any sessions, tables and statements: the *)
(* inductive invariant, wake_up_waiters(), and the steps of thr_lock().      *)
EXTENDS ThrLock, TLAPS

-----------------------------------------------------------------------------
(* The inductive invariant.  A THR_LOCK as a record, and who is in it.       *)
LockRecord == [ read : Seq(Data), write : Seq(Data), read_wait : Seq(Data),
                write_wait : Seq(Data), write_lock_count : Nat ]

Holds(lock, d)  == In(d, lock.read) \/ In(d, lock.write)
Queued(lock, d) == In(d, lock.read_wait) \/ In(d, lock.write_wait)

Uniq(list) == \A i, j \in 1..Len(list) : list[i] = list[j] => i = j

(* Nobody is twice in a THR_LOCK, the lists of readers and of writers hold   *)
(* what their names say, and the locks of two sessions are compatible.       *)
ReadTypes  == { TL_READ, TL_READ_WITH_SHARED_LOCKS }
WriteTypes == { TL_WRITE_ALLOW_WRITE, TL_WRITE_ALLOW_READ, TL_WRITE, TL_WRITE_ONLY }

Sound(lock) ==
    /\ Uniq(lock.read) /\ Uniq(lock.write) /\ Uniq(lock.read_wait) /\ Uniq(lock.write_wait)
    /\ \A d \in Data : ~(Holds(lock, d) /\ Queued(lock, d))
    /\ \A d \in Data : In(d, lock.read) \/ In(d, lock.read_wait) => type[d] \in ReadTypes
    /\ \A d \in Data : In(d, lock.write) \/ In(d, lock.write_wait) => type[d] \in WriteTypes
    /\ \A d, e \in Data : Holds(lock, d) /\ Holds(lock, e) /\ owner(d) # owner(e)
                             => Compatible(type[d], type[e])

Attended(lock) ==
    lock.read_wait # << >> \/ lock.write_wait # << >> => lock.read # << >> \/ lock.write # << >>

(* A lock is in the lists of its own table.                                  *)
Named(d) == d[2] \in 1..Len(stmt[d[1]].tables)
Home(d)  == Table(d[1], d[2])
Held(d)  == Holds(THR_LOCK(Home(d)), d)
Waits(d) == Queued(THR_LOCK(Home(d)), d)
Free(d)  == ~Held(d) /\ ~Waits(d)

TableInv(t) ==
    /\ Sound(THR_LOCK(t)) /\ Attended(THR_LOCK(t))
    /\ \A d \in Data : Holds(THR_LOCK(t), d) \/ Queued(THR_LOCK(t), d) => Named(d) /\ Home(d) = t

(* The types are those that get_lock_data() has stored, until they are reset.*)
TypeInv(d) ==
    \/ type[d] \in { TL_UNLOCK, LockType(stmt[d[1]], d[2]) }
    \/ type[d] = TL_WRITE_ONLY /\ stmt[d[1]].command = "ALTER_TABLE"

(* How far a session has come with its locks, in the sorted order.           *)
Sorted(s, k) == << s, Order[stmt[s]][k] >>
Asked(s, k)  == type[Sorted(s, k)] = LockType(stmt[s], Order[stmt[s]][k])

SessionInv(s) ==
    LET n == Len(stmt[s].tables)
    IN  /\ pc[s] \in { "lock", "wait", "fail" } => pos[s] \in 1..n
        /\ pc[s] \in { "lock", "wait" } => \A k \in 1..n : k < pos[s] => Held(Sorted(s, k))
        /\ pc[s] \in { "lock", "fail" } => \A k \in 1..n : k >= pos[s] => Free(Sorted(s, k))
        /\ pc[s] = "lock" => \A k \in 1..n : k >= pos[s] => Asked(s, k)
        /\ pc[s] = "wait" => \A k \in 1..n : k > pos[s] => Free(Sorted(s, k)) /\ Asked(s, k)
        /\ pc[s] = "wait" => \/ Held(Current(s)) \/ Waits(Current(s))
                             \/ type[Current(s)] = TL_UNLOCK
        /\ pc[s] \in { "locked", "removing" } => \A i \in 1..n :
               Held(<< s, i >>) \/ (stmt[s].command = "SELECT" /\ type[<< s, i >>] = TL_UNLOCK)
        /\ pc[s] = "removing" => stmt[s].command = "ALTER_TABLE"
        /\ pc[s] = "idle" => \A i \in 1..n : Free(<< s, i >>)
        /\ \A i \in 1..n : Waits(<< s, i >>) => pc[s] = "wait" /\ << s, i >> = Current(s)

(* Two facts that hold of the constants alone, which the end of ThrLockProofs*)
(* establishes: a set of numbers has a least one, and sort_locks() names     *)
(* every lock of a statement once.                                           *)
NatIsWellOrdered == \A T \in SUBSET Nat : T # {} => \E m \in T : \A k \in T : m <= k

OrderIsComplete ==
    \A st \in Statements :
        LET n == Len(st.tables)
        IN  /\ \A k \in 1..n : Order[st][k] \in 1..n
            /\ \A k, l \in 1..n : Order[st][k] = Order[st][l] => k = l
            /\ \A i \in 1..n : \E k \in 1..n : Order[st][k] = i

TInv ==
    /\ NatIsWellOrdered /\ OrderIsComplete
    /\ TypeOK
    /\ \A t \in Tables : TableInv(t)
    /\ \A d \in Data : Named(d) => TypeInv(d)
    /\ \A s \in Sessions : SessionInv(s)

-----------------------------------------------------------------------------
(* Sequences.                                                                *)
LEMMA Elements ==
  ASSUME NEW S, NEW l \in Seq(S)
  PROVE  /\ Len(l) \in Nat /\ DOMAIN l = 1..Len(l)
         /\ \A i \in 1..Len(l) : l[i] \in S
         /\ l # << >> <=> Len(l) \in Nat \ {0}
OBVIOUS

(* The empty one is a sequence of anything.                                  *)
LEMMA EmptyList ==
  ASSUME NEW S
  PROVE  << >> \in Seq(S) /\ Len(<< >>) = 0
OBVIOUS

(* One more element at the end.                                              *)
LEMMA AppendIs ==
  ASSUME NEW S, NEW l \in Seq(S), NEW e \in S
  PROVE  /\ Append(l, e) \in Seq(S) /\ Append(l, e) # << >>
         /\ Len(Append(l, e)) = Len(l) + 1
         /\ \A i \in 1..Len(l) : Append(l, e)[i] = l[i]
         /\ Append(l, e)[Len(l) + 1] = e
OBVIOUS

(* One sequence after the other.                                             *)
LEMMA ConcatIs ==
  ASSUME NEW S, NEW l \in Seq(S), NEW m \in Seq(S)
  PROVE  /\ l \o m \in Seq(S) /\ Len(l \o m) = Len(l) + Len(m)
         /\ \A i \in 1..Len(l) + Len(m) :
              (l \o m)[i] = IF i <= Len(l) THEN l[i] ELSE m[i - Len(l)]
OBVIOUS

(* Part of a sequence.                                                       *)
LEMMA SubSeqIs ==
  ASSUME NEW S, NEW l \in Seq(S), NEW m \in Nat \ {0}, NEW n \in Nat, n <= Len(l)
  PROVE  /\ SubSeq(l, m, n) \in Seq(S)
         /\ Len(SubSeq(l, m, n)) = IF m <= n THEN n - m + 1 ELSE 0
         /\ \A i \in 1..n - m + 1 : SubSeq(l, m, n)[i] = l[m + i - 1]
OBVIOUS

(* Nothing of a sequence, and all of it.                                     *)
LEMMA NoneAndAll ==
  ASSUME NEW S, NEW l \in Seq(S)
  PROVE  /\ SubSeq(l, 1, 0) = << >> /\ SubSeq(l, 1, Len(l)) = l
         /\ l \o << >> = l
OBVIOUS

(* A function that is a sequence.                                            *)
LEMMA IsSequence ==
  ASSUME NEW S, NEW n \in Nat, NEW f \in [1..n -> S]
  PROVE  f \in Seq(S) /\ Len(f) = n
OBVIOUS

-----------------------------------------------------------------------------
(* The lists.                                                                *)
LEMMA Appended ==
  ASSUME NEW S, NEW l \in Seq(S), NEW e \in S
  PROVE  /\ Append(l, e) \in Seq(S) /\ Append(l, e) # << >>
         /\ \A d : In(d, Append(l, e)) <=> In(d, l) \/ d = e
         /\ Uniq(l) /\ ~In(e, l) => Uniq(Append(l, e))
<1> DEFINE a == Append(l, e)
<1>1. /\ a \in Seq(S) /\ a # << >> /\ Len(l) \in Nat /\ Len(a) = Len(l) + 1
      /\ \A i \in 1..Len(l) : a[i] = l[i]
      /\ a[Len(l) + 1] = e
  BY AppendIs, Elements
<1> HIDE DEF a
<1>2. \A i \in 1..Len(a) : i \in 1..Len(l) \/ i = Len(l) + 1
  BY <1>1
<1>3. ASSUME NEW d PROVE In(d, a) <=> In(d, l) \/ d = e
  BY <1>1, <1>2 DEF In
<1>4. ASSUME Uniq(l), ~In(e, l) PROVE Uniq(a)
  BY <1>1, <1>2, <1>4, Zenon DEF In, Uniq
<1> QED
  BY <1>1, <1>3, <1>4, Zenon DEF a

(* Two lists that share nobody, joined, hold the members of both once.       *)
LEMMA Joined ==
  ASSUME NEW S, NEW l \in Seq(S), NEW m \in Seq(S)
  PROVE  /\ l \o m \in Seq(S)
         /\ l \o m = << >> => l = << >> /\ m = << >>
         /\ \A d : In(d, l \o m) <=> In(d, l) \/ In(d, m)
         /\ Uniq(l) /\ Uniq(m) /\ (\A d \in S : ~(In(d, l) /\ In(d, m))) => Uniq(l \o m)
<1> DEFINE c == l \o m
           n == Len(l)
<1>1. /\ c \in Seq(S) /\ Len(l) \in Nat /\ Len(m) \in Nat /\ Len(c) = n + Len(m)
      /\ \A i \in 1..n + Len(m) : c[i] = IF i <= n THEN l[i] ELSE m[i - n]
  BY ConcatIs, Elements
<1>2. \A i \in 1..n : i \in 1..Len(c) /\ c[i] = l[i]
  BY <1>1
<1>3. \A i \in 1..Len(m) : n + i \in 1..Len(c) /\ c[n + i] = m[i]
  <2> SUFFICES ASSUME NEW i \in 1..Len(m) PROVE n + i \in 1..Len(c) /\ c[n + i] = m[i]
    BY Zenon
  <2>1. n + i \in 1..n + Len(m) /\ ~(n + i <= n) /\ (n + i) - n = i
    BY <1>1
  <2> QED
    BY <1>1, <2>1, Zenon
<1>4. \A i \in 1..Len(c) : i \in 1..n \/ (i - n \in 1..Len(m) /\ i = n + (i - n) /\ c[i] = m[i - n])
  BY <1>1
<1>5. c = << >> => l = << >> /\ m = << >>
  <2>1. ASSUME c = << >> PROVE Len(l) = 0 /\ Len(m) = 0
    BY <1>1, <2>1
  <2> QED
    BY <2>1
<1> HIDE DEF c, n
<1>6. ASSUME NEW d PROVE In(d, c) <=> In(d, l) \/ In(d, m)
  <2>1. In(d, l) => In(d, c)
    BY <1>2, Zenon DEF In, n
  <2>2. In(d, m) => In(d, c)
    BY <1>3, Zenon DEF In
  <2>3. In(d, c) => In(d, l) \/ In(d, m)
    BY <1>2, <1>4, Zenon DEF In, n
  <2> QED
    BY <2>1, <2>2, <2>3, Zenon
<1>7. ASSUME Uniq(l), Uniq(m), \A d \in S : ~(In(d, l) /\ In(d, m)) PROVE Uniq(c)
  <2> SUFFICES ASSUME NEW i \in 1..Len(c), NEW j \in 1..Len(c), c[i] = c[j] PROVE i = j
    BY Zenon DEF Uniq
  <2>1. CASE i \in 1..n /\ j \in 1..n
    BY <1>2, <1>7, <2>1, Zenon DEF Uniq, n
  <2>2. CASE i \notin 1..n /\ j \notin 1..n
    <3>1. i - n = j - n
      BY <1>4, <1>7, <2>2 DEF Uniq
    <3> QED
      BY <1>1, <3>1 DEF n
  <2>3. ASSUME NEW x \in 1..n, NEW y \in 1..Len(c), y \notin 1..n PROVE c[x] # c[y]
    <3>1. In(c[x], l) /\ In(c[y], m) /\ c[x] = l[x]
      BY <1>2, <1>4, <2>3, Zenon DEF In, n
    <3>2. l[x] \in S
      BY Elements, Zenon DEF n
    <3> QED
      BY <1>7, <3>1, <3>2, Zenon
  <2> QED
    BY <2>1, <2>2, <2>3, Zenon
<1> QED
  BY <1>1, <1>5, <1>6, <1>7, Zenon DEF c

(* A queue and the part of it that is served.                                *)
LEMMA Served ==
  ASSUME NEW S, NEW l \in Seq(S), NEW n \in 0..Len(l)
  PROVE  LET p == SubSeq(l, 1, n)
             q == SubSeq(l, n + 1, Len(l))
         IN  /\ p \in Seq(S) /\ q \in Seq(S)
             /\ Len(p) = n /\ Len(q) = Len(l) - n
             /\ \A i \in 1..n : p[i] = l[i]
             /\ \A i \in 1..Len(q) : n + i \in 1..Len(l) /\ q[i] = l[n + i]
             /\ \A d : In(d, l) <=> In(d, p) \/ In(d, q)
             /\ Uniq(l) => /\ Uniq(p) /\ Uniq(q)
                           /\ \A d : ~(In(d, p) /\ In(d, q))
<1> DEFINE p == SubSeq(l, 1, n)
           q == SubSeq(l, n + 1, Len(l))
<1>0. Len(l) \in Nat /\ n \in Nat /\ n <= Len(l) /\ \A i \in 1..Len(l) : l[i] \in S
  BY Elements
<1>1. p \in Seq(S) /\ Len(p) = n /\ \A i \in 1..n : p[i] = l[i]
  <2>1. \A i \in 1..n : l[i] \in S
    BY <1>0
  <2>2. /\ p \in Seq(S) /\ Len(p) = (IF 1 <= n THEN n - 1 + 1 ELSE 0)
        /\ \A i \in 1..n - 1 + 1 : p[i] = l[1 + i - 1]
    BY <1>0, <2>1, SubSeqIs
  <2> QED
    BY <1>0, <2>2
<1>2. /\ q \in Seq(S) /\ Len(q) = Len(l) - n
      /\ \A i \in 1..Len(q) : n + i \in 1..Len(l) /\ q[i] = l[n + i]
  <2>1. \A i \in n + 1..Len(l) : l[i] \in S
    BY <1>0
  <2>2. /\ q \in Seq(S) /\ Len(q) = (IF n + 1 <= Len(l) THEN Len(l) - (n + 1) + 1 ELSE 0)
        /\ \A i \in 1..Len(l) - (n + 1) + 1 : q[i] = l[(n + 1) + i - 1]
    BY <1>0, <2>1, SubSeqIs
  <2>3. Len(q) = Len(l) - n
    BY <1>0, <2>2
  <2>4. ASSUME NEW i \in 1..Len(q) PROVE n + i \in 1..Len(l) /\ q[i] = l[n + i]
    <3>1. i \in 1..Len(l) - (n + 1) + 1 /\ (n + 1) + i - 1 = n + i /\ n + i \in 1..Len(l)
      BY <1>0, <2>3
    <3> QED
      BY <2>2, <3>1, Zenon
  <2> QED
    BY <2>2, <2>3, <2>4, Zenon
<1> HIDE DEF p, q
<1>3. \A i \in 1..Len(l) : i \in 1..n \/ (i - n \in 1..Len(q) /\ i = n + (i - n))
  BY <1>0, <1>2
<1>4. \A d : In(d, l) <=> In(d, p) \/ In(d, q)
  <2> TAKE d
  <2>1. In(d, p) => In(d, l)
    BY <1>0, <1>1 DEF In
  <2>2. In(d, q) => In(d, l)
    BY <1>2, Zenon DEF In
  <2>3. ASSUME NEW i \in 1..Len(l), l[i] = d PROVE In(d, p) \/ In(d, q)
    <3>1. CASE i \in 1..n
      BY <1>1, <2>3, <3>1, Zenon DEF In
    <3>2. CASE i - n \in 1..Len(q) /\ i = n + (i - n)
      <4>1. q[i - n] = d
        BY <1>2, <2>3, <3>2, Zenon
      <4> QED
        BY <3>2, <4>1, Zenon DEF In
    <3> QED
      BY <1>3, <3>1, <3>2, Zenon
  <2> QED
    BY <2>1, <2>2, <2>3, Zenon DEF In
<1>5. ASSUME Uniq(l) PROVE Uniq(p) /\ Uniq(q) /\ \A d : ~(In(d, p) /\ In(d, q))
  <2>1. Uniq(p)
    BY <1>0, <1>1, <1>5 DEF Uniq
  <2>2. Uniq(q)
    <3> SUFFICES ASSUME NEW i \in 1..Len(q), NEW j \in 1..Len(q), q[i] = q[j] PROVE i = j
      BY Zenon DEF Uniq
    <3>1. n + i = n + j
      BY <1>2, <1>5, Zenon DEF Uniq
    <3> QED
      BY <1>0, <1>2, <3>1
  <2>3. ASSUME NEW i \in 1..n, NEW j \in 1..Len(q) PROVE p[i] # q[j]
    <3>1. p[i] = l[i] /\ q[j] = l[n + j] /\ i \in 1..Len(l) /\ n + j \in 1..Len(l) /\ i # n + j
      BY <1>0, <1>1, <1>2
    <3> QED
      BY <1>5, <3>1, Zenon DEF Uniq
  <2> QED
    BY <1>1, <2>1, <2>2, <2>3, Zenon DEF In
<1> QED
  BY <1>1, <1>2, <1>4, <1>5, Zenon DEF p, q

(* Unlink() takes one member out and keeps the others in their order.        *)
LEMMA Unlinked ==
  ASSUME NEW S, NEW l \in Seq(S), NEW d, Uniq(l)
  PROVE  /\ Unlink(l, d) \in Seq(S) /\ Uniq(Unlink(l, d))
         /\ \A e : In(e, Unlink(l, d)) <=> In(e, l) /\ e # d
         /\ \A i, j \in 1..Len(Unlink(l, d)) : i < j =>
              \E a, b \in 1..Len(l) : a < b /\ l[a] = Unlink(l, d)[i] /\ l[b] = Unlink(l, d)[j]
<1> DEFINE u == Unlink(l, d)
<1>0. Len(l) \in Nat /\ \A i \in 1..Len(l) : l[i] \in S
  BY Elements, Zenon
<1>1. CASE ~In(d, l)
  <2>1. u = l
    BY <1>1, Zenon DEF Unlink
  <2> QED
    BY <1>0, <1>1, <2>1, Zenon DEF In
<1>2. CASE In(d, l)
  <2> DEFINE i0 == CHOOSE i \in 1..Len(l) : l[i] = d
             At1(j) == IF j < i0 THEN j ELSE j + 1
  <2>1. i0 \in 1..Len(l) /\ l[i0] = d
    BY <1>2, Zenon DEF In
  <2>2. u = [j \in 1..Len(l) - 1 |-> IF j < i0 THEN l[j] ELSE l[j + 1]]
    BY <1>2, Zenon DEF Unlink
  <2> HIDE DEF i0, u
  <2>3. Len(l) - 1 \in Nat
    BY <1>0, <2>1
  <2>4. \A j \in 1..Len(l) - 1 : At1(j) \in 1..Len(l) /\ At1(j) # i0
    BY <1>0, <2>1
  <2>5. \A j \in 1..Len(l) - 1 : u[j] = l[At1(j)]
    BY <2>2, Zenon
  <2>6. u \in Seq(S) /\ Len(u) = Len(l) - 1
    <3>1. \A j \in 1..Len(l) - 1 : l[At1(j)] \in S
      BY <1>0, <2>4, Zenon
    <3>2. u \in [1..Len(l) - 1 -> S]
      BY <2>2, <3>1, Zenon
    <3> QED
      BY <2>3, <3>2, IsSequence, Zenon
  <2>7. \A k \in 1..Len(l) : k # i0 => \E j \in 1..Len(l) - 1 : At1(j) = k
    <3> SUFFICES ASSUME NEW k \in 1..Len(l), k # i0 PROVE \E j \in 1..Len(l) - 1 : At1(j) = k
      BY Zenon
    <3>1. CASE k < i0
      <4>1. k \in 1..Len(l) - 1 /\ At1(k) = k
        BY <1>0, <2>1, <3>1
      <4> QED
        BY <4>1, Zenon
    <3>2. CASE k > i0
      <4>1. k - 1 \in 1..Len(l) - 1 /\ At1(k - 1) = k
        BY <1>0, <2>1, <3>2
      <4> QED
        BY <4>1, Zenon
    <3> QED
      BY <1>0, <2>1, <3>1, <3>2
  <2>8. \A i, j \in 1..Len(l) - 1 : i < j => At1(i) < At1(j)
    BY <1>0, <2>1
  <2> HIDE DEF At1
  <2>9. Uniq(u)
    <3> SUFFICES ASSUME NEW i \in 1..Len(u), NEW j \in 1..Len(u), u[i] = u[j] PROVE i = j
      BY Zenon DEF Uniq
    <3>1. At1(i) = At1(j)
      BY <2>4, <2>5, <2>6, Zenon DEF Uniq
    <3>2. At1(i) \in Nat
      BY <1>0, <2>4, <2>6
    <3> QED
      BY <1>0, <2>3, <2>6, <2>8, <3>1, <3>2
  <2>10. ASSUME NEW e PROVE In(e, u) <=> In(e, l) /\ e # d
    <3>1. In(e, u) => In(e, l) /\ e # d
      BY <2>1, <2>4, <2>5, <2>6, Zenon DEF In, Uniq
    <3>2. In(e, l) /\ e # d => In(e, u)
      BY <2>1, <2>5, <2>6, <2>7, Zenon DEF In
    <3> QED
      BY <3>1, <3>2, Zenon
  <2>11. \A i, j \in 1..Len(u) : i < j => \E a, b \in 1..Len(l) : a < b /\ l[a] = u[i] /\ l[b] = u[j]
    BY <2>4, <2>5, <2>6, <2>8, Zenon
  <2> QED
    BY <2>6, <2>9, <2>10, <2>11, Zenon DEF u
<1> QED
  BY <1>1, <1>2, Zenon

-----------------------------------------------------------------------------
(* The types that store_lock() leaves for a statement.                       *)
LEMMA LockTypes ==
  ASSUME NEW st \in Statements, NEW i
  PROVE  /\ LockType(st, i) \in { TL_READ, TL_READ_WITH_SHARED_LOCKS, TL_WRITE_ALLOW_WRITE,
                                  TL_WRITE_ALLOW_READ, TL_WRITE }
         /\ ~IsRead(LockType(st, i)) <=> i \in st.written
         /\ \A j \in st.written : i \in st.written => LockType(st, i) = LockType(st, j)
         /\ LockType(st, i) = TL_WRITE_ALLOW_READ <=> st.command = "ALTER_TABLE" /\ i \in st.written
BY StatementsAssumption
   DEF LockType, store_lock, IsRead, TL_READ, TL_READ_WITH_SHARED_LOCKS, TL_READ_NO_INSERT,
       TL_WRITE_ALLOW_WRITE, TL_WRITE_ALLOW_READ, TL_WRITE_CONCURRENT_INSERT, TL_WRITE

-----------------------------------------------------------------------------
(* The writers that start together: one, or some that all allow writes.      *)
LEMMA BatchIsPrefix ==
  ASSUME NatIsWellOrdered, NEW lock \in LockRecord, lock.write_wait # << >>
  PROVE  /\ Batch(lock) \in 1..Len(lock.write_wait)
         /\ Batch(lock) > 1 => \A i \in 1..Batch(lock) :
                type[lock.write_wait[i]] = TL_WRITE_ALLOW_WRITE
<1> DEFINE ww == lock.write_wait
           L == Len(ww)
           AW(i) == type[ww[i]] = TL_WRITE_ALLOW_WRITE
           Good(n) == /\ \A i \in 1..n : i = 1 \/ \A j \in 1..i : AW(j)
                      /\ n = L \/ ~AW(1) \/ ~AW(n + 1)
<1>1. L \in Nat \ {0}
  BY Elements, Zenon DEF LockRecord
<1>2. \E n \in 1..L : Good(n)
  <2> DEFINE bad == { i \in 1..L : ~AW(i) }
  <2>1. CASE bad = {}
    <3>1. L \in 1..L /\ Good(L)
      BY <1>1, <2>1
    <3> QED
      BY <3>1, Zenon
  <2>2. CASE bad # {}
    <3>1. PICK m \in bad : \A k \in bad : m <= k
      <4>1. bad \in SUBSET Nat
        BY <1>1
      <4> HIDE DEF bad
      <4> QED
        BY <2>2, <4>1, Zenon DEF NatIsWellOrdered
    <3>2. CASE m = 1
      <4>1. 1 \in 1..L /\ Good(1)
        BY <1>1, <3>1, <3>2
      <4> QED
        BY <4>1, Zenon
    <3>3. CASE m # 1
      <4>1. m - 1 \in 1..L /\ (m - 1) + 1 = m /\ \A j \in 1..m - 1 : AW(j)
        <5>1. m \in 1..L /\ m - 1 \in 1..L /\ (m - 1) + 1 = m
          BY <1>1, <3>1, <3>3
        <5>2. ASSUME NEW j \in 1..m - 1 PROVE AW(j)
          <6>1. j \in 1..L /\ ~(m <= j)
            BY <1>1, <5>1
          <6> HIDE DEF AW
          <6> QED
            BY <3>1, <6>1, Zenon
        <5> QED
          BY <5>1, <5>2, Zenon
      <4>2. ~AW((m - 1) + 1)
        BY <3>1, <4>1, Zenon
      <4> HIDE DEF AW
      <4>3. \A i \in 1..m - 1 : \A j \in 1..i : j \in 1..m - 1
        BY <1>1, <4>1
      <4>4. Good(m - 1)
        BY <4>1, <4>2, <4>3, Zenon
      <4> HIDE DEF Good
      <4> QED
        BY <4>1, <4>4, Zenon
    <3> QED
      BY <3>2, <3>3, Zenon
  <2> QED
    BY <2>1, <2>2, Zenon
<1>3. Batch(lock) = CHOOSE n \in 1..L : Good(n)
  BY Zenon DEF Batch
<1>4. Batch(lock) \in 1..L /\ Good(Batch(lock))
  <2> HIDE DEF Good, L
  <2> QED
    BY <1>2, <1>3, Zenon
<1>5. ASSUME Batch(lock) > 1, NEW i \in 1..Batch(lock) PROVE AW(i)
  <2>1. Batch(lock) \in 1..Batch(lock) /\ Batch(lock) # 1
    BY <1>1, <1>4, <1>5
  <2> HIDE DEF AW
  <2> QED
    BY <1>4, <1>5, <2>1, Zenon
<1> QED
  BY <1>4, <1>5, Zenon

(* Of a THR_LOCK it makes new, in which the first n writers that waited and, *)
(* if freed, all the readers that waited have got their locks.               *)
Wakes(lock, new, n, freed) ==
    /\ new \in LockRecord
    /\ new.write = lock.write \o SubSeq(lock.write_wait, 1, n)
    /\ new.write_wait = SubSeq(lock.write_wait, n + 1, Len(lock.write_wait))
    /\ new.read = IF freed THEN lock.read \o lock.read_wait ELSE lock.read
    /\ new.read_wait = IF freed THEN << >> ELSE lock.read_wait
    /\ n > 0 \/ freed => lock.write = << >>
    /\ n > 1 => \A i \in 1..n : type[lock.write_wait[i]] = TL_WRITE_ALLOW_WRITE
    /\ n > 0 /\ type[lock.write_wait[1]] >= TL_WRITE => lock.read = << >> /\ ~freed
    /\ Attended(new)

(* free_all_read_locks(): all readers that wait, or nothing.                 *)
LEMMA ReadersFreed ==
  ASSUME NEW lock \in LockRecord
  PROVE  LET new == free_all_read_locks(lock)
         IN  /\ new \in LockRecord /\ new.write = lock.write /\ new.write_wait = lock.write_wait
             /\ \/ new.read = lock.read /\ new.read_wait = lock.read_wait /\ lock.read_wait = << >>
                \/ new.read = lock.read \o lock.read_wait /\ new.read_wait = << >>
                   /\ lock.read_wait # << >>
<1> DEFINE new == free_all_read_locks(lock)
<1>1. CASE lock.read_wait = << >>
  BY <1>1, Zenon DEF free_all_read_locks
<1>2. CASE lock.read_wait # << >>
  <2>1. new = [lock EXCEPT !.read = lock.read \o lock.read_wait, !.read_wait = << >>,
                           !.write_lock_count = 0]
    BY <1>2, Zenon DEF free_all_read_locks, LockRecord
  <2>2. lock.read \o lock.read_wait \in Seq(Data) /\ << >> \in Seq(Data)
    BY Joined, EmptyList, Zenon DEF LockRecord
  <2> HIDE DEF new
  <2>3. new.write = lock.write /\ new.write_wait = lock.write_wait
    BY <2>1, Zenon DEF LockRecord
  <2>4. new.read = lock.read \o lock.read_wait
    BY <2>1, Zenon DEF LockRecord
  <2>5. new.read_wait = << >>
    BY <2>1, Zenon DEF LockRecord
  <2>6. new \in LockRecord
    BY <2>1, <2>2, Zenon DEF LockRecord
  <2> QED
    BY <1>2, <2>3, <2>4, <2>5, <2>6, Zenon DEF new
<1> QED
  BY <1>1, <1>2, Zenon

(* The batch of writers that wake_up_waiters() starts.                       *)
LEMMA WritersStarted ==
  ASSUME NatIsWellOrdered, NEW lock \in LockRecord, lock.write_wait # << >>
  PROVE  LET new == StartWriters(lock)
             n == Batch(lock)
         IN  /\ n \in 1..Len(lock.write_wait) /\ new \in LockRecord
             /\ new.read = lock.read /\ new.read_wait = lock.read_wait
             /\ new.write = lock.write \o SubSeq(lock.write_wait, 1, n) /\ new.write # << >>
             /\ new.write_wait = SubSeq(lock.write_wait, n + 1, Len(lock.write_wait))
<1> DEFINE new == StartWriters(lock)
           n == Batch(lock)
           p == SubSeq(lock.write_wait, 1, n)
           q == SubSeq(lock.write_wait, n + 1, Len(lock.write_wait))
<1>1. n \in 1..Len(lock.write_wait) /\ n \in 0..Len(lock.write_wait)
  BY BatchIsPrefix
<1>2. lock.write \in Seq(Data) /\ lock.write_wait \in Seq(Data)
  BY Zenon DEF LockRecord
<1>3. p \in Seq(Data) /\ q \in Seq(Data) /\ Len(p) = n
  BY <1>1, <1>2, Served
<1>4. new = [lock EXCEPT !.write = lock.write \o p, !.write_wait = q]
  BY Zenon DEF StartWriters, LockRecord
<1> HIDE DEF p, q, new
<1>5. lock.write \o p \in Seq(Data) /\ lock.write \o p # << >>
  <2>1. p # << >>
    BY <1>1, <1>3, EmptyList
  <2> QED
    BY <1>2, <1>3, <2>1, Joined, Zenon
<1>6. new \in LockRecord
  BY <1>3, <1>4, <1>5, Zenon DEF LockRecord
<1>7. new.read = lock.read /\ new.read_wait = lock.read_wait
  BY <1>4, Zenon DEF LockRecord
<1>8. new.write = lock.write \o p
  BY <1>4, Zenon DEF LockRecord
<1>9. new.write_wait = q
  BY <1>4, Zenon DEF LockRecord
<1> QED
  BY <1>1, <1>5, <1>6, <1>7, <1>8, <1>9, Zenon DEF new, p, q

(* Counting a writer changes no list.                                        *)
LEMMA Counted ==
  ASSUME NEW lock \in LockRecord
  PROVE  LET new == CountWrite(lock)
         IN  /\ new \in LockRecord /\ Batch(new) = Batch(lock)
             /\ new.read = lock.read /\ new.read_wait = lock.read_wait
             /\ new.write = lock.write /\ new.write_wait = lock.write_wait
<1> DEFINE new == CountWrite(lock)
           w == IF TooManyWrites(lock) THEN 0 ELSE lock.write_lock_count + 1
<1>1. new = [lock EXCEPT !.write_lock_count = w] /\ w \in Nat
  BY DEF CountWrite, LockRecord
<1> HIDE DEF new, w
<1>2. new \in LockRecord
  BY <1>1, Zenon DEF LockRecord
<1>3. /\ new.read = lock.read /\ new.read_wait = lock.read_wait
      /\ new.write = lock.write /\ new.write_wait = lock.write_wait
  BY <1>1, Zenon DEF LockRecord
<1> QED
  BY <1>2, <1>3 DEF new, Batch

(* Nothing happens, or the readers get their locks.                          *)
LEMMA NoWriterWakes ==
  ASSUME NEW lock \in LockRecord, NEW new \in LockRecord, Attended(new),
         new.write = lock.write, new.write_wait = lock.write_wait,
         \/ new.read = lock.read /\ new.read_wait = lock.read_wait
         \/ new.read = lock.read \o lock.read_wait /\ new.read_wait = << >> /\ lock.write = << >>
  PROVE  \E n \in 0..Len(lock.write_wait), freed \in BOOLEAN : Wakes(lock, new, n, freed)
<1> DEFINE ww == lock.write_wait
<1>1. lock.write \in Seq(Data) /\ ww \in Seq(Data) /\ Len(ww) \in Nat /\ 0 \in 0..Len(ww)
  BY Elements DEF LockRecord
<1>2. SubSeq(ww, 1, 0) = << >>
  BY <1>1, NoneAndAll, Zenon
<1>3. lock.write \o << >> = lock.write
  BY <1>1, NoneAndAll, Zenon
<1>4. SubSeq(ww, 0 + 1, Len(ww)) = ww
  BY <1>1, NoneAndAll
<1>7. /\ new.write = lock.write \o SubSeq(ww, 1, 0)
      /\ new.write_wait = SubSeq(ww, 0 + 1, Len(ww))
  BY <1>2, <1>3, <1>4, Zenon
<1> HIDE DEF ww
<1>5. CASE new.read = lock.read /\ new.read_wait = lock.read_wait
  <2>1. Wakes(lock, new, 0, FALSE)
    BY <1>5, <1>7 DEF Wakes, ww
  <2> QED
    BY <1>1, <2>1, Zenon DEF ww
<1>6. CASE new.read = lock.read \o lock.read_wait /\ new.read_wait = << >> /\ lock.write = << >>
  <2>1. Wakes(lock, new, 0, TRUE)
    BY <1>6, <1>7 DEF Wakes, ww
  <2> QED
    BY <1>1, <2>1, Zenon DEF ww
<1> QED
  BY <1>5, <1>6, Zenon

(* The writers at the head of the queue get theirs, and perhaps the readers. *)
LEMMA WritersWake ==
  ASSUME NatIsWellOrdered,
         NEW lock \in LockRecord, NEW new \in LockRecord, new.write # << >>,
         lock.write = << >>, lock.write_wait # << >>,
         new.write = lock.write \o SubSeq(lock.write_wait, 1, Batch(lock)),
         new.write_wait = SubSeq(lock.write_wait, Batch(lock) + 1, Len(lock.write_wait)),
         \/ /\ new.read = lock.read /\ new.read_wait = lock.read_wait
            /\ lock.read = << >> \/ ~(type[lock.write_wait[1]] >= TL_WRITE)
         \/ /\ new.read = lock.read \o lock.read_wait /\ new.read_wait = << >>
            /\ ~(type[lock.write_wait[1]] >= TL_WRITE)
  PROVE  \E n \in 0..Len(lock.write_wait), freed \in BOOLEAN : Wakes(lock, new, n, freed)
<1> DEFINE n == Batch(lock)
<1>1. /\ n \in 0..Len(lock.write_wait)
      /\ n > 1 => \A i \in 1..n : type[lock.write_wait[i]] = TL_WRITE_ALLOW_WRITE
  BY BatchIsPrefix
<1>2. Attended(new)
  BY Zenon DEF Attended
<1> HIDE DEF n
<1>3. CASE /\ new.read = lock.read /\ new.read_wait = lock.read_wait
           /\ lock.read = << >> \/ ~(type[lock.write_wait[1]] >= TL_WRITE)
  <2>1. Wakes(lock, new, n, FALSE)
    BY <1>1, <1>2, <1>3, Zenon DEF Wakes, n
  <2> QED
    BY <1>1, <2>1, Zenon
<1>4. CASE /\ new.read = lock.read \o lock.read_wait /\ new.read_wait = << >>
           /\ ~(type[lock.write_wait[1]] >= TL_WRITE)
  <2>1. Wakes(lock, new, n, TRUE)
    BY <1>1, <1>2, <1>4, Zenon DEF Wakes, n
  <2> QED
    BY <1>1, <2>1, Zenon
<1> QED
  BY <1>3, <1>4, Zenon

(* wake_up_waiters() does nothing but what Wakes allows.                     *)
LEMMA WakeUp ==
  ASSUME NatIsWellOrdered, NEW lock \in LockRecord,
         lock.write_wait # << >> => type[lock.write_wait[1]] \in WriteTypes
  PROVE  \E n \in 0..Len(lock.write_wait), freed \in BOOLEAN :
            Wakes(lock, wake_up_waiters(lock), n, freed)
<1> DEFINE new == wake_up_waiters(lock)
           head == type[lock.write_wait[1]]
           count == CountWrite(lock)
<1>1. /\ count \in LockRecord /\ Batch(count) = Batch(lock)
      /\ count.read = lock.read /\ count.read_wait = lock.read_wait
      /\ count.write = lock.write /\ count.write_wait = lock.write_wait
  BY Counted, Zenon
<1>2. CASE lock.write # << >>
  <2>1. new = lock
    BY <1>2, Zenon DEF wake_up_waiters
  <2>2. Attended(new)
    BY <1>2, <2>1, Zenon DEF Attended
  <2> HIDE DEF new
  <2> QED
    BY <2>1, <2>2, NoWriterWakes, Zenon DEF new
<1>3. CASE lock.write = << >> /\ lock.write_wait = << >>
  <2>1. new = free_all_read_locks(lock)
    BY <1>3, Zenon DEF wake_up_waiters
  <2> HIDE DEF new
  <2>2. /\ new \in LockRecord /\ new.write = lock.write /\ new.write_wait = lock.write_wait
        /\ \/ new.read = lock.read /\ new.read_wait = lock.read_wait /\ lock.read_wait = << >>
           \/ new.read = lock.read \o lock.read_wait /\ new.read_wait = << >>
    BY <2>1, ReadersFreed, Zenon
  <2>3. Attended(new)
    BY <1>3, <2>2, Zenon DEF Attended
  <2> QED
    BY <1>3, <2>2, <2>3, NoWriterWakes, Zenon DEF new
<1>4. CASE lock.write = << >> /\ lock.write_wait # << >> /\ lock.read = << >>
  <2>1. CASE TooManyWrites(lock) /\ lock.read_wait # << >>
    <3>1. new = free_all_read_locks(count)
      BY <1>4, <2>1, Zenon DEF wake_up_waiters
    <3> HIDE DEF new, count
    <3>2. /\ new \in LockRecord /\ new.write = lock.write /\ new.write_wait = lock.write_wait
          /\ new.read = lock.read \o lock.read_wait /\ new.read_wait = << >>
      BY <1>1, <2>1, <3>1, ReadersFreed, Zenon
    <3>3. new.read # << >>
      BY <2>1, <3>2, Joined, Zenon DEF LockRecord
    <3>4. Attended(new)
      BY <3>3, Zenon DEF Attended
    <3> QED
      BY <1>4, <3>2, <3>4, NoWriterWakes, Zenon DEF new
  <2>2. CASE ~(TooManyWrites(lock) /\ lock.read_wait # << >>)
    <3> DEFINE mid == StartWriters(count)
    <3>1. new = IF head >= TL_WRITE THEN mid ELSE free_all_read_locks(mid)
      BY <1>4, <2>2, Zenon DEF wake_up_waiters
    <3> HIDE DEF new, count
    <3>2. /\ mid \in LockRecord /\ mid.read = lock.read /\ mid.read_wait = lock.read_wait
          /\ mid.write = lock.write \o SubSeq(lock.write_wait, 1, Batch(lock))
          /\ mid.write # << >>
          /\ mid.write_wait = SubSeq(lock.write_wait, Batch(lock) + 1, Len(lock.write_wait))
      BY <1>1, <1>4, WritersStarted, Zenon
    <3> HIDE DEF mid
    <3>3. CASE head >= TL_WRITE
      BY <1>4, <3>1, <3>2, <3>3, WritersWake, Zenon DEF new
    <3>4. CASE ~(head >= TL_WRITE)
      <4>1. /\ new \in LockRecord /\ new.write = mid.write /\ new.write_wait = mid.write_wait
            /\ \/ new.read = mid.read /\ new.read_wait = mid.read_wait
               \/ new.read = mid.read \o mid.read_wait /\ new.read_wait = << >>
        BY <3>1, <3>2, <3>4, ReadersFreed, Zenon
      <4> QED
        BY <1>4, <3>2, <3>4, <4>1, WritersWake, Zenon DEF new
    <3> QED
      BY <3>3, <3>4, Zenon
  <2> QED
    BY <2>1, <2>2, Zenon
<1>5. CASE lock.write = << >> /\ lock.write_wait # << >> /\ lock.read # << >>
  <2>1. CASE head <= TL_WRITE_CONCURRENT_INSERT
    <3> DEFINE mid == StartWriters(lock)
    <3>1. new = free_all_read_locks(mid)
      BY <1>5, <2>1, Zenon DEF wake_up_waiters
    <3>2. /\ mid \in LockRecord /\ mid.read = lock.read /\ mid.read_wait = lock.read_wait
          /\ mid.write = lock.write \o SubSeq(lock.write_wait, 1, Batch(lock))
          /\ mid.write # << >>
          /\ mid.write_wait = SubSeq(lock.write_wait, Batch(lock) + 1, Len(lock.write_wait))
      BY <1>5, WritersStarted, Zenon
    <3> HIDE DEF new, mid
    <3>3. /\ new \in LockRecord /\ new.write = mid.write /\ new.write_wait = mid.write_wait
          /\ \/ new.read = mid.read /\ new.read_wait = mid.read_wait
             \/ new.read = mid.read \o mid.read_wait /\ new.read_wait = << >>
      BY <3>1, <3>2, ReadersFreed, Zenon
    <3>4. ~(head >= TL_WRITE)
      BY <1>5, <2>1 DEF WriteTypes, TL_WRITE_CONCURRENT_INSERT, TL_WRITE, TL_WRITE_ALLOW_WRITE,
                        TL_WRITE_ALLOW_READ, TL_WRITE_ONLY
    <3> QED
      BY <1>5, <3>2, <3>3, <3>4, WritersWake, Zenon DEF new
  <2>2. CASE ~(head <= TL_WRITE_CONCURRENT_INSERT)
    <3>1. new = lock
      BY <1>5, <2>2, Zenon DEF wake_up_waiters
    <3>2. Attended(new)
      BY <1>5, <3>1, Zenon DEF Attended
    <3> HIDE DEF new
    <3> QED
      BY <3>1, <3>2, NoWriterWakes, Zenon DEF new
  <2> QED
    BY <2>1, <2>2, Zenon
<1> QED
  BY <1>2, <1>3, <1>4, <1>5

(* The first of a list is in it.                                             *)
LEMMA HeadIsQueued ==
  ASSUME NEW S, NEW l \in Seq(S), l # << >>
  PROVE  1 \in 1..Len(l) /\ l[1] \in S /\ In(l[1], l)
<1>1. Len(l) \in Nat \ {0}
  BY Elements, Zenon
<1>2. 1 \in 1..Len(l)
  BY <1>1
<1> QED
  BY <1>2, Elements, Zenon DEF In

(* A reader goes with readers, and with writers but TL_WRITE.                *)
LEMMA ReadsCompatible ==
  ASSUME NEW a \in ReadTypes, NEW b
  PROVE  /\ b \in ReadTypes => Compatible(a, b)
         /\ b \in WriteTypes \ {TL_WRITE} => Compatible(a, b) /\ Compatible(b, a)
BY DEF ReadTypes, WriteTypes, Compatible, IsRead, TL_READ, TL_READ_WITH_SHARED_LOCKS,
       TL_READ_NO_INSERT, TL_WRITE_ALLOW_WRITE, TL_WRITE_ALLOW_READ, TL_WRITE, TL_WRITE_ONLY

(* Who gets a lock that way goes together with those that have one.          *)
LEMMA WakeIsSound ==
  ASSUME NEW lock \in LockRecord, NEW new, NEW n \in 0..Len(lock.write_wait),
         NEW freed \in BOOLEAN, Wakes(lock, new, n, freed), Sound(lock)
  PROVE  /\ Sound(new)
         /\ \A d \in Data : /\ Holds(lock, d) => Holds(new, d)
                            /\ Queued(new, d) => Queued(lock, d)
                            /\ Queued(lock, d) => Queued(new, d) \/ Holds(new, d)
                            /\ Holds(new, d) => Holds(lock, d) \/ Queued(lock, d)
<1> DEFINE ww == lock.write_wait
           p == SubSeq(ww, 1, n)
           q == SubSeq(ww, n + 1, Len(ww))
<1>1. /\ lock.read \in Seq(Data) /\ lock.write \in Seq(Data)
      /\ lock.read_wait \in Seq(Data) /\ ww \in Seq(Data)
  BY Zenon DEF LockRecord
<1>2. /\ p \in Seq(Data) /\ q \in Seq(Data) /\ Len(p) = n
      /\ \A i \in 1..n : p[i] = ww[i]
      /\ \A d : In(d, ww) <=> In(d, p) \/ In(d, q)
      /\ Uniq(p) /\ Uniq(q) /\ \A d : ~(In(d, p) /\ In(d, q))
  BY <1>1, Served DEF Sound
<1>3. /\ new.write = lock.write \o p /\ new.write_wait = q
      /\ n > 0 \/ freed => lock.write = << >>
      /\ n > 1 => \A i \in 1..n : type[ww[i]] = TL_WRITE_ALLOW_WRITE
      /\ n > 0 /\ type[ww[1]] >= TL_WRITE => lock.read = << >> /\ ~freed
  BY Zenon DEF Wakes
<1>4. /\ freed => new.read = lock.read \o lock.read_wait /\ new.read_wait = << >>
      /\ ~freed => new.read = lock.read /\ new.read_wait = lock.read_wait
  BY Zenon DEF Wakes
<1>5. \A d : ~In(d, << >>)
  BY DEF In
<1> HIDE DEF p, q, ww
<1>6. /\ \A d : In(d, new.write) <=> In(d, lock.write) \/ In(d, p)
      /\ Uniq(new.write) /\ Uniq(new.write_wait)
  <2>1. \A d \in Data : ~(In(d, lock.write) /\ In(d, p))
    BY <1>2, Zenon DEF Sound, Holds, Queued, ww
  <2>2. Uniq(lock.write)
    BY Zenon DEF Sound
  <2> QED
    BY <1>1, <1>2, <1>3, <2>1, <2>2, Joined
<1>7. /\ \A d : In(d, new.read) <=> In(d, lock.read) \/ (freed /\ In(d, lock.read_wait))
      /\ \A d : In(d, new.read_wait) <=> ~freed /\ In(d, lock.read_wait)
      /\ Uniq(new.read) /\ Uniq(new.read_wait)
  <2>1. /\ \A d \in Data : ~(In(d, lock.read) /\ In(d, lock.read_wait))
        /\ Uniq(lock.read) /\ Uniq(lock.read_wait)
    BY Zenon DEF Sound, Holds, Queued
  <2>2. CASE freed
    <3>1. Uniq(<< >>)
      BY DEF Uniq
    <3>2. /\ \A d : In(d, new.read) <=> In(d, lock.read) \/ In(d, lock.read_wait)
          /\ Uniq(new.read)
      <4> DEFINE both == lock.read \o lock.read_wait
      <4>1. (\A d : In(d, both) <=> In(d, lock.read) \/ In(d, lock.read_wait)) /\ Uniq(both)
        BY <1>1, <2>1, Joined, Zenon
      <4> HIDE DEF both
      <4>2. new.read = both
        BY <1>4, <2>2, Zenon DEF both
      <4> QED
        BY <4>1, <4>2, Zenon
    <3> QED
      BY <1>4, <1>5, <2>2, <3>1, <3>2, Zenon
  <2>3. CASE ~freed
    BY <1>4, <2>1, <2>3, Zenon
  <2> QED
    BY <2>2, <2>3, Zenon
<1>8. \A d \in Data : /\ Holds(lock, d) => Holds(new, d)
                      /\ Queued(new, d) => Queued(lock, d)
                      /\ Queued(lock, d) => Queued(new, d) \/ Holds(new, d)
                      /\ Holds(new, d) => Holds(lock, d) \/ Queued(lock, d)
  BY <1>2, <1>3, <1>6, <1>7, Zenon DEF Holds, Queued, ww
<1>9. \A d \in Data : ~(Holds(new, d) /\ Queued(new, d))
  <2> SUFFICES ASSUME NEW d \in Data, Holds(new, d), Queued(new, d) PROVE FALSE
    BY Zenon
  <2>1. Queued(lock, d) /\ ~Holds(lock, d)
    BY <1>8, Zenon DEF Sound
  <2>2. In(d, lock.read_wait) => type[d] \in ReadTypes
    BY Zenon DEF Sound
  <2>3. In(d, ww) => type[d] \in WriteTypes
    BY Zenon DEF Sound, ww
  <2>4. ReadTypes \cap WriteTypes = {}
    BY DEF ReadTypes, WriteTypes, TL_READ, TL_READ_WITH_SHARED_LOCKS,
           TL_WRITE_ALLOW_WRITE, TL_WRITE_ALLOW_READ, TL_WRITE, TL_WRITE_ONLY
  <2> QED
    BY <1>2, <1>3, <1>6, <1>7, <2>1, <2>2, <2>3, <2>4, Zenon DEF Holds, Queued, ww
<1>10. \A d \in Data : In(d, new.read) \/ In(d, new.read_wait) => type[d] \in ReadTypes
  BY <1>7, Zenon DEF Sound
<1>11. \A d \in Data : In(d, new.write) \/ In(d, new.write_wait) => type[d] \in WriteTypes
  BY <1>2, <1>3, <1>6, Zenon DEF Sound, ww
<1>12. ASSUME NEW d \in Data, NEW e \in Data, Holds(new, d), Holds(new, e), owner(d) # owner(e)
       PROVE  Compatible(type[d], type[e])
  <2>1. CASE In(d, new.read) /\ In(e, new.read)
    BY <1>10, <2>1, ReadsCompatible, Zenon
  <2>2. CASE n = 0 /\ ~freed
    <3>1. \A x : ~In(x, p)
      BY <1>2, <2>2 DEF In
    <3>2. Holds(lock, d) /\ Holds(lock, e)
      BY <1>6, <1>7, <1>12, <2>2, <3>1, Zenon DEF Holds
    <3> QED
      BY <1>12, <3>2, Zenon DEF Sound
  <2>3. CASE n = 0 /\ freed
    <3>1. \A x : ~In(x, p)
      BY <1>2, <2>3 DEF In
    <3>2. \A x : ~In(x, new.write)
      BY <1>3, <1>5, <1>6, <2>3, <3>1, Zenon
    <3> QED
      BY <1>12, <2>1, <3>2, Zenon DEF Holds
  <2>4. CASE n > 0
    <3>1. \A x : In(x, new.write) => In(x, p)
      BY <1>3, <1>5, <1>6, <2>4, Zenon
    <3>2. n = 1 \/ n > 1
      BY <1>1, <2>4, Elements DEF ww
    <3>3. ASSUME NEW x, In(x, p)
          PROVE  (n > 1 /\ type[x] = TL_WRITE_ALLOW_WRITE) \/ (n = 1 /\ x = ww[1])
      <4>1. PICK i \in 1..n : x = ww[i]
        BY <1>2, <3>3, Zenon DEF In
      <4>2. n = 1 => i = 1
        BY <4>1
      <4> QED
        BY <1>3, <3>2, <4>1, <4>2, Zenon
    <3>4. CASE In(d, new.write) /\ In(e, new.write)
      <4>1. type[d] = TL_WRITE_ALLOW_WRITE /\ type[e] = TL_WRITE_ALLOW_WRITE
        BY <1>12, <3>1, <3>3, <3>4
      <4> QED
        BY <4>1, Zenon DEF Compatible
    <3>5. ASSUME NEW x \in Data, NEW y \in Data, In(x, new.read), In(y, new.write)
          PROVE  Compatible(type[x], type[y]) /\ Compatible(type[y], type[x])
      <4>1. type[x] \in ReadTypes /\ type[y] \in WriteTypes
        BY <1>10, <1>11, <3>5, Zenon
      <4>2. ~(type[ww[1]] >= TL_WRITE)
        BY <1>3, <1>5, <1>7, <2>4, <3>5, Zenon
      <4>3. type[y] = TL_WRITE_ALLOW_WRITE \/ type[y] = type[ww[1]]
        BY <3>1, <3>3, <3>5, Zenon
      <4>4. type[y] # TL_WRITE
        BY <4>2, <4>3 DEF TL_WRITE, TL_WRITE_ALLOW_WRITE
      <4> QED
        BY <4>1, <4>4, ReadsCompatible, Zenon
    <3> QED
      BY <1>12, <2>1, <3>4, <3>5, Zenon DEF Holds
  <2> QED
    BY <1>1, <2>2, <2>3, <2>4, Elements DEF ww
<1> QED
  BY <1>6, <1>7, <1>8, <1>9, <1>10, <1>11, <1>12 DEF Sound

-----------------------------------------------------------------------------
(* The locks of a session, by index and in the sorted order.                 *)
LEMMA DataOfSession ==
  ASSUME TypeOK, NEW s \in Sessions
  PROVE  LET n == Len(stmt[s].tables)
         IN  /\ stmt[s] \in Statements /\ n \in Nat /\ n <= MaxLocks
             /\ \A i \in 1..n : /\ << s, i >> \in Data /\ Named(<< s, i >>)
                                /\ Home(<< s, i >>) \in Tables
             /\ \A d \in Data : d[1] = s /\ Named(d) => \E i \in 1..n : d = << s, i >>
<1> DEFINE n == Len(stmt[s].tables)
<1>1. stmt[s] \in Statements
  BY Zenon DEF TypeOK
<1>2. stmt[s].tables \in Seq(Tables) /\ n \in 1..MaxLocks /\ MaxLocks \in Nat
  BY <1>1, StatementsAssumption, BoundsAssumption, Zenon
<1>3. n \in Nat /\ n <= MaxLocks
  BY <1>2
<1>4. ASSUME NEW i \in 1..n PROVE << s, i >> \in Data /\ Named(<< s, i >>) /\ Home(<< s, i >>) \in Tables
  <2>1. i \in 1..MaxLocks
    BY <1>2, <1>3
  <2>2. stmt[s].tables[i] \in Tables
    BY <1>2, Elements, Zenon
  <2> QED
    BY <2>1, <2>2, Zenon DEF Data, Named, Home, Table
<1>5. \A d \in Data : d[1] = s /\ Named(d) => \E i \in 1..n : d = << s, i >>
  BY DEF Data, Named
<1> QED
  BY <1>1, <1>3, <1>4, <1>5, Zenon

(* sort_locks() names each lock of the statement once.                       *)
LEMMA DataInOrder ==
  ASSUME TypeOK, OrderIsComplete, NEW s \in Sessions
  PROVE  LET n == Len(stmt[s].tables)
         IN  /\ \A k \in 1..n : Order[stmt[s]][k] \in 1..n
             /\ \A k \in 1..n : Sorted(s, k) \in Data /\ Named(Sorted(s, k))
             /\ \A k \in 1..n : Sorted(s, k)[1] = s /\ Sorted(s, k)[2] = Order[stmt[s]][k]
             /\ \A k \in 1..n : Home(Sorted(s, k)) \in Tables
             /\ \A k, l \in 1..n : Sorted(s, k) = Sorted(s, l) => k = l
             /\ \A i \in 1..n : \E k \in 1..n : << s, i >> = Sorted(s, k)
<1> DEFINE n == Len(stmt[s].tables)
<1>1. /\ stmt[s] \in Statements
      /\ \A i \in 1..n : << s, i >> \in Data /\ Named(<< s, i >>) /\ Home(<< s, i >>) \in Tables
  BY DataOfSession, Zenon
<1>2. /\ \A k \in 1..n : Order[stmt[s]][k] \in 1..n
      /\ \A k, l \in 1..n : Order[stmt[s]][k] = Order[stmt[s]][l] => k = l
      /\ \A i \in 1..n : \E k \in 1..n : Order[stmt[s]][k] = i
  BY <1>1, Zenon DEF OrderIsComplete
<1> HIDE DEF n
<1>3. \A k \in 1..n : Sorted(s, k)[1] = s /\ Sorted(s, k)[2] = Order[stmt[s]][k]
  BY Zenon DEF Sorted
<1>4. \A k, l \in 1..n : Sorted(s, k) = Sorted(s, l) => k = l
  BY <1>2, <1>3
<1>5. \A k \in 1..n : Sorted(s, k) \in Data /\ Named(Sorted(s, k)) /\ Home(Sorted(s, k)) \in Tables
  BY <1>1, <1>2, Zenon DEF Sorted
<1>6. \A i \in 1..n : \E k \in 1..n : << s, i >> = Sorted(s, k)
  BY <1>2, Zenon DEF Sorted
<1> QED
  BY <1>2, <1>3, <1>4, <1>5, <1>6, Zenon DEF n

(* What the steps of the locks in out do to the others.                      *)
Others(out) ==
    \A e \in Data \ out : Named(e) =>
        /\ Held(e) => Held(e)'
        /\ Held(e)' => Held(e) \/ Waits(e)
        /\ Waits(e)' => Waits(e)
        /\ Waits(e) => Waits(e)' \/ Held(e)' \/ type'[e] = TL_UNLOCK
        /\ type'[e] = type[e] \/ (Waits(e) /\ type'[e] = TL_UNLOCK)

(* A session none of whose locks is touched is where it was.                 *)
LEMMA SessionKeeps ==
  ASSUME TInv, NEW s \in Sessions, NEW out, Others(out),
         \A d \in out : d[1] # s,
         stmt'[s] = stmt[s], pc'[s] = pc[s], pos'[s] = pos[s]
  PROVE  SessionInv(s)'
<1> DEFINE n == Len(stmt[s].tables)
<1>0. TypeOK /\ OrderIsComplete /\ SessionInv(s)
  BY Zenon DEF TInv
<1>1. /\ \A i \in 1..n : << s, i >> \in Data \ out /\ Named(<< s, i >>)
      /\ \A k \in 1..n : Sorted(s, k) \in Data \ out /\ Named(Sorted(s, k))
  <2>1. \A i \in 1..n : << s, i >> \in Data /\ Named(<< s, i >>) /\ << s, i >>[1] = s
    BY <1>0, DataOfSession, Zenon
  <2>2. \A k \in 1..n : Sorted(s, k) \in Data /\ Named(Sorted(s, k)) /\ Sorted(s, k)[1] = s
    BY <1>0, DataInOrder, Zenon
  <2> HIDE DEF n
  <2> QED
    BY <2>1, <2>2, Zenon
<1>2. n = Len(stmt'[s].tables)
  BY Zenon
<1>3. \A k : Sorted(s, k)' = Sorted(s, k)
  BY Zenon DEF Sorted, Order
<1>4. \A k \in 1..n : /\ Held(Sorted(s, k)) => Held(Sorted(s, k))'
                      /\ Free(Sorted(s, k)) => Free(Sorted(s, k))'
                      /\ Free(Sorted(s, k)) /\ Asked(s, k) => Asked(s, k)'
  <2> SUFFICES ASSUME NEW k \in 1..n
               PROVE  /\ Held(Sorted(s, k)) => Held(Sorted(s, k))'
                      /\ Free(Sorted(s, k)) => Free(Sorted(s, k))'
                      /\ Free(Sorted(s, k)) /\ Asked(s, k) => Asked(s, k)'
    BY Zenon
  <2>2. PICK e \in Data \ out : e = Sorted(s, k) /\ Named(e)
    BY <1>1, Zenon
  <2>1. /\ Held(e) => Held(e)'
        /\ Held(e)' => Held(e) \/ Waits(e)
        /\ Waits(e)' => Waits(e)
        /\ type'[e] = type[e] \/ (Waits(e) /\ type'[e] = TL_UNLOCK)
    BY <2>2, Zenon DEF Others
  <2>3. e = Sorted(s, k)'
    BY <1>3, <2>2, Zenon
  <2> QED
    BY <1>3, <2>1, <2>2, <2>3, Zenon DEF Free, Asked, Order
<1>5. \A i \in 1..n :
        LET e == << s, i >>
        IN  /\ Held(e) => Held(e)'
            /\ Held(e)' => Held(e) \/ Waits(e)
            /\ Waits(e)' => Waits(e)
            /\ Waits(e) => Waits(e)' \/ Held(e)' \/ type'[e] = TL_UNLOCK
            /\ type[e] = TL_UNLOCK => type'[e] = TL_UNLOCK
  BY <1>1, Zenon DEF Others
<1>6. pc[s] = "wait" => /\ Current(s)' = Current(s) /\ Current(s) \in Data \ out
                        /\ Named(Current(s))
  BY <1>0, <1>1, <1>3, Zenon DEF SessionInv, Current, Sorted
<1> HIDE DEF n
<1>7. SessionInv(s)'
  <2>1. pc'[s] \in { "lock", "wait", "fail" } => pos'[s] \in 1..n
    BY <1>0, Zenon DEF SessionInv, n
  <2>2. pc'[s] \in { "lock", "wait" } => \A k \in 1..n : k < pos'[s] => Held(Sorted(s, k))'
    BY <1>0, <1>4, Zenon DEF SessionInv, n
  <2>3. pc'[s] \in { "lock", "fail" } => \A k \in 1..n : k >= pos'[s] => Free(Sorted(s, k))'
    BY <1>0, <1>4, Zenon DEF SessionInv, n
  <2>4. pc'[s] = "lock" => \A k \in 1..n : k >= pos'[s] => Asked(s, k)'
    BY <1>0, <1>4, Zenon DEF SessionInv, n
  <2>5. pc'[s] = "wait" => \A k \in 1..n : k > pos'[s] => Free(Sorted(s, k))' /\ Asked(s, k)'
    BY <1>0, <1>4, Zenon DEF SessionInv, n
  <2>6. pc'[s] = "wait" => \/ Held(Current(s))' \/ Waits(Current(s))'
                           \/ type'[Current(s)'] = TL_UNLOCK
    <3> SUFFICES ASSUME pc[s] = "wait"
                 PROVE  \/ Held(Current(s))' \/ Waits(Current(s))'
                        \/ type'[Current(s)'] = TL_UNLOCK
      BY Zenon
    <3> DEFINE e == Current(s)
    <3>1. /\ Held(e) => Held(e)'
          /\ Waits(e) => Waits(e)' \/ Held(e)' \/ type'[e] = TL_UNLOCK
          /\ type'[e] = type[e] \/ (Waits(e) /\ type'[e] = TL_UNLOCK)
      BY <1>6, Zenon DEF Others
    <3>2. Held(e) \/ Waits(e) \/ type[e] = TL_UNLOCK
      BY <1>0, Zenon DEF SessionInv
    <3> QED
      BY <1>6, <3>1, <3>2, Zenon
  <2>7. pc'[s] \in { "locked", "removing" } => \A i \in 1..n :
          Held(<< s, i >>)' \/ (stmt'[s].command = "SELECT" /\ type'[<< s, i >>] = TL_UNLOCK)
    BY <1>0, <1>5, Zenon DEF SessionInv, n
  <2>8. pc'[s] = "removing" => stmt'[s].command = "ALTER_TABLE"
    BY <1>0, Zenon DEF SessionInv
  <2>9. pc'[s] = "idle" => \A i \in 1..n : Free(<< s, i >>)'
    BY <1>0, <1>5, Zenon DEF SessionInv, n, Free
  <2>10. \A i \in 1..n : Waits(<< s, i >>)' => pc'[s] = "wait" /\ << s, i >> = Current(s)'
    BY <1>0, <1>5, <1>6, Zenon DEF SessionInv, n
  <2> QED
    BY <1>2, <1>3, <2>1, <2>2, <2>3, <2>4, <2>5, <2>6, <2>7, <2>8, <2>9, <2>10, Zenon DEF SessionInv
<1> QED
  BY <1>7, Zenon

-----------------------------------------------------------------------------
(* A step changes one THR_LOCK.                                              *)
LEMMA LockOfTable ==
  ASSUME TypeOK, NEW t \in Tables
  PROVE  /\ THR_LOCK(t) \in LockRecord
         /\ THR_LOCK(t).read = read[t] /\ THR_LOCK(t).write = write[t]
         /\ THR_LOCK(t).read_wait = read_wait[t] /\ THR_LOCK(t).write_wait = write_wait[t]
<1>1. /\ read[t] \in Seq(Data) /\ write[t] \in Seq(Data)
      /\ read_wait[t] \in Seq(Data) /\ write_wait[t] \in Seq(Data)
      /\ write_lock_count[t] \in Nat
  BY Zenon DEF TypeOK
<1> QED
  BY <1>1, Zenon DEF THR_LOCK, LockRecord

ListTypes ==
    /\ read \in [Tables -> Seq(Data)] /\ write \in [Tables -> Seq(Data)]
    /\ read_wait \in [Tables -> Seq(Data)] /\ write_wait \in [Tables -> Seq(Data)]
    /\ write_lock_count \in [Tables -> Nat]

(* Changing the THR_LOCK of one table leaves those of the others.            *)
LEMMA Installed ==
  ASSUME TypeOK, NEW t \in Tables, NEW new \in LockRecord, Install(t, new)
  PROVE  /\ ListTypes'
         /\ read'[t] = new.read /\ write'[t] = new.write
         /\ read_wait'[t] = new.read_wait /\ write_wait'[t] = new.write_wait
         /\ \A u \in Tables \ {t} : THR_LOCK(u)' = THR_LOCK(u)
<1>1. /\ new.read \in Seq(Data) /\ new.write \in Seq(Data) /\ new.read_wait \in Seq(Data)
      /\ new.write_wait \in Seq(Data) /\ new.write_lock_count \in Nat
  BY Zenon DEF LockRecord
<1>2. ListTypes
  BY Zenon DEF TypeOK, ListTypes
<1>3. ListTypes'
  BY <1>1, <1>2, Zenon DEF Install, ListTypes
<1>4. /\ read'[t] = new.read /\ write'[t] = new.write
      /\ read_wait'[t] = new.read_wait /\ write_wait'[t] = new.write_wait
  BY <1>2, Zenon DEF Install, ListTypes
<1>5. \A u \in Tables \ {t} : THR_LOCK(u)' = THR_LOCK(u)
  BY <1>2, Zenon DEF Install, ListTypes, THR_LOCK
<1> QED
  BY <1>3, <1>4, <1>5, Zenon

(* The table of the step: its lists are sound before the types change, and   *)
(* none of those in them changes its type.                                   *)
LEMMA SoundAfter ==
  ASSUME NEW t \in Tables, NEW new, Sound(new),
         read'[t] = new.read, write'[t] = new.write,
         read_wait'[t] = new.read_wait, write_wait'[t] = new.write_wait,
         \A e \in Data : Holds(new, e) \/ Queued(new, e) => type'[e] = type[e]
  PROVE  Sound(THR_LOCK(t))'
<1> DEFINE now == THR_LOCK(t)'
<1>1. /\ now.read = new.read /\ now.write = new.write
      /\ now.read_wait = new.read_wait /\ now.write_wait = new.write_wait
  BY Zenon DEF THR_LOCK
<1> HIDE DEF now
<1>2. \A e \in Data : (Holds(now, e) <=> Holds(new, e)) /\ (Queued(now, e) <=> Queued(new, e))
  BY <1>1, Zenon DEF Holds, Queued
<1>3. Uniq(now.read) /\ Uniq(now.write) /\ Uniq(now.read_wait) /\ Uniq(now.write_wait)
  BY <1>1, Zenon DEF Sound
<1>4. \A d \in Data : ~(Holds(now, d) /\ Queued(now, d))
  BY <1>2, Zenon DEF Sound
<1>5. \A d \in Data : In(d, now.read) \/ In(d, now.read_wait) => type'[d] \in ReadTypes
  BY <1>1, Zenon DEF Sound, Holds, Queued
<1>6. \A d \in Data : In(d, now.write) \/ In(d, now.write_wait) => type'[d] \in WriteTypes
  BY <1>1, Zenon DEF Sound, Holds, Queued
<1>7. \A d, e \in Data : Holds(now, d) /\ Holds(now, e) /\ owner(d) # owner(e)
         => Compatible(type'[d], type'[e])
  BY <1>2, Zenon DEF Sound
<1> QED
  BY <1>3, <1>4, <1>5, <1>6, <1>7, Zenon DEF Sound, now, Holds, Queued, In, Uniq, owner, Compatible,
     IsRead, TL_READ_NO_INSERT, TL_WRITE_ALLOW_WRITE, TL_WRITE_ALLOW_READ, TL_WRITE_ONLY,
     ReadTypes, WriteTypes, TL_READ, TL_READ_WITH_SHARED_LOCKS, TL_WRITE, Data

(* The other tables.                                                         *)
LEMMA OtherTable ==
  ASSUME TInv, NEW u \in Tables, THR_LOCK(u)' = THR_LOCK(u), stmt' = stmt,
         \A e \in Data : Home(e) = u => type'[e] = type[e]
  PROVE  TableInv(u)'
<1> DEFINE lock == THR_LOCK(u)
<1>1. Sound(lock) /\ Attended(lock)
      /\ \A d \in Data : Holds(lock, d) \/ Queued(lock, d) => Named(d) /\ Home(d) = u
  BY Zenon DEF TInv, TableInv
<1>2. /\ read'[u] = lock.read /\ write'[u] = lock.write
      /\ read_wait'[u] = lock.read_wait /\ write_wait'[u] = lock.write_wait
  BY Zenon DEF THR_LOCK
<1> HIDE DEF lock
<1>3. Sound(THR_LOCK(u))'
  BY <1>1, <1>2, SoundAfter, Zenon
<1>4. /\ Attended(THR_LOCK(u))'
      /\ \A d \in Data : (Holds(THR_LOCK(u), d) \/ Queued(THR_LOCK(u), d))' =>
            Holds(lock, d) \/ Queued(lock, d)
  BY <1>1, Zenon DEF lock, Attended, Holds, Queued, In
<1>5. \A d \in Data : (Named(d) <=> Named(d)') /\ Home(d)' = Home(d)
  BY Zenon DEF Named, Home, Table
<1> QED
  BY <1>1, <1>3, <1>4, <1>5, Zenon DEF TableInv

(* What is to be shown of a step that changes one THR_LOCK.                  *)
LEMMA TableStep ==
  ASSUME TInv, NEW t \in Tables, NEW new \in LockRecord, Install(t, new), stmt' = stmt,
         Sound(THR_LOCK(t))', Attended(new),
         \A e \in Data : Holds(new, e) \/ Queued(new, e) => Named(e) /\ Home(e) = t,
         \A e \in Data : Home(e) # t => type'[e] = type[e]
  PROVE  /\ ListTypes' /\ \A u \in Tables : TableInv(u)'
         /\ \A e \in Data : Home(e) = t =>
               (Held(e)' <=> Holds(new, e)) /\ (Waits(e)' <=> Queued(new, e))
         /\ \A e \in Data : Home(e) \in Tables \ {t} =>
               (Held(e)' <=> Held(e)) /\ (Waits(e)' <=> Waits(e))
<1>1. /\ ListTypes'
      /\ read'[t] = new.read /\ write'[t] = new.write
      /\ read_wait'[t] = new.read_wait /\ write_wait'[t] = new.write_wait
      /\ \A u \in Tables \ {t} : THR_LOCK(u)' = THR_LOCK(u)
  BY Installed, Zenon DEF TInv
<1>2. \A u \in Tables \ {t} : TableInv(u)'
  BY <1>1, OtherTable, Zenon
<1>3. \A e \in Data : (Named(e) <=> Named(e)') /\ Home(e)' = Home(e)
  BY Zenon DEF Named, Home, Table
<1> DEFINE now == THR_LOCK(t)'
<1>4. /\ now.read = new.read /\ now.write = new.write
      /\ now.read_wait = new.read_wait /\ now.write_wait = new.write_wait
  BY <1>1, Zenon DEF THR_LOCK
<1>5. \A e \in Data : (Holds(now, e) <=> Holds(new, e)) /\ (Queued(now, e) <=> Queued(new, e))
  <2> HIDE DEF now
  <2> QED
    BY <1>4, Zenon DEF Holds, Queued
<1>6. TableInv(t)'
  <2>1. Attended(THR_LOCK(t))'
    BY <1>4, Zenon DEF Attended
  <2>2. \A e \in Data : (Holds(THR_LOCK(t), e) \/ Queued(THR_LOCK(t), e))' =>
           (Named(e) /\ Home(e) = t)'
    BY <1>3, <1>5, Zenon DEF Holds, Queued, In
  <2> QED
    BY <2>1, <2>2, Zenon DEF TableInv
<1>7. ASSUME NEW e \in Data, Home(e) = t
      PROVE  (Held(e)' <=> Holds(new, e)) /\ (Waits(e)' <=> Queued(new, e))
  <2>1. THR_LOCK(Home(e))' = now
    BY <1>3, <1>7, Zenon DEF THR_LOCK
  <2>2. (Held(e)' <=> Holds(now, e)) /\ (Waits(e)' <=> Queued(now, e))
    <3> HIDE DEF now
    <3> QED
      BY <2>1, Zenon DEF Held, Waits, Holds, Queued, In
  <2> QED
    BY <1>5, <2>2, Zenon
<1>8. \A e \in Data : Home(e) \in Tables \ {t} =>
         (Held(e)' <=> Held(e)) /\ (Waits(e)' <=> Waits(e))
  BY <1>1, <1>3 DEF Held, Waits, Holds, Queued, In
<1> QED
  BY <1>1, <1>2, <1>6, <1>7, <1>8, Zenon

(* A lock of a statement belongs to a table.                                 *)
LEMMA HomeOfNamed ==
  ASSUME TInv, NEW d \in Data, Named(d)
  PROVE  Home(d) \in Tables
<1>1. PICK s \in Sessions, i \in 1..MaxLocks : d = << s, i >>
  BY DEF Data
<1>2. i \in 1..Len(stmt[s].tables)
  BY <1>1, Zenon DEF Named
<1> QED
  BY <1>1, <1>2, DataOfSession, Zenon DEF TInv

(* The locks in out leave a table, and wake_up_waiters() is called.          *)
LEMMA WakeStep ==
  ASSUME TInv, NEW t \in Tables, NEW mid \in LockRecord, Sound(mid), NEW out \in SUBSET Data,
         \A e \in out : Home(e) = t,
         \A e \in Data : Holds(mid, e) <=> Holds(THR_LOCK(t), e) /\ e \notin out,
         \A e \in Data : Queued(mid, e) <=> Queued(THR_LOCK(t), e) /\ e \notin out,
         Install(t, wake_up_waiters(mid)), stmt' = stmt,
         \A e \in Data \ out : type'[e] = type[e]
  PROVE  /\ ListTypes' /\ \A u \in Tables : TableInv(u)'
         /\ Others(out) /\ \A e \in out : Free(e)'
<1> DEFINE new == wake_up_waiters(mid)
<1>1. PICK n \in 0..Len(mid.write_wait), freed \in BOOLEAN : Wakes(mid, new, n, freed)
  <2>1. mid.write_wait # << >> => type[mid.write_wait[1]] \in WriteTypes
    BY HeadIsQueued, Zenon DEF LockRecord, Sound
  <2>2. NatIsWellOrdered
    BY Zenon DEF TInv
  <2> QED
    BY <2>1, <2>2, WakeUp, Zenon
<1> HIDE DEF new
<1>2. /\ Sound(new)
      /\ \A d \in Data : /\ Holds(mid, d) => Holds(new, d)
                         /\ Queued(new, d) => Queued(mid, d)
                         /\ Queued(mid, d) => Queued(new, d) \/ Holds(new, d)
                         /\ Holds(new, d) => Holds(mid, d) \/ Queued(mid, d)
  BY <1>1, WakeIsSound
<1>3. new \in LockRecord /\ Attended(new)
  BY <1>1, Zenon DEF Wakes
<1>4. \A e \in Data : Holds(new, e) \/ Queued(new, e) =>
         Named(e) /\ Home(e) = t /\ type'[e] = type[e] /\ e \notin out
  BY <1>2, Zenon DEF TInv, TableInv
<1>5. \A e \in Data : Home(e) # t => type'[e] = type[e]
  BY Zenon
<1>6. Sound(THR_LOCK(t))'
  <2>1. /\ read'[t] = new.read /\ write'[t] = new.write
        /\ read_wait'[t] = new.read_wait /\ write_wait'[t] = new.write_wait
    BY <1>3, Installed, Zenon DEF TInv, new
  <2> QED
    BY <1>2, <1>4, <2>1, SoundAfter, Zenon
<1>7. /\ ListTypes' /\ \A u \in Tables : TableInv(u)'
      /\ \A e \in Data : Home(e) = t =>
            (Held(e)' <=> Holds(new, e)) /\ (Waits(e)' <=> Queued(new, e))
      /\ \A e \in Data : Home(e) \in Tables \ {t} =>
            (Held(e)' <=> Held(e)) /\ (Waits(e)' <=> Waits(e))
  BY <1>3, <1>4, <1>5, <1>6, TableStep, Zenon DEF new
<1>8. ASSUME NEW e \in Data \ out, Named(e)
      PROVE  /\ Held(e) => Held(e)'
             /\ Held(e)' => Held(e) \/ Waits(e)
             /\ Waits(e)' => Waits(e)
             /\ Waits(e) => Waits(e)' \/ Held(e)' \/ type'[e] = TL_UNLOCK
             /\ type'[e] = type[e] \/ (Waits(e) /\ type'[e] = TL_UNLOCK)
  <2>1. CASE Home(e) # t
    BY <1>7, <1>8, <2>1, HomeOfNamed, Zenon
  <2>2. CASE Home(e) = t
    <3>1. (Holds(mid, e) <=> Held(e)) /\ (Queued(mid, e) <=> Waits(e))
      BY <2>2, Zenon DEF Held, Waits
    <3> QED
      BY <1>2, <1>7, <2>2, <3>1, Zenon
  <2> QED
    BY <2>1, <2>2, Zenon
<1>9. \A e \in out : Free(e)'
  BY <1>4, <1>7, Zenon DEF Free
<1> QED
  BY <1>7, <1>8, <1>9, Zenon DEF Others

(* Taking members out of the lists keeps them sound.                         *)
LEMMA SoundSublists ==
  ASSUME NEW lock, NEW mid, Sound(lock),
         Uniq(mid.read), Uniq(mid.write), Uniq(mid.read_wait), Uniq(mid.write_wait),
         \A e \in Data : In(e, mid.read) => In(e, lock.read),
         \A e \in Data : In(e, mid.write) => In(e, lock.write),
         \A e \in Data : In(e, mid.read_wait) => In(e, lock.read_wait),
         \A e \in Data : In(e, mid.write_wait) => In(e, lock.write_wait)
  PROVE  Sound(mid)
BY Zenon DEF Sound, Holds, Queued

(* A waiter leaves the queue it is in.                                       *)
LEMMA DequeueStep ==
  ASSUME TInv, NEW d \in Data, Named(d), ~Held(d), stmt' = stmt,
         Install(Home(d), wake_up_waiters(Dequeue(THR_LOCK(Home(d)), d))),
         \A e \in Data \ {d} : type'[e] = type[e]
  PROVE  ListTypes' /\ (\A u \in Tables : TableInv(u)') /\ Others({d}) /\ Free(d)'
<1> DEFINE t == Home(d)
           lock == THR_LOCK(t)
           mid == Dequeue(lock, d)
<1>1. t \in Tables /\ lock \in LockRecord /\ Sound(lock)
  BY HomeOfNamed, LockOfTable, Zenon DEF TInv, TableInv
<1>2. ~Holds(lock, d)
  BY Zenon DEF Held
<1> HIDE DEF lock
<1>3. /\ mid.read = lock.read /\ mid.write = lock.write
      /\ mid.read_wait = Unlink(lock.read_wait, d) /\ mid.write_wait = Unlink(lock.write_wait, d)
      /\ lock.read_wait \in Seq(Data) /\ lock.write_wait \in Seq(Data)
  BY <1>1, Zenon DEF Dequeue, LockRecord
<1>4. /\ Unlink(lock.read_wait, d) \in Seq(Data) /\ Uniq(Unlink(lock.read_wait, d))
      /\ \A e : In(e, Unlink(lock.read_wait, d)) <=> In(e, lock.read_wait) /\ e # d
  BY <1>1, <1>3, Unlinked DEF Sound
<1>5. /\ Unlink(lock.write_wait, d) \in Seq(Data) /\ Uniq(Unlink(lock.write_wait, d))
      /\ \A e : In(e, Unlink(lock.write_wait, d)) <=> In(e, lock.write_wait) /\ e # d
  BY <1>1, <1>3, Unlinked DEF Sound
<1>6. mid \in LockRecord
  BY <1>1, <1>4, <1>5, Zenon DEF Dequeue, LockRecord
<1> HIDE DEF mid, t
<1>7. Sound(mid)
  <2>1. Uniq(mid.read) /\ Uniq(mid.write)
    BY <1>1, <1>3, Zenon DEF Sound
  <2> QED
    BY <1>1, <1>3, <1>4, <1>5, <2>1, SoundSublists, Zenon
<1>8. \A e \in Data : Holds(mid, e) <=> Holds(lock, e) /\ e \notin {d}
  BY <1>2, <1>3, Zenon DEF Holds
<1>9. \A e \in Data : Queued(mid, e) <=> Queued(lock, e) /\ e \notin {d}
  BY <1>3, <1>4, <1>5, Zenon DEF Queued
<1>10. Install(t, wake_up_waiters(mid)) /\ \A e \in {d} : Home(e) = t
  BY Zenon DEF mid, t, lock
<1> QED
  BY <1>1, <1>6, <1>7, <1>8, <1>9, <1>10, WakeStep DEF lock

(* thr_unlock(): a lock is given back.                                       *)
LEMMA UnlockStep ==
  ASSUME TInv, NEW s \in Sessions, NEW i \in 1..Len(stmt[s].tables), thr_unlock(s, i), stmt' = stmt,
         NEW d, d = << s, i >>, ~Waits(d)
  PROVE  /\ ListTypes' /\ \A u \in Tables : TableInv(u)'
         /\ Others({d}) /\ Free(d)'
         /\ type' = [type EXCEPT ![d] = TL_UNLOCK] /\ d \in Data /\ Named(d)
<1>0. d \in Data /\ Named(d) /\ d = << s, i >>
  BY DataOfSession, Zenon DEF TInv
<1> DEFINE t == Home(d)
           lock == THR_LOCK(t)
           mid == [lock EXCEPT !.read = Unlink(lock.read, d), !.write = Unlink(lock.write, d)]
<1>1. t \in Tables /\ lock \in LockRecord /\ Sound(lock)
  BY <1>0, HomeOfNamed, LockOfTable, Zenon DEF TInv, TableInv
<1>2. ~Queued(lock, d)
  BY <1>0, Zenon DEF Waits
<1>10. Install(t, wake_up_waiters(mid)) /\ type' = [type EXCEPT ![d] = TL_UNLOCK]
  <2>1. t = Table(s, i)
    BY <1>0 DEF Home
  <2> QED
    BY <1>0, <2>1, Zenon DEF thr_unlock
<1> HIDE DEF lock
<1>3. /\ mid.read_wait = lock.read_wait /\ mid.write_wait = lock.write_wait
      /\ mid.read = Unlink(lock.read, d) /\ mid.write = Unlink(lock.write, d)
      /\ lock.read \in Seq(Data) /\ lock.write \in Seq(Data)
  BY <1>1, Zenon DEF LockRecord
<1> DEFINE reads == lock.read
           writes == lock.write
<1>14. Uniq(reads) /\ Uniq(writes) /\ reads \in Seq(Data) /\ writes \in Seq(Data)
  BY <1>1, <1>3, Zenon DEF Sound
<1> HIDE DEF reads, writes
<1>4. /\ Unlink(reads, d) \in Seq(Data) /\ Uniq(Unlink(reads, d))
      /\ \A e : In(e, Unlink(reads, d)) <=> In(e, reads) /\ e # d
  BY <1>14, Unlinked, Zenon
<1>5. /\ Unlink(writes, d) \in Seq(Data) /\ Uniq(Unlink(writes, d))
      /\ \A e : In(e, Unlink(writes, d)) <=> In(e, writes) /\ e # d
  BY <1>14, Unlinked, Zenon
<1> USE DEF reads, writes
<1>6. mid \in LockRecord
  BY <1>1, <1>4, <1>5, Zenon DEF LockRecord
<1> HIDE DEF mid, t
<1>7. Sound(mid)
  <2>1. Uniq(mid.read_wait) /\ Uniq(mid.write_wait)
    BY <1>1, <1>3, Zenon DEF Sound
  <2> QED
    BY <1>1, <1>3, <1>4, <1>5, <2>1, SoundSublists, Zenon
<1>15. PICK out \in SUBSET Data : out = {d}
  BY <1>0, Zenon
<1>8. \A e \in Data : Queued(mid, e) <=> Queued(lock, e) /\ e \notin out
  BY <1>2, <1>3, <1>15, Zenon DEF Queued
<1>9. \A e \in Data : Holds(mid, e) <=> Holds(lock, e) /\ e \notin out
  BY <1>3, <1>4, <1>5, <1>15, Zenon DEF Holds
<1>11. Install(t, wake_up_waiters(mid)) /\ (\A e \in out : Home(e) = t)
  BY <1>10, <1>15, Zenon DEF t
<1>12. \A e \in Data \ out : type'[e] = type[e]
  BY <1>0, <1>10, <1>15, Zenon DEF TInv, TypeOK
<1>13. ListTypes' /\ (\A u \in Tables : TableInv(u)') /\ Others(out) /\ (\A e \in out : Free(e)')
  <2> HIDE DEF reads, writes
  <2> QED
    BY <1>1, <1>6, <1>7, <1>8, <1>9, <1>11, <1>12, WakeStep, Zenon DEF lock
<1> QED
  BY <1>0, <1>10, <1>13, <1>15, Zenon

-----------------------------------------------------------------------------
(* A request that is granted at once, or queued.                             *)
LEMMA CompatibleTypes ==
  /\ \A x \in ReadTypes : IsRead(x) /\ x \notin WriteTypes
  /\ \A x \in WriteTypes : ~IsRead(x)
  /\ \A x \in WriteTypes : x <= TL_WRITE_CONCURRENT_INSERT => x # TL_WRITE
  /\ \A x, y \in WriteTypes : Compatible(x, y) => x = TL_WRITE_ALLOW_WRITE /\ y = TL_WRITE_ALLOW_WRITE
  /\ Compatible(TL_WRITE_ALLOW_WRITE, TL_WRITE_ALLOW_WRITE)
  /\ TL_WRITE_ALLOW_WRITE \in WriteTypes \ {TL_WRITE}
BY DEF ReadTypes, WriteTypes, Compatible, IsRead, TL_READ, TL_READ_WITH_SHARED_LOCKS,
       TL_READ_NO_INSERT, TL_WRITE_ALLOW_WRITE, TL_WRITE_ALLOW_READ, TL_WRITE_CONCURRENT_INSERT,
       TL_WRITE, TL_WRITE_ONLY

(* The write locks of one session on a table are of one type.                *)
Uniform(lock, d) ==
    \A e, f \in Data : /\ e = d \/ Holds(lock, e)
                       /\ f = d \/ Holds(lock, f)
                       /\ owner(e) = owner(f)
                       /\ type[e] \in WriteTypes /\ type[f] \in WriteTypes
                       => type[e] = type[f]

(* What thr_lock() tests before it grants a read lock is enough.             *)
LEMMA ReaderFits ==
  ASSUME NEW lock \in LockRecord, Sound(lock), NEW d \in Data, type[d] \in ReadTypes,
         MayRead(lock, d), Uniform(lock, d), NEW e \in Data, Holds(lock, e), owner(e) # owner(d)
  PROVE  Compatible(type[d], type[e]) /\ Compatible(type[e], type[d])
<1>1. CASE In(e, lock.read)
  BY <1>1, ReadsCompatible, Zenon DEF Sound
<1>2. CASE In(e, lock.write)
  <2>1. lock.write \in Seq(Data) /\ lock.write # << >>
    BY <1>2 DEF LockRecord, In
  <2>2. PICK h \in Data : h = lock.write[1] /\ In(h, lock.write)
    BY <2>1, HeadIsQueued, Zenon
  <2>3. type[e] \in WriteTypes /\ type[h] \in WriteTypes /\ Holds(lock, h)
    BY <1>2, <2>2, Zenon DEF Sound, Holds
  <2>4. owner(e) # owner(h) => type[e] = TL_WRITE_ALLOW_WRITE
    BY <2>3, CompatibleTypes, Zenon DEF Sound
  <2>5. owner(e) = owner(h) => type[e] = type[h]
    BY <2>3, Zenon DEF Uniform
  <2>6. owner(h) = owner(d) \/ type[h] <= TL_WRITE_CONCURRENT_INSERT
    BY <2>1, <2>2, Zenon DEF MayRead
  <2>7. type[e] \in WriteTypes \ {TL_WRITE}
    BY <2>3, <2>4, <2>5, <2>6, CompatibleTypes, Zenon
  <2> QED
    BY <2>7, ReadsCompatible, Zenon
<1> QED
  BY <1>1, <1>2, Zenon DEF Holds

(* What thr_lock() tests before it grants a write lock is enough.            *)
LEMMA WriterFits ==
  ASSUME NEW lock \in LockRecord, Sound(lock), NEW d \in Data, type[d] \in WriteTypes,
         MayWrite(lock, d), Uniform(lock, d), NEW e \in Data, Holds(lock, e), owner(e) # owner(d)
  PROVE  Compatible(type[d], type[e]) /\ Compatible(type[e], type[d])
<1>1. CASE lock.write = << >>
  <2>1. In(e, lock.read) /\ type[d] <= TL_WRITE_CONCURRENT_INSERT
    BY <1>1 DEF Holds, In, MayWrite
  <2>2. type[e] \in ReadTypes /\ type[d] \in WriteTypes \ {TL_WRITE}
    BY <2>1, CompatibleTypes, Zenon DEF Sound
  <2> QED
    BY <2>2, ReadsCompatible, Zenon
<1>2. CASE lock.write # << >>
  <2>1. lock.write \in Seq(Data)
    BY Zenon DEF LockRecord
  <2>2. PICK h \in Data : h = lock.write[1] /\ In(h, lock.write)
    BY <1>2, <2>1, HeadIsQueued, Zenon
  <2>3. type[h] \in WriteTypes /\ Holds(lock, h)
    BY <2>2, Zenon DEF Sound, Holds
  <2>4. CASE owner(h) = owner(d)
    <3>1. type[h] = type[d]
      BY <2>3, <2>4, Zenon DEF Uniform
    <3>2. Compatible(type[h], type[e]) /\ Compatible(type[e], type[h])
      BY <2>3, <2>4, Zenon DEF Sound
    <3> QED
      BY <3>1, <3>2, Zenon
  <2>5. CASE owner(h) # owner(d)
    <3>1. type[d] = TL_WRITE_ALLOW_WRITE /\ type[h] = TL_WRITE_ALLOW_WRITE
      BY <1>2, <2>2, <2>5, Zenon DEF MayWrite
    <3>2. CASE In(e, lock.read)
      BY <3>1, <3>2, CompatibleTypes, ReadsCompatible, Zenon DEF Sound
    <3>3. CASE In(e, lock.write)
      <4>1. type[e] \in WriteTypes
        BY <3>3, Zenon DEF Sound
      <4>2. type[e] = TL_WRITE_ALLOW_WRITE
        BY <2>3, <3>1, <4>1, CompatibleTypes, Zenon DEF Sound, Uniform
      <4> QED
        BY <3>1, <4>2, CompatibleTypes, Zenon
    <3> QED
      BY <3>2, <3>3, Zenon DEF Holds
  <2> QED
    BY <2>4, <2>5, Zenon
<1> QED
  BY <1>1, <1>2, Zenon

(* A THR_LOCK after a lock was granted.                                      *)
LEMMA Granted ==
  ASSUME NEW lock \in LockRecord, Sound(lock), NEW d \in Data, ~Holds(lock, d), ~Queued(lock, d),
         type[d] \in ReadTypes \cup WriteTypes, MayLock(lock, d), Uniform(lock, d),
         NEW new, new = Grant(lock, d)
  PROVE  /\ new \in LockRecord /\ Sound(new) /\ Attended(new)
         /\ Holds(new, d) /\ ~Queued(new, d)
         /\ \A e \in Data : e # d => /\ Holds(new, e) <=> Holds(lock, e)
                                     /\ Queued(new, e) <=> Queued(lock, e)
<1>1. /\ lock.read \in Seq(Data) /\ lock.write \in Seq(Data)
      /\ lock.read_wait \in Seq(Data) /\ lock.write_wait \in Seq(Data)
      /\ lock.write_lock_count \in Nat
  BY Zenon DEF LockRecord
<1>0. Uniq(lock.read) /\ Uniq(lock.write) /\ ~In(d, lock.read) /\ ~In(d, lock.write)
  BY Zenon DEF Sound, Holds
<1> DEFINE reads == Append(lock.read, d)
           writes == Append(lock.write, d)
<1>2. /\ reads \in Seq(Data) /\ reads # << >>
      /\ \A e : In(e, reads) <=> In(e, lock.read) \/ e = d
      /\ Uniq(reads)
  BY <1>1, <1>0, Appended
<1>3. /\ writes \in Seq(Data) /\ writes # << >>
      /\ \A e : In(e, writes) <=> In(e, lock.write) \/ e = d
      /\ Uniq(writes)
  BY <1>1, <1>0, Appended
<1>4. /\ new \in LockRecord
      /\ new.read_wait = lock.read_wait /\ new.write_wait = lock.write_wait
      /\ \/ type[d] \in ReadTypes /\ new.read = reads /\ new.write = lock.write
         \/ type[d] \in WriteTypes /\ new.read = lock.read /\ new.write = writes
  <2> HIDE DEF reads, writes
  <2>1. CASE type[d] \in ReadTypes
    <3>1. new = [lock EXCEPT !.read = reads]
      BY <2>1, CompatibleTypes, Zenon DEF Grant, reads
    <3> QED
      BY <1>1, <1>2, <2>1, <3>1, Zenon DEF LockRecord
  <2>2. CASE type[d] \in WriteTypes
    <3>1. new = [lock EXCEPT !.write = writes]
      BY <2>2, CompatibleTypes, Zenon DEF Grant, writes
    <3> QED
      BY <1>1, <1>3, <2>2, <3>1, Zenon DEF LockRecord
  <2> QED
    BY <2>1, <2>2, Zenon
<1>5. /\ type[d] \in ReadTypes => MayRead(lock, d)
      /\ type[d] \in WriteTypes => MayWrite(lock, d)
  BY CompatibleTypes, Zenon DEF MayLock
<1>6. \A e \in Data : Holds(lock, e) /\ owner(e) # owner(d)
         => Compatible(type[d], type[e]) /\ Compatible(type[e], type[d])
  BY <1>5, ReaderFits, WriterFits, Zenon
<1> HIDE DEF reads, writes
<1>7. Holds(new, d) /\ Attended(new)
  BY <1>2, <1>3, <1>4, Zenon DEF Holds, Attended
<1>8. \A e \in Data : Queued(new, e) <=> Queued(lock, e)
  BY <1>4, Zenon DEF Queued
<1>9. \A e \in Data : Holds(new, e) <=> Holds(lock, e) \/ e = d
  BY <1>2, <1>3, <1>4, Zenon DEF Holds
<1>10. Sound(new)
  <2>1. Uniq(new.read) /\ Uniq(new.write) /\ Uniq(new.read_wait) /\ Uniq(new.write_wait)
    BY <1>2, <1>3, <1>4, Zenon DEF Sound
  <2>2. \A e \in Data : ~(Holds(new, e) /\ Queued(new, e))
    BY <1>8, <1>9, Zenon DEF Sound
  <2>3. \A e \in Data : In(e, new.read) \/ In(e, new.read_wait) => type[e] \in ReadTypes
    BY <1>2, <1>4, Zenon DEF Sound
  <2>4. \A e \in Data : In(e, new.write) \/ In(e, new.write_wait) => type[e] \in WriteTypes
    BY <1>3, <1>4, Zenon DEF Sound
  <2>5. \A e, f \in Data : Holds(new, e) /\ Holds(new, f) /\ owner(e) # owner(f)
           => Compatible(type[e], type[f])
    BY <1>6, <1>9 DEF Sound
  <2> QED
    BY <2>1, <2>2, <2>3, <2>4, <2>5, Zenon DEF Sound
<1> QED
  BY <1>4, <1>7, <1>8, <1>9, <1>10, Zenon

(* Who is not let in waits for somebody.                                     *)
LEMMA QueuedUp ==
  ASSUME NEW lock \in LockRecord, Sound(lock), Attended(lock), NEW d \in Data,
         ~Holds(lock, d), ~Queued(lock, d),
         type[d] \in ReadTypes \cup WriteTypes, ~MayLock(lock, d),
         NEW new, new = Queue(lock, d)
  PROVE  /\ new \in LockRecord /\ Sound(new) /\ Attended(new)
         /\ Queued(new, d) /\ ~Holds(new, d)
         /\ \A e \in Data : e # d => /\ Holds(new, e) <=> Holds(lock, e)
                                     /\ Queued(new, e) <=> Queued(lock, e)
<1>1. /\ lock.read \in Seq(Data) /\ lock.write \in Seq(Data)
      /\ lock.read_wait \in Seq(Data) /\ lock.write_wait \in Seq(Data)
      /\ lock.write_lock_count \in Nat
  BY Zenon DEF LockRecord
<1>0. Uniq(lock.read_wait) /\ Uniq(lock.write_wait) /\ ~In(d, lock.read_wait) /\ ~In(d, lock.write_wait)
  BY Zenon DEF Sound, Queued
<1> DEFINE reads == Append(lock.read_wait, d)
           writes == Append(lock.write_wait, d)
<1>2. /\ reads \in Seq(Data) /\ Uniq(reads)
      /\ \A e : In(e, reads) <=> In(e, lock.read_wait) \/ e = d
  BY <1>1, <1>0, Appended
<1>3. /\ writes \in Seq(Data) /\ Uniq(writes)
      /\ \A e : In(e, writes) <=> In(e, lock.write_wait) \/ e = d
  BY <1>1, <1>0, Appended, Zenon
<1>4. /\ new \in LockRecord
      /\ new.read = lock.read /\ new.write = lock.write
      /\ \/ type[d] \in ReadTypes /\ new.read_wait = reads /\ new.write_wait = lock.write_wait
         \/ type[d] \in WriteTypes /\ new.read_wait = lock.read_wait /\ new.write_wait = writes
  <2> HIDE DEF reads, writes
  <2>1. CASE type[d] \in ReadTypes
    <3>1. new = [lock EXCEPT !.read_wait = reads]
      BY <2>1, CompatibleTypes, Zenon DEF Queue, reads
    <3> QED
      BY <1>1, <1>2, <2>1, <3>1, Zenon DEF LockRecord
  <2>2. CASE type[d] \in WriteTypes
    <3>1. new = [lock EXCEPT !.write_wait = writes]
      BY <2>2, CompatibleTypes, Zenon DEF Queue, writes
    <3> QED
      BY <1>1, <1>3, <2>2, <3>1, Zenon DEF LockRecord
  <2> QED
    BY <2>1, <2>2, Zenon
<1>5. Attended(new)
  <2>1. lock.write # << >> \/ lock.write_wait # << >> \/ lock.read # << >>
    BY Zenon DEF MayLock, MayRead, MayWrite
  <2> QED
    BY <1>4, <2>1, Zenon DEF Attended
<1> HIDE DEF reads, writes
<1>6. \A e \in Data : Holds(new, e) <=> Holds(lock, e)
  BY <1>4, Zenon DEF Holds
<1>7. \A e \in Data : Queued(new, e) <=> Queued(lock, e) \/ e = d
  BY <1>2, <1>3, <1>4, Zenon DEF Queued
<1>8. Sound(new)
  <2>1. Uniq(new.read) /\ Uniq(new.write) /\ Uniq(new.read_wait) /\ Uniq(new.write_wait)
    BY <1>2, <1>3, <1>4, Zenon DEF Sound
  <2>2. \A e \in Data : ~(Holds(new, e) /\ Queued(new, e))
    BY <1>6, <1>7, Zenon DEF Sound
  <2>3. \A e \in Data : In(e, new.read) \/ In(e, new.read_wait) => type[e] \in ReadTypes
    BY <1>2, <1>4, Zenon DEF Sound
  <2>4. \A e \in Data : In(e, new.write) \/ In(e, new.write_wait) => type[e] \in WriteTypes
    BY <1>3, <1>4, Zenon DEF Sound
  <2>5. \A e, f \in Data : Holds(new, e) /\ Holds(new, f) /\ owner(e) # owner(f)
           => Compatible(type[e], type[f])
    BY <1>6, Zenon DEF Sound
  <2> QED
    BY <2>1, <2>2, <2>3, <2>4, <2>5, Zenon DEF Sound
<1> QED
  BY <1>4, <1>5, <1>6, <1>7, <1>8, Zenon

(* One lock arrives in a THR_LOCK.                                           *)
LEMMA ArriveStep ==
  ASSUME TInv, NEW d \in Data, Named(d), NEW new \in LockRecord, Sound(new), Attended(new),
         Install(Home(d), new), stmt' = stmt, type' = type,
         \A e \in Data : e # d => /\ Holds(new, e) <=> Holds(THR_LOCK(Home(d)), e)
                                  /\ Queued(new, e) <=> Queued(THR_LOCK(Home(d)), e)
  PROVE  /\ ListTypes' /\ \A u \in Tables : TableInv(u)'
         /\ Others({d}) /\ (Held(d)' <=> Holds(new, d)) /\ (Waits(d)' <=> Queued(new, d))
<1>1. PICK t \in Tables : t = Home(d)
  BY HomeOfNamed, Zenon
<1> DEFINE lock == THR_LOCK(t)
<1>2. \A e \in Data : Holds(lock, e) \/ Queued(lock, e) => Named(e) /\ Home(e) = t
  BY <1>1, Zenon DEF TInv, TableInv
<1>3. \A e \in Data : Holds(new, e) \/ Queued(new, e) => Named(e) /\ Home(e) = t
  BY <1>1, <1>2, Zenon
<1>4. Sound(THR_LOCK(t))'
  <2>1. /\ read'[t] = new.read /\ write'[t] = new.write
        /\ read_wait'[t] = new.read_wait /\ write_wait'[t] = new.write_wait
    BY <1>1, Installed, Zenon DEF TInv
  <2>2. \A e \in Data : Holds(new, e) \/ Queued(new, e) => type'[e] = type[e]
    BY Zenon
  <2> QED
    BY <1>1, <2>1, <2>2, SoundAfter, Zenon
<1>5. \A e \in Data : Home(e) # t => type'[e] = type[e]
  BY Zenon
<1>6. /\ ListTypes' /\ \A u \in Tables : TableInv(u)'
      /\ \A e \in Data : Home(e) = t =>
            (Held(e)' <=> Holds(new, e)) /\ (Waits(e)' <=> Queued(new, e))
      /\ \A e \in Data : Home(e) \in Tables \ {t} =>
            (Held(e)' <=> Held(e)) /\ (Waits(e)' <=> Waits(e))
  <2>1. Install(t, new)
    BY <1>1, Zenon
  <2> QED
    BY <1>1, <1>3, <1>4, <1>5, <2>1, TableStep, Zenon
<1>7. ASSUME NEW e \in Data \ {d}, Named(e)
      PROVE  (Held(e)' <=> Held(e)) /\ (Waits(e)' <=> Waits(e)) /\ type'[e] = type[e]
  <2>1. CASE Home(e) = t
    <3>1. (Held(e)' <=> Holds(new, e)) /\ (Waits(e)' <=> Queued(new, e))
      BY <1>6, <2>1, Zenon
    <3>2. (Held(e) <=> Holds(lock, e)) /\ (Waits(e) <=> Queued(lock, e))
      BY <2>1, Zenon DEF Held, Waits
    <3> QED
      BY <1>1, <3>1, <3>2, Zenon
  <2>2. CASE Home(e) # t
    BY <1>6, <1>7, <2>2, HomeOfNamed, Zenon
  <2> QED
    BY <2>1, <2>2, Zenon
<1>8. Others({d})
  BY <1>7, Zenon DEF Others
<1> QED
  BY <1>1, <1>6, <1>8, Zenon

-----------------------------------------------------------------------------
(* The session that takes a step.  First what the other variables are, and   *)
(* how the parts of the invariant come together.                             *)
ThreadTypes ==
    /\ pc \in [Sessions -> Places]
    /\ pos \in [Sessions -> 1..MaxLocks + 1]
    /\ answer \in [Sessions -> { "none", "ok", "error" }]
    /\ left \in [Sessions -> Nat]
    /\ killed \in [Sessions -> { "NOT_KILLED", "KILL_QUERY", "KILL_CONNECTION" }]
    /\ abort \subseteq Sessions

TypeTypes == type \in [Data -> TL_UNLOCK..TL_WRITE_ONLY]

(* The parts of the type invariant.                                          *)
LEMMA TypeParts ==
  ASSUME TInv
  PROVE  ThreadTypes /\ TypeTypes /\ ListTypes /\ stmt \in [Sessions -> Statements]
BY Zenon DEF TInv, TypeOK, ThreadTypes, TypeTypes, ListTypes

(* What is to be shown of a step that changes locks of one session.          *)
LEMMA Assemble ==
  ASSUME TInv, NEW s \in Sessions, stmt' = stmt, ListTypes', \A u \in Tables : TableInv(u)',
         NEW out \in SUBSET Data, Others(out), \A e \in out : e[1] = s /\ (Named(e) => TypeInv(e)'),
         TypeTypes', ThreadTypes', SessionInv(s)',
         \A u \in Sessions \ {s} : pc'[u] = pc[u] /\ pos'[u] = pos[u]
  PROVE  TInv'
<1>1. TypeOK'
  BY TypeParts DEF TypeOK, ThreadTypes, TypeTypes, ListTypes
<1>2. ASSUME NEW e \in Data, Named(e)' PROVE TypeInv(e)'
  <2>1. Named(e) /\ stmt'[e[1]] = stmt[e[1]]
    BY <1>2, Zenon DEF Named
  <2>2. CASE e \in out
    BY <2>1, <2>2, Zenon
  <2>3. CASE e \notin out
    <3>1. type'[e] = type[e] \/ type'[e] = TL_UNLOCK
      BY <2>1, <2>3, Zenon DEF Others
    <3>2. TypeInv(e)
      BY <2>1, Zenon DEF TInv
    <3> QED
      BY <2>1, <3>1, <3>2, Zenon DEF TypeInv, LockType, store_lock, TL_UNLOCK, TL_WRITE_ONLY
  <2> QED
    BY <2>2, <2>3, Zenon
<1>3. ASSUME NEW u \in Sessions PROVE SessionInv(u)'
  <2>1. CASE u = s
    BY <2>1, Zenon
  <2>2. CASE u # s
    BY <2>2, SessionKeeps, Zenon
  <2> QED
    BY <2>1, <2>2, Zenon
<1> QED
  BY <1>1, <1>2, <1>3, Zenon DEF TInv

(* The locks of the session that a step leaves alone.                        *)
LEMMA OwnLocks ==
  ASSUME TInv, NEW s \in Sessions, NEW out, Others(out), stmt' = stmt,
         NEW n, n = Len(stmt[s].tables)
  PROVE  /\ n = Len(stmt'[s].tables) /\ n \in Nat /\ n <= MaxLocks
         /\ \A k : Sorted(s, k)' = Sorted(s, k)
         /\ \A k \in 1..n : Sorted(s, k) \notin out =>
               /\ Held(Sorted(s, k)) => Held(Sorted(s, k))'
               /\ Free(Sorted(s, k)) => Free(Sorted(s, k))'
               /\ Free(Sorted(s, k)) /\ Asked(s, k) => Asked(s, k)'
         /\ \A i \in 1..n : << s, i >> \notin out =>
               /\ Held(<< s, i >>) => Held(<< s, i >>)'
               /\ Waits(<< s, i >>)' => Waits(<< s, i >>)
               /\ Free(<< s, i >>) => Free(<< s, i >>)'
               /\ type[<< s, i >>] = TL_UNLOCK => type'[<< s, i >>] = TL_UNLOCK
<1>0. TypeOK /\ OrderIsComplete
  BY Zenon DEF TInv
<1>1. /\ n \in Nat /\ n <= MaxLocks
      /\ \A i \in 1..n : << s, i >> \in Data /\ Named(<< s, i >>)
  BY <1>0, DataOfSession, Zenon
<1>2. \A k \in 1..n : Sorted(s, k) \in Data /\ Named(Sorted(s, k))
  BY <1>0, DataInOrder, Zenon
<1>3. \A k : Sorted(s, k)' = Sorted(s, k)
  BY Zenon DEF Sorted, Order
<1>4. ASSUME NEW k \in 1..n, Sorted(s, k) \notin out
      PROVE  /\ Held(Sorted(s, k)) => Held(Sorted(s, k))'
             /\ Free(Sorted(s, k)) => Free(Sorted(s, k))'
             /\ Free(Sorted(s, k)) /\ Asked(s, k) => Asked(s, k)'
  <2>2. PICK e \in Data \ out : e = Sorted(s, k) /\ Named(e)
    BY <1>2, <1>4, Zenon
  <2>1. /\ Held(e) => Held(e)'
        /\ Held(e)' => Held(e) \/ Waits(e)
        /\ Waits(e)' => Waits(e)
        /\ type'[e] = type[e] \/ (Waits(e) /\ type'[e] = TL_UNLOCK)
    BY <2>2, Zenon DEF Others
  <2>3. e = Sorted(s, k)'
    BY <1>3, <2>2, Zenon
  <2> QED
    BY <1>3, <2>1, <2>2, <2>3, Zenon DEF Free, Asked, Order
<1>5. ASSUME NEW i \in 1..n, << s, i >> \notin out
      PROVE  /\ Held(<< s, i >>) => Held(<< s, i >>)'
             /\ Waits(<< s, i >>)' => Waits(<< s, i >>)
             /\ Free(<< s, i >>) => Free(<< s, i >>)'
             /\ type[<< s, i >>] = TL_UNLOCK => type'[<< s, i >>] = TL_UNLOCK
  <2>1. PICK e \in Data \ out : e = << s, i >> /\ Named(e)
    BY <1>1, <1>5, Zenon
  <2>2. /\ Held(e) => Held(e)'
        /\ Held(e)' => Held(e) \/ Waits(e)
        /\ Waits(e)' => Waits(e)
        /\ type[e] = TL_UNLOCK => type'[e] = TL_UNLOCK
    BY <2>1, Zenon DEF Others
  <2> QED
    BY <2>1, <2>2, Zenon DEF Free
<1> QED
  BY <1>1, <1>3, <1>4, <1>5, Zenon

(* The lists stay as they are.                                               *)
LEMMA StillStep ==
  ASSUME TInv, UNCHANGED lists, stmt' = stmt, NEW out \in SUBSET Data,
         \A e \in out : Named(e) => Free(e),
         \A e \in Data \ out : type'[e] = type[e]
  PROVE  /\ ListTypes' /\ \A u \in Tables : TableInv(u)'
         /\ Others(out) /\ \A e \in Data : Free(e) => Free(e)'
<1>1. \A u : THR_LOCK(u)' = THR_LOCK(u)
  BY Zenon DEF lists, THR_LOCK
<1>2. ListTypes'
  BY TypeParts, Zenon DEF lists, ListTypes
<1>3. \A e \in Data : (Named(e) <=> Named(e)') /\ Home(e)' = Home(e)
  BY Zenon DEF Named, Home, Table
<1>4. \A e \in Data : (Held(e)' <=> Held(e)) /\ (Waits(e)' <=> Waits(e))
  BY <1>1, <1>3, Zenon DEF Held, Waits, Holds, Queued, In
<1>5. ASSUME NEW u \in Tables PROVE TableInv(u)'
  <2> DEFINE lock == THR_LOCK(u)
  <2>1. Sound(lock) /\ Attended(lock)
        /\ \A d \in Data : Holds(lock, d) \/ Queued(lock, d) => Named(d) /\ Home(d) = u
    BY Zenon DEF TInv, TableInv
  <2>2. /\ read'[u] = lock.read /\ write'[u] = lock.write
        /\ read_wait'[u] = lock.read_wait /\ write_wait'[u] = lock.write_wait
    BY Zenon DEF THR_LOCK, lists
  <2>3. \A e \in Data : Holds(lock, e) \/ Queued(lock, e) => type'[e] = type[e]
    BY <2>1, Zenon DEF Free, Held, Waits
  <2>4. /\ Attended(THR_LOCK(u))'
        /\ \A d \in Data : (Holds(THR_LOCK(u), d) \/ Queued(THR_LOCK(u), d))' =>
              Holds(lock, d) \/ Queued(lock, d)
    BY <1>1, <2>1, Zenon DEF Attended, Holds, Queued, In
  <2> HIDE DEF lock
  <2>5. Sound(THR_LOCK(u))'
    BY <2>1, <2>2, <2>3, SoundAfter, Zenon
  <2> QED
    BY <1>3, <2>1, <2>4, <2>5, Zenon DEF TableInv
<1>6. Others(out)
  BY <1>4, Zenon DEF Others
<1> QED
  BY <1>2, <1>4, <1>5, <1>6, Zenon DEF Free

(* In thr_multi_lock(): the locks before and behind the current one.         *)
LEMMA AtLock ==
  ASSUME TInv, NEW s \in Sessions, pc[s] \in { "lock", "wait" }, NEW n, n = Len(stmt[s].tables)
  PROVE  /\ n \in Nat /\ n <= MaxLocks /\ pos[s] \in 1..n
         /\ Current(s) = Sorted(s, pos[s]) /\ Current(s) \in Data /\ Named(Current(s))
         /\ \A k \in 1..n : k < pos[s] => Held(Sorted(s, k))
         /\ \A k \in 1..n : k > pos[s] => Free(Sorted(s, k)) /\ Asked(s, k)
         /\ \A i \in 1..n : Waits(<< s, i >>) => << s, i >> = Current(s)
         /\ pc[s] = "lock" => Free(Current(s)) /\ Asked(s, pos[s])
<1>0. TypeOK /\ OrderIsComplete /\ SessionInv(s)
  BY Zenon DEF TInv
<1>1. n \in Nat /\ n <= MaxLocks
  BY <1>0, DataOfSession, Zenon
<1>2. \A k \in 1..n : Sorted(s, k) \in Data /\ Named(Sorted(s, k))
  BY <1>0, DataInOrder, Zenon
<1>3. pos[s] \in 1..n
  BY <1>0, Zenon DEF SessionInv
<1>4. Current(s) = Sorted(s, pos[s])
  BY Zenon DEF Current, Sorted
<1>5. \A k \in 1..n : k < pos[s] => Held(Sorted(s, k))
  BY <1>0, Zenon DEF SessionInv
<1>6. \A k \in 1..n : k > pos[s] => Free(Sorted(s, k)) /\ Asked(s, k)
  <2>1. \A k \in 1..n : k > pos[s] => k >= pos[s]
    BY <1>1, <1>3
  <2> QED
    BY <1>0, <2>1, Zenon DEF SessionInv
<1>7. \A i \in 1..n : Waits(<< s, i >>) => << s, i >> = Current(s)
  BY <1>0, Zenon DEF SessionInv
<1>8. pc[s] = "lock" => Free(Sorted(s, pos[s])) /\ Asked(s, pos[s])
  <2>1. pos[s] >= pos[s]
    BY <1>1, <1>3
  <2> QED
    BY <1>0, <1>3, <2>1, Zenon DEF SessionInv
<1> QED
  BY <1>1, <1>2, <1>3, <1>4, <1>5, <1>6, <1>7, <1>8, Zenon

(* What a step that is about the current lock makes of the others.           *)
Around(s, n, d) ==
    /\ \A k : Sorted(s, k)' = Sorted(s, k)
    /\ \A k \in 1..n : k < pos[s] => Held(Sorted(s, k))'
    /\ \A k \in 1..n : k > pos[s] => Free(Sorted(s, k))' /\ Asked(s, k)'
    /\ \A i \in 1..n : Waits(<< s, i >>)' => << s, i >> = d
    /\ \A k \in 1..n : k = pos[s] => Sorted(s, k) = d
    /\ \A i \in 1..n : \E k \in 1..n : << s, i >> = Sorted(s, k)

(* The locks of a session other than the one it asks for.                    *)
LEMMA AroundLock ==
  ASSUME TInv, NEW s \in Sessions, pc[s] \in { "lock", "wait" }, NEW n, n = Len(stmt[s].tables),
         NEW d, d = Current(s), Others({d}), stmt' = stmt
  PROVE  Around(s, n, d) /\ n = Len(stmt'[s].tables) /\ n \in Nat /\ pos[s] \in 1..n
<1>1. /\ pos[s] \in 1..n /\ n \in Nat
      /\ d = Sorted(s, pos[s])
      /\ \A k \in 1..n : k < pos[s] => Held(Sorted(s, k))
      /\ \A k \in 1..n : k > pos[s] => Free(Sorted(s, k)) /\ Asked(s, k)
      /\ \A i \in 1..n : Waits(<< s, i >>) => << s, i >> = d
  BY AtLock, Zenon
<1>2. \A k, l \in 1..n : Sorted(s, k) = Sorted(s, l) => k = l
  BY DataInOrder, Zenon DEF TInv
<1>3. \A k \in 1..n : k # pos[s] => Sorted(s, k) \notin {d}
  BY <1>1, <1>2, Zenon
<1>4. /\ n = Len(stmt'[s].tables) /\ \A k : Sorted(s, k)' = Sorted(s, k)
      /\ \A k \in 1..n : Sorted(s, k) \notin {d} =>
            /\ Held(Sorted(s, k)) => Held(Sorted(s, k))'
            /\ Free(Sorted(s, k)) => Free(Sorted(s, k))'
            /\ Free(Sorted(s, k)) /\ Asked(s, k) => Asked(s, k)'
      /\ \A i \in 1..n : << s, i >> \notin {d} => (Waits(<< s, i >>)' => Waits(<< s, i >>))
  BY OwnLocks, Zenon
<1>5. \A k \in 1..n : (k < pos[s] => k # pos[s]) /\ (k > pos[s] => k # pos[s])
  BY <1>1
<1>6. \A k \in 1..n : k < pos[s] => Held(Sorted(s, k))'
  BY <1>1, <1>3, <1>4, <1>5, Zenon
<1>7. \A k \in 1..n : k > pos[s] => Free(Sorted(s, k))' /\ Asked(s, k)'
  BY <1>1, <1>3, <1>4, <1>5, Zenon
<1>8. \A i \in 1..n : Waits(<< s, i >>)' => << s, i >> = d
  BY <1>1, <1>4, Zenon
<1>9. \A i \in 1..n : \E k \in 1..n : << s, i >> = Sorted(s, k)
  BY DataInOrder, Zenon DEF TInv
<1> QED
  BY <1>1, <1>4, <1>6, <1>7, <1>8, <1>9, Zenon DEF Around

(* The current lock has been got.                                            *)
LEMMA GoesOn ==
  ASSUME TInv, NEW s \in Sessions, pc[s] \in { "lock", "wait" },
         NEW d, d = Current(s), Others({d}), stmt' = stmt, NextLock(s),
         Held(d)', ~Waits(d)'
  PROVE  SessionInv(s)'
<1>1. PICK n : n = Len(stmt[s].tables)
  BY Zenon
<1>2. Around(s, n, d) /\ n = Len(stmt'[s].tables) /\ n \in Nat /\ pos[s] \in 1..n
  BY <1>1, AroundLock, Zenon
<1>3. pos'[s] = pos[s] + 1
  BY TypeParts, Zenon DEF NextLock, ThreadTypes
<1>4. \/ pc'[s] = "lock" /\ pos[s] # n
      \/ pc'[s] \in { "locked", "unlock" } /\ pos[s] = n
  BY <1>1, TypeParts, Zenon DEF NextLock, ThreadTypes, Goto
<1>5. \A k \in 1..n : k < pos[s] + 1 => Held(Sorted(s, k))'
  <2> SUFFICES ASSUME NEW k \in 1..n, k < pos[s] + 1 PROVE Held(Sorted(s, k))'
    BY Zenon
  <2>1. CASE k < pos[s]
    BY <1>2, <2>1, Zenon DEF Around
  <2>2. CASE k = pos[s]
    <3>1. Sorted(s, k)' = d
      BY <1>2, <2>2, Zenon DEF Around
    <3> QED
      BY <3>1, Zenon DEF Held, Holds, Home, In
  <2>3. k < pos[s] \/ k = pos[s]
    BY <1>2
  <2> QED
    BY <2>1, <2>2, <2>3, Zenon
<1>6. \A i \in 1..n : ~Waits(<< s, i >>)'
  BY <1>2, Zenon DEF Around
<1>7. CASE pc'[s] = "lock"
  <2>1. pos'[s] \in 1..n
    BY <1>2, <1>3, <1>4, <1>7
  <2>2. \A k \in 1..n : k >= pos'[s] => Free(Sorted(s, k))' /\ Asked(s, k)'
    <3>1. \A k \in 1..n : k >= pos[s] + 1 => k > pos[s]
      BY <1>2
    <3> QED
      BY <1>2, <1>3, <3>1, Zenon DEF Around
  <2> QED
    BY <1>2, <1>3, <1>5, <1>6, <1>7, <2>1, <2>2, Zenon DEF SessionInv
<1>8. CASE pc'[s] \in { "locked", "unlock" }
  <2>1. \A i \in 1..n : Held(<< s, i >>)'
    <3> SUFFICES ASSUME NEW i \in 1..n PROVE Held(<< s, i >>)'
      BY Zenon
    <3>1. PICK k \in 1..n : << s, i >> = Sorted(s, k) /\ Sorted(s, k)' = Sorted(s, k)
      BY <1>2, Zenon DEF Around
    <3>2. k < pos[s] + 1
      BY <1>2, <1>4, <1>8
    <3>3. Held(Sorted(s, k))' /\ Sorted(s, k)' = << s, i >>
      BY <1>5, <3>1, <3>2, Zenon
    <3> QED
      BY <3>3, Zenon DEF Held, Holds, Home, In
  <2> QED
    BY <1>2, <1>6, <1>8, <2>1, Zenon DEF SessionInv
<1> QED
  BY <1>4, <1>7, <1>8, Zenon

(* It has not, and the others go back.                                       *)
LEMMA GivesUp ==
  ASSUME TInv, NEW s \in Sessions, pc[s] \in { "lock", "wait" },
         NEW d, d = Current(s), Others({d}), stmt' = stmt, Fail(s), Free(d)'
  PROVE  SessionInv(s)'
<1>1. PICK n : n = Len(stmt[s].tables)
  BY Zenon
<1>2. Around(s, n, d) /\ n = Len(stmt'[s].tables) /\ n \in Nat /\ pos[s] \in 1..n
  BY <1>1, AroundLock, Zenon
<1>3. pos'[s] = pos[s] /\ pc'[s] = "fail"
  BY TypeParts, Zenon DEF Fail, ThreadTypes, Goto
<1>4. \A k \in 1..n : k >= pos[s] => Free(Sorted(s, k))'
  <2> SUFFICES ASSUME NEW k \in 1..n, k >= pos[s] PROVE Free(Sorted(s, k))'
    BY Zenon
  <2>1. CASE k > pos[s]
    BY <1>2, <2>1, Zenon DEF Around
  <2>2. CASE k = pos[s]
    <3>1. Sorted(s, k)' = d
      BY <1>2, <2>2, Zenon DEF Around
    <3> QED
      BY <3>1, Zenon DEF Free, Held, Waits, Holds, Queued, Home, In
  <2>3. k > pos[s] \/ k = pos[s]
    BY <1>2
  <2> QED
    BY <2>1, <2>2, <2>3, Zenon
<1>5. \A i \in 1..n : ~Waits(<< s, i >>)'
  BY <1>2, Zenon DEF Around, Free
<1> QED
  BY <1>2, <1>3, <1>4, <1>5, Zenon DEF SessionInv

(* It is queued.                                                             *)
LEMMA StartsWaiting ==
  ASSUME TInv, NEW s \in Sessions, pc[s] \in { "lock", "wait" },
         NEW d, d = Current(s), Others({d}), stmt' = stmt, pc'[s] = "wait", pos'[s] = pos[s],
         Held(d)' \/ Waits(d)' \/ type'[d] = TL_UNLOCK
  PROVE  SessionInv(s)'
<1>1. PICK n : n = Len(stmt[s].tables)
  BY Zenon
<1>2. Around(s, n, d) /\ n = Len(stmt'[s].tables) /\ n \in Nat /\ pos[s] \in 1..n
  BY <1>1, AroundLock, Zenon
<1>3. Current(s)' = d
  BY Zenon DEF Current, Order
<1>4. \A k \in 1..n : k < pos[s] => Held(Sorted(s, k))'
  BY <1>2, Zenon DEF Around
<1>5. \A k \in 1..n : k > pos[s] => Free(Sorted(s, k))' /\ Asked(s, k)'
  BY <1>2, Zenon DEF Around
<1>6. \A i \in 1..n : Waits(<< s, i >>)' => << s, i >> = d
  BY <1>2, Zenon DEF Around
<1>7. Held(Current(s))' \/ Waits(Current(s))' \/ (type[Current(s)] = TL_UNLOCK)'
  BY <1>3, Zenon DEF Held, Waits, Holds, Queued, Home, In
<1> QED
  BY <1>2, <1>3, <1>4, <1>5, <1>6, <1>7, Zenon DEF SessionInv

(* The types of the variables that thr_multi_lock() counts in.               *)
LEMMA ThreadAfterLock ==
  ASSUME TInv, NEW s \in Sessions, pc[s] \in { "lock", "wait" },
         NextLock(s) \/ Fail(s) \/ (Goto(s, "wait") /\ UNCHANGED << pos, answer >>),
         UNCHANGED << left, killed, abort >>
  PROVE  ThreadTypes' /\ \A u \in Sessions \ {s} : pc'[u] = pc[u] /\ pos'[u] = pos[u]
<1>1. ThreadTypes
  BY TypeParts, Zenon
<1>2. pos[s] + 1 \in 1..MaxLocks + 1 /\ pos[s] \in 1..MaxLocks + 1
  <2>1. Len(stmt[s].tables) \in Nat /\ Len(stmt[s].tables) <= MaxLocks /\ pos[s] \in 1..Len(stmt[s].tables)
    BY AtLock, Zenon
  <2> QED
    BY <2>1, BoundsAssumption
<1>3. "lock" \in Places /\ "locked" \in Places /\ "unlock" \in Places /\ "fail" \in Places
      /\ "wait" \in Places
  BY Zenon DEF Places
<1>4. CASE NextLock(s)
  <2>1. \E place \in Places : pc' = [pc EXCEPT ![s] = place]
    BY <1>3, <1>4, Zenon DEF NextLock, Goto
  <2>2. pos' = [pos EXCEPT ![s] = pos[s] + 1]
    BY <1>4, Zenon DEF NextLock
  <2>3. answer' \in [Sessions -> { "none", "ok", "error" }]
    BY <1>1, <1>4, Zenon DEF NextLock, ThreadTypes
  <2> QED
    BY <1>1, <1>2, <2>1, <2>2, <2>3, Zenon DEF ThreadTypes
<1>5. CASE Fail(s)
  BY <1>1, <1>3, <1>5, Zenon DEF ThreadTypes, Fail, Goto
<1>6. CASE Goto(s, "wait") /\ UNCHANGED << pos, answer >>
  BY <1>1, <1>3, <1>6, Zenon DEF ThreadTypes, Goto
<1> QED
  BY <1>4, <1>5, <1>6, Zenon

(* A session has all its write locks with one type.                          *)
LEMMA SameType ==
  ASSUME TInv, NEW e \in Data, NEW f \in Data, Named(e), Named(f), owner(e) = owner(f),
         type[e] \in WriteTypes, type[f] \in WriteTypes
  PROVE  type[e] = type[f]
<1>1. PICK s \in Sessions : e[1] = s /\ f[1] = s
  BY Zenon DEF Data, owner
<1>2. stmt[s] \in Statements
  BY <1>1, DataOfSession, Zenon DEF TInv
<1>3. TypeInv(e) /\ TypeInv(f)
  BY Zenon DEF TInv
<1>4. TL_UNLOCK \notin WriteTypes
  BY DEF TL_UNLOCK, WriteTypes, TL_WRITE_ALLOW_WRITE, TL_WRITE_ALLOW_READ, TL_WRITE, TL_WRITE_ONLY
<1>5. CASE stmt[s].command = "ALTER_TABLE"
  <2>1. Len(stmt[s].tables) = 1
    BY <1>2, <1>5, StatementsAssumption, Zenon
  <2>2. e[2] = 1 /\ f[2] = 1
    BY <1>1, <2>1 DEF Named
  <2>3. e = f
    BY <1>1, <2>2 DEF Data
  <2> QED
    BY <2>3, Zenon
<1>6. CASE stmt[s].command # "ALTER_TABLE"
  <2>1. type[e] = LockType(stmt[s], e[2]) /\ type[f] = LockType(stmt[s], f[2])
    BY <1>1, <1>3, <1>4, <1>6, Zenon DEF TypeInv
  <2>2. ~IsRead(LockType(stmt[s], e[2])) /\ ~IsRead(LockType(stmt[s], f[2]))
    BY <2>1, CompatibleTypes, Zenon
  <2>3. e[2] \in stmt[s].written /\ f[2] \in stmt[s].written
    BY <1>2, <2>2, LockTypes, Zenon
  <2> QED
    BY <1>2, <2>1, <2>3, LockTypes, Zenon
<1> QED
  BY <1>5, <1>6, Zenon

-----------------------------------------------------------------------------
(* thr_lock().                                                               *)
LEMMA LockSetup ==
  ASSUME TInv, NEW s \in Sessions, pc[s] = "lock", NEW d, d = Current(s)
  PROVE  /\ d \in Data /\ Named(d) /\ Free(d) /\ d[1] = s /\ Home(d) = Table(s, d[2])
         /\ Home(d) \in Tables /\ THR_LOCK(Home(d)) \in LockRecord
         /\ Sound(THR_LOCK(Home(d))) /\ Attended(THR_LOCK(Home(d)))
         /\ type[d] \in ReadTypes \cup WriteTypes /\ Uniform(THR_LOCK(Home(d)), d)
<1>1. PICK n : n = Len(stmt[s].tables)
  BY Zenon
<1>2. /\ pos[s] \in 1..n /\ d = Sorted(s, pos[s]) /\ d \in Data /\ Named(d)
      /\ Free(d) /\ Asked(s, pos[s])
  BY <1>1, AtLock, Zenon
<1>3. d[1] = s /\ d[2] = Order[stmt[s]][pos[s]] /\ Home(d) \in Tables
  BY <1>2, HomeOfNamed DEF Sorted
<1>4. Home(d) = Table(s, d[2])
  BY <1>3, Zenon DEF Home
<1>5. type[d] = LockType(stmt[s], d[2])
  BY <1>2, <1>3, Zenon DEF Asked
<1>6. type[d] \in ReadTypes \cup WriteTypes
  <2>1. stmt[s] \in Statements
    BY DataOfSession, Zenon DEF TInv
  <2> QED
    BY <1>5, <2>1, LockTypes, Zenon DEF ReadTypes, WriteTypes
<1>7. THR_LOCK(Home(d)) \in LockRecord /\ Sound(THR_LOCK(Home(d))) /\ Attended(THR_LOCK(Home(d)))
  BY <1>3, LockOfTable, Zenon DEF TInv, TableInv
<1>8. Uniform(THR_LOCK(Home(d)), d)
  <2>1. \A e \in Data : e = d \/ Holds(THR_LOCK(Home(d)), e) => Named(e)
    BY <1>2, <1>3, Zenon DEF TInv, TableInv
  <2> QED
    BY <2>1, SameType, Zenon DEF Uniform
<1> QED
  BY <1>2, <1>3, <1>4, <1>6, <1>7, <1>8, Zenon

(* thr_lock() grants the lock.                                               *)
LEMMA GrantKeeps ==
  ASSUME TInv, NEW s \in Sessions, pc[s] = "lock", NEW d, d = Current(s),
         MayLock(THR_LOCK(Home(d)), d), Install(Home(d), Grant(THR_LOCK(Home(d)), d)),
         NextLock(s), UNCHANGED << type, stmt, left, killed, abort >>
  PROVE  TInv'
<1>1. /\ d \in Data /\ Named(d) /\ Free(d) /\ d[1] = s
      /\ THR_LOCK(Home(d)) \in LockRecord /\ Sound(THR_LOCK(Home(d)))
      /\ type[d] \in ReadTypes \cup WriteTypes /\ Uniform(THR_LOCK(Home(d)), d)
  BY LockSetup, Zenon
<1>2. PICK new : new = Grant(THR_LOCK(Home(d)), d)
  BY Zenon
<1>3. PICK lock : lock = THR_LOCK(Home(d))
  BY Zenon
<1>4. ~Holds(lock, d) /\ ~Queued(lock, d)
  BY <1>1, <1>3, Zenon DEF Free, Held, Waits
<1>5. /\ new \in LockRecord /\ Sound(new) /\ Attended(new)
      /\ Holds(new, d) /\ ~Queued(new, d)
      /\ \A e \in Data : e # d => /\ Holds(new, e) <=> Holds(lock, e)
                                  /\ Queued(new, e) <=> Queued(lock, e)
  BY <1>1, <1>2, <1>3, <1>4, Granted, Zenon
<1>6. /\ ListTypes' /\ \A u \in Tables : TableInv(u)'
      /\ Others({d}) /\ (Held(d)' <=> Holds(new, d)) /\ (Waits(d)' <=> Queued(new, d))
  BY <1>1, <1>2, <1>3, <1>5, ArriveStep, Zenon
<1>7. SessionInv(s)'
  BY <1>5, <1>6, GoesOn, Zenon
<1>8. TypeInv(d)' /\ TypeTypes'
  <2>1. TypeInv(d)
    BY <1>1, Zenon DEF TInv
  <2> QED
    BY <2>1, TypeParts, Zenon DEF TypeInv, TypeTypes, LockType, store_lock
<1>9. ThreadTypes' /\ \A u \in Sessions \ {s} : pc'[u] = pc[u] /\ pos'[u] = pos[u]
  BY ThreadAfterLock, Zenon
<1>10. PICK out \in SUBSET Data : out = {d}
  BY <1>1, Zenon
<1> QED
  BY <1>1, <1>6, <1>7, <1>8, <1>9, <1>10, Assemble, Zenon

(* thr_lock() queues the request.                                            *)
LEMMA QueueKeeps ==
  ASSUME TInv, NEW s \in Sessions, pc[s] = "lock", NEW d, d = Current(s),
         ~MayLock(THR_LOCK(Home(d)), d), Install(Home(d), Queue(THR_LOCK(Home(d)), d)),
         Goto(s, "wait"), UNCHANGED << type, pos, answer, stmt, left, killed, abort >>
  PROVE  TInv'
<1>1. /\ d \in Data /\ Named(d) /\ Free(d) /\ d[1] = s
      /\ THR_LOCK(Home(d)) \in LockRecord /\ Sound(THR_LOCK(Home(d))) /\ Attended(THR_LOCK(Home(d)))
      /\ type[d] \in ReadTypes \cup WriteTypes
  BY LockSetup, Zenon
<1>2. PICK new : new = Queue(THR_LOCK(Home(d)), d)
  BY Zenon
<1>3. PICK lock : lock = THR_LOCK(Home(d))
  BY Zenon
<1>4. ~Holds(lock, d) /\ ~Queued(lock, d)
  BY <1>1, <1>3, Zenon DEF Free, Held, Waits
<1>5. /\ new \in LockRecord /\ Sound(new) /\ Attended(new)
      /\ Queued(new, d)
      /\ \A e \in Data : e # d => /\ Holds(new, e) <=> Holds(lock, e)
                                  /\ Queued(new, e) <=> Queued(lock, e)
  BY <1>1, <1>2, <1>3, <1>4, QueuedUp, Zenon
<1>6. /\ ListTypes' /\ \A u \in Tables : TableInv(u)'
      /\ Others({d}) /\ (Held(d)' <=> Holds(new, d)) /\ (Waits(d)' <=> Queued(new, d))
  BY <1>1, <1>2, <1>3, <1>5, ArriveStep, Zenon
<1>7. SessionInv(s)'
  <2>1. pc'[s] = "wait" /\ pos'[s] = pos[s]
    BY TypeParts, Zenon DEF Goto, ThreadTypes
  <2> QED
    BY <1>5, <1>6, <2>1, StartsWaiting, Zenon
<1>8. TypeInv(d)' /\ TypeTypes'
  <2>1. TypeInv(d)
    BY <1>1, Zenon DEF TInv
  <2> QED
    BY <2>1, TypeParts, Zenon DEF TypeInv, TypeTypes, LockType, store_lock
<1>9. ThreadTypes' /\ \A u \in Sessions \ {s} : pc'[u] = pc[u] /\ pos'[u] = pos[u]
  BY ThreadAfterLock, Zenon
<1>10. PICK out \in SUBSET Data : out = {d}
  BY <1>1, Zenon
<1> QED
  BY <1>1, <1>6, <1>7, <1>8, <1>9, <1>10, Assemble, Zenon

(* The type of one lock is reset.                                            *)
LEMMA UnlockType ==
  ASSUME TInv, NEW d \in Data, type' = [type EXCEPT ![d] = TL_UNLOCK], stmt' = stmt
  PROVE  TypeTypes' /\ TypeInv(d)' /\ type'[d] = TL_UNLOCK /\ \A e \in Data \ {d} : type'[e] = type[e]
<1>1. type \in [Data -> TL_UNLOCK..TL_WRITE_ONLY]
  BY TypeParts, Zenon DEF TypeTypes
<1>2. TL_UNLOCK \in TL_UNLOCK..TL_WRITE_ONLY
  BY DEF TL_UNLOCK, TL_WRITE_ONLY
<1>3. type' \in [Data -> TL_UNLOCK..TL_WRITE_ONLY] /\ type'[d] = TL_UNLOCK
      /\ \A e \in Data \ {d} : type'[e] = type[e]
  BY <1>1, <1>2, Zenon
<1>4. TypeTypes'
  BY <1>3, Zenon DEF TypeTypes, Data, TL_UNLOCK, TL_WRITE_ONLY
<1>5. TypeInv(d)'
  BY <1>3, Zenon DEF TypeInv, TL_UNLOCK
<1> QED
  BY <1>3, <1>4, <1>5, Zenon

(* No type changes.                                                          *)
LEMMA SameTypes ==
  ASSUME TInv, type' = type, stmt' = stmt
  PROVE  TypeTypes' /\ \A e \in Data : Named(e) => TypeInv(e)'
<1>1. TypeTypes'
  BY TypeParts, Zenon DEF TypeTypes
<1>2. \A e \in Data : Named(e) => TypeInv(e)'
  BY DEF TInv, TypeInv, LockType, store_lock
<1> QED
  BY <1>1, <1>2, Zenon

(* The current lock is free and has failed.                                  *)
LEMMA FailureKeeps ==
  ASSUME TInv, NEW s \in Sessions, pc[s] \in { "lock", "wait" }, NEW d, d = Current(s),
         d \in Data, d[1] = s,
         ListTypes', \A u \in Tables : TableInv(u)', Others({d}), Free(d)',
         TypeTypes', TypeInv(d)', Fail(s), UNCHANGED << stmt, left, killed, abort >>
  PROVE  TInv'
<1>1. SessionInv(s)'
  BY GivesUp, Zenon
<1>2. ThreadTypes' /\ \A u \in Sessions \ {s} : pc'[u] = pc[u] /\ pos'[u] = pos[u]
  BY ThreadAfterLock, Zenon
<1>3. PICK out \in SUBSET Data : out = {d}
  BY Zenon
<1> QED
  BY <1>1, <1>2, <1>3, Assemble, Zenon

(* thr_lock() refuses the lock.                                              *)
LEMMA RefuseKeeps ==
  ASSUME TInv, NEW s \in Sessions, pc[s] = "lock", NEW d, d = Current(s),
         type' = [type EXCEPT ![d] = TL_UNLOCK] \/ type' = type,
         Fail(s), UNCHANGED << lists, stmt, left, killed, abort >>
  PROVE  TInv'
<1>1. d \in Data /\ Named(d) /\ Free(d) /\ d[1] = s
  BY LockSetup, Zenon
<1>2. TypeTypes' /\ TypeInv(d)' /\ \A e \in Data \ {d} : type'[e] = type[e]
  BY <1>1, UnlockType, SameTypes, Zenon
<1>3. PICK out \in SUBSET Data : out = {d}
  BY <1>1, Zenon
<1>4. UNCHANGED lists
  BY Zenon DEF lists
<1>5. /\ ListTypes' /\ \A u \in Tables : TableInv(u)'
      /\ Others({d}) /\ Free(d)'
  BY <1>1, <1>2, <1>3, <1>4, StillStep, Zenon
<1> QED
  BY <1>1, <1>2, <1>5, FailureKeeps, Zenon

(* A wait that is given up at once wakes the others.                         *)
LEMMA AbortKeeps ==
  ASSUME TInv, NEW s \in Sessions, pc[s] = "lock", NEW d, d = Current(s),
         type' = [type EXCEPT ![d] = TL_UNLOCK],
         Install(Home(d), wake_up_waiters(THR_LOCK(Home(d)))),
         Fail(s), UNCHANGED << stmt, left, killed, abort >>
  PROVE  TInv'
<1>1. /\ d \in Data /\ Named(d) /\ Free(d) /\ d[1] = s /\ Home(d) \in Tables
      /\ THR_LOCK(Home(d)) \in LockRecord /\ Sound(THR_LOCK(Home(d)))
  BY LockSetup, Zenon
<1>2. TypeTypes' /\ TypeInv(d)' /\ \A e \in Data \ {d} : type'[e] = type[e]
  BY <1>1, UnlockType, Zenon
<1>3. PICK out \in SUBSET Data : out = {d}
  BY <1>1, Zenon
<1>4. PICK t \in Tables : t = Home(d)
  BY <1>1, Zenon
<1>5. PICK mid \in LockRecord : mid = THR_LOCK(t) /\ Sound(mid)
  BY <1>1, <1>4, Zenon
<1>6. ~Holds(mid, d) /\ ~Queued(mid, d)
  BY <1>1, <1>4, <1>5, Zenon DEF Free, Held, Waits
<1>7. /\ \A e \in out : Home(e) = t
      /\ \A e \in Data : Holds(mid, e) <=> Holds(THR_LOCK(t), e) /\ e \notin out
      /\ \A e \in Data : Queued(mid, e) <=> Queued(THR_LOCK(t), e) /\ e \notin out
      /\ Install(t, wake_up_waiters(mid))
      /\ \A e \in Data \ out : type'[e] = type[e]
  BY <1>2, <1>3, <1>4, <1>5, <1>6, Zenon
<1>8. /\ ListTypes' /\ \A u \in Tables : TableInv(u)'
      /\ Others(out) /\ \A e \in out : Free(e)'
  BY <1>5, <1>7, WakeStep, Zenon
<1> QED
  BY <1>1, <1>2, <1>3, <1>8, FailureKeeps, Zenon

(* The call of thr_lock().                                                   *)
LEMMA thr_lock_Keeps ==
  ASSUME TInv, NEW s \in Sessions, thr_lock(s)
  PROVE  TInv'
<1>1. PICK d : d = Current(s)
  BY Zenon
<1>2. pc[s] = "lock" /\ UNCHANGED << stmt, left, killed, abort >>
  BY Zenon DEF thr_lock, At
<1>3. Home(d) = Table(s, d[2])
  BY <1>1, <1>2, LockSetup, Zenon
<1>4. CASE MayLock(THR_LOCK(Home(d)), d) /\ Install(Home(d), Grant(THR_LOCK(Home(d)), d))
           /\ NextLock(s) /\ UNCHANGED type
  BY <1>1, <1>2, <1>4, GrantKeeps, Zenon
<1>5. CASE /\ type' = [type EXCEPT ![d] = TL_UNLOCK] \/ type' = type
           /\ Fail(s) /\ UNCHANGED lists
  BY <1>1, <1>2, <1>5, RefuseKeeps, Zenon
<1>6. CASE ~MayLock(THR_LOCK(Home(d)), d) /\ Install(Home(d), Queue(THR_LOCK(Home(d)), d))
           /\ Goto(s, "wait") /\ UNCHANGED << type, pos, answer >>
  BY <1>1, <1>2, <1>6, QueueKeeps, Zenon
<1>7. CASE type' = [type EXCEPT ![d] = TL_UNLOCK]
           /\ Install(Home(d), wake_up_waiters(THR_LOCK(Home(d)))) /\ Fail(s)
  BY <1>1, <1>2, <1>7, AbortKeeps, Zenon
<1> QED
  BY <1>1, <1>3, <1>4, <1>5, <1>6, <1>7, Zenon DEF thr_lock
=============================================================================
