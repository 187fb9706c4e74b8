--------------------------- MODULE GlobalReadLockProofs ---------------------------
(***************************************************************************)
(* Proofs about GlobalReadLock, for any number of sessions, any statements *)
(* and any number of them: the initial state satisfies IInv and every step *)
(* preserves it.                                                           *)
(***************************************************************************)
EXTENDS GlobalReadLockInvariant, FiniteSetTheorems, TLAPS

-----------------------------------------------------------------------------
(* Counting: a set that gains or loses at most one element, and the counter  *)
(* that goes with it.                                                        *)
In(x, S) == IF x \in S THEN 1 ELSE 0

(* The size of a set that gains or loses at most one element.                *)
LEMMA CountOne ==
  ASSUME NEW S, NEW T, NEW x, NEW n, NEW m, IsFiniteSet(S), n = Cardinality(S),
         \A y : y # x => (y \in T <=> y \in S),
         m = n + In(x, T) - In(x, S)
  PROVE  m = Cardinality(T) /\ IsFiniteSet(T) /\ m \in Nat
<1>1. n \in Nat
  BY FS_CardinalityType, Zenon
<1>2. CASE x \in T /\ x \notin S
  <2>1. T = S \cup {x}
    BY <1>2, Zenon
  <2>2. IsFiniteSet(T) /\ Cardinality(T) = n + 1
    BY <1>2, <2>1, FS_AddElement, Zenon
  <2> QED
    BY <1>1, <1>2, <2>2 DEF In
<1>3. CASE x \notin T /\ x \in S
  <2>1. T = S \ {x}
    BY <1>3, Zenon
  <2>2. IsFiniteSet(T) /\ Cardinality(T) = n - 1
    BY <1>3, <2>1, FS_RemoveElement, Zenon
  <2>3. Cardinality(T) \in Nat
    BY <2>2, FS_CardinalityType, Zenon
  <2> QED
    BY <1>1, <1>3, <2>2, <2>3 DEF In
<1>4. CASE x \in T <=> x \in S
  <2>1. T = S
    BY <1>4
  <2> QED
    BY <1>1, <1>4, <2>1 DEF In
<1> QED
  BY <1>2, <1>3, <1>4, Zenon

(* The sets the counters count are finite.                                   *)
LEMMA FiniteParts == IsFiniteSet(Owners) /\ IsFiniteSet(Blockers) /\ IsFiniteSet(Waiters)
<1>1. Owners \subseteq Sessions /\ Blockers \subseteq Sessions /\ Waiters \subseteq Sessions
  BY Zenon DEF Owners, Blockers, Waiters
<1> QED
  BY <1>1, FS_Subset, SessionsAssumption, Zenon

(* Where the counters agree, a counter is zero exactly when nobody is        *)
(* counted.                                                                  *)
LEMMA ZeroMeansNobody ==
  ASSUME IInv
  PROVE  /\ global_read_lock = 0 <=> Owners = {}
         /\ global_read_lock_blocks_commit = 0 <=> Blockers = {}
         /\ protect_against_global_read_lock = 0 <=> protections = {}
  BY FiniteParts, FS_EmptySet, Zenon DEF IInv, CountersAgree, Tokens

-----------------------------------------------------------------------------
(* What a step that does not touch a session keeps of it.                    *)
Same(t) ==
    /\ pc'[t] = pc[t] /\ stmt'[t] = stmt[t] /\ left'[t] = left[t] /\ da'[t] = da[t]
    /\ grl'[t] = grl[t]
    /\ killed[t] # "NOT_KILLED" => killed'[t] # "NOT_KILLED"
    /\ tab'[t] = "closed" <=> tab[t] = "closed"
    /\ t \in trx' <=> t \in trx
    /\ t \in undone' <=> t \in undone

Others(s) == \A t \in Sessions \ {s} : Same(t)

(* A session no step touches stays as the invariant wants it.                *)
LEMMA SameFrame ==
  ASSUME NEW t \in Sessions, Same(t), Local(t)
  PROVE  /\ Local(t)'
         /\ Wrote(t)' <=> Wrote(t)
         /\ HoldsJob(t)' <=> HoldsJob(t)
         /\ InCommit(t)' <=> InCommit(t)
<1>1. Placed(t)'
  BY DEF Same, Local, Placed
<1>2. Staked(t)'
  BY Zenon DEF Same, Local, Staked
<1>3. Wrote(t)' <=> Wrote(t)
  BY Zenon DEF Same, Wrote
<1>4. Opened(t)'
  BY <1>3, Zenon DEF Same, Local, Opened
<1>5. Marked(t)'
  BY Zenon DEF Same, Local, Marked, Killed
<1>6. (HoldsJob(t)' <=> HoldsJob(t)) /\ (InCommit(t)' <=> InCommit(t))
  BY Zenon DEF Same, HoldsJob, InCommit
<1> QED
  BY <1>1, <1>2, <1>3, <1>4, <1>5, <1>6, Zenon DEF Local

(* It is also counted as before, and knows what it knew.                     *)
LEMMA SameCount ==
  ASSUME NEW t \in Sessions, Same(t)
  PROVE  /\ t \in Owners' <=> t \in Owners
         /\ t \in Blockers' <=> t \in Blockers
         /\ t \in Waiters' <=> t \in Waiters
         /\ PastFlush(t)' <=> PastFlush(t)
         /\ Drained(t)' <=> Drained(t)
<1>1. /\ t \in Owners' <=> t \in Owners
      /\ t \in Blockers' <=> t \in Blockers
      /\ t \in Waiters' <=> t \in Waiters
  BY Zenon DEF Same, Owners, Blockers, Waiters
<1> QED
  BY <1>1, Zenon DEF Same, PastFlush, Drained

-----------------------------------------------------------------------------
(* One lemma for each conjunct of IInv: what a step of session s has to      *)
(* show about s for the conjunct to survive it.                              *)

(* The other sessions stay where they are.                                   *)
LEMMA LocalStep ==
  ASSUME IInv, NEW s \in Sessions, Others(s), Local(s)'
  PROVE  \A t \in Sessions : Local(t)'
  BY SameFrame, Zenon DEF IInv, Others

(* Every counter moves by what s gains or loses in the set it counts.        *)
LEMMA CountersStep ==
  ASSUME IInv, NEW s \in Sessions, Others(s),
         global_read_lock' = global_read_lock + In(s, Owners') - In(s, Owners),
         global_read_lock_blocks_commit' =
             global_read_lock_blocks_commit + In(s, Blockers') - In(s, Blockers),
         waiting_for_read_lock' = waiting_for_read_lock + In(s, Waiters') - In(s, Waiters),
         protect_against_global_read_lock' = Cardinality(protections')
  PROVE  /\ CountersAgree'
         /\ global_read_lock' \in Nat
         /\ global_read_lock_blocks_commit' \in Nat
         /\ waiting_for_read_lock' \in Nat
<1>1. \A t : t # s => /\ t \in Owners' <=> t \in Owners
                      /\ t \in Blockers' <=> t \in Blockers
                      /\ t \in Waiters' <=> t \in Waiters
  <2>1. \A t \in Sessions : t # s => Same(t)
    BY Zenon DEF Others
  <2>2. \A t : t \notin Sessions => /\ t \notin Owners /\ t \notin Blockers /\ t \notin Waiters
                                    /\ t \notin Owners' /\ t \notin Blockers' /\ t \notin Waiters'
    BY Zenon DEF Owners, Blockers, Waiters
  <2> QED
    BY <2>1, <2>2, SameCount, Zenon
<1>2. /\ global_read_lock = Cardinality(Owners)
      /\ global_read_lock_blocks_commit = Cardinality(Blockers)
      /\ waiting_for_read_lock = Cardinality(Waiters)
  BY Zenon DEF IInv, CountersAgree
<1>3. global_read_lock' = Cardinality(Owners') /\ global_read_lock' \in Nat
  BY <1>1, <1>2, FiniteParts, CountOne
<1>4. /\ global_read_lock_blocks_commit' = Cardinality(Blockers')
      /\ global_read_lock_blocks_commit' \in Nat
  BY <1>1, <1>2, FiniteParts, CountOne
<1>5. waiting_for_read_lock' = Cardinality(Waiters') /\ waiting_for_read_lock' \in Nat
  BY <1>1, <1>2, FiniteParts, CountOne
<1> QED
  BY <1>3, <1>4, <1>5, Zenon DEF CountersAgree

(* A session that neither gains a stake nor takes a protection.              *)
LEMMA ExclusionStep ==
  ASSUME IInv, NEW s \in Sessions, Others(s),
         s \in Owners' => s \in Owners /\ (grl'[s] = "MADE" => grl[s] = "MADE"),
         protections' \subseteq protections
  PROVE  ProtectionExcludesLock'
<1>1. \A t \in Sessions : t \in Owners' => t \in Owners /\ (grl'[t] = "MADE" => grl[t] = "MADE")
  <2>1. \A t \in Sessions : t # s => Same(t)
    BY Zenon DEF Others
  <2> QED
    BY <2>1, SameCount, Zenon DEF Same
<1>2. Owners' \subseteq Sessions
  BY Zenon DEF Owners
<1> QED
  BY <1>1, <1>2, Zenon DEF IInv, ProtectionExcludesLock

(* The tokens of the other sessions are as they were.                        *)
LEMMA TokensStep ==
  ASSUME IInv, NEW s \in Sessions, Others(s), TypeOK',
         IsFiniteSet(protections'),
         \A p \in protections \cup protections' :
             p[1] # s => (p \in protections' <=> p \in protections),
         \A p \in protections' : p[1] = s => TokenOK(p)',
         Covered(s)'
  PROVE  Tokens'
<1>1. \A t \in Sessions : t # s => Same(t) /\ Local(t)
  BY Zenon DEF Others, IInv
<1>2. ASSUME NEW p \in protections', p[1] # s
      PROVE  TokenOK(p)'
  <2>1. p[1] \in Sessions /\ p \in protections
    BY <1>2, Zenon DEF TypeOK
  <2>2. Same(p[1]) /\ (InCommit(p[1])' <=> InCommit(p[1]))
    BY <1>1, <1>2, <2>1, SameFrame, Zenon
  <2>3. TokenOK(p)
    BY <2>1, Zenon DEF IInv, Tokens
  <2> QED
    BY <2>2, <2>3, Zenon DEF TokenOK, Same
<1>3. ASSUME NEW t \in Sessions, t # s
      PROVE  Covered(t)'
  <2>1. Same(t) /\ (HoldsJob(t)' <=> HoldsJob(t)) /\ (InCommit(t)' <=> InCommit(t)) /\ Covered(t)
    BY <1>1, <1>3, SameFrame, Zenon DEF IInv, Tokens
  <2>2. \A f : << t, left[t], f >> \in protections => << t, left[t], f >> \in protections'
    BY <1>3, Zenon
  <2>3. \A f : Token(t, f)' = << t, left[t], f >> /\ Token(t, f) = << t, left[t], f >>
    BY <2>1, Zenon DEF Token, Same
  <2> QED
    BY <2>1, <2>2, <2>3, Zenon DEF Covered, Same
<1> QED
  BY <1>2, <1>3, Zenon DEF Tokens

(* A session that keeps the protections it holds.                            *)
KeepsTokens(s) ==
    /\ HoldsJob(s)' => HoldsJob(s) /\ grl'[s] = grl[s]
    /\ InCommit(s)' <=> InCommit(s)
    /\ pc'[s] \in {"job", "wait_job"} => pc[s] \in {"job", "wait_job"}
    /\ left'[s] = left[s]

(* Then the tokens stay right.                                               *)
LEMMA TokensFrame ==
  ASSUME IInv, NEW s \in Sessions, Others(s), TypeOK', KeepsTokens(s), UNCHANGED protections
  PROVE  Tokens'
<1>1. IsFiniteSet(protections) /\ Covered(s) /\ \A p \in protections : TokenOK(p)
  BY Zenon DEF IInv, Tokens
<1>2. \A p \in protections : p[1] = s => TokenOK(p)'
  BY <1>1, Zenon DEF TokenOK, KeepsTokens
<1>3. Covered(s)'
  BY <1>1, Zenon DEF Covered, KeepsTokens, Token
<1> QED
  BY <1>1, <1>2, <1>3, TokensStep, Zenon

(* What s knows as a flusher, and what the other flushers know about s.      *)
LEMMA FlushedStep ==
  ASSUME IInv, NEW s \in Sessions, Others(s),
         \A t \in Sessions \ {s} : /\ tab[t] = "old" => tab'[t] = "old"
                                   /\ t \in stale => t \in stale',
         \A t \in Sessions \ {s} :
             /\ PastFlush(s)' => /\ pc[t] = "recheck" => t \in stale'
                                 /\ Wrote(t) => tab'[t] = "old"
             /\ Drained(s)' => ~Wrote(t),
         \A u \in Sessions \ {s} :
             /\ PastFlush(u) => /\ pc'[s] = "recheck" => s \in stale'
                                /\ Wrote(s)' => tab'[s] = "old"
             /\ Drained(u) => ~Wrote(s)'
  PROVE  Flushed'
<1>1. \A t \in Sessions \ {s} : /\ Wrote(t)' <=> Wrote(t)
                                /\ PastFlush(t)' <=> PastFlush(t)
                                /\ Drained(t)' <=> Drained(t)
                                /\ pc'[t] = pc[t]
  BY SameFrame, SameCount, Zenon DEF Others, IInv, Same
<1>2. \A u, t \in Sessions : u # t =>
          /\ PastFlush(u) => /\ pc[t] = "recheck" => t \in stale
                             /\ Wrote(t) => tab[t] = "old"
          /\ Drained(u) => ~Wrote(t)
  BY Zenon DEF IInv, Flushed
<1> SUFFICES ASSUME NEW u \in Sessions, NEW t \in Sessions, u # t
             PROVE  /\ PastFlush(u)' => /\ pc'[t] = "recheck" => t \in stale'
                                        /\ Wrote(t)' => tab'[t] = "old"
                    /\ Drained(u)' => ~Wrote(t)'
  BY Zenon DEF Flushed
<1>3. CASE u = s
  BY <1>1, <1>3, Zenon
<1>4. CASE t = s
  BY <1>1, <1>4, Zenon
<1>5. CASE u # s /\ t # s
  BY <1>1, <1>2, <1>5, Zenon
<1> QED
  BY <1>3, <1>4, <1>5, Zenon

(* A session that learns nothing and does not begin to write, or does while  *)
(* no other session has moved the version on.                                *)
Unseen(s) == \A u \in Sessions \ {s} : ~PastFlush(u)

(* Then what flushers know stays true.                                       *)
LEMMA FlushedFrame ==
  ASSUME IInv, NEW s \in Sessions, Others(s),
         \A t \in Sessions \ {s} : /\ tab[t] = "old" => tab'[t] = "old"
                                   /\ t \in stale => t \in stale',
         PastFlush(s)' => PastFlush(s), Drained(s)' => Drained(s),
         \/ Unseen(s)
         \/ /\ Wrote(s)' => Wrote(s) /\ tab'[s] = tab[s]
            /\ pc'[s] = "recheck" => s \in stale'
  PROVE  Flushed'
<1>1. \A u, t \in Sessions : u # t =>
          /\ PastFlush(u) => /\ pc[t] = "recheck" => t \in stale
                             /\ Wrote(t) => tab[t] = "old"
          /\ Drained(u) => ~Wrote(t)
  BY Zenon DEF IInv, Flushed
<1>2. \A u : Drained(u) => PastFlush(u)
  BY Zenon DEF Drained, PastFlush
<1>3. \A u \in Sessions \ {s} :
          /\ PastFlush(u) => /\ pc'[s] = "recheck" => s \in stale'
                             /\ Wrote(s)' => tab'[s] = "old"
          /\ Drained(u) => ~Wrote(s)'
  BY <1>1, <1>2, Zenon DEF Unseen
<1> QED
  BY <1>1, <1>3, FlushedStep, Zenon

(* All of it together, for a step that touches neither the counters nor the  *)
(* stakes nor the protections.                                               *)
QuietMove(s) ==
    /\ pc[s] \notin {"unlocked", "wait_make", "wait_grl", "flush"}
    /\ pc'[s] \notin {"unlocked", "wait_make", "wait_grl", "make"}
    /\ \/ Unseen(s)
       \/ /\ Wrote(s)' => Wrote(s) /\ tab'[s] = tab[s]
          /\ pc'[s] = "recheck" => s \in stale'
    /\ grl'[s] = grl[s]
    /\ \A t \in Sessions \ {s} : tab'[t] = tab[t] /\ (t \in stale' <=> t \in stale)

(* Such a session is counted as before, and knows no more.                   *)
LEMMA QuietSets ==
  ASSUME IInv, NEW s \in Sessions, QuietMove(s)
  PROVE  /\ s \in Owners' <=> s \in Owners
         /\ In(s, Owners') = In(s, Owners)
         /\ In(s, Blockers') = In(s, Blockers)
         /\ In(s, Waiters') = In(s, Waiters)
         /\ PastFlush(s)' => PastFlush(s)
         /\ Drained(s)' => Drained(s)
<1>1. /\ s \in Owners' <=> s \in Owners
      /\ s \in Blockers' <=> s \in Blockers
      /\ s \in Waiters' <=> s \in Waiters
  BY Zenon DEF QuietMove, Owners, Blockers, Waiters
<1>2. PastFlush(s)' => PastFlush(s)
  BY <1>1, Zenon DEF QuietMove, PastFlush
<1>3. Drained(s)' => Drained(s)
  BY <1>1, Zenon DEF QuietMove, Drained
<1> QED
  BY <1>1, <1>2, <1>3, Zenon DEF In

(* A session may take or give back one protection on the way.                *)
LEMMA TokenStep ==
  ASSUME IInv, NEW s \in Sessions, Others(s), TypeOK', QuietMove(s), Local(s)',
         UNCHANGED << global_read_lock, global_read_lock_blocks_commit, waiting_for_read_lock >>,
         NEW k, k[1] = s,
         \A p : p # k => (p \in protections' <=> p \in protections),
         protect_against_global_read_lock' =
             protect_against_global_read_lock + In(k, protections') - In(k, protections),
         \A p \in protections' : p[1] = s => TokenOK(p)',
         Covered(s)',
         ProtectionExcludesLock'
  PROVE  IInv'
<1>1. \A t \in Sessions : Local(t)'
  BY LocalStep, Zenon
<1>2. protect_against_global_read_lock' = Cardinality(protections') /\ IsFiniteSet(protections')
  BY CountOne DEF IInv, CountersAgree, Tokens
<1>3. CountersAgree'
  <2>1. /\ global_read_lock \in Nat /\ global_read_lock_blocks_commit \in Nat
        /\ waiting_for_read_lock \in Nat
    BY Zenon DEF IInv, TypeOK
  <2>2. /\ In(s, Owners) \in {0, 1} /\ In(s, Blockers) \in {0, 1} /\ In(s, Waiters) \in {0, 1}
    BY Zenon DEF In
  <2>3. /\ global_read_lock' = global_read_lock + In(s, Owners') - In(s, Owners)
        /\ global_read_lock_blocks_commit' =
               global_read_lock_blocks_commit + In(s, Blockers') - In(s, Blockers)
        /\ waiting_for_read_lock' = waiting_for_read_lock + In(s, Waiters') - In(s, Waiters)
    BY <2>1, <2>2, QuietSets
  <2> QED
    BY <1>2, <2>3, CountersStep, Zenon
<1>4. Tokens'
  BY <1>2, TokensStep, Zenon
<1>5. Flushed'
  BY QuietSets, FlushedFrame, Zenon DEF QuietMove
<1> QED
  BY <1>1, <1>3, <1>4, <1>5, Zenon DEF IInv

(* Or it keeps those it has.                                                 *)
LEMMA QuietStep ==
  ASSUME IInv, NEW s \in Sessions, Others(s), TypeOK', QuietMove(s), KeepsTokens(s), Local(s)',
         UNCHANGED << counters, protections >>
  PROVE  IInv'
<1>1. Covered(s) /\ \A p \in protections : TokenOK(p)
  BY Zenon DEF IInv, Tokens
<1>2. \A p \in protections' : p[1] = s => TokenOK(p)'
  BY <1>1, Zenon DEF TokenOK, KeepsTokens
<1>3. Covered(s)'
  BY <1>1, Zenon DEF Covered, KeepsTokens, Token
<1>4. ProtectionExcludesLock'
  BY QuietSets, ExclusionStep, Zenon DEF QuietMove
<1>5. protect_against_global_read_lock' = protect_against_global_read_lock
          + In(Token(s, "job"), protections') - In(Token(s, "job"), protections)
  <2>1. protect_against_global_read_lock \in Nat
    BY Zenon DEF IInv, TypeOK
  <2> QED
    BY <2>1 DEF In, counters
<1>6. Token(s, "job")[1] = s
  BY Zenon DEF Token
<1> QED
  BY <1>2, <1>3, <1>4, <1>5, <1>6, TokenStep, Zenon DEF counters

-----------------------------------------------------------------------------
(* A protection is taken or given back.  What is to show of the session's    *)
(* tokens, when the step is about token k.                                   *)
LEMMA OneToken ==
  ASSUME IInv, NEW s \in Sessions, Others(s), TypeOK', QuietMove(s), Local(s)',
         UNCHANGED << global_read_lock, global_read_lock_blocks_commit, waiting_for_read_lock,
                      left >>,
         NEW f \in {"job", "commit"},
         \/ /\ Token(s, f) \notin protections
            /\ protections' = protections \cup { Token(s, f) }
            /\ protect_against_global_read_lock' = protect_against_global_read_lock + 1
            /\ f = "commit" => InCommit(s)'
         \/ /\ Token(s, f) \in protections
            /\ protections' = protections \ { Token(s, f) }
            /\ protect_against_global_read_lock' = protect_against_global_read_lock - 1,
         pc'[s] \notin {"job", "wait_job"},
         \A p \in protections : p[1] = s /\ p[3] = "commit" /\ p # Token(s, f) => InCommit(s)',
         Covered(s)',
         ProtectionExcludesLock'
  PROVE  IInv'
<1> DEFINE k == Token(s, f)
<1>1. k = << s, left[s], f >> /\ left[s] \in Nat
  BY Zenon DEF Token, IInv, TypeOK
<1>2. k[1] = s /\ k[2] = left[s] /\ k[3] = f
  BY <1>1
<1> HIDE DEF k
<1>3. \A p : p # k => (p \in protections' <=> p \in protections)
  BY Zenon DEF k
<1>4. protect_against_global_read_lock' =
          protect_against_global_read_lock + In(k, protections') - In(k, protections)
  <2>1. protect_against_global_read_lock \in Nat
    BY Zenon DEF IInv, TypeOK
  <2> QED
    BY <2>1 DEF In, k
<1>5. \A p \in protections' : p[1] = s => TokenOK(p)'
  <2> SUFFICES ASSUME NEW p \in protections', p[1] = s
               PROVE  TokenOK(p)'
    BY Zenon
  <2>1. CASE p = k
    <3>1. f = "commit" => InCommit(s)'
      BY <2>1, Zenon DEF k
    <3> QED
      BY <1>1, <1>2, <2>1, <3>1 DEF TokenOK
  <2>2. CASE p # k
    <3>1. p \in protections /\ TokenOK(p)
      BY <1>3, <2>2, Zenon DEF IInv, Tokens
    <3>2. p[3] = "commit" => InCommit(s)'
      BY <2>2, <3>1, Zenon DEF k
    <3> QED
      BY <3>1, <3>2, Zenon DEF TokenOK
  <2> QED
    BY <2>1, <2>2, Zenon
<1> QED
  BY <1>2, <1>3, <1>4, <1>5, TokenStep, Zenon

(* Only the session in it has a commit's token.                              *)
LEMMA CommitTokens ==
  ASSUME IInv, NEW p \in protections, p[3] = "commit"
  PROVE  p = Token(p[1], "commit") /\ InCommit(p[1])
<1>1. TokenOK(p) /\ p \in Sessions \X Nat \X {"job", "commit"}
  BY Zenon DEF IInv, Tokens, TypeOK
<1>2. p = << p[1], p[2], p[3] >>
  BY <1>1
<1> QED
  BY <1>1, <1>2, Zenon DEF TokenOK, Token

-----------------------------------------------------------------------------
(* The initial state.                                                        *)
LEMMA InitIInv == Init => IInv
<1> SUFFICES ASSUME Init
             PROVE  IInv
  BY Zenon
<1> USE DEF Init
<1>1. TypeOK
  BY SessionsAssumption, BudgetAssumption, Zenon DEF TypeOK, Places
<1>2. Owners = {} /\ Blockers = {} /\ Waiters = {}
  BY Zenon DEF Owners, Blockers, Waiters
<1>3. CountersAgree
  BY <1>2, FS_EmptySet, Zenon DEF CountersAgree
<1>4. \A s \in Sessions : Local(s) /\ ~Wrote(s) /\ Covered(s)
  BY DEF Local, Placed, Staked, Opened, Marked, Wrote, Writing, Covered, HoldsJob, InCommit,
         Protected
<1>5. Tokens
  BY <1>4, FS_EmptySet, Zenon DEF Tokens
<1>6. ProtectionExcludesLock /\ Flushed
  BY <1>2, <1>4, Zenon DEF ProtectionExcludesLock, Flushed, PastFlush, Drained
<1> QED
  BY <1>1, <1>3, <1>4, <1>5, <1>6, Zenon DEF IInv

-----------------------------------------------------------------------------
(* The steps that touch neither counters nor stakes nor protections.  Each   *)
(* proof says what the step does to its own session, and that it does        *)
(* nothing to the others.                                                    *)

(* The storage engine changes the row.                                       *)
LEMMA EngineStep ==
  ASSUME IInv, NEW s \in Sessions, engine(s)
  PROVE  IInv'
<1>1. /\ pc[s] = "engine"
      /\ pc' = [pc EXCEPT ![s] = AfterEngine(s)]
      /\ da' = [da EXCEPT ![s] = "OK"]
      /\ row' = s
      /\ UNCHANGED << counters, grl, killed, stmt, left, trx, undone, tab, stale, asleep, owes,
                      killing, protections >>
  BY Zenon DEF engine, At, Goto, SetDa, tables, wakeups
<1>2. stmt[s] \in Writing /\ grl[s] = "NONE" /\ tab[s] # "closed" /\ s \notin undone
  BY <1>1, Zenon DEF IInv, Local, Placed, Opened, Wrote, Marked
<1>3. /\ AfterEngine(s) \in {"release_job", "commit", "endstmt"}
      /\ AfterEngine(s) = "release_job" <=> stmt[s] = "INSERT"
      /\ AfterEngine(s) = "commit" <=> stmt[s] = "CREATE_SELECT"
  BY Zenon DEF AfterEngine
<1>4. TypeOK'
  BY <1>1, <1>3, Zenon DEF IInv, TypeOK, Places, counters
<1>5. /\ Others(s)
      /\ pc'[s] = AfterEngine(s) /\ da'[s] = "OK"
  BY <1>1 DEF IInv, TypeOK, Others, Same
<1>6. Local(s)'
  BY <1>1, <1>2, <1>3, <1>5, Zenon DEF Local, Placed, Staked, Opened, Wrote, Marked, Writing, Protected
<1>7. QuietMove(s) /\ KeepsTokens(s)
  BY <1>1, <1>2, <1>3, <1>5, Zenon DEF QuietMove, KeepsTokens, Wrote, HoldsJob, InCommit, Writing,
                                Protected
<1> QED
  BY <1>1, <1>4, <1>5, <1>6, <1>7, QuietStep, Zenon

(* The storage engine reports an error.                                      *)
LEMMA EngineErrorStep ==
  ASSUME IInv, NEW s \in Sessions, engine_error(s)
  PROVE  IInv'
<1>1. /\ pc[s] = "engine"
      /\ pc' = [pc EXCEPT ![s] = AfterFailure(s)]
      /\ da' = [da EXCEPT ![s] = "ERROR"]
      /\ UNCHANGED << counters, grl, killed, stmt, left, trx, row, undone, tab, stale, asleep,
                      owes, killing, protections >>
  BY Zenon DEF engine_error, At, Goto, SetDa, own, tables, wakeups
<1>2. stmt[s] \in Writing /\ grl[s] = "NONE" /\ tab[s] # "closed" /\ s \notin undone
  BY <1>1, Zenon DEF IInv, Local, Placed, Opened, Wrote, Marked
<1>3. /\ AfterFailure(s) \in {"release_job", "endstmt"}
      /\ AfterFailure(s) = "release_job" <=> stmt[s] \in Protected
  BY Zenon DEF AfterFailure
<1>4. TypeOK'
  BY <1>1, <1>3, Zenon DEF IInv, TypeOK, Places, counters
<1>5. /\ Others(s)
      /\ pc'[s] = AfterFailure(s) /\ da'[s] = "ERROR"
  BY <1>1 DEF IInv, TypeOK, Others, Same
<1>6. Local(s)'
  BY <1>1, <1>2, <1>3, <1>5, Zenon DEF Local, Placed, Staked, Opened, Wrote, Marked, Writing, Protected
<1>7. QuietMove(s) /\ KeepsTokens(s)
  BY <1>1, <1>2, <1>3, <1>5, Zenon DEF QuietMove, KeepsTokens, Wrote, HoldsJob, InCommit, Writing,
                                Protected
<1> QED
  BY <1>1, <1>4, <1>5, <1>6, <1>7, QuietStep, Zenon

(* schema::alter, on any of its three ways out.                              *)
LEMMA AlterSchemaStep ==
  ASSUME IInv, NEW s \in Sessions, alter_schema(s)
  PROVE  IInv'
<1>1. /\ pc[s] = "alter_schema"
      /\ UNCHANGED << counters, grl, killed, stmt, left, trx, row, undone, tab, stale, asleep,
                      owes, killing, protections >>
  BY Zenon DEF alter_schema, At, own, tables, wakeups
<1>2. PICK l \in {"release_job", "endstmt"}, d \in {"OK", "ERROR"} :
          pc' = [pc EXCEPT ![s] = l] /\ da' = [da EXCEPT ![s] = d]
  BY Zenon DEF alter_schema, Goto, SetDa
<1>3. stmt[s] = "ALTER_SCHEMA" /\ grl[s] # "GOT" /\ s \notin undone
      /\ ~(s \in trx /\ s \in Autocommit)
  BY <1>1, Zenon DEF IInv, Local, Placed, Staked, Marked
<1>4. TypeOK'
  BY <1>1, <1>2, Zenon DEF IInv, TypeOK, Places, counters
<1>5. /\ Others(s)
      /\ pc'[s] = l /\ da'[s] = d
  BY <1>1, <1>2 DEF IInv, TypeOK, Others, Same
<1>6. Local(s)'
  BY <1>1, <1>3, <1>5, Zenon DEF Local, Placed, Staked, Opened, Wrote, Marked, Writing, Protected
<1>7. QuietMove(s) /\ KeepsTokens(s)
  BY <1>1, <1>3, <1>5, Zenon DEF QuietMove, KeepsTokens, Wrote, HoldsJob, InCommit, Writing, Protected
<1> QED
  BY <1>1, <1>4, <1>5, <1>6, <1>7, QuietStep, Zenon

(* The engine commits, or fails to.                                          *)
LEMMA CommitPhaseOneStep ==
  ASSUME IInv, NEW s \in Sessions, commitPhaseOne(s)
  PROVE  IInv'
<1> DEFINE l == IF stmt[s] = "CREATE_SELECT" /\ da[s] = "OK" THEN "release_create"
                ELSE "release_commit"
<1>1. /\ pc[s] = "committing"
      /\ pc' = [pc EXCEPT ![s] = l]
      /\ trx' = trx \ {s} /\ row' \in {row, NoSession}
      /\ \/ UNCHANGED << da, undone >>
         \/ da' = [da EXCEPT ![s] = "ERROR"] /\ undone' = undone \cup {s}
      /\ UNCHANGED << counters, grl, killed, stmt, left, tab, stale, asleep, owes, killing,
                      protections >>
  BY Zenon DEF commitPhaseOne, EndTransaction, At, Goto, SetDa, tables, wakeups
<1>2. /\ grl[s] # "GOT" /\ s \notin undone
      /\ da[s] = "OK" /\ stmt[s] \in Writing => tab[s] # "closed" /\ grl[s] = "NONE"
      /\ stmt[s] \in {"COMMIT", "ROLLBACK"} => da[s] = "EMPTY"
  BY <1>1, Zenon DEF IInv, Local, Placed, Staked, Opened, Marked, Wrote
<1>3. /\ l \in {"release_create", "release_commit"}
      /\ l = "release_create" <=> stmt[s] = "CREATE_SELECT" /\ da[s] = "OK"
  BY Zenon
<1> HIDE DEF l
<1>4. TypeOK'
  BY <1>1, <1>3 DEF IInv, TypeOK, Places, counters
<1>5. /\ Others(s)
      /\ pc'[s] = l /\ s \notin trx'
      /\ da'[s] = "ERROR" \/ (da'[s] = da[s] /\ s \notin undone')
  BY <1>1, <1>2 DEF IInv, TypeOK, Others, Same
<1>6. Local(s)'
  BY <1>1, <1>2, <1>3, <1>5, Zenon DEF Local, Placed, Staked, Opened, Wrote, Marked, Writing
<1>7. QuietMove(s)
  <2>1. stmt' = stmt /\ tab' = tab /\ stale' = stale /\ grl' = grl
    BY <1>1, Zenon
  <2>2. pc'[s] \notin {"unlocked", "wait_make", "wait_grl", "make", "recheck", "engine", "close"}
    BY <1>3, <1>5, Zenon
  <2>3. Wrote(s)' => Wrote(s)
    BY <1>1, <1>5, <2>1, <2>2, Zenon DEF Wrote
  <2> QED
    BY <1>1, <2>1, <2>2, <2>3, Zenon DEF QuietMove
<1>8. KeepsTokens(s)
  <2>1. stmt' = stmt /\ grl' = grl /\ left' = left
    BY <1>1, Zenon
  <2>2. HoldsJob(s)' => HoldsJob(s)
    BY <1>1, <1>3, <1>5, <2>1, Zenon DEF HoldsJob
  <2>3. InCommit(s)' <=> InCommit(s)
    BY <1>1, <1>3, <1>5, <2>1, Zenon DEF InCommit
  <2> QED
    BY <1>3, <1>5, <2>1, <2>2, <2>3, Zenon DEF KeepsTokens
<1> QED
  BY <1>1, <1>4, <1>5, <1>6, <1>7, <1>8, QuietStep, Zenon

(* A rollback: only of a statement that has not been reported as done.       *)
LEMMA RollbackStep ==
  ASSUME IInv, NEW s \in Sessions, rollbackTransaction(s)
  PROVE  IInv'
<1> DEFINE l == IF stmt[s] = "ROLLBACK" THEN "endstmt" ELSE AfterCommit(s)
<1>1. /\ pc[s] = "rollback"
      /\ pc' = [pc EXCEPT ![s] = l]
      /\ trx' = trx \ {s} /\ row' \in {row, NoSession}
      /\ \/ stmt[s] = "ROLLBACK" /\ da' = [da EXCEPT ![s] = "OK"]
         \/ stmt[s] = "COMMIT" /\ da' = [da EXCEPT ![s] = "ERROR"]
         \/ stmt[s] \notin {"COMMIT", "ROLLBACK"} /\ da' = da
      /\ undone' = IF da[s] = "OK" THEN undone \cup {s} ELSE undone
      /\ UNCHANGED << counters, grl, killed, stmt, left, tab, stale, asleep, owes, killing,
                      protections >>
  BY Zenon DEF rollbackTransaction, EndTransaction, At, Goto, SetDa, tables, wakeups
<1>2. /\ grl[s] # "GOT" /\ s \notin undone /\ da[s] # "OK"
      /\ stmt[s] \in {"COMMIT", "ROLLBACK"} => da[s] = "EMPTY"
  BY <1>1, Zenon DEF IInv, Local, Placed, Staked, Opened, Marked, Wrote
<1>3. /\ l \in {"endstmt", "answer"}
      /\ l = "endstmt" <=> stmt[s] \in {"COMMIT", "ROLLBACK"}
  BY <1>2, Zenon DEF AfterCommit
<1> HIDE DEF l
<1>4. TypeOK'
  BY <1>1, <1>2, <1>3 DEF IInv, TypeOK, Places, counters
<1>5. /\ Others(s)
      /\ pc'[s] = l /\ s \notin trx' /\ s \notin undone'
      /\ stmt[s] \in Writing => da'[s] # "OK"
  BY <1>1, <1>2 DEF IInv, TypeOK, Others, Same, Writing
<1>6. Local(s)'
  BY <1>1, <1>2, <1>3, <1>5, Zenon DEF Local, Placed, Staked, Opened, Wrote, Marked, Writing
<1>7. QuietMove(s) /\ KeepsTokens(s)
  BY <1>1, <1>2, <1>3, <1>5, Zenon DEF QuietMove, KeepsTokens, Wrote, HoldsJob, InCommit, Writing
<1> QED
  BY <1>1, <1>4, <1>5, <1>6, <1>7, QuietStep, Zenon

(* The end of a statement: commit, roll back, or answer.                     *)
LEMMA AutocommitStep ==
  ASSUME IInv, NEW s \in Sessions, autocommitOrRollback(s)
  PROVE  IInv'
<1>1. /\ pc[s] = "endstmt"
      /\ UNCHANGED << counters, grl, killed, stmt, left, trx, row, undone, da, tab, stale,
                      asleep, owes, killing, protections >>
  BY Zenon DEF autocommitOrRollback, At, own, tables, wakeups
<1>2. PICK l \in {"answer", "rollback", "commit"} :
          /\ pc' = [pc EXCEPT ![s] = l]
          /\ l # "answer" => s \in trx /\ s \in Autocommit
          /\ l = "rollback" => da[s] = "ERROR"
          /\ l = "commit" => da[s] # "ERROR"
  BY Zenon DEF autocommitOrRollback, Goto
<1>3. /\ grl[s] # "GOT"
      /\ s \in undone => s \notin trx
      /\ s \in trx /\ s \in Autocommit =>
             stmt[s] \in Writing /\ ~(stmt[s] = "CREATE_SELECT" /\ da[s] = "OK")
      /\ stmt[s] \in Writing /\ da[s] = "OK" => tab[s] # "closed" /\ grl[s] = "NONE"
      /\ s \in undone => da[s] = "ERROR"
  BY <1>1 DEF IInv, Local, Placed, Staked, Opened, Marked, Wrote
<1>4. TypeOK'
  BY <1>1, <1>2, Zenon DEF IInv, TypeOK, Places, counters
<1>5. Others(s) /\ pc'[s] = l
  BY <1>1, <1>2, Zenon DEF IInv, TypeOK, Others, Same
<1>6. Local(s)'
  <2>1. s \in trx /\ s \in Autocommit => l # "answer"
    BY <1>1, <1>2, <1>5, Zenon DEF autocommitOrRollback, Goto, IInv, TypeOK
  <2> QED
    BY <1>1, <1>2, <1>3, <1>5, <2>1, Zenon DEF Local, Placed, Staked, Opened, Wrote, Marked, Writing
<1>7. QuietMove(s) /\ KeepsTokens(s)
  BY <1>1, <1>2, <1>3, <1>5, Zenon DEF QuietMove, KeepsTokens, Wrote, HoldsJob, InCommit
<1> QED
  BY <1>1, <1>4, <1>5, <1>6, <1>7, QuietStep, Zenon

(* The answer to the client.                                                 *)
LEMMA AnswerStep ==
  ASSUME IInv, NEW s \in Sessions, answer(s)
  PROVE  IInv'
<1>1. /\ pc[s] = "answer"
      /\ pc' = [pc EXCEPT ![s] = "close"]
      /\ da' = da \/ (da[s] = "EMPTY" /\ da' = [da EXCEPT ![s] = "ERROR"])
      /\ killed' = killed \/ killed' = [killed EXCEPT ![s] = "NOT_KILLED"]
      /\ UNCHANGED << counters, grl, stmt, left, trx, row, undone, tab, stale, asleep, owes,
                      killing, protections >>
  BY Zenon DEF answer, At, Goto, own, tables, wakeups
<1>2. /\ grl[s] # "GOT" /\ (s \in undone => da[s] = "ERROR" /\ s \notin trx)
      /\ ~(s \in trx /\ s \in Autocommit)
  BY <1>1, Zenon DEF IInv, Local, Placed, Staked, Marked
<1>3. TypeOK'
  BY <1>1 DEF IInv, TypeOK, Places, counters
<1>4. /\ Others(s)
      /\ pc'[s] = "close"
      /\ s \in undone => da'[s] = "ERROR"
  BY <1>1, <1>2 DEF IInv, TypeOK, Others, Same
<1>5. Local(s)'
  BY <1>1, <1>2, <1>4, Zenon DEF Local, Placed, Staked, Opened, Wrote, Marked
<1>6. QuietMove(s) /\ KeepsTokens(s)
  BY <1>1, <1>2, <1>4, Zenon DEF QuietMove, KeepsTokens, Wrote, HoldsJob, InCommit
<1> QED
  BY <1>1, <1>3, <1>4, <1>5, <1>6, QuietStep, Zenon

(* The session's tables are closed and the statement is over.                *)
LEMMA CloseStep ==
  ASSUME IInv, NEW s \in Sessions, close_thread_tables(s)
  PROVE  IInv'
<1>1. /\ pc[s] = "close"
      /\ pc' = [pc EXCEPT ![s] = "idle"]
      /\ tab' = [tab EXCEPT ![s] = "closed"]
      /\ stmt' = [stmt EXCEPT ![s] = "NONE"]
      /\ da' = [da EXCEPT ![s] = "EMPTY"]
      /\ undone' = undone \ {s}
      /\ asleep' = {} \/ asleep' = asleep
      /\ UNCHANGED << counters, grl, killed, left, trx, row, stale, owes, killing, protections >>
  BY Zenon DEF close_thread_tables, AfterBroadcast, At, Goto, SetDa
<1>2. grl[s] # "GOT" /\ ~(s \in trx /\ s \in Autocommit)
  BY <1>1 DEF IInv, Local, Placed, Staked
<1>3. TypeOK'
  BY <1>1, Zenon DEF IInv, TypeOK, Places, counters
<1>4. /\ Others(s)
      /\ pc'[s] = "idle" /\ tab'[s] = "closed" /\ stmt'[s] = "NONE" /\ da'[s] = "EMPTY"
      /\ s \notin undone'
      /\ \A t \in Sessions \ {s} : tab'[t] = tab[t]
  BY <1>1 DEF IInv, TypeOK, Others, Same
<1>5. Local(s)'
  BY <1>1, <1>2, <1>4, Zenon DEF Local, Placed, Staked, Opened, Wrote, Marked, Writing
<1>6. QuietMove(s) /\ KeepsTokens(s)
  BY <1>1, <1>2, <1>4, Zenon DEF QuietMove, KeepsTokens, Wrote, HoldsJob, InCommit, Writing
<1> QED
  BY <1>1, <1>3, <1>4, <1>5, <1>6, QuietStep, Zenon

(* openTable: every way through it keeps the statement and its answer.       *)
LEMMA OpenTableStep ==
  ASSUME IInv, NEW s \in Sessions, openTable(s)
  PROVE  IInv'
<1>1. /\ pc[s] \in {"open", "find", "wait_open"}
      /\ UNCHANGED << counters, grl, killed, stmt, left, trx, row, undone, da, owes,
                      protections >>
      /\ stale' = stale \/ stale' = stale \ {s}
  BY Zenon DEF openTable, At, own, tables
<1>2. PICK l \in {"find", "open", "wait_open", "lock", "release_job", "endstmt"} :
          /\ pc' = [pc EXCEPT ![s] = l]
          /\ l = "lock" => tab' = [tab EXCEPT ![s] = "fresh"]
          /\ l # "lock" => tab' = tab
          /\ l = "release_job" => stmt[s] \in Protected
  BY Zenon DEF openTable, MissedKill, Sleep, Goto, AfterFailure, tables
<1>3. asleep' \subseteq asleep \cup {s} /\ killing' \subseteq killing
  BY Zenon DEF openTable, MissedKill, Sleep
<1>4. /\ stmt[s] \in Writing /\ da[s] = "EMPTY" /\ grl[s] # "GOT" /\ s \notin undone
      /\ ~(s \in trx /\ s \in Autocommit)
  BY <1>1, Zenon DEF IInv, Local, Placed, Staked, Marked
<1>5. TypeOK'
  BY <1>1, <1>2, <1>3 DEF IInv, TypeOK, Places, RefreshWaits, counters
<1>6. /\ Others(s)
      /\ pc'[s] = l
      /\ l = "lock" => tab'[s] = "fresh"
      /\ \A t \in Sessions \ {s} : tab'[t] = tab[t]
  BY <1>1, <1>2 DEF IInv, TypeOK, Others, Same
<1>7. Local(s)'
  BY <1>1, <1>2, <1>4, <1>6, Zenon DEF Local, Placed, Staked, Opened, Wrote, Marked, Writing
<1>8. QuietMove(s) /\ KeepsTokens(s)
  BY <1>1, <1>2, <1>4, <1>6, Zenon DEF QuietMove, KeepsTokens, Wrote, HoldsJob, InCommit
<1> QED
  BY <1>1, <1>5, <1>6, <1>7, <1>8, QuietStep, Zenon

(* A connection ends between two statements.                                 *)
LEMMA CleanupStep ==
  ASSUME IInv, NEW s \in Sessions, cleanup(s)
  PROVE  IInv'
<1>1. /\ pc[s] = "idle"
      /\ killed' = [killed EXCEPT ![s] = "KILL_CONNECTION"]
      /\ trx' = trx \ {s} /\ row' \in {row, NoSession}
      /\ stmt' = [stmt EXCEPT ![s] = "QUIT"]
      /\ UNCHANGED << counters, grl, left, da, undone, tab, stale, asleep, owes, killing,
                      protections >>
  BY Zenon DEF cleanup, EndTransaction, At, tables, wakeups
<1>2. PICK l \in {"unlock", "gone"} :
          pc' = [pc EXCEPT ![s] = l] /\ (l = "unlock" <=> grl[s] # "NONE")
  BY Zenon DEF cleanup, AfterCleanup, Goto
<1>3. grl[s] # "GOT" /\ s \notin undone
  BY <1>1, Zenon DEF IInv, Local, Staked, Marked
<1>4. TypeOK'
  BY <1>1, <1>2, Zenon DEF IInv, TypeOK, Places, counters
<1>5. /\ Others(s)
      /\ pc'[s] = l /\ stmt'[s] = "QUIT" /\ s \notin trx'
  BY <1>1, <1>2 DEF IInv, TypeOK, Others, Same
<1>6. Local(s)'
  BY <1>1, <1>2, <1>3, <1>5, Zenon DEF Local, Placed, Staked, Opened, Wrote, Marked, Writing
<1>7. QuietMove(s) /\ KeepsTokens(s)
  BY <1>1, <1>2, <1>3, <1>5, Zenon DEF QuietMove, KeepsTokens, Wrote, HoldsJob, InCommit, Writing,
                                Protected
<1> QED
  BY <1>1, <1>4, <1>5, <1>6, <1>7, QuietStep, Zenon

(* No thread moves: signals, kills, and stuttering.                          *)
LEMMA StillStep ==
  ASSUME IInv, TypeOK', \A t \in Sessions : Same(t),
         UNCHANGED << counters, tab, stale, protections >>
  PROVE  IInv'
<1>1. /\ Owners' = Owners /\ Blockers' = Blockers /\ Waiters' = Waiters
      /\ \A t \in Sessions : grl'[t] = grl[t]
  BY DEF Owners, Blockers, Waiters, Same
<1>2. \A t \in Sessions : /\ Local(t)' /\ (Wrote(t)' <=> Wrote(t))
                          /\ HoldsJob(t)' <=> HoldsJob(t)
                          /\ InCommit(t)' <=> InCommit(t)
                          /\ PastFlush(t)' <=> PastFlush(t)
                          /\ Drained(t)' <=> Drained(t)
  BY SameFrame, SameCount, Zenon DEF IInv
<1>3. CountersAgree'
  BY <1>1, Zenon DEF IInv, CountersAgree, counters
<1>4. ProtectionExcludesLock'
  BY <1>1, Zenon DEF IInv, ProtectionExcludesLock, Owners
<1>5. Tokens'
  <2>1. \A p \in protections : p[1] \in Sessions
    BY DEF IInv, TypeOK
  <2>2. \A t \in Sessions : \A f : Token(t, f)' = Token(t, f)
    BY Zenon DEF Token, Same
  <2>3. \A p \in protections : TokenOK(p)'
    BY <1>2, <2>1 DEF IInv, Tokens, TokenOK, Same
  <2>4. \A t \in Sessions : Covered(t)'
    BY <1>2, <2>2 DEF IInv, Tokens, Covered, Same
  <2> QED
    BY <2>3, <2>4, Zenon DEF IInv, Tokens
<1>6. Flushed'
  BY <1>2, Zenon DEF IInv, Flushed, Same
<1> QED
  BY <1>2, <1>3, <1>4, <1>5, <1>6, Zenon DEF IInv

(* notify_all(), KILL, and the signal a KILL sends.                          *)
LEMMA SignalStep ==
  ASSUME IInv, NEW s \in Sessions, NotifyGlobalReadLock(s) \/ awake(s) \/ awake_signal(s)
  PROVE  IInv'
<1>1. /\ UNCHANGED << counters, grl, pc, stmt, left, trx, row, undone, da, tab, stale,
                      protections >>
      /\ asleep' \subseteq asleep /\ owes' \subseteq owes /\ killing' \subseteq killing \cup {s}
  BY Zenon DEF NotifyGlobalReadLock, awake, awake_signal, Signalled, AfterNotifyGrl, own, tables
<1>2. \/ killed' = killed
      \/ \E how \in {"KILL_QUERY", "KILL_CONNECTION"} : killed' = [killed EXCEPT ![s] = how]
  BY Zenon DEF NotifyGlobalReadLock, awake, awake_signal
<1>3. TypeOK'
  BY <1>1, <1>2 DEF IInv, TypeOK, counters
<1>4. \A t \in Sessions : Same(t)
  BY <1>1, <1>2 DEF IInv, TypeOK, Same
<1> QED
  BY <1>1, <1>3, <1>4, StillStep, Zenon

(* A statement begins.  A token the session has left over from an earlier    *)
(* statement carries a number greater than the new statement's.              *)
LEMMA ExecuteStep ==
  ASSUME IInv, NEW s \in Sessions, execute(s)
  PROVE  IInv'
<1>1. /\ pc[s] = "idle" /\ left[s] > 0
      /\ left' = [left EXCEPT ![s] = @ - 1]
      /\ UNCHANGED << counters, grl, killed, row, undone, tab, stale, asleep, owes, killing,
                      protections >>
  BY Zenon DEF execute, At, tables, wakeups
<1>2. PICK st \in Allowed[s] :
         /\ stmt' = [stmt EXCEPT ![s] = st]
         /\ pc' = [pc EXCEPT ![s] = FirstPlace(s, st)]
         /\ trx' = IF st \in Transactional /\ s \notin Autocommit THEN trx \cup {s} ELSE trx
         /\ da' = [da EXCEPT ![s] = CASE st = "UNLOCK" /\ grl[s] = "NONE" -> "ERROR"
                                      [] st = "COMMIT" /\ s \notin trx    -> "OK"
                                      [] OTHER                             -> "EMPTY"]
  BY Zenon DEF execute, Goto, SetDa
<1> DEFINE d == CASE st = "UNLOCK" /\ grl[s] = "NONE" -> "ERROR"
                  [] st = "COMMIT" /\ s \notin trx    -> "OK"
                  [] OTHER                             -> "EMPTY"
<1> DEFINE l == FirstPlace(s, st)
<1>3. st \in Statements
  BY <1>2, AllowedAssumption, Zenon
<1>4. /\ l \in {"lock_grl", "flush", "unlock", "endstmt", "job", "open", "commit", "rollback"}
      /\ l = "lock_grl" => st = "FTWRL"
      /\ l = "flush" => st = "FLUSH"
      /\ l = "unlock" => st = "UNLOCK" /\ grl[s] # "NONE"
      /\ l = "job" => st \in Protected
      /\ l = "open" => st = "UPDATE"
      /\ l = "commit" => st = "COMMIT" /\ s \in trx
      /\ l = "rollback" => st = "ROLLBACK"
      /\ l = "endstmt" => st \in {"UNLOCK", "COMMIT"}
      /\ st \in {"FTWRL", "ROLLBACK", "UPDATE", "FLUSH"} \cup Protected => l # "endstmt"
  BY <1>3, Zenon DEF FirstPlace, Statements, Protected
<1>5. /\ d \in {"ERROR", "OK", "EMPTY"}
      /\ d = "OK" => st = "COMMIT" /\ s \notin trx
      /\ d = "ERROR" => st = "UNLOCK"
  BY Zenon
<1>6. grl[s] # "GOT" /\ s \notin undone /\ ~(s \in trx /\ s \in Autocommit)
  BY <1>1, Zenon DEF IInv, Local, Placed, Staked, Marked
<1> HIDE DEF l, d
<1>7. /\ pc' = [pc EXCEPT ![s] = l] /\ da' = [da EXCEPT ![s] = d]
      /\ trx' = trx \/ (s \notin Autocommit /\ trx' = trx \cup {s})
  BY <1>2, Zenon DEF l, d
<1>8. TypeOK'
  BY <1>1, <1>2, <1>3, <1>4, <1>5, <1>7 DEF IInv, TypeOK, Places, counters
<1>9. /\ Others(s)
      /\ pc'[s] = l /\ stmt'[s] = st /\ da'[s] = d /\ left'[s] = left[s] - 1
      /\ ~(s \in trx' /\ s \in Autocommit)
  BY <1>1, <1>2, <1>6, <1>7 DEF IInv, TypeOK, Others, Same
<1>10. Local(s)'
  <2>1. Placed(s)'
    BY <1>4, <1>5, <1>9, Zenon DEF Placed, Writing, Protected
  <2>2. Staked(s)' /\ Opened(s)' /\ Marked(s)'
    BY <1>1, <1>4, <1>5, <1>6, <1>9, Zenon DEF Staked, Opened, Wrote, Marked, Writing
  <2> QED
    BY <2>1, <2>2, Zenon DEF Local
<1>11. QuietMove(s)
  BY <1>1, <1>4, <1>5, <1>9, Zenon DEF QuietMove, Wrote, Writing
<1>12. \A p \in protections' : p[1] = s => TokenOK(p)'
  <2> SUFFICES ASSUME NEW p \in protections, p[1] = s
               PROVE  TokenOK(p)'
    BY <1>1, Zenon
  <2>1. TokenOK(p) /\ p[2] \in Nat /\ left[s] \in Nat
    BY Zenon DEF IInv, Tokens, TypeOK
  <2>2. p[2] >= left[s] /\ p[3] # "commit"
    BY <1>1, <2>1, Zenon DEF TokenOK, InCommit
  <2>3. left'[p[1]] = left[s] - 1
    BY <1>9, Zenon
  <2>4. p[2] >= left'[p[1]] /\ p[2] # left'[p[1]]
    BY <2>1, <2>2, <2>3
  <2> QED
    BY <2>2, <2>4, Zenon DEF TokenOK
<1>13. Covered(s)'
  BY <1>4, <1>5, <1>9, Zenon DEF Covered, HoldsJob, InCommit, Protected
<1>14. ProtectionExcludesLock'
  BY <1>1, <1>9, <1>11, QuietSets, ExclusionStep, Zenon DEF QuietMove
<1>15. protect_against_global_read_lock' = protect_against_global_read_lock
          + In(Token(s, "job"), protections') - In(Token(s, "job"), protections)
  <2>1. protect_against_global_read_lock \in Nat
    BY Zenon DEF IInv, TypeOK
  <2> QED
    BY <1>1, <2>1 DEF In, counters
<1>16. Token(s, "job")[1] = s
  BY Zenon DEF Token
<1> QED
  BY <1>1, <1>8, <1>9, <1>10, <1>11, <1>12, <1>13, <1>14, <1>15, <1>16, TokenStep, Zenon DEF counters

-----------------------------------------------------------------------------
(* FLUSH TABLES moves the version on: whoever has written has an old         *)
(* instance from then on.  It goes on only when there is none.               *)
LEMMA CloseCachedTablesStep ==
  ASSUME IInv, NEW s \in Sessions, close_cached_tables(s)
  PROVE  IInv'
<1>1. /\ pc[s] \in {"flush", "wait_flush"}
      /\ UNCHANGED << counters, grl, killed, stmt, left, trx, row, undone, owes, protections >>
      /\ pc[s] = "flush" =>
            /\ tab' = [t \in Sessions |-> IF tab[t] = "closed" THEN "closed" ELSE "old"]
            /\ stale' = Sessions
      /\ pc[s] = "wait_flush" => tab' = tab /\ stale' = stale
  BY Zenon DEF close_cached_tables, At, own, tables
<1>2. /\ asleep' \subseteq asleep \cup {s} /\ killing' \subseteq killing
      /\ da' = da \/ (stmt[s] # "FTWRL" /\ da' = [da EXCEPT ![s] = "OK"])
  BY Zenon DEF close_cached_tables, FlushLoop, MissedKill, Sleep
<1>3. PICK l \in {"wait_flush", "endstmt", "make_killed", "make"} :
          /\ pc' = [pc EXCEPT ![s] = l]
          /\ l \in {"make", "make_killed"} => stmt[s] = "FTWRL"
          /\ l = "endstmt" => stmt[s] # "FTWRL"
          /\ l = "make_killed" => Killed(s)
          /\ l = "make" => ~OldInstance(s)
  BY Zenon DEF close_cached_tables, FlushLoop, MissedKill, Sleep, Goto
<1>4. /\ stmt[s] \in {"FTWRL", "FLUSH"}
      /\ stmt[s] = "FTWRL" => grl[s] # "NONE"
      /\ stmt[s] # "FTWRL" => grl[s] # "GOT"
      /\ ~(s \in trx /\ s \in Autocommit) /\ s \notin undone
  BY <1>1, Zenon DEF IInv, Local, Placed, Staked, Marked
<1>5. TypeOK'
  BY <1>1, <1>2, <1>3 DEF IInv, TypeOK, Places, RefreshWaits, counters
<1>6. /\ Others(s)
      /\ pc'[s] = l
      /\ \A t \in Sessions \ {s} : tab[t] = "old" => tab'[t] = "old"
      /\ \A t \in Sessions \ {s} : t \in stale => t \in stale'
  BY <1>1, <1>2, <1>3 DEF IInv, TypeOK, Others, Same
<1>7. Local(s)'
  BY <1>1, <1>3, <1>4, <1>6, Zenon DEF Local, Placed, Staked, Opened, Wrote, Marked, Writing, Killed
<1>8. KeepsTokens(s)
  BY <1>1, <1>4, <1>6, Zenon DEF KeepsTokens, HoldsJob, InCommit, Protected
<1>9. /\ s \in Owners' <=> s \in Owners
      /\ s \in Blockers' <=> s \in Blockers
      /\ s \in Waiters' <=> s \in Waiters
  BY <1>1, <1>6, Zenon DEF Owners, Blockers, Waiters
<1>10. CountersAgree'
  <2>1. /\ global_read_lock \in Nat /\ global_read_lock_blocks_commit \in Nat
        /\ waiting_for_read_lock \in Nat
    BY Zenon DEF IInv, TypeOK
  <2>2. protect_against_global_read_lock' = Cardinality(protections')
    BY <1>1, Zenon DEF IInv, CountersAgree, counters
  <2>3. /\ global_read_lock' = global_read_lock + In(s, Owners') - In(s, Owners)
        /\ global_read_lock_blocks_commit' =
               global_read_lock_blocks_commit + In(s, Blockers') - In(s, Blockers)
        /\ waiting_for_read_lock' = waiting_for_read_lock + In(s, Waiters') - In(s, Waiters)
    BY <1>1, <1>9, <2>1 DEF In, counters
  <2> QED
    BY <1>6, <2>2, <2>3, CountersStep, Zenon
<1>11. ProtectionExcludesLock'
  BY <1>1, <1>6, <1>9, ExclusionStep, Zenon
<1>12. Tokens'
  BY <1>1, <1>5, <1>6, <1>8, TokensFrame, Zenon
<1>13. Flushed'
  <2>1. ASSUME NEW t \in Sessions \ {s}, PastFlush(s)'
        PROVE  (pc[t] = "recheck" => t \in stale') /\ (Wrote(t) => tab'[t] = "old")
    <3>1. CASE pc[s] = "flush"
      <4>1. Wrote(t) => tab[t] # "closed"
        BY Zenon DEF IInv, Local, Opened
      <4> QED
        BY <1>1, <3>1, <4>1, Zenon
    <3>2. CASE pc[s] = "wait_flush"
      <4>1. PastFlush(s)
        BY <1>9, <2>1, <3>2, Zenon DEF PastFlush
      <4> QED
        BY <1>1, <3>2, <4>1, Zenon DEF IInv, Flushed
    <3> QED
      BY <1>1, <3>1, <3>2, Zenon
  <2>2. ASSUME NEW t \in Sessions \ {s}, Drained(s)'
        PROVE  ~Wrote(t)
    <3>1. CASE grl[s] = "MADE"
      <4>1. Drained(s)
        BY <1>9, <2>2, <3>1, Zenon DEF Drained
      <4> QED
        BY <4>1, Zenon DEF IInv, Flushed
    <3>2. CASE grl[s] # "MADE"
      <4>1. l = "make" /\ PastFlush(s)'
        BY <1>1, <1>6, <2>2, <3>2, Zenon DEF Drained, PastFlush
      <4> QED
        BY <1>3, <2>1, <4>1, Zenon DEF OldInstance
    <3> QED
      BY <3>1, <3>2, Zenon
  <2>3. pc'[s] # "recheck" /\ ~Wrote(s)'
    BY <1>1, <1>4, <1>6, Zenon DEF Wrote, Writing
  <2> QED
    BY <1>6, <2>1, <2>2, <2>3, FlushedStep, Zenon
<1> QED
  BY <1>5, <1>6, <1>7, <1>10, <1>11, <1>12, <1>13, LocalStep, Zenon DEF IInv

(* The three steps that move the counters of the lock itself: what is left   *)
(* to show of them.                                                          *)
LEMMA StakeStep ==
  ASSUME IInv, NEW s \in Sessions, Others(s), Local(s)', KeepsTokens(s),
         UNCHANGED << stmt, left, trx, row, undone, killed, tab, stale, protections,
                      protect_against_global_read_lock >>,
         asleep' \subseteq Sessions, owes' \subseteq Sessions, killing' \subseteq Sessions,
         NEW l \in Places, pc' = [pc EXCEPT ![s] = l],
         NEW d \in {"EMPTY", "OK", "ERROR"}, da' = [da EXCEPT ![s] = d],
         NEW g \in {"NONE", "GOT", "MADE"}, grl' = [grl EXCEPT ![s] = g],
         global_read_lock' = global_read_lock + In(s, Owners') - In(s, Owners),
         global_read_lock_blocks_commit' =
             global_read_lock_blocks_commit + In(s, Blockers') - In(s, Blockers),
         waiting_for_read_lock' = waiting_for_read_lock + In(s, Waiters') - In(s, Waiters),
         ProtectionExcludesLock',
         PastFlush(s)' => PastFlush(s), Drained(s)' => Drained(s),
         Wrote(s)' => Wrote(s), l # "recheck"
  PROVE  IInv'
<1>1. protect_against_global_read_lock' = Cardinality(protections')
  BY Zenon DEF IInv, CountersAgree
<1>2. /\ CountersAgree'
      /\ global_read_lock' \in Nat /\ global_read_lock_blocks_commit' \in Nat
      /\ waiting_for_read_lock' \in Nat
  BY <1>1, CountersStep, Zenon
<1>3. TypeOK'
  BY <1>2, Zenon DEF IInv, TypeOK
<1>4. Tokens'
  BY <1>3, TokensFrame, Zenon
<1>5. Flushed'
  <2>1. pc'[s] # "recheck"
    BY Zenon DEF IInv, TypeOK
  <2> QED
    BY <2>1, FlushedFrame, Zenon
<1> QED
  BY <1>2, <1>3, <1>4, <1>5, LocalStep, Zenon DEF IInv

(* lockGlobalReadLock: the counter moves when nobody has a protection.       *)
LEMMA LockStep ==
  ASSUME IInv, NEW s \in Sessions, lockGlobalReadLock(s)
  PROVE  IInv'
<1>1. /\ pc[s] \in {"lock_grl", "wait_grl"}
      /\ UNCHANGED << global_read_lock_blocks_commit, protect_against_global_read_lock, killed,
                      stmt, left, trx, row, undone, da, tab, stale, owes, protections >>
      /\ asleep' \subseteq asleep \cup {s} /\ killing' \subseteq killing
  BY Zenon DEF lockGlobalReadLock, LockLoop, MissedKill, Sleep, At, own, tables, counters, wakeups
<1>2. /\ stmt[s] = "FTWRL" /\ grl[s] # "GOT" /\ s \notin undone
      /\ pc[s] = "wait_grl" => grl[s] = "NONE"
      /\ ~(s \in trx /\ s \in Autocommit)
  BY <1>1, Zenon DEF IInv, Local, Placed, Staked, Marked
<1> DEFINE n == IF pc[s] = "lock_grl" THEN waiting_for_read_lock + 1 ELSE waiting_for_read_lock
<1>3. \/ /\ pc' = [pc EXCEPT ![s] = "wait_grl"] /\ grl[s] = "NONE" /\ grl' = grl
         /\ waiting_for_read_lock' = n /\ global_read_lock' = global_read_lock
      \/ /\ pc' = [pc EXCEPT ![s] = "endstmt"] /\ grl[s] = "NONE" /\ grl' = grl
         /\ waiting_for_read_lock' = n - 1 /\ global_read_lock' = global_read_lock
      \/ /\ pc' = [pc EXCEPT ![s] = "flush"] /\ grl[s] = "NONE"
         /\ grl' = [grl EXCEPT ![s] = "GOT"]
         /\ waiting_for_read_lock' = n - 1 /\ global_read_lock' = global_read_lock + 1
         /\ protect_against_global_read_lock = 0
      \/ /\ pc[s] = "lock_grl" /\ pc' = [pc EXCEPT ![s] = "flush"]
         /\ grl[s] = "MADE" /\ grl' = grl
         /\ waiting_for_read_lock' = waiting_for_read_lock
         /\ global_read_lock' = global_read_lock
  <2>1. grl[s] \in {"NONE", "GOT", "MADE"}
    BY Zenon DEF IInv, TypeOK
  <2>2. CASE LockLoop(s, n) /\ grl[s] = "NONE"
    BY <2>2, Zenon DEF LockLoop, MissedKill, Sleep, Goto
  <2>3. CASE /\ At(s, "lock_grl") /\ grl[s] # "NONE" /\ Goto(s, "flush")
             /\ UNCHANGED << counters, grl >>
    BY <1>2, <2>1, <2>3, Zenon DEF At, Goto, counters
  <2> QED
    BY <1>2, <2>2, <2>3, Zenon DEF lockGlobalReadLock, At
<1>4. PICK l \in {"wait_grl", "endstmt", "flush"}, g \in {"NONE", "GOT", "MADE"} :
          /\ pc' = [pc EXCEPT ![s] = l] /\ grl' = [grl EXCEPT ![s] = g]
          /\ l \in {"wait_grl", "endstmt"} => g = "NONE" /\ grl[s] = "NONE"
          /\ l = "flush" => g # "NONE"
          /\ g = "GOT" => /\ l = "flush" /\ grl[s] = "NONE"
                          /\ protect_against_global_read_lock = 0
          /\ g = "MADE" => pc[s] = "lock_grl" /\ grl[s] = "MADE"
          /\ global_read_lock' = global_read_lock + (IF g = "GOT" THEN 1 ELSE 0)
          /\ waiting_for_read_lock' = waiting_for_read_lock
                 + (IF l = "wait_grl" THEN 1 ELSE 0) - (IF pc[s] = "wait_grl" THEN 1 ELSE 0)
  <2>1. /\ waiting_for_read_lock \in Nat /\ global_read_lock \in Nat
        /\ \A g : g = grl[s] => grl = [grl EXCEPT ![s] = g]
    BY Zenon DEF IInv, TypeOK
  <2> QED
    BY <1>1, <1>3, <2>1
<1>5. Others(s) /\ pc'[s] = l /\ grl'[s] = g
  BY <1>1, <1>4 DEF IInv, TypeOK, Others, Same
<1>6. Local(s)'
  BY <1>1, <1>2, <1>4, <1>5, Zenon DEF Local, Placed, Staked, Opened, Wrote, Marked, Writing
<1>7. KeepsTokens(s)
  BY <1>1, <1>2, <1>5, Zenon DEF KeepsTokens, HoldsJob, InCommit, Protected
<1>8. /\ s \in Owners <=> grl[s] # "NONE"
      /\ s \in Owners' <=> g # "NONE"
      /\ s \in Blockers <=> grl[s] = "MADE"
      /\ s \in Blockers' <=> g = "MADE"
      /\ s \in Waiters <=> pc[s] = "wait_grl"
      /\ s \in Waiters' <=> l = "wait_grl"
  BY <1>1, <1>5, Zenon DEF Owners, Blockers, Waiters
<1>9. /\ global_read_lock' = global_read_lock + In(s, Owners') - In(s, Owners)
      /\ global_read_lock_blocks_commit' =
             global_read_lock_blocks_commit + In(s, Blockers') - In(s, Blockers)
      /\ waiting_for_read_lock' = waiting_for_read_lock + In(s, Waiters') - In(s, Waiters)
  <2>1. /\ global_read_lock \in Nat /\ global_read_lock_blocks_commit \in Nat
        /\ waiting_for_read_lock \in Nat /\ grl[s] \in {"NONE", "GOT", "MADE"}
    BY Zenon DEF IInv, TypeOK
  <2>2. g # "GOT" => grl[s] = g
    BY <1>2, <1>4, <2>1, Zenon
  <2> QED
    BY <1>1, <1>4, <1>8, <2>1, <2>2 DEF In
<1>10. ProtectionExcludesLock'
  <2>1. CASE g = "GOT"
    <3>1. protections' = {}
      BY <1>1, <1>4, <2>1, ZeroMeansNobody, Zenon
    <3> QED
      BY <3>1, Zenon DEF ProtectionExcludesLock
  <2>2. CASE g # "GOT"
    BY <1>1, <1>4, <1>5, <1>8, <2>2, ExclusionStep, Zenon
  <2> QED
    BY <2>1, <2>2, Zenon
<1>11. /\ PastFlush(s)' => PastFlush(s)
       /\ Drained(s)' => Drained(s)
       /\ ~Wrote(s)'
  BY <1>1, <1>2, <1>4, <1>5, <1>8, Zenon DEF PastFlush, Drained, Wrote, Writing
<1>12. /\ l \in Places /\ da[s] \in {"EMPTY", "OK", "ERROR"} /\ da' = [da EXCEPT ![s] = da[s]]
       /\ asleep' \subseteq Sessions /\ owes' \subseteq Sessions /\ killing' \subseteq Sessions
  BY <1>1 DEF IInv, TypeOK, Places, GrlWaits
<1> QED
  BY <1>1, <1>4, <1>5, <1>6, <1>7, <1>9, <1>10, <1>11, <1>12, StakeStep, Zenon

(* makeGlobalReadLockBlockCommit: the same, for commits.  The session has    *)
(* waited for the old instances unless it was killed, and then it gives up.  *)
LEMMA MakeStep ==
  ASSUME IInv, NEW s \in Sessions, makeGlobalReadLockBlockCommit(s)
  PROVE  IInv'
<1>1. /\ pc[s] \in {"make", "make_killed", "wait_make"}
      /\ UNCHANGED << global_read_lock, protect_against_global_read_lock, waiting_for_read_lock,
                      killed, stmt, left, trx, row, undone, tab, stale, owes, protections >>
      /\ asleep' \subseteq asleep \cup {s} /\ killing' \subseteq killing
  BY Zenon DEF makeGlobalReadLockBlockCommit, MakeLoop, MissedKill, Sleep, At, own, tables, counters,
         wakeups
<1>2. /\ stmt[s] = "FTWRL" /\ grl[s] # "NONE" /\ s \notin undone
      /\ pc[s] = "wait_make" => grl[s] = "GOT"
      /\ pc[s] = "make_killed" => Killed(s)
      /\ ~(s \in trx /\ s \in Autocommit)
  BY <1>1 DEF IInv, Local, Placed, Staked, Marked
<1> DEFINE n == IF pc[s] = "wait_make" THEN global_read_lock_blocks_commit
                ELSE global_read_lock_blocks_commit + 1
<1>3. \/ /\ pc' = [pc EXCEPT ![s] = "wait_make"] /\ grl[s] = "GOT" /\ grl' = grl /\ da' = da
         /\ global_read_lock_blocks_commit' = n
         /\ pc[s] # "make_killed"
      \/ /\ pc' = [pc EXCEPT ![s] = "unlock"] /\ grl[s] = "GOT" /\ grl' = grl /\ da' = da
         /\ global_read_lock_blocks_commit' = n - 1
      \/ /\ pc' = [pc EXCEPT ![s] = "endstmt"] /\ grl[s] = "GOT"
         /\ grl' = [grl EXCEPT ![s] = "MADE"] /\ da' = [da EXCEPT ![s] = "OK"]
         /\ global_read_lock_blocks_commit' = n
         /\ protect_against_global_read_lock = 0
         /\ pc[s] # "make_killed"
      \/ /\ pc[s] # "wait_make" /\ pc' = [pc EXCEPT ![s] = "endstmt"]
         /\ grl[s] = "MADE" /\ grl' = grl /\ da' = [da EXCEPT ![s] = "OK"]
         /\ global_read_lock_blocks_commit' = global_read_lock_blocks_commit
  <2>1. grl[s] \in {"NONE", "GOT", "MADE"}
    BY Zenon DEF IInv, TypeOK
  <2>2. CASE MakeLoop(s, n) /\ grl[s] = "GOT"
    BY <1>2, <2>2, Zenon DEF MakeLoop, MissedKill, Sleep, Goto, SetDa
  <2>3. CASE /\ pc[s] # "wait_make" /\ grl[s] # "GOT" /\ Goto(s, "endstmt") /\ SetDa(s, "OK")
             /\ UNCHANGED << counters, grl >>
    BY <1>2, <2>1, <2>3, Zenon DEF Goto, SetDa, counters
  <2> QED
    BY <1>2, <2>2, <2>3, Zenon DEF makeGlobalReadLockBlockCommit, At
<1>4. PICK l \in {"wait_make", "endstmt", "unlock"}, g \in {"GOT", "MADE"},
           d \in {"EMPTY", "OK", "ERROR"} :
          /\ pc' = [pc EXCEPT ![s] = l] /\ grl' = [grl EXCEPT ![s] = g]
          /\ da' = [da EXCEPT ![s] = d]
          /\ l \in {"wait_make", "unlock"} => g = "GOT" /\ grl[s] = "GOT"
          /\ l = "endstmt" => g = "MADE"
          /\ g # grl[s] => protect_against_global_read_lock = 0
          /\ l = "wait_make" \/ g # grl[s] => pc[s] # "make_killed"
          /\ global_read_lock_blocks_commit' = global_read_lock_blocks_commit
                 + (IF l = "wait_make" \/ g = "MADE" THEN 1 ELSE 0)
                 - (IF pc[s] = "wait_make" \/ grl[s] = "MADE" THEN 1 ELSE 0)
          /\ grl[s] = "MADE" => g = "MADE"
  <2>1. /\ global_read_lock_blocks_commit \in Nat
        /\ \A g : g = grl[s] => grl = [grl EXCEPT ![s] = g]
        /\ da[s] \in {"EMPTY", "OK", "ERROR"} /\ da = [da EXCEPT ![s] = da[s]]
    BY Zenon DEF IInv, TypeOK
  <2>2. CASE pc' = [pc EXCEPT ![s] = "wait_make"] /\ da' = da
    BY <1>1, <1>3, <2>1, <2>2
  <2>3. CASE pc' = [pc EXCEPT ![s] = "unlock"] /\ da' = da
    BY <1>1, <1>3, <2>1, <2>3
  <2>4. CASE pc' = [pc EXCEPT ![s] = "endstmt"] /\ da' = [da EXCEPT ![s] = "OK"]
    BY <1>1, <1>3, <2>1, <2>4
  <2> QED
    BY <1>3, <2>2, <2>3, <2>4, Zenon
<1>5. Others(s) /\ pc'[s] = l /\ grl'[s] = g /\ da'[s] = d
  BY <1>1, <1>4 DEF IInv, TypeOK, Others, Same
<1>6. Local(s)'
  BY <1>1, <1>2, <1>4, <1>5, Zenon DEF Local, Placed, Staked, Opened, Wrote, Marked, Writing, Killed
<1>7. KeepsTokens(s)
  BY <1>1, <1>2, <1>5, Zenon DEF KeepsTokens, HoldsJob, InCommit, Protected
<1>8. /\ s \in Owners /\ s \in Owners'
      /\ s \in Blockers <=> pc[s] = "wait_make" \/ grl[s] = "MADE"
      /\ s \in Blockers' <=> l = "wait_make" \/ g = "MADE"
      /\ s \notin Waiters /\ s \notin Waiters'
  BY <1>1, <1>2, <1>5, Zenon DEF Owners, Blockers, Waiters
<1>9. /\ global_read_lock' = global_read_lock + In(s, Owners') - In(s, Owners)
      /\ global_read_lock_blocks_commit' =
             global_read_lock_blocks_commit + In(s, Blockers') - In(s, Blockers)
      /\ waiting_for_read_lock' = waiting_for_read_lock + In(s, Waiters') - In(s, Waiters)
  <2>1. /\ global_read_lock \in Nat /\ global_read_lock_blocks_commit \in Nat
        /\ waiting_for_read_lock \in Nat
    BY Zenon DEF IInv, TypeOK
  <2> QED
    BY <1>1, <1>4, <1>8, <2>1 DEF In
<1>10. ProtectionExcludesLock'
  <2>1. CASE g # grl[s]
    <3>1. protections' = {}
      BY <1>1, <1>4, <2>1, ZeroMeansNobody, Zenon
    <3> QED
      BY <3>1, Zenon DEF ProtectionExcludesLock
  <2>2. CASE g = grl[s]
    BY <1>1, <1>4, <1>5, <1>8, <2>2, ExclusionStep, Zenon
  <2> QED
    BY <2>1, <2>2, Zenon
<1>11. /\ PastFlush(s)' => PastFlush(s)
       /\ Drained(s)' => Drained(s)
       /\ ~Wrote(s)'
  BY <1>1, <1>2, <1>4, <1>5, <1>8, Zenon DEF PastFlush, Drained, Wrote, Writing
<1>12. /\ l \in Places
       /\ asleep' \subseteq Sessions /\ owes' \subseteq Sessions /\ killing' \subseteq Sessions
  BY <1>1 DEF IInv, TypeOK, Places, GrlWaits
<1> QED
  BY <1>1, <1>4, <1>5, <1>6, <1>7, <1>9, <1>10, <1>11, <1>12, StakeStep, Zenon

(* unlockGlobalReadLock: the counters first, the session's own state last.   *)
LEMMA UnlockStep ==
  ASSUME IInv, NEW s \in Sessions, unlockGlobalReadLock(s)
  PROVE  IInv'
<1>1. /\ pc[s] \in {"unlock", "unlocked"}
      /\ UNCHANGED << protect_against_global_read_lock, waiting_for_read_lock, killed, stmt,
                      left, trx, row, undone, tab, stale, asleep, killing, protections >>
      /\ owes' \subseteq owes \cup {s}
  BY Zenon DEF unlockGlobalReadLock, At, own, tables, counters, wakeups
<1>2. /\ grl[s] # "NONE" /\ s \notin undone /\ ~Wrote(s)
      /\ ~(s \in trx /\ s \in Autocommit)
  BY <1>1 DEF IInv, Local, Placed, Staked, Marked, Opened
<1>3. PICK l \in {"unlocked", "gone", "endstmt"}, g \in {"NONE", "GOT", "MADE"},
           d \in {"EMPTY", "OK", "ERROR"} :
          /\ pc' = [pc EXCEPT ![s] = l] /\ grl' = [grl EXCEPT ![s] = g]
          /\ da' = [da EXCEPT ![s] = d]
          /\ pc[s] = "unlock" => /\ l = "unlocked" /\ g = grl[s]
                                 /\ global_read_lock' = global_read_lock - 1
                                 /\ global_read_lock_blocks_commit' =
                                        global_read_lock_blocks_commit
                                        - (IF grl[s] = "MADE" THEN 1 ELSE 0)
          /\ pc[s] = "unlocked" => /\ l # "unlocked" /\ g = "NONE"
                                   /\ UNCHANGED << global_read_lock,
                                                   global_read_lock_blocks_commit >>
          /\ d = da[s] \/ stmt[s] = "UNLOCK"
  <2>1. /\ grl[s] \in {"NONE", "GOT", "MADE"} /\ grl = [grl EXCEPT ![s] = grl[s]]
        /\ da[s] \in {"EMPTY", "OK", "ERROR"} /\ da = [da EXCEPT ![s] = da[s]]
    BY Zenon DEF IInv, TypeOK
  <2>2. CASE pc[s] = "unlock"
    <3>1. /\ pc' = [pc EXCEPT ![s] = "unlocked"] /\ grl' = grl /\ da' = da
          /\ global_read_lock' = global_read_lock - 1
          /\ global_read_lock_blocks_commit' = global_read_lock_blocks_commit
                 - (IF grl[s] = "MADE" THEN 1 ELSE 0)
      BY <2>2, Zenon DEF unlockGlobalReadLock, At, Goto, Blocked
    <3> QED
      BY <2>1, <2>2, <3>1, Zenon
  <2>3. CASE pc[s] = "unlocked"
    <3>1. /\ pc' = [pc EXCEPT ![s] = IF stmt[s] = "QUIT" THEN "gone" ELSE "endstmt"]
          /\ grl' = [grl EXCEPT ![s] = "NONE"]
          /\ da' = IF stmt[s] = "UNLOCK" THEN [da EXCEPT ![s] = "OK"] ELSE da
          /\ UNCHANGED << global_read_lock, global_read_lock_blocks_commit >>
      BY <2>3, Zenon DEF unlockGlobalReadLock, At, Goto, counters
    <3> QED
      BY <2>1, <2>3, <3>1, Zenon
  <2> QED
    BY <1>1, <2>2, <2>3, Zenon
<1>4. Others(s) /\ pc'[s] = l /\ grl'[s] = g /\ da'[s] = d
  BY <1>1, <1>3 DEF IInv, TypeOK, Others, Same
<1>5. ~Wrote(s)'
  BY <1>1, <1>2, <1>3, <1>4, Zenon DEF Wrote, Writing
<1>6. Local(s)'
  <2>1. Placed(s)'
    BY <1>1, <1>2, <1>3, <1>4, <1>5, Zenon DEF Placed, Wrote, Writing
  <2>2. Staked(s)' /\ Opened(s)' /\ Marked(s)'
    BY <1>1, <1>2, <1>3, <1>4, <1>5, Zenon DEF Staked, Opened, Marked
  <2> QED
    BY <2>1, <2>2, Zenon DEF Local
<1>7. KeepsTokens(s)
  BY <1>1, <1>2, <1>4, Zenon DEF KeepsTokens, HoldsJob, InCommit
<1>8. /\ s \in Owners <=> pc[s] = "unlock"
      /\ s \notin Owners'
      /\ s \in Blockers <=> pc[s] = "unlock" /\ grl[s] = "MADE"
      /\ s \notin Blockers'
      /\ s \notin Waiters /\ s \notin Waiters'
  BY <1>1, <1>2, <1>3, <1>4, Zenon DEF Owners, Blockers, Waiters
<1>9. /\ global_read_lock' = global_read_lock + In(s, Owners') - In(s, Owners)
      /\ global_read_lock_blocks_commit' =
             global_read_lock_blocks_commit + In(s, Blockers') - In(s, Blockers)
      /\ waiting_for_read_lock' = waiting_for_read_lock + In(s, Waiters') - In(s, Waiters)
  <2>1. /\ global_read_lock \in Nat /\ global_read_lock_blocks_commit \in Nat
        /\ waiting_for_read_lock \in Nat
    BY Zenon DEF IInv, TypeOK
  <2> QED
    BY <1>1, <1>3, <1>8, <2>1 DEF In
<1>10. ProtectionExcludesLock'
  BY <1>1, <1>4, <1>8, ExclusionStep, Zenon
<1>11. ~PastFlush(s)' /\ ~Drained(s)'
  BY <1>8, Zenon DEF PastFlush, Drained
<1>12. /\ l \in Places
       /\ asleep' \subseteq Sessions /\ owes' \subseteq Sessions /\ killing' \subseteq Sessions
  BY <1>1 DEF IInv, TypeOK, Places
<1> QED
  BY <1>1, <1>3, <1>4, <1>5, <1>6, <1>7, <1>9, <1>10, <1>11, <1>12, StakeStep, Zenon

-----------------------------------------------------------------------------
(* startWaitingGlobalReadLock at the end of the statement.                   *)
LEMMA ReleaseJobStep ==
  ASSUME IInv, NEW s \in Sessions, release_job(s)
  PROVE  IInv'
<1>1. /\ pc[s] = "release_job"
      /\ pc' = [pc EXCEPT ![s] = "endstmt"]
      /\ UNCHANGED << global_read_lock, global_read_lock_blocks_commit, waiting_for_read_lock,
                      grl, killed, stmt, left, trx, row, undone, da, tab, stale, asleep,
                      killing >>
      /\ owes' \subseteq owes \cup {s}
      /\ grl[s] = "NONE" =>
            /\ protect_against_global_read_lock' = protect_against_global_read_lock - 1
            /\ protections' = protections \ { Token(s, "job") }
  BY Zenon DEF release_job, startWaitingGlobalReadLock, At, Goto, own, tables
<1>2. /\ stmt[s] \in Protected /\ (s \in undone => da[s] = "ERROR" /\ s \notin trx)
      /\ stmt[s] = "CREATE_SELECT" /\ da[s] = "OK" => s \notin trx
      /\ s \in trx /\ s \in Autocommit => stmt[s] \in Writing
      /\ Opened(s)
  BY <1>1 DEF IInv, Local, Placed, Marked
<1>3. Token(s, "job") \in protections /\ grl[s] = "NONE"
  BY <1>1, <1>2 DEF IInv, Tokens, Covered, HoldsJob
<1>4. Others(s) /\ pc'[s] = "endstmt"
  BY <1>1 DEF IInv, TypeOK, Others, Same
<1>5. TypeOK'
  <2>1. protect_against_global_read_lock' \in Nat
    <3>1. protections # {} /\ protect_against_global_read_lock \in Nat
      BY <1>3 DEF IInv, TypeOK
    <3>2. protect_against_global_read_lock # 0
      BY <3>1, ZeroMeansNobody, Zenon
    <3> QED
      BY <1>1, <1>3, <3>1, <3>2
  <2> QED
    BY <1>1, <1>3, <2>1 DEF IInv, TypeOK, Places
<1>6. Local(s)'
  BY <1>1, <1>2, <1>3, <1>4 DEF Local, Placed, Staked, Opened, Wrote, Marked, Writing
<1>7. QuietMove(s)
  BY <1>1, <1>4, Zenon DEF QuietMove, Wrote
<1>8. ProtectionExcludesLock'
  BY <1>1, <1>3, <1>4, <1>7, QuietSets, ExclusionStep, Zenon
<1>9. Covered(s)'
  BY <1>4, Zenon DEF Covered, HoldsJob, InCommit
<1>10. \A p \in protections : p[1] = s /\ p[3] = "commit" => InCommit(s)'
  BY <1>1, CommitTokens, Zenon DEF InCommit
<1>11. pc'[s] \notin {"job", "wait_job"}
  BY <1>4, Zenon
<1> QED
  BY <1>1, <1>3, <1>4, <1>5, <1>6, <1>7, <1>8, <1>9, <1>10, <1>11, OneToken, Zenon

(* The same after a commit; an owner of the lock commits without a           *)
(* protection, and has none to give back.                                    *)
LEMMA ReleaseCommitStep ==
  ASSUME IInv, NEW s \in Sessions, release_commit(s)
  PROVE  IInv'
<1>1. /\ pc[s] \in {"release_commit", "release_create"}
      /\ UNCHANGED << global_read_lock, global_read_lock_blocks_commit, waiting_for_read_lock,
                      grl, killed, stmt, left, trx, row, undone, tab, stale, asleep, killing >>
      /\ owes' \subseteq owes \cup {s}
      /\ grl[s] # "NONE" => UNCHANGED << protect_against_global_read_lock, protections >>
      /\ grl[s] = "NONE" =>
            /\ protect_against_global_read_lock' = protect_against_global_read_lock - 1
            /\ protections' = protections \ { Token(s, "commit") }
  BY Zenon DEF release_commit, startWaitingGlobalReadLock, At, own, tables
<1>2. /\ pc[s] = "release_create" => stmt[s] = "CREATE_SELECT"
      /\ pc[s] = "release_commit" /\ stmt[s] = "CREATE_SELECT" => da[s] # "OK"
      /\ s \in undone => da[s] = "ERROR" /\ s \notin trx
      /\ stmt[s] = "CREATE_SELECT" /\ da[s] = "OK" /\ pc[s] = "release_create" => s \notin trx
      /\ ~(s \in trx /\ s \in Autocommit) /\ grl[s] # "GOT"
      /\ Opened(s)
  BY <1>1 DEF IInv, Local, Placed, Staked, Marked
<1>3. PICK l \in {"endstmt", "answer", "release_job"} :
          /\ pc' = [pc EXCEPT ![s] = l]
          /\ da' = da \/ (stmt[s] = "COMMIT" /\ da[s] # "ERROR" /\ da' = [da EXCEPT ![s] = "OK"])
          /\ l = "release_job" <=> pc[s] = "release_create"
          /\ l = "endstmt" => stmt[s] = "COMMIT"
  BY <1>2, Zenon DEF release_commit, startWaitingGlobalReadLock, At, Goto, AfterCommit
<1>4. /\ Others(s)
      /\ pc'[s] = l
      /\ da'[s] = da[s] \/ (stmt[s] = "COMMIT" /\ da[s] # "ERROR" /\ da'[s] = "OK")
  BY <1>1, <1>3 DEF IInv, TypeOK, Others, Same
<1>5. grl[s] = "NONE" => Token(s, "commit") \in protections
  BY <1>1, Zenon DEF IInv, Tokens, Covered, InCommit
<1>6. TypeOK'
  <2>1. protect_against_global_read_lock' \in Nat /\ protections' \subseteq protections
    <3>1. protect_against_global_read_lock \in Nat
      BY Zenon DEF IInv, TypeOK
    <3>2. CASE grl[s] = "NONE"
      <4>1. protect_against_global_read_lock # 0
        BY <1>5, <3>2, ZeroMeansNobody, Zenon
      <4>2. /\ protect_against_global_read_lock' = protect_against_global_read_lock - 1
            /\ protections' = protections \ { Token(s, "commit") }
        BY <1>1, <3>2, Zenon
      <4> QED
        BY <3>1, <4>1, <4>2
    <3>3. CASE grl[s] # "NONE"
      BY <1>1, <3>1, <3>3, Zenon
    <3> QED
      BY <3>2, <3>3, Zenon
  <2> QED
    BY <1>1, <1>3, <2>1 DEF IInv, TypeOK, Places
<1>7. Local(s)'
  <2>1. Placed(s)' /\ Staked(s)'
    BY <1>1, <1>2, <1>3, <1>4, Zenon DEF Placed, Staked, Protected
  <2>2. Opened(s)' /\ Marked(s)'
    BY <1>1, <1>2, <1>3, <1>4, Zenon DEF Opened, Wrote, Marked, Writing
  <2> QED
    BY <2>1, <2>2, Zenon DEF Local
<1>8. QuietMove(s)
  BY <1>1, <1>3, <1>4, Zenon DEF QuietMove, Wrote, Writing
<1>9. HoldsJob(s)' => HoldsJob(s)
  BY <1>1, <1>2, <1>3, <1>4, Zenon DEF HoldsJob
<1>10. CASE grl[s] # "NONE"
  <2>1. KeepsTokens(s)
    BY <1>1, <1>4, <1>9, <1>10, Zenon DEF KeepsTokens, InCommit
  <2> QED
    BY <1>1, <1>4, <1>6, <1>7, <1>8, <1>10, <2>1, QuietStep, Zenon DEF counters
<1>11. CASE grl[s] = "NONE"
  <2>1. ProtectionExcludesLock'
    BY <1>1, <1>4, <1>8, <1>11, QuietSets, ExclusionStep, Zenon
  <2>2. Covered(s)'
    <3>1. ~InCommit(s)'
      BY <1>4, Zenon DEF InCommit
    <3>2. HoldsJob(s)' => Token(s, "job")' \in protections' /\ grl'[s] = "NONE"
      <4>1. Token(s, "job")' = Token(s, "job") /\ Token(s, "job") # Token(s, "commit")
        BY <1>1, Zenon DEF Token
      <4>2. HoldsJob(s)' => Token(s, "job") \in protections
        BY <1>9, Zenon DEF IInv, Tokens, Covered
      <4> QED
        BY <1>1, <1>11, <4>1, <4>2, Zenon
    <3> QED
      BY <3>1, <3>2, Zenon DEF Covered
  <2>3. \A p \in protections : p[1] = s /\ p[3] = "commit" /\ p # Token(s, "commit")
                                   => InCommit(s)'
    BY CommitTokens, Zenon
  <2>4. pc'[s] \notin {"job", "wait_job"}
    BY <1>4, Zenon
  <2> QED
    BY <1>1, <1>4, <1>5, <1>6, <1>7, <1>8, <1>11, <2>1, <2>2, <2>3, <2>4, OneToken, Zenon
<1> QED
  BY <1>10, <1>11, Zenon

-----------------------------------------------------------------------------
(* wait_if_global_read_lock, whoever calls it: it fails, sleeps, lets an     *)
(* owner of the lock commit, or succeeds.                                    *)
Passes(is_not_commit, abort_on_refresh, s) ==
    ~must_wait(is_not_commit) \/ (abort_on_refresh /\ s \in stale)

WaitOutcome(s, abort_on_refresh, is_not_commit, from, at, ok, fail, for) ==
    \/ /\ pc' = [pc EXCEPT ![s] = fail]
       /\ da' = da \/ (is_not_commit /\ da' = [da EXCEPT ![s] = "ERROR"])
       /\ pc[s] = at \/ must_wait(is_not_commit)
       /\ UNCHANGED << protect_against_global_read_lock, protections >>
    \/ /\ pc' = [pc EXCEPT ![s] = at]
       /\ must_wait(is_not_commit)
       /\ pc[s] = at \/ grl[s] = "NONE"
       /\ UNCHANGED << da, protect_against_global_read_lock, protections >>
    \/ /\ pc' = [pc EXCEPT ![s] = ok]
       /\ ~is_not_commit /\ grl[s] # "NONE"
       /\ UNCHANGED << da, protect_against_global_read_lock, protections >>
    \/ /\ pc' = [pc EXCEPT ![s] = ok]
       /\ Passes(is_not_commit, abort_on_refresh, s)
       /\ pc[s] = at \/ grl[s] = "NONE" \/ ~must_wait(is_not_commit)
       /\ da' = da
       /\ IF abort_on_refresh
          THEN UNCHANGED << protect_against_global_read_lock, protections >>
          ELSE /\ protect_against_global_read_lock' = protect_against_global_read_lock + 1
               /\ protections' = protections \cup { Token(s, for) }

(* The definition of wait_if_global_read_lock has no other outcome.          *)
LEMMA WaitEffects ==
  ASSUME TypeOK, NEW s \in Sessions, NEW abort_on_refresh \in BOOLEAN,
         NEW is_not_commit \in BOOLEAN, NEW from, NEW at, NEW ok, NEW fail, NEW for,
         wait_if_global_read_lock(s, abort_on_refresh, is_not_commit, from, at, ok, fail, for)
  PROVE  /\ pc[s] \in {from, at}
         /\ UNCHANGED << global_read_lock, global_read_lock_blocks_commit,
                         waiting_for_read_lock, grl, killed, stmt, left, trx, row, undone, tab,
                         stale, owes >>
         /\ asleep' \subseteq Sessions /\ killing' \subseteq Sessions
         /\ WaitOutcome(s, abort_on_refresh, is_not_commit, from, at, ok, fail, for)
<1>1. /\ pc[s] \in {from, at}
      /\ UNCHANGED << global_read_lock, global_read_lock_blocks_commit, waiting_for_read_lock,
                      grl, killed, stmt, left, trx, row, undone, tab, stale, owes >>
  BY Zenon DEF wait_if_global_read_lock, At, own, tables
<1>2. asleep' \subseteq Sessions /\ killing' \subseteq Sessions
  BY Zenon DEF TypeOK, wait_if_global_read_lock, WaitLoop, MissedKill, Sleep
<1>3. \A waited \in BOOLEAN :
        /\ WaitLoop(s, abort_on_refresh, is_not_commit, waited, at, ok, fail, for)
        /\ da' = da
        /\ waited => pc[s] = at \/ must_wait(is_not_commit)
        /\ pc[s] = at \/ grl[s] = "NONE" \/ ~must_wait(is_not_commit)
        => WaitOutcome(s, abort_on_refresh, is_not_commit, from, at, ok, fail, for)
  BY Zenon DEF WaitLoop, WaitOutcome, Passes, Goto, Sleep
<1>4. must_wait(is_not_commit) \in BOOLEAN
  BY Zenon DEF must_wait
<1>5. grl[s] \in {"NONE", "GOT", "MADE"}
  BY Zenon DEF TypeOK
<1>6. WaitOutcome(s, abort_on_refresh, is_not_commit, from, at, ok, fail, for)
  <2>1. CASE /\ must_wait(is_not_commit) /\ grl[s] # "NONE"
             /\ Goto(s, IF is_not_commit THEN fail ELSE ok)
             /\ da' = IF is_not_commit THEN [da EXCEPT ![s] = "ERROR"] ELSE da
             /\ UNCHANGED << protect_against_global_read_lock, protections, asleep, killing >>
    BY <2>1, Zenon DEF WaitOutcome, Goto
  <2>2. CASE /\ ~(must_wait(is_not_commit) /\ grl[s] # "NONE")
             /\ WaitLoop(s, abort_on_refresh, is_not_commit, must_wait(is_not_commit),
                         at, ok, fail, for)
             /\ UNCHANGED << da, killing >>
    BY <1>3, <1>4, <2>2, Zenon
  <2>3. CASE /\ must_wait(is_not_commit) /\ grl[s] = "NONE"
             /\ MissedKill(s, at)
             /\ UNCHANGED << protect_against_global_read_lock, protections, da >>
    BY <2>3, Zenon DEF WaitOutcome, MissedKill, Sleep, Goto
  <2>4. CASE /\ pc[s] = at
             /\ WaitLoop(s, abort_on_refresh, is_not_commit, TRUE, at, ok, fail, for)
             /\ UNCHANGED << da, killing >>
    BY <1>3, <2>4, Zenon
  <2> QED
    BY <2>1, <2>2, <2>3, <2>4, Zenon DEF wait_if_global_read_lock, At
<1> QED
  BY <1>1, <1>2, <1>6, Zenon

-----------------------------------------------------------------------------
(* A statement that takes a protection for its whole execution.              *)
LEMMA WaitForJobStep ==
  ASSUME IInv, NEW s \in Sessions, wait_for_job(s)
  PROVE  IInv'
<1> DEFINE ok == AfterProtection(s)
<1>1. /\ pc[s] \in {"job", "wait_job"}
      /\ UNCHANGED << global_read_lock, global_read_lock_blocks_commit, waiting_for_read_lock,
                      grl, killed, stmt, left, trx, row, undone, tab, stale, owes >>
      /\ asleep' \subseteq Sessions /\ killing' \subseteq Sessions
      /\ WaitOutcome(s, FALSE, TRUE, "job", "wait_job", ok, "endstmt", "job")
  BY WaitEffects, Zenon DEF wait_for_job, IInv
<1>2. /\ stmt[s] \in Protected /\ da[s] = "EMPTY" /\ grl[s] # "GOT" /\ s \notin undone
      /\ pc[s] = "wait_job" => grl[s] = "NONE"
      /\ ~(s \in trx /\ s \in Autocommit)
  BY <1>1 DEF IInv, Local, Placed, Staked, Marked
<1>3. ok \in {"alter_schema", "open"} /\ (ok = "alter_schema" <=> stmt[s] = "ALTER_SCHEMA")
  BY Zenon DEF AfterProtection
<1> HIDE DEF ok
<1>4. PICK l \in {"endstmt", "wait_job", ok}, d \in {"EMPTY", "ERROR"} :
          /\ pc' = [pc EXCEPT ![s] = l] /\ da' = [da EXCEPT ![s] = d]
          /\ l # "endstmt" => d = "EMPTY"
          /\ l = "wait_job" => grl[s] = "NONE"
          /\ l # ok => UNCHANGED << protect_against_global_read_lock, protections >>
          /\ l = ok => /\ ~must_wait(TRUE)
                       /\ protect_against_global_read_lock' =
                              protect_against_global_read_lock + 1
                       /\ protections' = protections \cup { Token(s, "job") }
  <2>1. da = [da EXCEPT ![s] = "EMPTY"]
    BY <1>2 DEF IInv, TypeOK
  <2> QED
    BY <1>1, <1>2, <1>3, <2>1, Zenon DEF WaitOutcome, Passes
<1>5. /\ Others(s)
      /\ pc'[s] = l /\ da'[s] = d
  BY <1>1, <1>4 DEF IInv, TypeOK, Others, Same
<1>6. l \in {"endstmt", "wait_job", "alter_schema", "open"}
  BY <1>3, Zenon
<1>7. TypeOK'
  <2>1. /\ protect_against_global_read_lock' \in Nat
        /\ protections' \subseteq Sessions \X Nat \X {"job", "commit"}
    <3>1. /\ protect_against_global_read_lock \in Nat
          /\ protections \subseteq Sessions \X Nat \X {"job", "commit"}
          /\ Token(s, "job") \in Sessions \X Nat \X {"job", "commit"}
      BY Zenon DEF IInv, TypeOK, Token
    <3>2. CASE l = ok
      BY <1>4, <3>1, <3>2
    <3>3. CASE l # ok
      BY <1>4, <3>1, <3>3, Zenon
    <3> QED
      BY <3>2, <3>3, Zenon
  <2> QED
    BY <1>1, <1>4, <1>6, <2>1, Zenon DEF IInv, TypeOK, Places, GrlWaits
<1>8. Local(s)'
  BY <1>1, <1>2, <1>3, <1>4, <1>5, <1>6, Zenon
     DEF Local, Placed, Staked, Opened, Wrote, Marked, Writing, Protected
<1>9. QuietMove(s)
  BY <1>1, <1>4, <1>5, <1>6, Zenon DEF QuietMove, Wrote
<1>10. CASE l # ok
  <2>1. KeepsTokens(s)
    BY <1>1, <1>3, <1>5, <1>6, <1>10, Zenon DEF KeepsTokens, HoldsJob, InCommit
  <2> QED
    BY <1>1, <1>4, <1>5, <1>7, <1>8, <1>9, <1>10, <2>1, QuietStep, Zenon DEF counters
<1>11. CASE l = ok
  <2>1. Owners = {}
    <3>1. global_read_lock \in Nat /\ ~(global_read_lock > 0)
      BY <1>4, <1>11 DEF must_wait, IInv, TypeOK
    <3> QED
      BY <3>1, ZeroMeansNobody
  <2>2. grl[s] = "NONE"
    BY <1>1, <2>1, Zenon DEF Owners
  <2>3. Owners' = {}
    BY <1>1, <1>5, <1>9, <2>1, QuietSets, SameCount, Zenon DEF Others, Owners
  <2>4. ProtectionExcludesLock'
    BY <2>3, Zenon DEF ProtectionExcludesLock
  <2>5. Token(s, "job") \notin protections
    <3>1. Token(s, "job") = << s, left[s], "job" >>
      BY Zenon DEF Token
    <3>2. << s, left[s], "job" >> \notin protections
      BY <1>1, Zenon DEF IInv, Tokens, TokenOK
    <3> QED
      BY <3>1, <3>2, Zenon
  <2>6. Covered(s)'
    <3>1. Token(s, "job")' \in protections'
      BY <1>1, <1>4, <1>11, Zenon DEF Token
    <3>2. grl'[s] = "NONE" /\ ~InCommit(s)'
      BY <1>1, <1>5, <1>6, <2>2, Zenon DEF InCommit
    <3> QED
      BY <3>1, <3>2, Zenon DEF Covered
  <2>7. \A p \in protections : p[1] = s /\ p[3] = "commit" => InCommit(s)'
    BY <1>1, CommitTokens, Zenon DEF InCommit
  <2>8. pc'[s] \notin {"job", "wait_job"}
    BY <1>3, <1>5, <1>11, Zenon
  <2> QED
    BY <1>1, <1>4, <1>5, <1>7, <1>8, <1>9, <1>11, <2>4, <2>5, <2>6, <2>7, <2>8, OneToken, Zenon
<1> QED
  BY <1>10, <1>11, Zenon

(* commitTransaction waits only while some session blocks commits, and that  *)
(* session has waited until nobody who has written is left.                  *)
LEMMA BlockedHasNotWritten ==
  ASSUME IInv, NEW s \in Sessions, pc[s] = "commit", must_wait(FALSE)
  PROVE  ~Wrote(s)
<1>1. PICK u \in Blockers : TRUE
  <2>1. global_read_lock_blocks_commit \in Nat /\ global_read_lock_blocks_commit > 0
    BY Zenon DEF must_wait, IInv, TypeOK
  <2> QED
    BY <2>1, ZeroMeansNobody
<1>2. CASE u = s
  <2>1. grl[s] = "MADE"
    BY <1>1, <1>2, Zenon DEF Blockers
  <2> QED
    BY <2>1, Zenon DEF IInv, Local, Opened
<1>3. CASE u # s
  <2>1. u \in Sessions /\ (pc[u] = "wait_make" => grl[u] = "GOT")
    BY <1>1 DEF Blockers, IInv, Local, Staked
  <2>2. Drained(u)
    BY <1>1, <2>1, Zenon DEF Drained, Owners, Blockers
  <2> QED
    BY <1>3, <2>1, <2>2, Zenon DEF IInv, Flushed
<1> QED
  BY <1>2, <1>3, Zenon

(* commitTransaction asks for its protection.                                *)
LEMMA WaitForCommitStep ==
  ASSUME IInv, NEW s \in Sessions, wait_for_commit(s)
  PROVE  IInv'
<1>1. /\ pc[s] \in {"commit", "wait_commit"}
      /\ UNCHANGED << global_read_lock, global_read_lock_blocks_commit, waiting_for_read_lock,
                      grl, killed, stmt, left, trx, row, undone, tab, stale, owes >>
      /\ asleep' \subseteq Sessions /\ killing' \subseteq Sessions
      /\ WaitOutcome(s, FALSE, FALSE, "commit", "wait_commit", "committing", "rollback",
                     "commit")
  BY WaitEffects, Zenon DEF wait_for_commit, IInv
<1>2. /\ stmt[s] \in Writing \cup {"COMMIT"} /\ (stmt[s] = "COMMIT" => da[s] = "EMPTY")
      /\ grl[s] # "GOT" /\ s \notin undone
      /\ pc[s] = "wait_commit" => grl[s] = "NONE" /\ da[s] # "OK"
      /\ s \in trx /\ s \in Autocommit => stmt[s] \in Writing
      /\ Opened(s)
  BY <1>1 DEF IInv, Local, Placed, Staked, Marked
<1>3. must_wait(FALSE) => da[s] # "OK"
  BY <1>1, <1>2, BlockedHasNotWritten, Zenon DEF Wrote
<1>4. PICK l \in {"rollback", "wait_commit", "committing"} :
          /\ pc' = [pc EXCEPT ![s] = l] /\ da' = da
          /\ l \in {"rollback", "wait_commit"} => da[s] # "OK"
          /\ l = "wait_commit" => grl[s] = "NONE"
          /\ \/ UNCHANGED << protect_against_global_read_lock, protections >>
                /\ (l = "committing" => grl[s] # "NONE")
             \/ /\ l = "committing" /\ ~must_wait(FALSE)
                /\ protect_against_global_read_lock' = protect_against_global_read_lock + 1
                /\ protections' = protections \cup { Token(s, "commit") }
  BY <1>1, <1>2, <1>3, Zenon DEF WaitOutcome, Passes
<1>5. Others(s) /\ pc'[s] = l
  BY <1>1, <1>4, Zenon DEF IInv, TypeOK, Others, Same
<1>6. TypeOK'
  <2>1. /\ protect_against_global_read_lock' \in Nat
        /\ protections' \subseteq Sessions \X Nat \X {"job", "commit"}
    <3>1. /\ protect_against_global_read_lock \in Nat
          /\ protections \subseteq Sessions \X Nat \X {"job", "commit"}
          /\ Token(s, "commit") \in Sessions \X Nat \X {"job", "commit"}
      BY Zenon DEF IInv, TypeOK, Token
    <3>2. \/ UNCHANGED << protect_against_global_read_lock, protections >>
          \/ /\ protect_against_global_read_lock' = protect_against_global_read_lock + 1
             /\ protections' = protections \cup { Token(s, "commit") }
      BY <1>4, Zenon
    <3> QED
      BY <3>1, <3>2
  <2> QED
    BY <1>1, <1>4, <2>1 DEF IInv, TypeOK, Places, GrlWaits
<1>7. Local(s)'
  <2>1. Placed(s)' /\ Staked(s)'
    BY <1>1, <1>2, <1>4, <1>5, Zenon DEF Placed, Staked, Writing
  <2>2. Opened(s)' /\ Marked(s)'
    BY <1>1, <1>2, <1>4, <1>5, Zenon DEF Opened, Wrote, Marked, Writing
  <2> QED
    BY <2>1, <2>2, Zenon DEF Local
<1>8. QuietMove(s)
  BY <1>1, <1>4, <1>5, Zenon DEF QuietMove, Wrote
<1>9. HoldsJob(s)' => HoldsJob(s)
  BY <1>1, <1>4, <1>5, Zenon DEF HoldsJob
<1>10. CASE /\ UNCHANGED << protect_against_global_read_lock, protections >>
            /\ l = "committing" => grl[s] # "NONE"
  <2>1. KeepsTokens(s)
    BY <1>1, <1>5, <1>9, <1>10, Zenon DEF KeepsTokens, InCommit
  <2> QED
    BY <1>1, <1>5, <1>6, <1>7, <1>8, <1>10, <2>1, QuietStep DEF counters
<1>11. CASE /\ l = "committing" /\ ~must_wait(FALSE)
            /\ protect_against_global_read_lock' = protect_against_global_read_lock + 1
            /\ protections' = protections \cup { Token(s, "commit") }
  <2>1. \A u \in Owners : grl[u] # "MADE"
    <3>1. /\ global_read_lock \in Nat /\ global_read_lock_blocks_commit \in Nat
          /\ ~(global_read_lock > 0) \/ ~(global_read_lock_blocks_commit > 0)
      BY <1>11 DEF must_wait, IInv, TypeOK
    <3>2. Owners = {} \/ Blockers = {}
      BY <3>1, ZeroMeansNobody
    <3> QED
      BY <3>2, Zenon DEF Owners, Blockers
  <2>2. grl[s] = "NONE"
    <3>1. grl[s] \in {"NONE", "GOT", "MADE"} /\ (grl[s] # "NONE" => s \in Owners)
      BY <1>1 DEF IInv, TypeOK, Owners
    <3> QED
      BY <1>2, <2>1, <3>1, Zenon
  <2>3. ~InCommit(s) /\ InCommit(s)'
    BY <1>1, <1>5, <1>11, <2>2, Zenon DEF InCommit
  <2>4. Token(s, "commit") \notin protections
    <3>1. Token(s, "commit")[3] = "commit" /\ Token(s, "commit")[1] = s
      BY Zenon DEF Token
    <3> QED
      BY <2>3, <3>1, CommitTokens, Zenon
  <2>5. ProtectionExcludesLock'
    <3>1. Owners' = Owners
      BY <1>1, <1>5, <1>8, QuietSets, SameCount, Zenon DEF Others, Owners
    <3>2. ~(\E p \in { Token(s, "commit") } : p[3] = "job")
      BY DEF Token
    <3> QED
      BY <1>1, <1>11, <2>1, <3>1, <3>2, Zenon DEF IInv, ProtectionExcludesLock
  <2>6. Covered(s)'
    <3>1. Token(s, "commit")' = Token(s, "commit") /\ Token(s, "job")' = Token(s, "job")
      BY <1>1, Zenon DEF Token
    <3>2. HoldsJob(s)' => Token(s, "job") \in protections
      BY <1>9, Zenon DEF IInv, Tokens, Covered
    <3> QED
      BY <1>1, <1>11, <2>2, <3>1, <3>2, Zenon DEF Covered
  <2>7. pc'[s] \notin {"job", "wait_job"}
    BY <1>5, Zenon
  <2> QED
    BY <1>1, <1>5, <1>6, <1>7, <1>8, <1>11, <2>3, <2>4, <2>5, <2>6, <2>7, OneToken, Zenon
<1> QED
  BY <1>4, <1>10, <1>11, Zenon

-----------------------------------------------------------------------------
(* lockTables lets a statement through to the engine only if nobody has      *)
(* moved the version on since its table was opened.                          *)
LEMMA GrantedStep ==
  ASSUME IInv, NEW s \in Sessions, pc[s] \in {"lock", "recheck"}, Granted(s),
         Unseen(s), grl[s] = "NONE",
         UNCHANGED << counters, grl, killed, stmt, left, row, undone, tab, stale, asleep, owes,
                      killing, protections >>
  PROVE  IInv'
<1>1. /\ stmt[s] \in Writing /\ da[s] = "EMPTY" /\ s \notin undone /\ tab[s] # "closed"
  BY DEF IInv, Local, Placed, Marked, Opened
<1>2. PICK l \in {"engine", "release_job", "endstmt"} :
          /\ pc' = [pc EXCEPT ![s] = l]
          /\ l = "release_job" => stmt[s] \in Protected
          /\ da' = da \/ (l # "engine" /\ da' = [da EXCEPT ![s] = "ERROR"])
          /\ trx' = trx \cup {s}
  BY Zenon DEF Granted, Refused, Goto, AfterFailure
<1>3. TypeOK'
  BY <1>2 DEF IInv, TypeOK, Places, counters
<1>4. /\ Others(s)
      /\ pc'[s] = l
      /\ da'[s] = "EMPTY" \/ (l # "engine" /\ da'[s] = "ERROR")
  BY <1>1, <1>2 DEF IInv, TypeOK, Others, Same
<1>5. Local(s)'
  BY <1>1, <1>2, <1>4, Zenon DEF Local, Placed, Staked, Opened, Wrote, Marked
<1>6. QuietMove(s) /\ KeepsTokens(s)
  BY <1>2, <1>4, Zenon DEF QuietMove, KeepsTokens, HoldsJob, InCommit
<1> QED
  BY <1>3, <1>4, <1>5, <1>6, QuietStep, Zenon

(* lockTables asks whether it may write, without taking a protection.        *)
LEMMA LockTablesStep ==
  ASSUME IInv, NEW s \in Sessions, lockTables(s)
  PROVE  IInv'
<1>1. global_read_lock \in Nat /\ (global_read_lock = 0 => Unseen(s))
  BY ZeroMeansNobody, Zenon DEF IInv, TypeOK, Unseen, PastFlush
<1>2. pc[s] \in {"lock", "gate", "wait_lock", "recheck"} =>
          /\ stmt[s] \in Writing /\ da[s] = "EMPTY" /\ s \notin undone /\ tab[s] # "closed"
          /\ grl[s] # "GOT"
          /\ pc[s] \in {"wait_lock", "recheck"} => grl[s] = "NONE"
          /\ ~(s \in trx /\ s \in Autocommit)
  BY DEF IInv, Local, Placed, Staked, Marked, Opened
<1>3. CASE /\ At(s, "lock")
           /\ IF global_read_lock > 0 THEN Goto(s, "gate") /\ UNCHANGED << da, trx >>
                                      ELSE Granted(s)
           /\ UNCHANGED << counters, grl, killed, stmt, left, row, undone, tables,
                           wakeups, protections >>
  <2>1. /\ pc[s] = "lock"
        /\ UNCHANGED << counters, grl, killed, stmt, left, row, undone, tab, stale, asleep,
                        owes, killing, protections >>
    BY <1>3, Zenon DEF At, tables, wakeups
  <2>2. CASE global_read_lock > 0
    <3>1. pc' = [pc EXCEPT ![s] = "gate"] /\ UNCHANGED << da, trx >>
      BY <1>3, <2>2, Zenon DEF Goto
    <3>2. TypeOK'
      BY <2>1, <3>1 DEF IInv, TypeOK, Places, counters
    <3>3. Others(s) /\ pc'[s] = "gate"
      BY <2>1, <3>1 DEF IInv, TypeOK, Others, Same
    <3>4. Local(s)'
      BY <1>2, <2>1, <3>1, <3>3, Zenon DEF Local, Placed, Staked, Opened, Wrote, Marked
    <3>5. QuietMove(s) /\ KeepsTokens(s)
      BY <1>2, <2>1, <3>1, <3>3, Zenon DEF QuietMove, KeepsTokens, HoldsJob, InCommit, Wrote
    <3> QED
      BY <2>1, <3>2, <3>3, <3>4, <3>5, QuietStep, Zenon
  <2>3. CASE ~(global_read_lock > 0)
    <3>1. Granted(s) /\ Unseen(s)
      BY <1>1, <1>3, <2>3
    <3>2. grl[s] = "NONE"
      BY <1>1, <2>1, <2>3, ZeroMeansNobody DEF Owners
    <3> QED
      BY <2>1, <3>1, <3>2, GrantedStep, Zenon
  <2> QED
    BY <2>2, <2>3, Zenon
<1>4. CASE wait_if_global_read_lock(s, TRUE, TRUE, "gate", "wait_lock", "recheck",
                                    AfterFailure(s), "lock")
  <2>1. /\ pc[s] \in {"gate", "wait_lock"}
        /\ UNCHANGED << global_read_lock, global_read_lock_blocks_commit,
                        waiting_for_read_lock, grl, killed, stmt, left, trx, row, undone, tab,
                        stale, owes >>
        /\ asleep' \subseteq Sessions /\ killing' \subseteq Sessions
        /\ WaitOutcome(s, TRUE, TRUE, "gate", "wait_lock", "recheck", AfterFailure(s), "lock")
    BY <1>4, WaitEffects, Zenon DEF IInv
  <2>2. PICK l \in {"release_job", "endstmt", "wait_lock", "recheck"} :
            /\ pc' = [pc EXCEPT ![s] = l]
            /\ da' = da \/ (l \in {"release_job", "endstmt"} /\ da' = [da EXCEPT ![s] = "ERROR"])
            /\ l = "release_job" => stmt[s] \in Protected
            /\ UNCHANGED << protect_against_global_read_lock, protections >>
            /\ l = "recheck" => ~must_wait(TRUE) \/ s \in stale
            /\ l = "recheck" => pc[s] = "wait_lock" \/ grl[s] = "NONE" \/ ~must_wait(TRUE)
            /\ l = "wait_lock" => pc[s] = "wait_lock" \/ grl[s] = "NONE"
    BY <2>1, Zenon DEF WaitOutcome, Passes, AfterFailure
  <2>3. ~must_wait(TRUE) => Unseen(s) /\ grl[s] = "NONE"
    <3>1. ~must_wait(TRUE) => global_read_lock = 0
      BY <1>1 DEF must_wait
    <3> QED
      BY <1>1, <2>1, <3>1, ZeroMeansNobody, Zenon DEF Owners
  <2>4. TypeOK'
    BY <2>1, <2>2, Zenon DEF IInv, TypeOK, Places, GrlWaits
  <2>5. /\ Others(s)
        /\ pc'[s] = l
        /\ da'[s] = "EMPTY" \/ (l \in {"release_job", "endstmt"} /\ da'[s] = "ERROR")
    BY <1>2, <2>1, <2>2 DEF IInv, TypeOK, Others, Same
  <2>6. Local(s)'
    BY <1>2, <2>1, <2>2, <2>3, <2>5, Zenon DEF Local, Placed, Staked, Opened, Wrote, Marked
  <2>7. QuietMove(s) /\ KeepsTokens(s)
    BY <2>1, <2>2, <2>3, <2>5, Zenon DEF QuietMove, KeepsTokens, HoldsJob, InCommit, Wrote
  <2> QED
    BY <2>1, <2>2, <2>4, <2>5, <2>6, <2>7, QuietStep, Zenon DEF counters
<1>5. CASE /\ At(s, "recheck")
           /\ IF s \in stale THEN Refused(s) /\ UNCHANGED trx ELSE Granted(s)
           /\ UNCHANGED << counters, grl, killed, stmt, left, row, undone, tables,
                           wakeups, protections >>
  <2>1. /\ pc[s] = "recheck"
        /\ UNCHANGED << counters, grl, killed, stmt, left, row, undone, tab, stale, asleep,
                        owes, killing, protections >>
    BY <1>5, Zenon DEF At, tables, wakeups
  <2>2. CASE s \in stale
    <3>1. PICK l \in {"release_job", "endstmt"} :
              /\ pc' = [pc EXCEPT ![s] = l] /\ trx' = trx
              /\ l = "release_job" => stmt[s] \in Protected
              /\ da' = da \/ da' = [da EXCEPT ![s] = "ERROR"]
      BY <1>5, <2>2, Zenon DEF Refused, AfterFailure, Goto
    <3>2. TypeOK'
      BY <2>1, <3>1 DEF IInv, TypeOK, Places, counters
    <3>3. Others(s) /\ pc'[s] = l /\ da'[s] \in {"EMPTY", "ERROR"}
      <4>1. pc \in [Sessions -> Places] /\ DOMAIN da = Sessions
        BY Zenon DEF IInv, TypeOK
      <4>2. pc'[s] = l /\ \A t \in Sessions \ {s} : pc'[t] = pc[t]
        BY <3>1, <4>1, Zenon
      <4>3. da'[s] \in {"EMPTY", "ERROR"} /\ \A t \in Sessions \ {s} : da'[t] = da[t]
        BY <1>2, <2>1, <3>1, <4>1, Zenon
      <4> QED
        BY <2>1, <3>1, <4>2, <4>3, Zenon DEF Others, Same
    <3>4. Local(s)'
      BY <1>2, <2>1, <3>1, <3>3, Zenon DEF Local, Placed, Staked, Opened, Wrote, Marked
    <3>5. QuietMove(s) /\ KeepsTokens(s)
      BY <1>2, <2>1, <3>1, <3>3, Zenon DEF QuietMove, KeepsTokens, HoldsJob, InCommit, Wrote
    <3> QED
      BY <2>1, <3>2, <3>3, <3>4, <3>5, QuietStep, Zenon
  <2>3. CASE s \notin stale
    <3>1. Granted(s) /\ grl[s] = "NONE"
      BY <1>2, <1>5, <2>1, <2>3, Zenon
    <3>2. Unseen(s)
      BY <2>1, <2>3, Zenon DEF IInv, Flushed, Unseen
    <3> QED
      BY <2>1, <3>1, <3>2, GrantedStep, Zenon
  <2> QED
    BY <2>2, <2>3, Zenon
<1> QED
  BY <1>3, <1>4, <1>5, Zenon DEF lockTables

-----------------------------------------------------------------------------
(* Every step preserves IInv, one lemma for each action of Next.             *)
LEMMA NextIInv == IInv /\ [Next]_vars => IInv'
<1> SUFFICES ASSUME IInv, [Next]_vars
             PROVE  IInv'
  BY Zenon
<1>1. CASE UNCHANGED vars
  <2>1. /\ UNCHANGED << counters, grl, killed, pc, stmt, left, trx, row, undone, da, tab, stale,
                        asleep, owes, killing, protections >>
    BY <1>1, Zenon DEF vars, own, tables, wakeups
  <2>2. TypeOK' /\ \A t \in Sessions : Same(t)
    BY <2>1 DEF IInv, TypeOK, Same, counters
  <2> QED
    BY <2>1, <2>2, StillStep, Zenon
<1>2. CASE Next
  <2> SUFFICES ASSUME NEW s \in Sessions,
                      \/ execute(s) \/ cleanup(s) \/ Run(s) \/ engine_error(s)
                      \/ awake(s) \/ awake_signal(s)
               PROVE  IInv'
    BY <1>2, Zenon DEF Next
  <2>1. CASE Run(s)
    BY <2>1, SignalStep, LockStep, CloseCachedTablesStep, MakeStep, UnlockStep, WaitForJobStep,
       AlterSchemaStep, ReleaseJobStep, OpenTableStep, LockTablesStep, EngineStep,
       WaitForCommitStep, CommitPhaseOneStep, ReleaseCommitStep, RollbackStep, AutocommitStep,
       AnswerStep, CloseStep, Zenon DEF Run
  <2> QED
    BY <2>1, ExecuteStep, CleanupStep, EngineErrorStep, SignalStep, Zenon
<1> QED
  BY <1>1, <1>2, Zenon

(* IInv is an invariant.                                                     *)
THEOREM Invariance == Spec => []IInv
  BY InitIInv, NextIInv, PTL DEF Spec

(* The types of the variables, for any sessions, statements and budgets: the *)
(* four counters of locking/global.cc never go below zero.                   *)
THEOREM TypeCorrect == Spec => []TypeOK
<1>1. IInv => TypeOK
  BY Zenon DEF IInv
<1> QED
  BY <1>1, Invariance, PTL

(* The counters count the owners, the blockers of commits, the waiters and   *)
(* the protections, whatever FLUSH, UNLOCK, KILL and disconnection do.       *)
THEOREM CountersAreRight == Spec => []CountersAgree
<1>1. IInv => CountersAgree
  BY Zenon DEF IInv
<1> QED
  BY <1>1, Invariance, PTL

(* Statement protections and the lock exclude each other, and so do commit   *)
(* protections and a FLUSH TABLES WITH READ LOCK that has returned.          *)
THEOREM MutualExclusion == Spec => []ProtectionExcludesLock
<1>1. IInv => ProtectionExcludesLock
  BY Zenon DEF IInv
<1> QED
  BY <1>1, Invariance, PTL

(* While a client has FLUSH TABLES WITH READ LOCK, nobody else changes a     *)
(* table and only other owners of the lock commit.                           *)
THEOREM ReadLockIsQuiet == Spec => []FlushedMeansQuiet
<1>1. ASSUME IInv, NEW s \in Owners, grl[s] = "MADE", NEW t \in Sessions \ {s}
      PROVE  pc[t] # "engine" /\ (pc[t] = "committing" => grl[t] # "NONE")
  <2>1. s \in Sessions /\ Drained(s)
    BY <1>1, Zenon DEF Owners, Drained
  <2>2. pc[t] # "engine"
    BY <1>1, <2>1 DEF IInv, Flushed, Wrote
  <2>3. pc[t] = "committing" /\ grl[t] = "NONE" => protections # {}
    BY <1>1, Zenon DEF IInv, Tokens, Covered, InCommit
  <2>4. protections = {}
    BY <1>1, Zenon DEF IInv, ProtectionExcludesLock
  <2> QED
    BY <2>2, <2>3, <2>4, Zenon
<1>2. IInv => FlushedMeansQuiet
  BY <1>1, Zenon DEF FlushedMeansQuiet
<1> QED
  BY <1>2, Invariance, PTL

(* A statement the client is told succeeded has not been rolled back, by a   *)
(* commit that was held up or by one that failed.                            *)
THEOREM SuccessIsCommitted == Spec => []OkMeansCommitted
<1>1. IInv => OkMeansCommitted
  BY Zenon DEF IInv, Local, Marked, OkMeansCommitted, Answered
<1> QED
  BY <1>1, Invariance, PTL
===================================================================================
