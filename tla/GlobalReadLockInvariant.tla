-------------------------- MODULE GlobalReadLockInvariant --------------------------
(***************************************************************************)
(* The inductive invariant of GlobalReadLock.  The invariants of the        *)
(* specification are not inductive: what makes them true is which sessions  *)
(* hold a protection at which place, and what a session that writes knows   *)
(* about the flushers that have gone past it.  IInv states both.            *)
(***************************************************************************)
EXTENDS GlobalReadLock

-----------------------------------------------------------------------------
(* The statement a thread is in, by the place it is at.                      *)
Writing == { "INSERT", "CREATE_SELECT", "UPDATE" }

Placed(s) ==
    /\ pc[s] \in {"lock_grl", "wait_grl", "make", "make_killed", "wait_make"} =>
           stmt[s] = "FTWRL"
    /\ pc[s] \in {"flush", "wait_flush"} => stmt[s] \in {"FTWRL", "FLUSH"}
    /\ pc[s] \in {"job", "wait_job", "release_job"} => stmt[s] \in Protected
    /\ pc[s] = "alter_schema" => stmt[s] = "ALTER_SCHEMA"
    /\ pc[s] \in {"open", "find", "wait_open", "lock", "gate", "wait_lock", "recheck",
                  "engine"} => stmt[s] \in Writing
    /\ pc[s] \in {"job", "wait_job", "alter_schema", "open", "find", "wait_open", "lock",
                  "gate", "wait_lock", "recheck", "engine"} => da[s] = "EMPTY"
    /\ pc[s] \in {"commit", "wait_commit", "committing", "rollback"}
           /\ stmt[s] \in {"COMMIT", "ROLLBACK"} => da[s] = "EMPTY"
    /\ pc[s] = "release_create" => stmt[s] = "CREATE_SELECT"
    /\ pc[s] = "release_commit" /\ stmt[s] = "CREATE_SELECT" => da[s] # "OK"
    /\ stmt[s] = "CREATE_SELECT" /\ da[s] = "OK"
           /\ pc[s] \in {"release_job", "release_create", "endstmt"} => s \notin trx
    /\ pc[s] \in {"commit", "wait_commit"} => stmt[s] \in Writing \cup {"COMMIT"}
    /\ s \in trx /\ s \in Autocommit =>
           /\ stmt[s] \in Writing
           /\ pc[s] \in {"engine", "release_job", "endstmt", "commit", "wait_commit",
                         "committing", "rollback"}
    /\ pc[s] \in {"rollback", "wait_commit"} => da[s] # "OK"

(* The personal stake in the global read lock, by place.                     *)
Staked(s) ==
    /\ pc[s] \in {"wait_grl", "wait_job", "wait_lock", "wait_commit", "recheck"} =>
           grl[s] = "NONE"
    /\ pc[s] \in {"flush", "wait_flush"} /\ stmt[s] = "FTWRL" => grl[s] # "NONE"
    /\ pc[s] \in {"make", "make_killed", "unlock", "unlocked"} => grl[s] # "NONE"
    /\ pc[s] = "wait_make" => grl[s] = "GOT"
    /\ grl[s] = "GOT" => /\ pc[s] \in {"flush", "wait_flush", "make", "wait_make",
                                       "make_killed", "unlock", "unlocked"}
                         /\ pc[s] \in {"flush", "wait_flush"} => stmt[s] = "FTWRL"

(* A session has written: it is in the engine, or it has been there and its  *)
(* statement is not over.  It has its table open, and no stake in the lock.  *)
Wrote(t) ==
    \/ pc[t] = "engine"
    \/ stmt[t] \in Writing /\ da[t] = "OK" /\ pc[t] # "close"

Opened(t) ==
    /\ pc[t] \in {"lock", "gate", "wait_lock", "recheck"} \/ Wrote(t) => tab[t] # "closed"
    /\ Wrote(t) => grl[t] = "NONE"

(* A flusher that gave up waiting for old instances was killed, and a        *)
(* statement whose commit failed has reported it.                            *)
Marked(s) ==
    /\ pc[s] = "make_killed" => Killed(s)
    /\ s \in undone => /\ da[s] = "ERROR" /\ s \notin trx
                       /\ pc[s] \in {"release_commit", "release_create", "release_job",
                                     "endstmt", "answer", "close"}

Local(s) == Placed(s) /\ Staked(s) /\ Opened(s) /\ Marked(s)

(* Which of its two protections a session holds.  A token of an earlier      *)
(* statement is one that was never given back.                               *)
HoldsJob(s) ==
    \/ /\ stmt[s] \in Protected
       /\ pc[s] \in {"alter_schema", "open", "find", "wait_open", "lock", "gate",
                     "wait_lock", "recheck", "engine", "release_job"}
    \/ /\ stmt[s] = "CREATE_SELECT" /\ da[s] = "OK"
       /\ pc[s] \in {"commit", "wait_commit", "committing", "rollback"}
    \/ stmt[s] = "CREATE_SELECT" /\ pc[s] = "release_create"

InCommit(s) ==
    pc[s] \in {"committing", "release_commit", "release_create"} /\ grl[s] = "NONE"

TokenOK(p) ==
    /\ p[2] >= left[p[1]]
    /\ p[2] = left[p[1]] /\ p[3] = "job" => pc[p[1]] \notin {"job", "wait_job"}
    /\ p[3] = "commit" => p[2] = left[p[1]] /\ InCommit(p[1])

Covered(s) ==
    /\ HoldsJob(s) => Token(s, "job") \in protections /\ grl[s] = "NONE"
    /\ InCommit(s) => Token(s, "commit") \in protections

Tokens ==
    /\ IsFiniteSet(protections)
    /\ \A p \in protections : TokenOK(p)
    /\ \A s \in Sessions : Covered(s)

(* A flusher that has moved the version on: every other session that has     *)
(* written keeps an old instance open, and one about to be let in will see   *)
(* that its version is stale.  Once the flusher has found no old instance,   *)
(* nobody is writing any more.                                               *)
PastFlush(s) == s \in Owners /\ (grl[s] = "MADE" \/ pc[s] # "flush")
Drained(s)   == s \in Owners /\ (grl[s] = "MADE" \/ pc[s] \in {"make", "wait_make"})

Flushed ==
    \A s, t \in Sessions : s # t =>
        /\ PastFlush(s) => /\ pc[t] = "recheck" => t \in stale
                           /\ Wrote(t) => tab[t] = "old"
        /\ Drained(s) => ~Wrote(t)

IInv ==
    /\ TypeOK
    /\ CountersAgree
    /\ \A s \in Sessions : Local(s)
    /\ Tokens
    /\ ProtectionExcludesLock
    /\ Flushed
=============================================================================
