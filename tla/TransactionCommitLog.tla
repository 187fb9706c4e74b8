------------------------ MODULE TransactionCommitLog ------------------------
(***************************************************************************)
(* The log of the server seen as a CommitLog: the refinement mapping from  *)
(* TransactionMessages, and that the one implements the other.             *)
(***************************************************************************)
EXTENDS TransactionMessages

\* the commit id a session has drawn and not yet made visible
Pending(t) == IF t.committing THEN CommitId(t.trx.rows) ELSE 0

Log == INSTANCE CommitLog WITH
         Clients <- Sessions,
         counter <- commit_id,
         pending <- [s \in Sessions |-> Pending(session[s])],
         flushed <- LoggedAt(flushed)

\* TransactionServices and InnoDB's log together implement CommitLog: a commit
\* id is drawn once per logged transaction, published with all its rows at
\* once, and recovery never reuses one that survived.
ImplementsCommitLog == Log!LogSpec
=============================================================================
