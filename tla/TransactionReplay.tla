------------------------- MODULE TransactionReplay -------------------------
(***************************************************************************)
(* What a replica makes of the messages of TransactionMessages: the slave, *)
(* which reads the rows of InnoDB's replication log, and a consumer of the *)
(* stream.                                                                 *)
(***************************************************************************)
EXTENDS TransactionMessages, SequencesExt

\* QueueConsumer::convertToSQL, statement by statement: aggregate_sql and the
\* carryover segmented_sql
ConvertStatement(acc, st) ==
  CASE st.type = "ROLLBACK"           -> [aggregate |-> << >>, segmented |-> << >>]
    [] st.type = "ROLLBACK_STATEMENT" -> [acc EXCEPT !.segmented = << >>]
    [] OTHER ->
         LET data == st.data[st.type]
             all  == acc.segmented \o data.record
         IN IF data.end_segment
            THEN [aggregate |-> acc.aggregate \o all, segmented |-> << >>]
            ELSE [acc EXCEPT !.segmented = all]

convertToSQL(acc, m) == FoldLeft(ConvertStatement, acc, m.statement)

Convert(messages) ==
  FoldLeft(convertToSQL, [aggregate |-> << >>, segmented |-> << >>], messages)

\* processSingleMaster: the rows of one transaction, read by segment id from 1
\* until one is missing
SegmentsRead(rows) ==
  LET n == CHOOSE n \in 0..Len(rows) :
             /\ \A i \in 1..n : \E r \in Range(rows) : r.message.segment_id = i
             /\ ~ \E r \in Range(rows) : r.message.segment_id = n + 1
  IN [i \in 1..n |-> CHOOSE r \in Range(rows) : r.message.segment_id = i]

\* the two assertions after the loop
Readable(rows) ==
  LET read == SegmentsRead(rows)
  IN /\ read # << >>
     /\ Last(read).commit_id # 0
     /\ Convert([i \in DOMAIN read |-> read[i].message]).segmented = << >>

Replayed(rows) ==
  Convert([i \in DOMAIN SegmentsRead(rows) |-> SegmentsRead(rows)[i].message]).aggregate

\* a consumer of the stream applies the segments of a transaction as they come;
\* ROLLBACK takes back all of them, ROLLBACK_STATEMENT those of the statement
StreamReplayed(sent) ==
  LET of(id) == LET part == SelectSeq(sent, LAMBDA x : x.message.id = id)
                    acc  == Convert([i \in DOMAIN part |-> part[i].message])
                IN acc.aggregate \o acc.segmented
      last == Max({0} \cup {sent[i].message.id : i \in DOMAIN sent})
  IN FoldLeft(LAMBDA acc, id : acc \o of(id), << >>, [i \in 1..last |-> i])

\* ------------------------------ properties --------------------------------

\* What the slave rebuilds from the log rows of a committed transaction
\* (getMessage by segment id, convertToSQL, both assertions of
\* processSingleMaster) is exactly what the transaction changed on the master,
\* through segments, savepoints and failed statements - unless a statement
\* mixed kinds of change in one message ("mixed"), failed after it had pushed
\* a segment ("undone") or after it had finalized a message of its own
\* ("cut"), a bulk transaction was rolled back ("rollback") or a savepoint was
\* erased from the middle of the deque ("erased").
RebuiltFromLog ==
  \A i \in DOMAIN history :
    LET h == history[i]
    IN h.marks \cap {"mixed", "cut", "undone", "rollback", "erased"} = {} =>
         /\ h.rows # << >> => Readable(h.rows)
         /\ Replayed(h.rows) = h.changes

\* A consumer of the stream that applies every segment when it comes, and is
\* told that the engine undid something only by ROLLBACK and ROLLBACK_STATEMENT
\* messages, has at the end of a transaction what it changed and nothing of one
\* that was rolled back, and has been told that it ended - unless changes were
\* mixed, a statement was cut, a savepoint was erased from the middle of the
\* deque, one that lies before a segment already sent was restored ("restored"),
\* the last segment turned out empty ("empty_end"), the applier refused a segment
\* ("refused"), or the transaction was rolled back after a segment that ended
\* with a whole statement, or by a deadlock, or because its end segment was
\* refused: nothing is sent then ("unannounced").
RebuiltFromStream ==
  streamed.marks \cap {"mixed", "cut", "restored", "empty_end", "refused", "erased",
                       "unannounced"} = {} =>
    /\ StreamReplayed(streamed.sent) = streamed.changes
    /\ streamed.sent # << >> => Last(streamed.sent).end

\* The comment of QueueConsumer::processSingleMaster and its assertion: "The
\* last message in a transaction should always have a commit_id value larger
\* than 0", for every transaction that has rows in the log.
LastMessageHasCommitId ==
  \A i \in DOMAIN history :
    history[i].rows # << >> => Readable(history[i].rows)
=============================================================================
