--------------------- MODULE TransactionMessagesProofs ---------------------
(***************************************************************************)
(* Proofs about TransactionMessages, for any sessions, statements,         *)
(* savepoints, failures and crashes: the types, that the messages and      *)
(* InnoDB's log implement CommitLog, and that the segments of a committed  *)
(* transaction follow each other.  First, what the operations of           *)
(* TransactionServices and of InnoDB do to one session: each leaves it as  *)
(* SessionOK describes.  Then the shared state, the steps and the theorems. *)
(* The segments come last, with an invariant of their own.                 *)
(***************************************************************************)
EXTENDS TransactionCommitLog, TLAPS

-----------------------------------------------------------------------------
(* What the parts of a message are.                                          *)
LEMMA SequenceParts ==
  ASSUME NEW S, NEW q \in Seq(S), q # << >>
  PROVE  /\ q[Len(q)] \in S /\ Len(q) \in DOMAIN q
         /\ SubSeq(q, 1, Len(q) - 1) \in Seq(S)
         /\ Len(q) = Len(SubSeq(q, 1, Len(q) - 1)) + 1
<1>1. /\ q[Len(q)] \in S /\ Len(q) \in DOMAIN q /\ Len(q) \in Nat /\ Len(q) # 0
      /\ SubSeq(q, 1, Len(q) - 1) \in Seq(S)
  OBVIOUS
<1>2. Len(SubSeq(q, 1, Len(q) - 1)) = Len(q) - 1
  <2>0. Len(q) - 1 \in Nat /\ Len(q) - 1 <= Len(q)
    BY <1>1
  <2>1. PICK n \in Nat : n = Len(q) - 1 /\ n <= Len(q)
    BY <2>0, Zenon
  <2>2. Len(SubSeq(q, 1, n)) = n
    BY <2>1
  <2> QED
    BY <2>1, <2>2, Zenon
<1>3. Len(q) = (Len(q) - 1) + 1
  BY <1>1
<1> QED
  BY <1>1, <1>2, <1>3, Zenon

\* A new statement message.
LEMMA StatementIsTyped ==
  ASSUME NEW type \in Kinds \cup {"ROLLBACK", "ROLLBACK_STATEMENT"}
  PROVE  Statement(type) \in StatementType
<1>1. << >> \in Seq(Nat)
  OBVIOUS
<1>2. NoData \in Data
  BY <1>1, Zenon DEF NoData, Data
<1> QED
  BY <1>2, Zenon DEF Statement, StatementType

\* Appending keeps what was there.
LEMMA Appended ==
  ASSUME NEW S, NEW q \in Seq(S), NEW x \in S
  PROVE  /\ Append(q, x) \in Seq(S) /\ Append(q, x) # << >>
         /\ Len(Append(q, x)) = Len(q) + 1 /\ Len(q) \in Nat
         /\ \A i \in 1..Len(q) : Append(q, x)[i] = q[i]
         /\ Append(q, x)[Len(q) + 1] = x
<1>1. Len(Append(q, x)) = Len(q) + 1 /\ Len(q) \in Nat
  OBVIOUS
<1>2. Append(q, x) # << >>
  <2>1. Len(<< >>) = 0
    BY Zenon
  <2> QED
    BY <1>1, <2>1
<1> QED
  BY <1>1, <1>2

\* A transaction message, from its parts.
LEMMA MessageIsTyped ==
  ASSUME NEW id \in Nat, NEW n \in Nat, NEW q \in Seq(StatementType)
  PROVE  [id |-> id, segment_id |-> n, statement |-> q] \in Message
BY Zenon DEF Message

-----------------------------------------------------------------------------
(* What the operations on a session's messages do to the rest of it: at most *)
(* one row is added to the engine's transaction.                             *)
Same(t, u) ==
  /\ u \in SessionType
  /\ u.begun = t.begun /\ u.command = t.command /\ u.committing = t.committing
  /\ u.mark = t.mark /\ u.savepoints = t.savepoints
  /\ u.used = t.used /\ u.saves = t.saves
  /\ t.marks \subseteq u.marks

Grows(t, u, id) ==
  /\ Same(t, u)
  /\ u.trx.changes = t.trx.changes
  /\ \/ u.trx.rows = t.trx.rows
     \/ \E r \in LogRowType : r.commit_id = id /\ u.trx.rows = Append(t.trx.rows, r)

\* the message of a session that is there, and its open statement
Written(t) == t.message \in Message
Opened(t) == Written(t) /\ t.message.statement # << >>

\* the message has the number it had
SameNumber(t, u) == u.message.id = t.message.id /\ u.message.segment_id = t.message.segment_id

\* getActiveTransactionMessage leaves the engine's transaction alone.
LEMMA ActiveGrows ==
  ASSUME NEW t \in SessionType
  PROVE  LET u == Active(t)
         IN /\ Same(t, u) /\ u.trx = t.trx /\ Written(u) /\ u.open = t.open
            /\ IF t.message = NoMessage
               THEN u.message.segment_id = 1 /\ u.message.statement = << >>
               ELSE u = t
<1>1. CASE t.message # NoMessage
  <2>1. Active(t) = t
    BY <1>1, Zenon DEF Active
  <2>2. Written(t)
    BY <1>1, Zenon DEF Written, SessionType
  <2> QED
    BY <1>1, <2>1, <2>2, Zenon DEF Same
<1>2. CASE t.message = NoMessage
  <2>1. PICK m : m = [id |-> t.ids + 1, segment_id |-> 1, statement |-> << >>]
    BY Zenon
  <2>2. t.ids + 1 \in Nat /\ << >> \in Seq(StatementType)
    BY DEF SessionType
  <2>3. m \in Message
    BY <2>1, <2>2, MessageIsTyped, Zenon
  <2>4. Active(t) = [t EXCEPT !.message = m, !.ids = @ + 1]
    BY <1>2, <2>1, Zenon DEF Active
  <2>5. PICK u : u = [t EXCEPT !.message = m, !.ids = @ + 1]
    BY Zenon
  <2>6. u \in SessionType
    BY <2>2, <2>3, <2>5, Zenon DEF SessionType
  <2>7. u.message = m /\ u.open = t.open /\ u.trx = t.trx
    BY <2>5, Zenon DEF SessionType
  <2>8. Same(t, u)
    BY <2>5, <2>6, Zenon DEF SessionType, Same
  <2>9. u.message.segment_id = 1 /\ u.message.statement = << >>
    BY <2>1, <2>7
  <2> QED
    BY <1>2, <2>3, <2>4, <2>5, <2>7, <2>8, <2>9, Zenon DEF Written
<1> QED
  BY <1>1, <1>2, Zenon

\* the row of a message in the log
LEMMA RowIsTyped ==
  ASSUME NEW m \in Message, NEW end \in BOOLEAN, NEW id \in Nat
  PROVE  Row(m, end, id) \in LogRowType /\ Row(m, end, id).commit_id = id
BY Zenon DEF Row, LogRowType

\* another transaction in the engine
WithTrx(t, trx) == [t EXCEPT !.trx = trx]
WithRow(t, r) == [t EXCEPT !.trx.rows = Append(@, r)]

\* Replacing the engine's transaction changes nothing else of a session.
LEMMA SetTrx ==
  ASSUME NEW t \in SessionType, NEW trx \in Trx, NEW u, u = WithTrx(t, trx)
  PROVE  /\ Same(t, u) /\ u.trx = trx
         /\ u.message = t.message /\ u.open = t.open /\ u.marks = t.marks /\ u.sent = t.sent
<1>1. u \in SessionType
  BY Zenon DEF SessionType, WithTrx
<1>2. u.trx = trx /\ u.message = t.message /\ u.open = t.open /\ u.marks = t.marks
      /\ u.sent = t.sent
  BY Zenon DEF SessionType, WithTrx
<1> QED
  BY <1>1, <1>2, Zenon DEF SessionType, Same, WithTrx

\* A log row joins the engine's transaction and changes nothing else.
LEMMA AddRow ==
  ASSUME NEW t \in SessionType, NEW r \in LogRowType, NEW u,
         u = WithRow(t, r)
  PROVE  /\ Same(t, u) /\ u.trx.changes = t.trx.changes
         /\ u.trx.rows = Append(t.trx.rows, r)
         /\ u.message = t.message /\ u.open = t.open /\ u.marks = t.marks /\ u.sent = t.sent
<1>1. t.trx \in Trx
  BY Zenon DEF SessionType
<1>2. PICK trx : trx = [t.trx EXCEPT !.rows = Append(@, r)]
  BY Zenon
<1>3. trx \in Trx /\ trx.changes = t.trx.changes /\ trx.rows = Append(t.trx.rows, r)
  BY <1>1, <1>2, Appended, Zenon DEF Trx
<1>4. u = WithTrx(t, trx)
  BY <1>2, Zenon DEF WithTrx, WithRow
<1> QED
  BY <1>3, <1>4, SetTrx

\* the row's key is not in the table
NewKey(t, m) ==
  \A i \in DOMAIN t.trx.rows : ~(/\ t.trx.rows[i].message.id = m.id
                                 /\ t.trx.rows[i].message.segment_id = m.segment_id)

\* the row is inserted, if its key is new
Inserted(t, u, m, end, id) ==
  NewKey(t, m) => u.trx.rows = Append(t.trx.rows, Row(m, end, id))

\* ReplicationLog::apply adds one row at most.
LEMMA InsertRowGrows ==
  ASSUME NEW t \in SessionType, NEW m \in Message, NEW end \in BOOLEAN, NEW id \in Nat,
         NEW u, u = InsertRow(t, m, end, id)
  PROVE  /\ Grows(t, u, id)
         /\ u.message = t.message /\ u.open = t.open /\ u.marks = t.marks /\ u.sent = t.sent
         /\ Inserted(t, u, m, end, id)
<1>1. PICK r \in LogRowType : r = Row(m, end, id) /\ r.commit_id = id
  BY RowIsTyped, Zenon
<1>2. ASSUME u = t
      PROVE  /\ Grows(t, u, id)
             /\ u.message = t.message /\ u.open = t.open /\ u.marks = t.marks /\ u.sent = t.sent
  BY <1>2, Zenon DEF Grows, Same
<1>3. ASSUME u = WithRow(t, r)
      PROVE  /\ Grows(t, u, id)
             /\ u.message = t.message /\ u.open = t.open /\ u.marks = t.marks /\ u.sent = t.sent
             /\ u.trx.rows = Append(t.trx.rows, r)
  <2>1. /\ Same(t, u) /\ u.trx.changes = t.trx.changes /\ u.trx.rows = Append(t.trx.rows, r)
        /\ u.message = t.message /\ u.open = t.open /\ u.marks = t.marks /\ u.sent = t.sent
    BY <1>3, AddRow
  <2> QED
    BY <1>1, <2>1, Zenon DEF Grows
<1>4. NewKey(t, m) => u = WithRow(t, r)
  BY <1>1, Zenon DEF InsertRow, WithRow, NewKey
<1>5. u = t \/ u = WithRow(t, r)
  BY <1>1, Zenon DEF InsertRow, WithRow
<1> QED
  BY <1>1, <1>2, <1>3, <1>4, <1>5, Zenon DEF Inserted

\* pushTransactionMessage adds one row at most, whoever refuses the message.
LEMMA PushGrows ==
  ASSUME NEW t \in SessionType, NEW m \in Message, NEW end \in BOOLEAN, NEW id \in Nat,
         NEW refused \in BOOLEAN, NEW u, u = Push(t, m, end, id, refused)
  PROVE  /\ Grows(t, u, id) /\ u.message = t.message /\ u.open = t.open
         /\ Inserted(t, u, m, end, id)
<1>1. PICK l : l = InsertRow(t, m, end, id)
  BY Zenon
<1>2. /\ Grows(t, l, id) /\ l \in SessionType
      /\ l.message = t.message /\ l.open = t.open /\ l.marks = t.marks /\ l.sent = t.sent
      /\ Inserted(t, l, m, end, id)
  <2>1. /\ Grows(t, l, id)
        /\ l.message = t.message /\ l.open = t.open /\ l.marks = t.marks /\ l.sent = t.sent
        /\ Inserted(t, l, m, end, id)
    BY <1>1, InsertRowGrows
  <2> QED
    BY <2>1, Zenon DEF Grows, Same
<1>3. CASE refused
  <2>1. u = [l EXCEPT !.marks = @ \cup {"refused"}]
    BY <1>1, <1>3, Zenon DEF Push
  <2>2. u \in SessionType
    <3>1. l.marks \cup {"refused"} \in SUBSET Marks
      BY <1>2, Zenon DEF SessionType, Marks
    <3> QED
      BY <1>2, <2>1, <3>1, Zenon DEF SessionType
  <2>3. u.message = l.message /\ u.open = l.open /\ u.trx = l.trx
    BY <1>2, <2>1, Zenon DEF SessionType
  <2>4. Same(l, u)
    BY <1>2, <2>1, <2>2, Zenon DEF SessionType, Same
  <2> QED
    BY <1>2, <2>3, <2>4, Zenon DEF Grows, Same, Inserted
<1>4. CASE ~refused
  <2>1. PICK x : x = [message |-> m, end |-> end]
    BY Zenon
  <2>2. x \in Sent
    BY <2>1, Zenon DEF Sent
  <2>3. u = [l EXCEPT !.sent = Append(@, x)]
    BY <1>1, <1>4, <2>1, Zenon DEF Push
  <2>4. Append(l.sent, x) \in Seq(Sent)
    BY <1>2, <2>2, Appended, Zenon DEF SessionType
  <2>5. u \in SessionType
    BY <1>2, <2>3, <2>4, Zenon DEF SessionType
  <2>6. u.message = l.message /\ u.open = l.open /\ u.trx = l.trx
    BY <1>2, <2>3, Zenon DEF SessionType
  <2>7. Same(l, u)
    BY <1>2, <2>3, <2>5, Zenon DEF SessionType, Same
  <2> QED
    BY <1>2, <2>6, <2>7, Zenon DEF Grows, Same, Inserted
<1> QED
  BY <1>3, <1>4, Zenon

\* segmentTransactionMessage adds one row at most, without a commit id.
LEMMA SegmentGrows ==
  ASSUME NEW t \in SessionType, Written(t), NEW refused \in BOOLEAN,
         NEW u, u = Segment(t, refused)
  PROVE  /\ Grows(t, u, 0) /\ Written(u)
         /\ Inserted(t, u, t.message, FALSE, 0)
         /\ u.message.id = t.message.id /\ u.message.segment_id = t.message.segment_id + 1
         /\ u.message.statement = << >>
<1>1. PICK p : p = Push(t, t.message, FALSE, 0, refused)
  BY Zenon
<1> PICK m0 \in Message : m0 = t.message
  BY Zenon DEF Written
<1>2. /\ Grows(t, p, 0) /\ p \in SessionType
      /\ Inserted(t, p, t.message, FALSE, 0)
  <2>1. /\ Grows(t, p, 0)
        /\ Inserted(t, p, t.message, FALSE, 0)
    <3>1. PICK end \in BOOLEAN, id \in Nat : end = FALSE /\ id = 0
      BY Zenon
    <3>2. p = Push(t, m0, end, id, refused)
      BY <1>1, <3>1, Zenon
    <3>3. Grows(t, p, id) /\ Inserted(t, p, m0, end, id)
      BY <3>2, PushGrows
    <3> QED
      BY <3>1, <3>3, Zenon
  <2> QED
    BY <2>1, Zenon DEF Grows, Same
<1>3. PICK m : m = [id |-> t.message.id, segment_id |-> t.message.segment_id + 1,
                    statement |-> << >>]
  BY Zenon
<1>4. m \in Message
  <2>1. t.message.id \in Nat /\ t.message.segment_id + 1 \in Nat /\ << >> \in Seq(StatementType)
    BY DEF Written, Message
  <2> QED
    BY <1>3, <2>1, MessageIsTyped, Zenon
<1>5. u = [p EXCEPT !.message = m, !.open = FALSE]
  BY <1>1, <1>3, Zenon DEF Segment
<1>6. u \in SessionType
  BY <1>2, <1>4, <1>5, Zenon DEF SessionType
<1>7. u.message = m /\ u.trx = p.trx
  BY <1>2, <1>5, Zenon DEF SessionType
<1>8. Same(p, u)
  BY <1>2, <1>5, <1>6, Zenon DEF SessionType, Same
<1>9. Grows(t, u, 0) /\ Written(u)
  BY <1>2, <1>4, <1>7, <1>8, Zenon DEF Grows, Same, Written
<1>10. /\ u.message.id = t.message.id /\ u.message.segment_id = t.message.segment_id + 1
       /\ u.message.statement = << >>
  BY <1>3, <1>7
<1>11. Inserted(t, u, t.message, FALSE, 0)
  BY <1>2, <1>7, Zenon DEF Inserted
<1> QED
  BY <1>9, <1>10, <1>11, Zenon

\* another statement list in the message
WithStatements(t, q, open) == [t EXCEPT !.message.statement = q, !.open = open]

\* Replacing the statements of a message.
LEMMA SetStatements ==
  ASSUME NEW t \in SessionType, Written(t), NEW q \in Seq(StatementType), NEW open \in BOOLEAN,
         NEW u, u = WithStatements(t, q, open)
  PROVE  /\ Same(t, u) /\ u.trx = t.trx /\ Written(u) /\ u.message.statement = q /\ u.open = open
         /\ SameNumber(t, u)
<1>1. PICK m : m = [t.message EXCEPT !.statement = q]
  BY Zenon
<1>2. m \in Message /\ m.statement = q /\ m.id = t.message.id /\ m.segment_id = t.message.segment_id
  BY <1>1, Zenon DEF Written, Message
<1>3. u = [t EXCEPT !.message = m, !.open = open]
  BY <1>1, Zenon DEF WithStatements
<1>4. u \in SessionType
  BY <1>2, <1>3, Zenon DEF SessionType
<1>5. u.message = m /\ u.open = open /\ u.trx = t.trx
  BY <1>3, Zenon DEF SessionType
<1>6. Same(t, u)
  BY <1>3, <1>4, Zenon DEF SessionType, Same
<1> QED
  BY <1>2, <1>5, <1>6, Zenon DEF Written, SameNumber

\* a statement more
LEMMA AddStatementOpens ==
  ASSUME NEW t \in SessionType, Written(t),
         NEW type \in Kinds \cup {"ROLLBACK", "ROLLBACK_STATEMENT"},
         NEW u, u = AddStatement(t, type)
  PROVE  /\ Same(t, u) /\ u.trx = t.trx /\ Opened(u) /\ u.open = TRUE
         /\ SameNumber(t, u) /\ Len(u.message.statement) = Len(t.message.statement) + 1
<1>1. PICK q : q = Append(t.message.statement, Statement(type))
  BY Zenon
<1>2. t.message.statement \in Seq(StatementType)
  BY Zenon DEF Written, Message
<1>3. q \in Seq(StatementType) /\ q # << >> /\ Len(q) = Len(t.message.statement) + 1
  BY <1>1, <1>2, StatementIsTyped, Appended
<1>4. u = WithStatements(t, q, TRUE)
  BY <1>1, Zenon DEF AddStatement, WithStatements
<1>5. /\ Same(t, u) /\ u.trx = t.trx /\ Written(u) /\ u.message.statement = q /\ u.open = TRUE
      /\ SameNumber(t, u)
  BY <1>3, <1>4, SetStatements, Zenon
<1> QED
  BY <1>3, <1>5, Zenon DEF Opened

\* the data of the open statement
LEMMA OpenDataIsTyped ==
  ASSUME NEW t \in SessionType, Opened(t), NEW k \in Kinds
  PROVE  OpenData(t, k) \in Data
<1>1. t.message.statement \in Seq(StatementType) /\ t.message.statement # << >>
  BY Zenon DEF Opened, Written, Message
<1>2. t.message.statement[Len(t.message.statement)] \in StatementType
  BY <1>1, SequenceParts, Zenon
<1> QED
  BY <1>2, Zenon DEF OpenData, LastStatement, StatementType

\* A record added to the open statement stays in it.
LEMMA SetOpenDataKeeps ==
  ASSUME NEW t \in SessionType, Opened(t), NEW k \in Kinds, NEW data \in Data,
         NEW u, u = SetOpenData(t, k, data)
  PROVE  /\ Same(t, u) /\ u.trx = t.trx /\ Opened(u) /\ u.open = t.open
         /\ SameNumber(t, u) /\ Len(u.message.statement) = Len(t.message.statement)
<1>1. PICK q : q = t.message.statement
  BY Zenon
<1>2. q \in Seq(StatementType) /\ q # << >> /\ Len(q) \in DOMAIN q /\ q[Len(q)] \in StatementType
  <2>1. q \in Seq(StatementType) /\ q # << >>
    BY <1>1, Zenon DEF Opened, Written, Message
  <2> QED
    BY <2>1, SequenceParts, Zenon
<1>3. PICK st : st = [q[Len(q)] EXCEPT !.data = [q[Len(q)].data EXCEPT ![k] = data]]
  BY Zenon
<1>4. st \in StatementType
  <2>1. [q[Len(q)].data EXCEPT ![k] = data] \in [Kinds -> Data]
    BY <1>2, Zenon DEF StatementType
  <2> QED
    BY <1>2, <1>3, <2>1, Zenon DEF StatementType
<1>5. PICK p : p = [q EXCEPT ![Len(q)] = st]
  BY Zenon
<1>6. p \in Seq(StatementType) /\ p # << >> /\ Len(p) = Len(q)
  <2>1. p \in Seq(StatementType) /\ Len(p) = Len(q)
    BY <1>2, <1>4, <1>5
  <2>2. Len(q) # 0
    BY <1>2
  <2>3. Len(<< >>) = 0
    BY Zenon
  <2> QED
    BY <2>1, <2>2, <2>3, Zenon
<1>7. PICK m : m = [t.message EXCEPT !.statement = p]
  BY Zenon
<1>8. m \in Message /\ m.statement = p /\ m.id = t.message.id /\ m.segment_id = t.message.segment_id
  BY <1>6, <1>7, Zenon DEF Opened, Written, Message
<1>9. u = [t EXCEPT !.message = m]
  BY <1>1, <1>3, <1>5, <1>7, Zenon DEF SetOpenData
<1>10. u \in SessionType
  BY <1>8, <1>9, Zenon DEF SessionType
<1>11. u.message = m /\ u.open = t.open /\ u.trx = t.trx
  BY <1>9, Zenon DEF SessionType
<1>12. Same(t, u)
  BY <1>9, <1>10, Zenon DEF SessionType, Same
<1> QED
  BY <1>1, <1>6, <1>8, <1>11, <1>12, Zenon DEF Opened, Written, SameNumber

\* what may spoil replication is noted
WithMarks(t, marks) == [t EXCEPT !.marks = marks]

\* A mark changes nothing but the marks.
LEMMA SetMarks ==
  ASSUME NEW t \in SessionType, NEW marks \in SUBSET Marks, t.marks \subseteq marks,
         NEW u, u = WithMarks(t, marks)
  PROVE  Same(t, u) /\ u.trx = t.trx /\ u.message = t.message /\ u.open = t.open
<1>1. u \in SessionType
  BY Zenon DEF SessionType, WithMarks
<1>2. u.message = t.message /\ u.open = t.open /\ u.trx = t.trx
  BY Zenon DEF SessionType, WithMarks
<1> QED
  BY <1>1, <1>2, Zenon DEF SessionType, Same, WithMarks

\* Continuing a statement changes nothing but the marks.
LEMMA ContinueKeeps ==
  ASSUME NEW t \in SessionType, NEW k \in Kinds, NEW u, u = Continue(t, k)
  PROVE  Same(t, u) /\ u.trx = t.trx /\ u.message = t.message /\ u.open = t.open
<1>1. t.marks \cup {"mixed"} \in SUBSET Marks
  BY Zenon DEF SessionType, Marks
<1>2. u = t \/ u = WithMarks(t, t.marks \cup {"mixed"})
  BY Zenon DEF Continue, WithMarks
<1>3. CASE u = t
  BY <1>3, Zenon DEF Same
<1>4. CASE u = WithMarks(t, t.marks \cup {"mixed"})
  <2>1. PICK marks \in SUBSET Marks : marks = t.marks \cup {"mixed"}
    BY <1>1, Zenon
  <2>2. t.marks \subseteq marks /\ u = WithMarks(t, marks)
    BY <1>4, <2>1, Zenon
  <2> QED
    BY <2>2, SetMarks, Zenon
<1> QED
  BY <1>2, <1>3, <1>4, Zenon

\* several of these operations one after the other
LEMMA GrowsChain ==
  ASSUME NEW t, NEW u, NEW v, NEW id
  PROVE  /\ Same(t, u) /\ u.trx = t.trx => Grows(t, u, id)
         /\ Grows(t, u, id) /\ Same(u, v) /\ v.trx = u.trx => Grows(t, v, id)
         /\ Same(t, u) /\ u.trx = t.trx /\ Grows(u, v, id) => Grows(t, v, id)
         /\ Grows(t, u, id) => u \in SessionType
         /\ Same(t, u) => u \in SessionType
BY Zenon DEF Grows, Same

\* What logging a row change does to the message: it is begun, continued or segmented.
Begins(t, u) ==
  t.message = NoMessage /\ u.message.segment_id = 1 /\ u.trx.rows = t.trx.rows
Continues(t, u) ==
  /\ Written(t) /\ SameNumber(t, u) /\ u.trx.rows = t.trx.rows
  /\ Len(u.message.statement) = Len(t.message.statement) + (IF t.open THEN 0 ELSE 1)
Segments(t, u) ==
  /\ Written(t)
  /\ u.message.id = t.message.id /\ u.message.segment_id = t.message.segment_id + 1
  /\ \E m \in Message : /\ m.id = t.message.id /\ m.segment_id = t.message.segment_id
                        /\ Inserted(t, u, m, FALSE, 0)
Writes(t, u) == Begins(t, u) \/ Continues(t, u) \/ Segments(t, u)

\* A record more in the message is no change of this kind.
LEMMA WritesOn ==
  ASSUME NEW t, NEW u, NEW v, Writes(t, u), SameNumber(u, v), v.trx = u.trx,
         Len(v.message.statement) = Len(u.message.statement)
  PROVE  Writes(t, v)
BY Zenon DEF Writes, Begins, Continues, Segments, SameNumber, Inserted

\* Nor is a change of what the message does not tell.
LEMMA WritesFrom ==
  ASSUME NEW t, NEW v, NEW u, Writes(v, u), v.message = t.message, v.open = t.open,
         v.trx.rows = t.trx.rows
  PROVE  Writes(t, u)
<1>1. ASSUME Begins(v, u)
      PROVE  Begins(t, u)
  BY <1>1, Zenon DEF Begins
<1>2. ASSUME Continues(v, u)
      PROVE  Continues(t, u)
  BY <1>2, Zenon DEF Continues, SameNumber, Written
<1>3. ASSUME Segments(v, u)
      PROVE  Segments(t, u)
  <2>1. PICK m \in Message : /\ m.id = v.message.id /\ m.segment_id = v.message.segment_id
                             /\ Inserted(v, u, m, FALSE, 0)
    BY <1>3, Zenon DEF Segments
  <2>2. Inserted(t, u, m, FALSE, 0)
    BY <2>1, Zenon DEF Inserted, NewKey
  <2> QED
    BY <1>3, <2>1, <2>2, Zenon DEF Segments, Written
<1> QED
  BY <1>1, <1>2, <1>3, Zenon DEF Writes

\* get{Insert,Update,Delete}Statement: the session it leaves has an open statement
LEMMA GetStatementOpens ==
  ASSUME NEW t \in SessionType, t.open => Opened(t), NEW k \in Kinds, NEW refused \in BOOLEAN,
         NEW g, g = GetStatement(t, k, refused)
  PROVE  /\ Grows(t, g.session, 0) /\ Opened(g.session) /\ g.session.open = TRUE
         /\ g.next_segment_id \in Nat /\ Writes(t, g.session)
<1>1. Full(t) => Written(t)
  BY Zenon DEF Full, Written, SessionType
<1>2. CASE ~t.open
  <2>1. PICK u : u = IF Full(t) THEN Segment(t, refused) ELSE Active(t)
    BY Zenon
  <2>2. Grows(t, u, 0) /\ Written(u)
    <3>1. CASE Full(t)
      <4>1. u = Segment(t, refused) /\ Written(t)
        BY <1>1, <2>1, <3>1, Zenon
      <4> QED
        BY <4>1, SegmentGrows, Zenon
    <3>2. CASE ~Full(t)
      <4>1. Same(t, u) /\ u.trx = t.trx /\ Written(u)
        BY <2>1, <3>2, ActiveGrows, Zenon
      <4> QED
        BY <4>1, GrowsChain, Zenon
    <3> QED
      BY <3>1, <3>2, Zenon
  <2>3. PICK v : v = AddStatement(u, k)
    BY Zenon
  <2>4. /\ Same(u, v) /\ v.trx = u.trx /\ Opened(v) /\ v.open = TRUE
        /\ SameNumber(u, v) /\ Len(v.message.statement) = Len(u.message.statement) + 1
    <3>1. u \in SessionType
      BY <2>2, GrowsChain, Zenon
    <3>2. k \in Kinds \cup {"ROLLBACK", "ROLLBACK_STATEMENT"}
      BY Zenon
    <3> QED
      BY <2>2, <2>3, <3>1, <3>2, AddStatementOpens, Zenon
  <2>5. Grows(t, v, 0)
    BY <2>2, <2>4, GrowsChain, Zenon
  <2>6. g.session = v /\ g.next_segment_id = 1
    BY <1>2, <2>1, <2>3, Zenon DEF GetStatement
  <2>7. ASSUME Full(t) PROVE Segments(t, v)
    <3>1. /\ u.message.id = t.message.id /\ u.message.segment_id = t.message.segment_id + 1
          /\ Inserted(t, u, t.message, FALSE, 0)
      BY <1>1, <2>1, <2>7, SegmentGrows, Zenon
    <3>2. v.message.id = t.message.id /\ v.message.segment_id = t.message.segment_id + 1
      BY <2>4, <3>1, Zenon DEF SameNumber
    <3>3. Inserted(t, v, t.message, FALSE, 0)
      BY <2>4, <3>1, Zenon DEF Inserted
    <3> QED
      BY <1>1, <2>7, <3>2, <3>3, Zenon DEF Segments, Written
  <2>8. ASSUME ~Full(t), t.message = NoMessage PROVE Begins(t, v)
    <3>1. u.trx = t.trx /\ u.message.segment_id = 1
      BY <2>1, <2>8, ActiveGrows, Zenon
    <3> QED
      BY <2>4, <2>8, <3>1, Zenon DEF Begins, SameNumber
  <2>9. ASSUME ~Full(t), t.message # NoMessage PROVE Continues(t, v)
    <3>1. u = t /\ Written(t)
      BY <2>1, <2>2, <2>9, ActiveGrows, Zenon
    <3> QED
      BY <1>2, <2>4, <3>1, Zenon DEF Continues
  <2>10. Writes(t, v)
    BY <2>7, <2>8, <2>9, Zenon DEF Writes
  <2> QED
    BY <2>4, <2>5, <2>6, <2>10
<1>3. CASE t.open /\ Full(t)
  <2>1. PICK part : part = [OpenData(t, k) EXCEPT !.end_segment = FALSE]
    BY Zenon
  <2>2. part \in Data /\ part.segment_id + 1 \in Nat
    <3>1. PICK d : d = OpenData(t, k)
      BY Zenon
    <3>2. d \in Data
      BY <1>3, <3>1, OpenDataIsTyped, Zenon
    <3>3. part = [d EXCEPT !.end_segment = FALSE]
      BY <2>1, <3>1, Zenon
    <3>4. part \in Data
      BY <3>2, <3>3, Zenon DEF Data
    <3> QED
      BY <3>4 DEF Data
  <2>3. PICK c : c = Continue(t, k)
    BY Zenon
  <2>4. Same(t, c) /\ c.trx = t.trx /\ c.message = t.message
    BY <2>3, ContinueKeeps, Zenon
  <2>5. c \in SessionType /\ Opened(c)
    BY <1>3, <2>4, Zenon DEF Same, Opened, Written
  <2>6. PICK d : d = SetOpenData(c, k, part)
    BY Zenon
  <2>7. Same(c, d) /\ d.trx = c.trx /\ Opened(d) /\ SameNumber(c, d)
    BY <2>2, <2>5, <2>6, SetOpenDataKeeps
  <2>8. d \in SessionType /\ Written(d) /\ Same(t, d) /\ d.trx = t.trx
    BY <2>4, <2>7, Zenon DEF Same, Opened
  <2>9. PICK u : u = Segment(d, refused)
    BY Zenon
  <2>10. /\ Grows(d, u, 0) /\ Written(u) /\ Inserted(d, u, d.message, FALSE, 0)
         /\ u.message.id = d.message.id /\ u.message.segment_id = d.message.segment_id + 1
    BY <2>8, <2>9, SegmentGrows, Zenon
  <2>11. Grows(t, u, 0) /\ u \in SessionType
    BY <2>8, <2>10, GrowsChain, Zenon
  <2>12. PICK v : v = AddStatement(u, k)
    BY Zenon
  <2>13. Same(u, v) /\ v.trx = u.trx /\ Opened(v) /\ v.open = TRUE /\ SameNumber(u, v)
    <3>2. k \in Kinds \cup {"ROLLBACK", "ROLLBACK_STATEMENT"}
      BY Zenon
    <3> QED
      BY <2>10, <2>11, <2>12, <3>2, AddStatementOpens, Zenon
  <2>14. Grows(t, v, 0)
    BY <2>11, <2>13, GrowsChain, Zenon
  <2>15. g.session = v /\ g.next_segment_id = part.segment_id + 1
    BY <1>3, <2>1, <2>3, <2>6, <2>9, <2>12, Zenon DEF GetStatement
  <2>16. Segments(t, v)
    <3>1. d.message.id = t.message.id /\ d.message.segment_id = t.message.segment_id
      BY <2>4, <2>7, Zenon DEF SameNumber
    <3>2. v.message.id = t.message.id /\ v.message.segment_id = t.message.segment_id + 1
      BY <2>10, <2>13, <3>1, Zenon DEF SameNumber
    <3>3. Inserted(t, v, d.message, FALSE, 0)
      BY <2>8, <2>10, <2>13, Zenon DEF Inserted, NewKey
    <3> QED
      BY <1>1, <1>3, <2>8, <3>1, <3>2, <3>3, Zenon DEF Segments, Written
  <2> QED
    BY <2>2, <2>13, <2>14, <2>15, <2>16, Zenon DEF Writes
<1>4. CASE t.open /\ ~Full(t)
  <2>1. PICK c : c = Continue(t, k)
    BY Zenon
  <2>2. Same(t, c) /\ c.trx = t.trx /\ c.message = t.message /\ c.open = t.open
    BY <2>1, ContinueKeeps, Zenon
  <2>3. Grows(t, c, 0)
    BY <2>2, GrowsChain, Zenon
  <2>4. Opened(c) /\ c.open = TRUE
    <3>1. t.open = TRUE
      BY <1>4, Zenon DEF SessionType
    <3> QED
      BY <1>4, <2>2, <3>1, Zenon DEF Opened, Written
  <2>5. OpenData(t, k).segment_id \in Nat
    <3>1. OpenData(t, k) \in Data
      BY <1>4, OpenDataIsTyped, Zenon
    <3> QED
      BY <3>1, Zenon DEF Data
  <2>6. g.session = c /\ g.next_segment_id = OpenData(t, k).segment_id
    BY <1>4, <2>1, Zenon DEF GetStatement
  <2>7. Continues(t, c)
    <3>1. Len(c.message.statement) = Len(t.message.statement) + 0
      BY <1>4, <2>2 DEF Opened, Written, Message
    <3> QED
      BY <1>4, <2>2, <3>1, Zenon DEF Continues, SameNumber, Opened
  <2> QED
    BY <2>3, <2>4, <2>5, <2>6, <2>7, Zenon DEF Writes
<1> QED
  BY <1>2, <1>3, <1>4, Zenon

\* {insert,update,delete}Record
LEMMA LogRowGrows ==
  ASSUME NEW t \in SessionType, t.open => Opened(t), NEW k \in Kinds, NEW n \in Nat,
         NEW refused \in BOOLEAN, NEW u, u = LogRow(t, k, n, refused)
  PROVE  Grows(t, u, 0) /\ Opened(u) /\ Writes(t, u)
<1>1. PICK g : g = GetStatement(t, k, refused)
  BY Zenon
<1>2. /\ Grows(t, g.session, 0) /\ Opened(g.session) /\ g.session.open = TRUE
      /\ g.next_segment_id \in Nat /\ Writes(t, g.session)
  BY <1>1, GetStatementOpens, Zenon
<1>3. g.session \in SessionType
  BY <1>2, GrowsChain, Zenon
<1>4. PICK d : d = [segment_id |-> g.next_segment_id, end_segment |-> TRUE,
                    record |-> Append(OpenData(g.session, k).record, n)]
  BY Zenon
<1>5. d \in Data
  <2>1. OpenData(g.session, k) \in Data
    BY <1>2, <1>3, OpenDataIsTyped, Zenon
  <2>2. Append(OpenData(g.session, k).record, n) \in Seq(Nat)
    BY <2>1, Appended, Zenon DEF Data
  <2> QED
    BY <1>2, <1>4, <2>2, Zenon DEF Data
<1>6. PICK done : done = SetOpenData(g.session, k, d)
  BY Zenon
<1>7. /\ Same(g.session, done) /\ done.trx = g.session.trx /\ Opened(done)
      /\ SameNumber(g.session, done)
      /\ Len(done.message.statement) = Len(g.session.message.statement)
  BY <1>2, <1>3, <1>5, <1>6, SetOpenDataKeeps
<1>8. Grows(t, done, 0) /\ done \in SessionType /\ Writes(t, done)
  BY <1>2, <1>7, GrowsChain, WritesOn, Zenon
<1>9. CASE u = done
  BY <1>7, <1>8, <1>9, Zenon
<1>10. CASE u = [done EXCEPT !.open = FALSE, !.cut = TRUE]
  <2>1. u \in SessionType
    BY <1>8, <1>10, Zenon DEF SessionType
  <2>2. u.message = done.message /\ u.trx = done.trx
    BY <1>8, <1>10, Zenon DEF SessionType
  <2>3. Same(done, u)
    BY <1>8, <1>10, <2>1 DEF SessionType, Same
  <2>4. Grows(t, u, 0)
    BY <1>8, <2>2, <2>3, GrowsChain, Zenon
  <2>5. Writes(t, u)
    BY <1>8, <2>2, WritesOn, Zenon DEF SameNumber
  <2> QED
    BY <1>7, <2>2, <2>4, <2>5, Zenon DEF Opened, Written
<1>11. u = done \/ u = [done EXCEPT !.open = FALSE, !.cut = TRUE]
  BY <1>1, <1>4, <1>6, Zenon DEF LogRow
<1> QED
  BY <1>9, <1>10, <1>11, Zenon


-----------------------------------------------------------------------------
(* The inductive invariant.  Of one session: a transaction has at most one   *)
(* log row for every change it made, its end segment apart, and none but     *)
(* that one, which is pushed when it commits, has a commit id; savepoints    *)
(* lie one before the other, all before the statement that runs.             *)
RowsOK(t) ==
  /\ Len(t.trx.rows) <= t.used + (IF t.committing THEN 1 ELSE 0)
  /\ \A i \in DOMAIN t.trx.rows :
       t.trx.rows[i].commit_id = 0 \/ (t.committing /\ i = Len(t.trx.rows))

SavepointsOK(t) ==
  /\ ~t.committing =>
       \A i \in DOMAIN t.savepoints : Within(t.savepoints[i].mark, Lengths(t.trx))
  /\ \A i, j \in DOMAIN t.savepoints :
       i <= j => Within(t.savepoints[j].mark, t.savepoints[i].mark)
  /\ t.command # "none" =>
       \A i \in DOMAIN t.savepoints : Within(t.savepoints[i].mark, t.mark)

SessionOK(s, t) ==
  /\ t \in SessionType
  /\ t.command \in Commands[s] \cup {"none"}
  /\ t.committing => t.command = "none"
  /\ t.open => Opened(t)
  /\ t.used <= MaxChanges[s]
  /\ Within(t.mark, Lengths(t.trx))
  /\ RowsOK(t)
  /\ SavepointsOK(t)

-----------------------------------------------------------------------------
(* Lengths and marks.                                                        *)
LEMMA LengthsTyped ==
  ASSUME NEW trx \in Trx
  PROVE  /\ Lengths(trx) \in Mark
         /\ Lengths(trx).changes = Len(trx.changes) /\ Len(trx.changes) \in Nat
         /\ Lengths(trx).rows = Len(trx.rows) /\ Len(trx.rows) \in Nat
BY DEF Lengths, Mark, Trx

\* An empty transaction lies before every mark.
LEMMA NoTrxTyped ==
  /\ NoTrx \in Trx /\ NoTrx.rows = << >> /\ Lengths(NoTrx) \in Mark
  /\ \A m \in Mark : Within(Lengths(NoTrx), m)
<1>1. << >> \in Seq(Nat) /\ << >> \in Seq(LogRowType)
  OBVIOUS
<1>2. NoTrx \in Trx /\ NoTrx.rows = << >> /\ NoTrx.changes = << >>
  BY <1>1, Zenon DEF NoTrx, Trx
<1>3. Lengths(NoTrx) \in Mark
  BY <1>2, LengthsTyped, Zenon
<1>4. Lengths(NoTrx).changes = 0 /\ Lengths(NoTrx).rows = 0
  BY <1>2, LengthsTyped, Zenon
<1> QED
  BY <1>2, <1>3, <1>4 DEF Within, Mark

\* Within is an order.
LEMMA WithinChain ==
  ASSUME NEW l \in Mark, NEW m \in Mark, NEW n \in Mark
  PROVE  Within(l, l) /\ (Within(l, m) /\ Within(m, n) => Within(l, n))
BY DEF Within, Mark

\* The types of a session's marks.
LEMMA SavepointMarks ==
  ASSUME NEW t \in SessionType
  PROVE  /\ t.trx \in Trx /\ t.mark \in Mark /\ Lengths(t.trx) \in Mark
         /\ t.savepoints \in Seq(SavepointType)
         /\ \A i \in DOMAIN t.savepoints :
              t.savepoints[i] \in SavepointType /\ t.savepoints[i].mark \in Mark
<1>1. t.trx \in Trx /\ t.mark \in Mark /\ t.savepoints \in Seq(SavepointType)
  BY Zenon DEF SessionType
<1>2. \A i \in DOMAIN t.savepoints : t.savepoints[i] \in SavepointType
  BY <1>1
<1>3. \A i \in DOMAIN t.savepoints : t.savepoints[i].mark \in Mark
  BY <1>2, Zenon DEF SavepointType
<1> QED
  BY <1>1, <1>2, <1>3, LengthsTyped, Zenon

-----------------------------------------------------------------------------
(* What each operation makes of a session that is as it should be.           *)
LEMMA IdleOK ==
  ASSUME NEW s, NEW used \in Nat, used <= MaxChanges[s], NEW saves \in Nat,
         NEW u, u = Idle(used, saves)
  PROVE  SessionOK(s, u) /\ u.committing = FALSE
<1>1. << >> \in Seq(SavepointType) /\ << >> \in Seq(Sent) /\ {} \in SUBSET Marks
  OBVIOUS
<1>2. PICK trx : trx = NoTrx
  BY Zenon
<1>3. PICK mark : mark = Lengths(NoTrx)
  BY Zenon
<1>4. trx \in Trx /\ mark \in Mark /\ trx.rows = << >> /\ Within(mark, Lengths(trx))
  BY <1>2, <1>3, NoTrxTyped, Zenon
<1>5. u \in SessionType
  BY <1>1, <1>2, <1>3, <1>4, Zenon DEF Idle, SessionType
<1>6. /\ u.command = "none" /\ u.committing = FALSE /\ u.open = FALSE /\ u.used = used
      /\ u.mark = mark /\ u.trx = trx /\ u.savepoints = << >>
  BY <1>2, <1>3, Zenon DEF Idle
<1>7. RowsOK(u)
  <2>1. Len(u.trx.rows) = 0 /\ DOMAIN u.trx.rows = {}
    BY <1>4, <1>6
  <2> QED
    BY <1>6, <2>1 DEF RowsOK
<1>8. SavepointsOK(u)
  <2>1. DOMAIN u.savepoints = {}
    BY <1>6
  <2> QED
    BY <2>1, Zenon DEF SavepointsOK
<1> QED
  BY <1>4, <1>5, <1>6, <1>7, <1>8, Zenon DEF SessionOK

\* BEGIN
LEMMA BegunOK ==
  ASSUME NEW s, NEW t, SessionOK(s, t), NEW u, u = [t EXCEPT !.begun = TRUE]
  PROVE  SessionOK(s, u) /\ u.committing = t.committing
<1>1. t \in SessionType
  BY Zenon DEF SessionOK
<1>2. u \in SessionType
  BY <1>1, Zenon DEF SessionType
<1>3. /\ u.command = t.command /\ u.committing = t.committing /\ u.open = t.open
      /\ u.message = t.message /\ u.used = t.used /\ u.mark = t.mark /\ u.trx = t.trx
      /\ u.savepoints = t.savepoints
  BY <1>1, Zenon DEF SessionType
<1>4. RowsOK(u) /\ SavepointsOK(u)
  BY <1>3, Zenon DEF SessionOK, RowsOK, SavepointsOK
<1>5. Opened(t) => Opened(u)
  BY <1>3, Zenon DEF Opened, Written
<1> QED
  BY <1>2, <1>3, <1>4, <1>5, Zenon DEF SessionOK

\* a statement begins or ends: its mark is the end of the transaction or nothing
LEMMA StatementOK ==
  ASSUME NEW s, NEW t, SessionOK(s, t), ~t.committing, NEW u \in SessionType,
         u.command \in Commands[s] \cup {"none"},
         u.committing = FALSE, u.used = t.used, u.trx = t.trx, u.savepoints = t.savepoints,
         u.open => Opened(u),
         u.mark = Lengths(t.trx) \/ (u.mark = Lengths(NoTrx) /\ u.command = "none")
  PROVE  SessionOK(s, u)
<1>1. t \in SessionType
  BY Zenon DEF SessionOK
<1>2. Within(u.mark, Lengths(u.trx))
  BY <1>1, SavepointMarks, WithinChain, NoTrxTyped
<1>3. RowsOK(u)
  BY Zenon DEF SessionOK, RowsOK
<1>4. SavepointsOK(u)
  <2>1. /\ \A i \in DOMAIN t.savepoints : Within(t.savepoints[i].mark, Lengths(t.trx))
        /\ \A i, j \in DOMAIN t.savepoints :
             i <= j => Within(t.savepoints[j].mark, t.savepoints[i].mark)
    BY Zenon DEF SessionOK, SavepointsOK
  <2> QED
    BY <2>1, Zenon DEF SavepointsOK
<1> QED
  BY <1>2, <1>3, <1>4, Zenon DEF SessionOK

\* a log row more, or none
OneMore(q, p, id) ==
  \/ p = q
  \/ \E r \in LogRowType : r.commit_id = id /\ p = Append(q, r)

\* One row more: the others are where they were.
LEMMA RowsGrow ==
  ASSUME NEW q \in Seq(LogRowType), NEW p, NEW id, OneMore(q, p, id)
  PROVE  /\ Len(p) \in Nat /\ Len(q) \in Nat /\ Len(q) <= Len(p) /\ Len(p) <= Len(q) + 1
         /\ \A i \in DOMAIN p : p[i].commit_id = id \/ (i \in DOMAIN q /\ p[i] = q[i])
<1>1. CASE p = q
  BY <1>1
<1>2. ASSUME NEW r \in LogRowType, r.commit_id = id, p = Append(q, r)
      PROVE  /\ Len(p) \in Nat /\ Len(q) \in Nat /\ Len(q) <= Len(p) /\ Len(p) <= Len(q) + 1
             /\ \A i \in DOMAIN p : p[i].commit_id = id \/ (i \in DOMAIN q /\ p[i] = q[i])
  <2>1. /\ p \in Seq(LogRowType) /\ Len(p) = Len(q) + 1 /\ Len(q) \in Nat
        /\ \A i \in 1..Len(q) : p[i] = q[i]
        /\ p[Len(q) + 1] = r
    BY <1>2, Appended
  <2>2. DOMAIN p = 1..(Len(q) + 1) /\ DOMAIN q = 1..Len(q)
    BY <2>1
  <2>3. ASSUME NEW i \in DOMAIN p
        PROVE  p[i].commit_id = id \/ (i \in DOMAIN q /\ p[i] = q[i])
    <3>1. CASE i = Len(q) + 1
      BY <1>2, <2>1, <3>1, Zenon
    <3>2. CASE i \in 1..Len(q)
      BY <2>1, <2>2, <3>2, Zenon
    <3> QED
      BY <2>1, <2>2, <2>3, <3>1, <3>2
  <2> QED
    BY <2>1, <2>3
<1> QED
  BY <1>1, <1>2, Zenon DEF OneMore

\* a row changes: the engine has a change more, the log perhaps a row
LEMMA GrownOK ==
  ASSUME NEW s \in Sessions, NEW t, SessionOK(s, t), t.committing = FALSE, t.used < MaxChanges[s],
         NEW u \in SessionType,
         u.command = t.command, u.committing = FALSE, u.mark = t.mark,
         u.savepoints = t.savepoints, u.used = t.used + 1, u.open => Opened(u),
         Len(u.trx.changes) = Len(t.trx.changes) + 1, OneMore(t.trx.rows, u.trx.rows, 0)
  PROVE  SessionOK(s, u)
<1>1. t \in SessionType /\ t.used \in Nat /\ MaxChanges[s] \in Nat
  BY MessagesAssumption, Zenon DEF SessionOK, SessionType
<1>2. t.trx.rows \in Seq(LogRowType)
  BY <1>1, Zenon DEF SessionType, Trx
<1>3. /\ Len(u.trx.rows) \in Nat /\ Len(t.trx.rows) \in Nat
      /\ Len(t.trx.rows) <= Len(u.trx.rows) /\ Len(u.trx.rows) <= Len(t.trx.rows) + 1
      /\ \A i \in DOMAIN u.trx.rows :
           \/ u.trx.rows[i].commit_id = 0
           \/ i \in DOMAIN t.trx.rows /\ u.trx.rows[i] = t.trx.rows[i]
  BY <1>2, RowsGrow
<1>4. RowsOK(u)
  <2>1. Len(t.trx.rows) <= t.used /\ \A i \in DOMAIN t.trx.rows : t.trx.rows[i].commit_id = 0
    BY <1>1 DEF SessionOK, RowsOK
  <2>2. Len(u.trx.rows) <= u.used
    BY <1>1, <1>3, <2>1
  <2>3. \A i \in DOMAIN u.trx.rows : u.trx.rows[i].commit_id = 0
    BY <1>3, <2>1, Zenon
  <2>4. u.used + (IF u.committing THEN 1 ELSE 0) = u.used
    BY <1>1
  <2> QED
    BY <2>2, <2>3, <2>4, Zenon DEF RowsOK
<1>5. Within(Lengths(t.trx), Lengths(u.trx))
  <2>1. t.trx \in Trx /\ u.trx \in Trx
    BY <1>1, Zenon DEF SessionType
  <2>2. /\ Lengths(t.trx).changes = Len(t.trx.changes) /\ Len(t.trx.changes) \in Nat
        /\ Lengths(t.trx).rows = Len(t.trx.rows)
        /\ Lengths(u.trx).changes = Len(u.trx.changes)
        /\ Lengths(u.trx).rows = Len(u.trx.rows)
    BY <2>1, LengthsTyped, Zenon
  <2> QED
    BY <1>3, <2>2 DEF Within
<1>6. /\ Within(u.mark, Lengths(u.trx))
      /\ \A i \in DOMAIN u.savepoints : Within(u.savepoints[i].mark, Lengths(u.trx))
  <2>1. /\ Lengths(t.trx) \in Mark /\ Lengths(u.trx) \in Mark /\ t.mark \in Mark
        /\ \A i \in DOMAIN t.savepoints : t.savepoints[i].mark \in Mark
    BY <1>1, SavepointMarks, Zenon
  <2>2. /\ Within(t.mark, Lengths(t.trx))
        /\ \A i \in DOMAIN t.savepoints : Within(t.savepoints[i].mark, Lengths(t.trx))
    BY <1>1, Zenon DEF SessionOK, SavepointsOK
  <2>3. Within(u.mark, Lengths(u.trx))
    BY <1>5, <2>1, <2>2, WithinChain, Zenon
  <2>4. ASSUME NEW i \in DOMAIN t.savepoints
        PROVE  Within(t.savepoints[i].mark, Lengths(u.trx))
    BY <1>5, <2>1, <2>2, WithinChain
  <2> QED
    BY <2>3, <2>4, Zenon
<1>7. SavepointsOK(u)
  BY <1>6, Zenon DEF SessionOK, SavepointsOK
<1>8. u.used <= MaxChanges[s]
  BY <1>1
<1> QED
  BY <1>4, <1>6, <1>7, <1>8, Zenon DEF SessionOK

WithChange(t) == [t EXCEPT !.trx.changes = Append(@, t.used + 1), !.used = t.used + 1]
Logged(t, k) == { LogRow(WithChange(t), k, t.used + 1, refused) : refused \in BOOLEAN }

\* what a row change leaves alone
Carries(t, u) ==
  /\ u.command = t.command /\ u.mark = t.mark /\ u.savepoints = t.savepoints
  /\ t.marks \subseteq u.marks

\* A row change, logged, keeps a session sound.
LEMMA ChangedOK ==
  ASSUME NEW s \in Sessions, NEW t, SessionOK(s, t), t.command # "none", t.used < MaxChanges[s],
         NEW k \in Kinds, NEW u \in Logged(t, k)
  PROVE  /\ SessionOK(s, u) /\ t.committing = FALSE /\ u.committing = FALSE
         /\ Carries(t, u) /\ Opened(u) /\ Writes(t, u)
<1>1. t \in SessionType /\ t.committing = FALSE /\ t.used \in Nat /\ t.used + 1 \in Nat
  BY DEF SessionOK, SessionType
<1> PICK v : v = WithChange(t)
  BY Zenon
<1> PICK refused \in BOOLEAN : u = LogRow(v, k, t.used + 1, refused)
  BY Zenon DEF Logged
<1>2. PICK trx : trx = [t.trx EXCEPT !.changes = Append(@, t.used + 1)]
  BY Zenon
<1>3. /\ trx \in Trx /\ trx.rows = t.trx.rows
      /\ Len(trx.changes) = Len(t.trx.changes) + 1
  <2>1. t.trx \in Trx /\ t.trx.changes \in Seq(Nat)
    BY <1>1, Zenon DEF SessionType, Trx
  <2>2. /\ Append(t.trx.changes, t.used + 1) \in Seq(Nat)
        /\ Len(Append(t.trx.changes, t.used + 1)) = Len(t.trx.changes) + 1
    BY <1>1, <2>1, Appended
  <2> QED
    BY <1>2, <2>1, <2>2, Zenon DEF Trx
<1>4. v = [t EXCEPT !.trx = trx, !.used = t.used + 1]
  BY <1>2, Zenon DEF WithChange
<1>5. v \in SessionType
  BY <1>1, <1>3, <1>4, Zenon DEF SessionType
<1>6. /\ v.trx = trx /\ v.used = t.used + 1 /\ v.open = t.open /\ v.message = t.message
      /\ v.command = t.command /\ v.committing = FALSE /\ v.mark = t.mark
      /\ v.savepoints = t.savepoints /\ v.marks = t.marks
  BY <1>1, <1>4 DEF SessionType
<1>7. v.open => Opened(v)
  BY <1>6, Zenon DEF SessionOK, Opened, Written
<1>8. Grows(v, u, 0) /\ (u.open => Opened(u)) /\ Opened(u) /\ Writes(v, u)
  BY <1>1, <1>5, <1>7, LogRowGrows, Zenon
<1>9. /\ u \in SessionType /\ u.command = t.command /\ u.committing = FALSE /\ u.mark = t.mark
      /\ u.savepoints = t.savepoints /\ u.used = t.used + 1
      /\ u.trx.changes = trx.changes /\ OneMore(t.trx.rows, u.trx.rows, 0)
  BY <1>3, <1>6, <1>8, Zenon DEF Grows, Same, OneMore
<1>10. Len(u.trx.changes) = Len(t.trx.changes) + 1
  BY <1>3, <1>9, Zenon
<1>11. SessionOK(s, u)
  BY <1>1, <1>8, <1>9, <1>10, GrownOK, Zenon
<1>12. Carries(t, u)
  BY <1>6, <1>8, Zenon DEF Grows, Same, Carries
<1>13. Writes(t, u)
  <2>1. v.trx.rows = t.trx.rows
    BY <1>3, <1>6, Zenon
  <2> QED
    BY <1>6, <1>8, <2>1, WritesFrom, Zenon
<1> QED
  BY <1>1, <1>8, <1>9, <1>11, <1>12, <1>13, Zenon


\* a statement begins
LEMMA StartedOK ==
  ASSUME NEW s \in Sessions, NEW t, SessionOK(s, t), ~t.committing, NEW c \in Commands[s],
         NEW u, u = [t EXCEPT !.command = c, !.mark = Lengths(t.trx)]
  PROVE  SessionOK(s, u) /\ u.committing = FALSE
<1>1. t \in SessionType /\ t.committing = FALSE
  BY Zenon DEF SessionOK, SessionType
<1>2. PICK m \in Mark : m = Lengths(t.trx)
  BY <1>1, SavepointMarks, Zenon
<1>3. c \in Kinds \cup {"REPLACE", "none"}
  BY MessagesAssumption, Zenon
<1>4. u = [t EXCEPT !.command = c, !.mark = m]
  BY <1>2, Zenon
<1>5. u \in SessionType
  BY <1>1, <1>2, <1>3, <1>4, Zenon DEF SessionType
<1>6. /\ u.command = c /\ u.committing = FALSE /\ u.open = t.open /\ u.message = t.message
      /\ u.used = t.used /\ u.mark = m /\ u.trx = t.trx /\ u.savepoints = t.savepoints
  BY <1>1, <1>4, Zenon DEF SessionType
<1>7. u.open => Opened(u)
  BY <1>6, Zenon DEF SessionOK, Opened, Written
<1>8. u.command \in Commands[s] \cup {"none"} /\ u.mark = Lengths(t.trx)
  BY <1>2, <1>6, Zenon
<1> QED
  BY <1>5, <1>6, <1>7, <1>8, StatementOK, Zenon

\* a statement ends
Ended(t) == [t EXCEPT !.command = "none", !.mark = Lengths(NoTrx), !.open = FALSE, !.cut = FALSE]

\* The end of a statement inside a transaction keeps a session sound.
LEMMA EndedOK ==
  ASSUME NEW s \in Sessions, NEW t, SessionOK(s, t), t.command # "none", NEW u, u = Ended(t)
  PROVE  /\ SessionOK(s, u) /\ u.committing = FALSE /\ u.command = "none" /\ t.committing = FALSE
         /\ u.begun = t.begun
<1>1. t \in SessionType /\ t.committing = FALSE
  BY Zenon DEF SessionOK, SessionType
<1>2. PICK m \in Mark : m = Lengths(NoTrx)
  BY NoTrxTyped, Zenon
<1>3. u = [t EXCEPT !.command = "none", !.mark = m, !.open = FALSE, !.cut = FALSE]
  BY <1>2, Zenon DEF Ended
<1>4. u \in SessionType
  BY <1>1, <1>2, <1>3, Zenon DEF SessionType
<1>5. /\ u.command = "none" /\ u.committing = FALSE /\ u.open = FALSE /\ u.begun = t.begun
      /\ u.used = t.used /\ u.mark = m /\ u.trx = t.trx /\ u.savepoints = t.savepoints
  BY <1>1, <1>3, Zenon DEF SessionType
<1>6. u.command \in Commands[s] \cup {"none"} /\ u.mark = Lengths(NoTrx)
  BY <1>2, <1>5, Zenon
<1>7. SessionOK(s, u)
  BY <1>1, <1>4, <1>5, <1>6, StatementOK, Zenon
<1> QED
  BY <1>1, <1>5, <1>7, Zenon

\* the transaction waits for the engine's commit
LEMMA CommittingOK ==
  ASSUME NEW s \in Sessions, NEW t, SessionOK(s, t), NEW u \in SessionType,
         u.command = "none", u.committing = TRUE, u.open = FALSE, u.used = t.used,
         u.savepoints = t.savepoints, Within(u.mark, Lengths(u.trx)),
         Len(u.trx.rows) <= t.used + 1,
         \A i \in DOMAIN u.trx.rows : u.trx.rows[i].commit_id = 0 \/ i = Len(u.trx.rows)
  PROVE  SessionOK(s, u)
<1>1. RowsOK(u)
  BY Zenon DEF RowsOK
<1>2. SavepointsOK(u)
  BY Zenon DEF SessionOK, SavepointsOK
<1> QED
  BY <1>1, <1>2, Zenon DEF SessionOK


-----------------------------------------------------------------------------
(* The commit id of a transaction is that of its last row.                   *)
LEMMA GreatestIs ==
  ASSUME NEW S \in SUBSET Nat, NEW x \in S, \A y \in S : y <= x
  PROVE  (CHOOSE z \in S : \A y \in S : z >= y) = x
<1>1. x \in S /\ \A y \in S : x >= y
  BY Zenon
<1>2. PICK z : z = CHOOSE w \in S : \A y \in S : w >= y
  BY Zenon
<1>3. z \in S /\ \A y \in S : z >= y
  BY <1>1, <1>2, Zenon
<1>4. z \in Nat /\ x \in Nat /\ z >= x /\ x >= z
  BY <1>1, <1>3, Zenon
<1>5. z = x
  BY <1>4
<1> QED
  BY <1>2, <1>5, Zenon

JustTheLast(q) == \A i \in DOMAIN q : q[i].commit_id = 0 \/ i = Len(q)

\* The commit id of a transaction is that of its last row.
LEMMA CommitIdIs ==
  ASSUME NEW q \in Seq(LogRowType), JustTheLast(q), NEW x \in Nat,
         \/ q = << >> /\ x = 0
         \/ q # << >> /\ x = q[Len(q)].commit_id
  PROVE  CommitId(q) = x
<1>1. PICK S : S = {0} \cup {q[i].commit_id : i \in DOMAIN q}
  BY Zenon
<1>2. ASSUME NEW i \in DOMAIN q
      PROVE  q[i].commit_id \in Nat
  <2>1. q[i] \in LogRowType
    OBVIOUS
  <2> QED
    BY <2>1, Zenon DEF LogRowType
<1>3. ASSUME NEW y \in S
      PROVE  y = 0 \/ \E i \in DOMAIN q : y = q[i].commit_id
  BY <1>1, Zenon
<1>4. S \in SUBSET Nat
  BY <1>2, <1>3
<1>5. x \in S
  <2>1. CASE x = 0
    BY <1>1, <2>1, Zenon
  <2>2. CASE q # << >> /\ x = q[Len(q)].commit_id
    <3>1. Len(q) \in DOMAIN q
      BY <2>2, SequenceParts, Zenon
    <3> QED
      BY <1>1, <2>2, <3>1, Zenon
  <2> QED
    BY <2>1, <2>2, Zenon
<1>6. \A y \in S : y <= x
  <2>1. ASSUME NEW y \in S
        PROVE  y = 0 \/ y = x
    <3>1. CASE y = 0
      BY <3>1, Zenon
    <3>2. ASSUME NEW i \in DOMAIN q, y = q[i].commit_id
          PROVE  y = 0 \/ y = x
      <4>1. q # << >>
        OBVIOUS
      <4> QED
        BY <3>2, <4>1, Zenon DEF JustTheLast
    <3> QED
      BY <1>3, <3>1, <3>2, Zenon
  <2> QED
    BY <2>1
<1>7. (CHOOSE z \in S : \A y \in S : z >= y) = x
  BY <1>4, <1>5, <1>6, GreatestIs, Zenon
<1> QED
  BY <1>1, <1>7, Zenon DEF CommitId

\* The commit id of a transaction is a number, and 0 if no row has one.
LEMMA CommitIdTyped ==
  ASSUME NEW q \in Seq(LogRowType), JustTheLast(q)
  PROVE  /\ CommitId(q) \in Nat
         /\ (\A i \in DOMAIN q : q[i].commit_id = 0) => CommitId(q) = 0
         /\ q = << >> => CommitId(q) = 0
<1>1. CASE q = << >>
  <2>1. CommitId(q) = 0
    BY <1>1, CommitIdIs, Zenon
  <2> QED
    BY <2>1
<1>2. CASE q # << >>
  <2>1. Len(q) \in DOMAIN q /\ q[Len(q)] \in LogRowType
    BY <1>2, SequenceParts, Zenon
  <2>2. PICK x \in Nat : x = q[Len(q)].commit_id
    BY <2>1, Zenon DEF LogRowType
  <2>3. CommitId(q) = x
    BY <1>2, <2>2, CommitIdIs, Zenon
  <2> QED
    BY <1>2, <2>1, <2>2, <2>3, Zenon
<1> QED
  BY <1>1, <1>2, Zenon

\* the push of the end segment
LEMMA EndSegmentId ==
  ASSUME NEW q \in Seq(LogRowType), \A i \in DOMAIN q : q[i].commit_id = 0,
         NEW p, NEW id \in Nat, OneMore(q, p, id)
  PROVE  JustTheLast(p) /\ (CommitId(p) = 0 \/ CommitId(p) = id)
<1>1. CASE p = q
  <2>1. JustTheLast(q)
    BY Zenon DEF JustTheLast
  <2> QED
    BY <1>1, <2>1, CommitIdTyped, Zenon
<1>2. ASSUME NEW r \in LogRowType, r.commit_id = id, p = Append(q, r)
      PROVE  JustTheLast(p) /\ CommitId(p) = id
  <2>1. /\ p \in Seq(LogRowType) /\ p # << >> /\ Len(p) = Len(q) + 1 /\ Len(q) \in Nat
        /\ \A i \in 1..Len(q) : p[i] = q[i]
        /\ p[Len(q) + 1] = r
    BY <1>2, Appended
  <2>2. DOMAIN p = 1..(Len(q) + 1) /\ DOMAIN q = 1..Len(q)
    BY <2>1
  <2>3. JustTheLast(p)
    BY <2>1, <2>2 DEF JustTheLast
  <2>4. p[Len(p)].commit_id = id
    BY <1>2, <2>1, Zenon
  <2>5. CommitId(p) = id
    BY <2>1, <2>3, <2>4, CommitIdIs, Zenon
  <2> QED
    BY <2>3, <2>5, Zenon
<1> QED
  BY <1>1, <1>2, Zenon DEF OneMore


-----------------------------------------------------------------------------
(* The end of a transaction: what waits for the engine's commit.             *)
LEMMA NoRowHasId ==
  ASSUME NEW s, NEW t, SessionOK(s, t), ~t.committing
  PROVE  /\ t.trx.rows \in Seq(LogRowType) /\ Len(t.trx.rows) \in Nat
         /\ t.used \in Nat /\ Len(t.trx.rows) <= t.used
         /\ \A i \in DOMAIN t.trx.rows : t.trx.rows[i].commit_id = 0
         /\ JustTheLast(t.trx.rows)
<1>1. t \in SessionType /\ t.committing = FALSE
  BY Zenon DEF SessionOK, SessionType
<1>2. t.trx.rows \in Seq(LogRowType) /\ t.used \in Nat
  BY <1>1, Zenon DEF SessionType, Trx
<1>3. Len(t.trx.rows) <= t.used /\ \A i \in DOMAIN t.trx.rows : t.trx.rows[i].commit_id = 0
  BY <1>1, <1>2 DEF SessionOK, RowsOK
<1> QED
  BY <1>2, <1>3 DEF JustTheLast

\* there is nothing to push
LEMMA EmptyEndOK ==
  ASSUME NEW s \in Sessions, NEW t, SessionOK(s, t), t.command = "none", ~t.committing,
         NEW marks \in SUBSET Marks, NEW u,
         u = [t EXCEPT !.committing = TRUE, !.message = NoMessage, !.open = FALSE, !.marks = marks]
  PROVE  SessionOK(s, u) /\ CommitId(u.trx.rows) = 0
<1>1. t \in SessionType
  BY Zenon DEF SessionOK
<1>2. u \in SessionType
  BY <1>1, Zenon DEF SessionType
<1>3. /\ u.command = "none" /\ u.committing = TRUE /\ u.open = FALSE /\ u.used = t.used
      /\ u.mark = t.mark /\ u.trx = t.trx /\ u.savepoints = t.savepoints
  BY <1>1, Zenon DEF SessionType
<1>4. Within(u.mark, Lengths(u.trx))
  BY <1>3, Zenon DEF SessionOK
<1>5. /\ t.trx.rows \in Seq(LogRowType) /\ Len(t.trx.rows) \in Nat
      /\ t.used \in Nat /\ Len(t.trx.rows) <= t.used
      /\ \A i \in DOMAIN t.trx.rows : t.trx.rows[i].commit_id = 0
      /\ JustTheLast(t.trx.rows)
  BY NoRowHasId, Zenon
<1>6. Len(u.trx.rows) <= t.used + 1
  BY <1>3, <1>5
<1>7. \A i \in DOMAIN u.trx.rows : u.trx.rows[i].commit_id = 0 \/ i = Len(u.trx.rows)
  BY <1>3, <1>5, Zenon
<1>8. SessionOK(s, u)
  BY <1>2, <1>3, <1>4, <1>6, <1>7, CommittingOK, Zenon
<1> QED
  BY <1>3, <1>5, <1>8, CommitIdTyped, Zenon

\* A bound carried over one more row.
LEMMA AddOne ==
  ASSUME NEW k \in Nat, NEW m \in Nat, NEW n \in Nat, k <= m + 1, m <= n
  PROVE  k <= n + 1
OBVIOUS

\* Equal numbers are in order.
LEMMA EqualWithin ==
  ASSUME NEW m \in Nat, NEW n, n = m
  PROVE  m <= n
OBVIOUS

\* the end segment is pushed
Committing(p) == [p EXCEPT !.committing = TRUE, !.message = NoMessage, !.open = FALSE]
PushedEnd(t, id) == Committing(Push(t, t.message, TRUE, id, FALSE))

\* The end segment carries the commit id that was drawn, or is not inserted.
LEMMA EndSegmentOK ==
  ASSUME NEW s \in Sessions, NEW t, SessionOK(s, t), t.command = "none", ~t.committing,
         Written(t), NEW id \in Nat, NEW u, u = PushedEnd(t, id)
  PROVE  /\ SessionOK(s, u) /\ CommitId(u.trx.rows) \in {0, id}
         /\ u.committing = TRUE /\ t.marks \subseteq u.marks
         /\ Inserted(t, u, t.message, TRUE, id)
<1>1. t \in SessionType
  BY Zenon DEF SessionOK
<1> PICK p : p = Push(t, t.message, TRUE, id, FALSE)
  BY Zenon
<1> u = Committing(p)
  BY Zenon DEF PushedEnd
<1>2. Grows(t, p, id) /\ Inserted(t, p, t.message, TRUE, id)
  BY <1>1, PushGrows, Zenon DEF Written
<1>3. /\ p \in SessionType /\ p.command = "none" /\ p.used = t.used /\ p.mark = t.mark
      /\ p.savepoints = t.savepoints /\ p.trx.changes = t.trx.changes
      /\ OneMore(t.trx.rows, p.trx.rows, id) /\ t.marks \subseteq p.marks
  BY <1>2, Zenon DEF Grows, Same, OneMore
<1>4. u \in SessionType
  BY <1>3, Zenon DEF SessionType, Committing
<1>5. /\ u.command = "none" /\ u.committing = TRUE /\ u.open = FALSE /\ u.used = t.used
      /\ u.mark = t.mark /\ u.trx = p.trx /\ u.savepoints = t.savepoints /\ u.marks = p.marks
  BY <1>3, Zenon DEF SessionType, Committing
<1>6. /\ t.trx.rows \in Seq(LogRowType) /\ Len(t.trx.rows) \in Nat
      /\ t.used \in Nat /\ Len(t.trx.rows) <= t.used
      /\ \A i \in DOMAIN t.trx.rows : t.trx.rows[i].commit_id = 0
  BY NoRowHasId, Zenon
<1>7. JustTheLast(p.trx.rows) /\ (CommitId(p.trx.rows) = 0 \/ CommitId(p.trx.rows) = id)
  BY <1>3, <1>6, EndSegmentId, Zenon
<1>8. /\ Len(p.trx.rows) \in Nat /\ Len(t.trx.rows) <= Len(p.trx.rows)
      /\ Len(p.trx.rows) <= Len(t.trx.rows) + 1
  BY <1>3, <1>6, RowsGrow, Zenon
<1>9. Within(u.mark, Lengths(u.trx))
  <2>1. t.trx \in Trx /\ p.trx \in Trx /\ t.mark \in Mark
    BY <1>1, <1>3, Zenon DEF SessionType
  <2>2. /\ Lengths(t.trx) \in Mark /\ Lengths(p.trx) \in Mark
        /\ Lengths(t.trx).changes = Len(t.trx.changes) /\ Len(t.trx.changes) \in Nat
        /\ Lengths(t.trx).rows = Len(t.trx.rows)
        /\ Lengths(p.trx).changes = Len(p.trx.changes)
        /\ Lengths(p.trx).rows = Len(p.trx.rows)
    BY <2>1, LengthsTyped, Zenon
  <2>3. Within(Lengths(t.trx), Lengths(p.trx))
    <3>1. Lengths(p.trx).changes = Lengths(t.trx).changes /\ Lengths(t.trx).changes \in Nat
      BY <1>3, <2>2, Zenon
    <3>2. Lengths(t.trx).changes <= Lengths(p.trx).changes
      BY <3>1, EqualWithin, Zenon
    <3>3. Lengths(t.trx).rows <= Lengths(p.trx).rows
      <4>1. Len(t.trx.rows) <= Len(p.trx.rows)
        BY <1>8, Zenon
      <4>2. Lengths(t.trx).rows = Len(t.trx.rows) /\ Lengths(p.trx).rows = Len(p.trx.rows)
        BY <2>2, Zenon
      <4> QED
        BY <4>1, <4>2, Zenon
    <3> QED
      BY <3>2, <3>3, Zenon DEF Within
  <2>4. Within(t.mark, Lengths(t.trx))
    BY Zenon DEF SessionOK
  <2> QED
    BY <1>5, <2>1, <2>2, <2>3, <2>4, WithinChain, Zenon
<1>10. Len(u.trx.rows) <= t.used + 1
  <2>1. Len(p.trx.rows) <= t.used + 1
    BY <1>6, <1>8, AddOne, Zenon
  <2> QED
    BY <1>5, <2>1, Zenon
<1>11. \A i \in DOMAIN u.trx.rows : u.trx.rows[i].commit_id = 0 \/ i = Len(u.trx.rows)
  BY <1>5, <1>7, Zenon DEF JustTheLast
<1>12. SessionOK(s, u)
  BY <1>4, <1>5, <1>9, <1>10, <1>11, CommittingOK, Zenon
<1>13. Inserted(t, u, t.message, TRUE, id)
  BY <1>2, <1>5, Zenon DEF Inserted
<1> QED
  BY <1>3, <1>5, <1>7, <1>12, <1>13, Zenon

\* the ROLLBACK message of a bulk transaction is pushed
RolledBack(p, mark) ==
  [p EXCEPT !.command = "none", !.mark = mark, !.committing = TRUE,
            !.message = NoMessage, !.open = FALSE, !.marks = @ \cup {"rollback"}]
PushedRollback(t, m, id, refused) ==
  RolledBack(Push(WithTrx(t, NoTrx), m, TRUE, id, refused), Lengths(NoTrx))

\* So does the ROLLBACK message, which is alone in its transaction.
LEMMA RollbackMessageOK ==
  ASSUME NEW s \in Sessions, NEW t, SessionOK(s, t), NEW m \in Message, NEW id \in Nat,
         NEW refused \in BOOLEAN, NEW u, u = PushedRollback(t, m, id, refused)
  PROVE  SessionOK(s, u) /\ CommitId(u.trx.rows) \in {0, id} /\ "rollback" \in u.marks
<1> PICK v : v = WithTrx(t, NoTrx)
  BY Zenon
<1> PICK p : p = Push(v, m, TRUE, id, refused)
  BY Zenon
<1> u = RolledBack(p, Lengths(NoTrx))
  BY Zenon DEF PushedRollback
<1>1. t \in SessionType /\ t.used \in Nat
  BY Zenon DEF SessionOK, SessionType
<1>2. Same(t, v) /\ v.trx = NoTrx
  BY <1>1, NoTrxTyped, SetTrx, Zenon
<1>3. v \in SessionType
  BY <1>2, Zenon DEF Same
<1>4. Grows(v, p, id)
  BY <1>3, PushGrows, Zenon
<1>5. /\ p \in SessionType /\ p.used = t.used /\ p.savepoints = t.savepoints
      /\ OneMore(NoTrx.rows, p.trx.rows, id)
  BY <1>2, <1>4, Zenon DEF Grows, Same, OneMore
<1>6. PICK mark \in Mark : mark = Lengths(NoTrx)
  BY NoTrxTyped, Zenon
<1>7. u \in SessionType
  <2>1. p.marks \cup {"rollback"} \in SUBSET Marks
    BY <1>5, Zenon DEF SessionType, Marks
  <2>2. u = RolledBack(p, mark)
    BY <1>6, Zenon
  <2> QED
    BY <1>5, <2>1, <2>2, Zenon DEF SessionType, RolledBack
<1>8. /\ u.command = "none" /\ u.committing = TRUE /\ u.open = FALSE /\ u.used = t.used
      /\ u.mark = mark /\ u.trx = p.trx /\ u.savepoints = t.savepoints
      /\ u.marks = p.marks \cup {"rollback"}
  BY <1>5, <1>6, Zenon DEF SessionType, RolledBack
<1>9. NoTrx.rows \in Seq(LogRowType) /\ Len(NoTrx.rows) = 0 /\ DOMAIN NoTrx.rows = {}
  <2>1. << >> \in Seq(LogRowType) /\ Len(<< >>) = 0 /\ DOMAIN << >> = {}
    OBVIOUS
  <2> QED
    BY <2>1, NoTrxTyped, Zenon
<1>10. JustTheLast(p.trx.rows) /\ (CommitId(p.trx.rows) = 0 \/ CommitId(p.trx.rows) = id)
  BY <1>5, <1>9, EndSegmentId, Zenon
<1>11. /\ Len(p.trx.rows) \in Nat /\ Len(NoTrx.rows) \in Nat
       /\ Len(p.trx.rows) <= Len(NoTrx.rows) + 1 /\ Len(NoTrx.rows) <= t.used
  <2>1. /\ Len(p.trx.rows) \in Nat /\ Len(NoTrx.rows) \in Nat
        /\ Len(p.trx.rows) <= Len(NoTrx.rows) + 1
    BY <1>5, <1>9, RowsGrow, Zenon
  <2>2. Len(NoTrx.rows) <= t.used
    BY <1>1, <1>9
  <2> QED
    BY <2>1, <2>2, Zenon
<1>12. Within(u.mark, Lengths(u.trx))
  <2>1. u.trx \in Trx
    BY <1>7, Zenon DEF SessionType
  <2> QED
    BY <1>6, <1>8, <2>1, LengthsTyped, NoTrxTyped, Zenon
<1>13. Len(u.trx.rows) <= t.used + 1
  <2>1. Len(p.trx.rows) <= t.used + 1
    BY <1>1, <1>11, AddOne, Zenon
  <2> QED
    BY <1>8, <2>1, Zenon
<1>14. \A i \in DOMAIN u.trx.rows : u.trx.rows[i].commit_id = 0 \/ i = Len(u.trx.rows)
  BY <1>8, <1>10, Zenon DEF JustTheLast
<1>15. SessionOK(s, u)
  BY <1>7, <1>8, <1>12, <1>13, <1>14, CommittingOK, Zenon
<1> QED
  BY <1>8, <1>10, <1>15, Zenon


-----------------------------------------------------------------------------
(* What the engine undoes.                                                   *)
LEMMA Prefix ==
  ASSUME NEW S, NEW q \in Seq(S), NEW n \in Nat, n <= Len(q)
  PROVE  /\ SubSeq(q, 1, n) \in Seq(S) /\ Len(SubSeq(q, 1, n)) = n
         /\ DOMAIN SubSeq(q, 1, n) = 1..n /\ 1..n \subseteq DOMAIN q
         /\ \A i \in 1..n : SubSeq(q, 1, n)[i] = q[i]
OBVIOUS

\* Undoing to a mark leaves a transaction of just that length.
LEMMA UndoToTyped ==
  ASSUME NEW trx \in Trx, NEW m \in Mark, Within(m, Lengths(trx)),
         NEW u, u = UndoTo(trx, m)
  PROVE  /\ u \in Trx /\ Lengths(u) = m
         /\ Len(u.rows) \in Nat /\ Len(u.rows) <= Len(trx.rows)
         /\ \A i \in DOMAIN u.rows : i \in DOMAIN trx.rows /\ u.rows[i] = trx.rows[i]
<1>1. trx.changes \in Seq(Nat) /\ trx.rows \in Seq(LogRowType)
  BY Zenon DEF Trx
<1>2. m.changes \in Nat /\ m.rows \in Nat
  BY Zenon DEF Mark
<1>3. m.changes <= Len(trx.changes) /\ m.rows <= Len(trx.rows)
  BY LengthsTyped, Zenon DEF Within
<1>4. u.changes = SubSeq(trx.changes, 1, m.changes) /\ u.rows = SubSeq(trx.rows, 1, m.rows)
  BY Zenon DEF UndoTo
<1>5. u.changes \in Seq(Nat) /\ Len(u.changes) = m.changes
  <2>1. PICK S : S = Nat
    BY Zenon
  <2>2. trx.changes \in Seq(S)
    BY <1>1, <2>1, Zenon
  <2>3. /\ SubSeq(trx.changes, 1, m.changes) \in Seq(S)
        /\ Len(SubSeq(trx.changes, 1, m.changes)) = m.changes
    BY <1>2, <1>3, <2>2, Prefix
  <2> QED
    BY <1>4, <2>1, <2>3, Zenon
<1>6. /\ u.rows \in Seq(LogRowType) /\ Len(u.rows) = m.rows
      /\ \A i \in DOMAIN u.rows : i \in DOMAIN trx.rows /\ u.rows[i] = trx.rows[i]
  <2>1. /\ u.rows \in Seq(LogRowType) /\ Len(u.rows) = m.rows
        /\ DOMAIN u.rows = 1..m.rows /\ 1..m.rows \subseteq DOMAIN trx.rows
        /\ \A i \in 1..m.rows : u.rows[i] = trx.rows[i]
    BY <1>1, <1>2, <1>3, <1>4, Prefix
  <2> QED
    BY <2>1, Zenon
<1>7. u \in Trx
  BY <1>4, <1>5, <1>6, Zenon DEF UndoTo, Trx
<1>8. Lengths(u) = [changes |-> m.changes, rows |-> m.rows]
  BY <1>5, <1>6, Zenon DEF Lengths
<1>9. m = [changes |-> m.changes, rows |-> m.rows]
  BY Zenon DEF Mark
<1> QED
  BY <1>2, <1>3, <1>6, <1>7, <1>8, <1>9, Zenon

\* the rows of an undone transaction are some of those it had
LEMMA UndoneOK ==
  ASSUME NEW s \in Sessions, NEW t, SessionOK(s, t), ~t.committing,
         NEW m \in Mark, Within(m, Lengths(t.trx)),
         NEW u \in SessionType,
         u.command = "none", u.committing = FALSE, u.open = FALSE, u.used = t.used,
         u.mark = Lengths(NoTrx), u.trx = UndoTo(t.trx, m),
         \A i \in DOMAIN u.savepoints : Within(u.savepoints[i].mark, m),
         \A i, j \in DOMAIN u.savepoints :
           i <= j => Within(u.savepoints[j].mark, u.savepoints[i].mark)
  PROVE  SessionOK(s, u)
<1>1. t \in SessionType /\ t.trx \in Trx
  BY Zenon DEF SessionOK, SessionType
<1>2. /\ u.trx \in Trx /\ Lengths(u.trx) = m
      /\ Len(u.trx.rows) \in Nat /\ Len(u.trx.rows) <= Len(t.trx.rows)
      /\ \A i \in DOMAIN u.trx.rows : i \in DOMAIN t.trx.rows /\ u.trx.rows[i] = t.trx.rows[i]
  BY <1>1, UndoToTyped
<1>3. /\ Len(t.trx.rows) \in Nat /\ t.used \in Nat /\ Len(t.trx.rows) <= t.used
      /\ \A i \in DOMAIN t.trx.rows : t.trx.rows[i].commit_id = 0
  BY NoRowHasId, Zenon
<1>4. RowsOK(u)
  <2>1. Len(u.trx.rows) <= u.used /\ u.used + (IF u.committing THEN 1 ELSE 0) = u.used
    BY <1>2, <1>3
  <2>2. \A i \in DOMAIN u.trx.rows : u.trx.rows[i].commit_id = 0
    BY <1>2, <1>3, Zenon
  <2> QED
    BY <2>1, <2>2, Zenon DEF RowsOK
<1>5. SavepointsOK(u)
  BY <1>2, Zenon DEF SavepointsOK
<1>6. Within(u.mark, Lengths(u.trx))
  BY <1>2, NoTrxTyped, Zenon
<1> QED
  BY <1>4, <1>5, <1>6, Zenon DEF SessionOK

\* the open statement, if there is one, is taken out of the message, at most
Withdraws(t, u) ==
  IF t.open
  THEN /\ Written(u) /\ SameNumber(t, u)
       /\ Len(t.message.statement) <= Len(u.message.statement) + 1
  ELSE u.message = t.message

\* rollbackStatementMessage: no statement is open
LEMMA RollbackStatementMessageCloses ==
  ASSUME NEW t \in SessionType, t.open => Opened(t), NEW u, u = RollbackStatementMessage(t)
  PROVE  Same(t, u) /\ u.trx = t.trx /\ u.open = FALSE /\ Withdraws(t, u)
<1>1. CASE ~t.open
  <2>1. u = t /\ t.open = FALSE
    BY <1>1, Zenon DEF RollbackStatementMessage, SessionType
  <2> QED
    BY <2>1, Zenon DEF Same, Withdraws
<1>2. CASE t.open
  <2>1. PICK rest : rest = OtherStatements(t.message)
    BY Zenon
  <2>2. rest \in Seq(StatementType) /\ Len(t.message.statement) = Len(rest) + 1
    <3>1. t.message.statement \in Seq(StatementType) /\ t.message.statement # << >>
      BY <1>2, Zenon DEF Opened, Written, Message
    <3> QED
      BY <2>1, <3>1, SequenceParts, Zenon DEF OtherStatements
  <2>3. Append(rest, Statement("ROLLBACK_STATEMENT")) \in Seq(StatementType)
    BY <2>2, StatementIsTyped, Appended, Zenon
  <2>4. PICK q : /\ q \in {rest, Append(rest, Statement("ROLLBACK_STATEMENT"))}
                 /\ u = WithStatements(t, q, FALSE)
    BY <1>2, <2>1, Zenon DEF RollbackStatementMessage, WithStatements
  <2>5. q \in Seq(StatementType)
    BY <2>2, <2>3, <2>4, Zenon
  <2>6. Written(t)
    BY <1>2, Zenon DEF Opened
  <2>7. PICK open \in BOOLEAN : open = FALSE
    BY Zenon
  <2>8. u = WithStatements(t, q, open)
    BY <2>4, <2>7, Zenon
  <2>9. /\ Same(t, u) /\ u.trx = t.trx /\ u.open = open
        /\ Written(u) /\ u.message.statement = q /\ SameNumber(t, u)
    BY <2>5, <2>6, <2>8, SetStatements
  <2>10. Len(t.message.statement) <= Len(q) + 1
    <3>1. Len(Append(rest, Statement("ROLLBACK_STATEMENT"))) = Len(rest) + 1 /\ Len(rest) \in Nat
      BY <2>2
    <3>2. Len(q) = Len(rest) \/ Len(q) = Len(rest) + 1
      BY <2>4, <3>1, Zenon
    <3> QED
      BY <2>2, <3>1, <3>2
  <2> QED
    BY <1>2, <2>7, <2>9, <2>10, Zenon DEF Withdraws
<1> QED
  BY <1>1, <1>2, Zenon


\* a statement fails
Undone(t) ==
  [RollbackStatementMessage(UndoStatement(t)) EXCEPT
     !.command = "none", !.mark = Lengths(NoTrx), !.cut = FALSE]

\* A failed statement, undone, leaves a session sound.
LEMMA FailedOK ==
  ASSUME NEW s \in Sessions, NEW t, SessionOK(s, t), t.command # "none", NEW u, u = Undone(t)
  PROVE  /\ SessionOK(s, u) /\ u.committing = FALSE /\ u.command = "none" /\ t.committing = FALSE
         /\ u.open = FALSE /\ u.trx = UndoTo(t.trx, t.mark) /\ u.savepoints = t.savepoints
         /\ t.marks \subseteq u.marks
         /\ Len(t.trx.rows) > t.mark.rows => "undone" \in u.marks
         /\ Withdraws(t, u)
<1>1. t \in SessionType /\ t.committing = FALSE /\ t.trx \in Trx /\ t.mark \in Mark
  BY Zenon DEF SessionOK, SessionType
<1>2. PICK trx : trx = UndoTo(t.trx, t.mark)
  BY Zenon
<1>3. trx \in Trx
  <2>1. Within(t.mark, Lengths(t.trx))
    BY Zenon DEF SessionOK
  <2> QED
    BY <1>1, <1>2, <2>1, UndoToTyped, Zenon
<1>4. PICK marks : marks = t.marks \cup (IF Len(t.trx.rows) > t.mark.rows THEN {"undone"} ELSE {})
                                   \cup (IF t.cut THEN {"cut"} ELSE {})
  BY Zenon
<1>5. marks \in SUBSET Marks
  <2>1. t.marks \in SUBSET Marks
    BY <1>1, Zenon DEF SessionType
  <2>2. "undone" \in Marks /\ "cut" \in Marks
    BY Zenon DEF Marks
  <2> QED
    BY <1>4, <2>1, <2>2, Zenon
<1>6. PICK v : v = [t EXCEPT !.trx = trx, !.marks = marks]
  BY Zenon
<1>7. UndoStatement(t) = v
  BY <1>2, <1>4, <1>6, Zenon DEF UndoStatement
<1>8. v \in SessionType
  BY <1>1, <1>3, <1>5, <1>6, Zenon DEF SessionType
<1>9. /\ v.command = t.command /\ v.committing = FALSE /\ v.open = t.open /\ v.message = t.message
      /\ v.used = t.used /\ v.mark = t.mark /\ v.trx = trx /\ v.savepoints = t.savepoints
      /\ v.marks = marks
  BY <1>1, <1>6, Zenon DEF SessionType
<1>10. v.open => Opened(v)
  BY <1>9, Zenon DEF SessionOK, Opened, Written
<1>11. PICK w : w = RollbackStatementMessage(v)
  BY Zenon
<1>12. Same(v, w) /\ w.trx = v.trx /\ w.open = FALSE /\ Withdraws(v, w)
  BY <1>8, <1>10, <1>11, RollbackStatementMessageCloses, Zenon
<1>13. /\ w \in SessionType /\ w.committing = FALSE /\ w.open = FALSE /\ w.used = t.used
       /\ w.trx = trx /\ w.savepoints = t.savepoints /\ marks \subseteq w.marks
  BY <1>9, <1>12, Zenon DEF Same
<1>14. PICK mark \in Mark : mark = Lengths(NoTrx)
  BY NoTrxTyped, Zenon
<1>15. u = [w EXCEPT !.command = "none", !.mark = mark, !.cut = FALSE]
  BY <1>7, <1>11, <1>14, Zenon DEF Undone
<1>16. u \in SessionType
  BY <1>13, <1>14, <1>15, Zenon DEF SessionType
<1>17. /\ u.command = "none" /\ u.committing = FALSE /\ u.open = FALSE /\ u.used = t.used
       /\ u.mark = mark /\ u.trx = trx /\ u.savepoints = t.savepoints
       /\ u.message = w.message /\ u.marks = w.marks
  BY <1>13, <1>15, Zenon DEF SessionType
<1>18. /\ Within(t.mark, Lengths(t.trx))
       /\ \A i \in DOMAIN u.savepoints : Within(u.savepoints[i].mark, t.mark)
       /\ \A i, j \in DOMAIN u.savepoints :
            i <= j => Within(u.savepoints[j].mark, u.savepoints[i].mark)
  BY <1>17, Zenon DEF SessionOK, SavepointsOK
<1>19. u.mark = Lengths(NoTrx) /\ u.trx = UndoTo(t.trx, t.mark)
  BY <1>2, <1>14, <1>17, Zenon
<1>20. SessionOK(s, u)
  BY <1>1, <1>16, <1>17, <1>18, <1>19, UndoneOK, Zenon
<1>21. Withdraws(t, u)
  BY <1>9, <1>12, <1>17, Zenon DEF Withdraws, Written, SameNumber
<1>22. t.marks \subseteq u.marks /\ (Len(t.trx.rows) > t.mark.rows => "undone" \in u.marks)
  BY <1>4, <1>13, <1>17, Zenon
<1> QED
  BY <1>1, <1>17, <1>19, <1>20, <1>21, <1>22, Zenon

-----------------------------------------------------------------------------
(* Savepoints.                                                               *)
LEMMA RemovedAt ==
  ASSUME NEW S, NEW q \in Seq(S), NEW i \in 1..Len(q)
  PROVE  /\ Without(q, i) \in Seq(S) /\ Len(Without(q, i)) = Len(q) - 1
         /\ \A j \in 1..(Len(q) - 1) : Without(q, i)[j] = q[IF j < i THEN j ELSE j + 1]
<1>1. /\ SubSeq(q, 1, i - 1) \in Seq(S) /\ Len(SubSeq(q, 1, i - 1)) = i - 1
      /\ \A j \in 1..(i - 1) : SubSeq(q, 1, i - 1)[j] = q[j]
  OBVIOUS
<1>2. /\ SubSeq(q, i + 1, Len(q)) \in Seq(S) /\ Len(SubSeq(q, i + 1, Len(q))) = Len(q) - i
      /\ \A j \in 1..(Len(q) - i) : SubSeq(q, i + 1, Len(q))[j] = q[i + j]
  OBVIOUS
<1>3. PICK a \in Seq(S) : a = SubSeq(q, 1, i - 1)
  BY <1>1, Zenon
<1>4. PICK b \in Seq(S) : b = SubSeq(q, i + 1, Len(q))
  BY <1>2, Zenon
<1>5. /\ Len(a) = i - 1 /\ (\A j \in 1..(i - 1) : a[j] = q[j])
      /\ Len(b) = Len(q) - i /\ (\A j \in 1..(Len(q) - i) : b[j] = q[i + j])
  BY <1>1, <1>2, <1>3, <1>4, Zenon
<1>6. /\ a \o b \in Seq(S) /\ Len(a \o b) = Len(a) + Len(b)
      /\ \A j \in 1..(Len(a) + Len(b)) : (a \o b)[j] = IF j <= Len(a) THEN a[j] ELSE b[j - Len(a)]
  OBVIOUS
<1>7. Len(q) \in Nat /\ Len(a) + Len(b) = Len(q) - 1
  BY <1>5
<1>8. ASSUME NEW j \in 1..(Len(q) - 1)
      PROVE  (a \o b)[j] = q[IF j < i THEN j ELSE j + 1]
  <2>1. CASE j < i
    <3>1. (a \o b)[j] = a[j] /\ j \in 1..(i - 1)
      BY <1>5, <1>6, <1>7, <2>1
    <3> QED
      BY <1>5, <2>1, <3>1, Zenon
  <2>2. CASE ~(j < i)
    <3>1. /\ (a \o b)[j] = b[j - Len(a)] /\ j - Len(a) \in 1..(Len(q) - i)
          /\ i + (j - Len(a)) = j + 1
      BY <1>5, <1>6, <1>7, <2>2
    <3> QED
      BY <1>5, <2>2, <3>1, Zenon
  <2> QED
    BY <2>1, <2>2, Zenon
<1> QED
  BY <1>3, <1>4, <1>6, <1>7, <1>8, Zenon DEF Without


Ordered(q) == \A i, j \in DOMAIN q : i <= j => Within(q[j].mark, q[i].mark)
AllWithin(q, m) == \A i \in DOMAIN q : Within(q[i].mark, m)

\* deque::erase keeps the marks of the others
LEMMA EraseOK ==
  ASSUME NEW q \in Seq(SavepointType), NEW i \in DOMAIN q, NEW p, p = Erase(q, i)
  PROVE  /\ p \in Seq(SavepointType)
         /\ Ordered(q) => Ordered(p)
         /\ \A m : AllWithin(q, m) => AllWithin(p, m)
<1>1. Len(q) \in Nat /\ DOMAIN q = 1..Len(q) /\ i \in 1..Len(q)
  OBVIOUS
<1>2. PICK kept : kept = Without(q, i)
  BY Zenon
<1>3. /\ kept \in Seq(SavepointType) /\ Len(kept) = Len(q) - 1
      /\ \A j \in 1..(Len(q) - 1) : kept[j] = q[IF j < i THEN j ELSE j + 1]
  BY <1>1, <1>2, RemovedAt, Zenon
<1>4. DOMAIN kept = 1..(Len(q) - 1)
  BY <1>3
<1>5. PICK from \in {0, 1} :
        p = [j \in DOMAIN kept |-> [kept[j] EXCEPT !.message = q[j + from].message]]
  BY <1>2, Zenon DEF Erase
<1>6. ASSUME NEW j \in 1..(Len(q) - 1)
      PROVE  p[j] \in SavepointType /\ p[j].mark = q[IF j < i THEN j ELSE j + 1].mark
  <2>1. PICK x : x = kept[j]
    BY Zenon
  <2>2. x \in SavepointType
    BY <1>3, <1>4, <1>6, <2>1
  <2>3. q[j + from] \in SavepointType
    <3>1. j + from \in DOMAIN q
      BY <1>1, <1>5, <1>6
    <3> QED
      BY <3>1
  <2>4. PICK m \in Message \cup {NoMessage} : m = q[j + from].message
    BY <2>3, Zenon DEF SavepointType
  <2>5. p[j] = [x EXCEPT !.message = m]
    BY <1>4, <1>5, <1>6, <2>1, <2>4, Zenon
  <2>6. p[j] \in SavepointType /\ p[j].mark = x.mark
    BY <2>2, <2>4, <2>5, Zenon DEF SavepointType
  <2> QED
    BY <1>3, <1>6, <2>1, <2>6, Zenon
<1>7. p \in Seq(SavepointType) /\ DOMAIN p = 1..(Len(q) - 1)
  <2>1. DOMAIN p = 1..(Len(q) - 1)
    BY <1>4, <1>5, Zenon
  <2>2. p \in [1..(Len(q) - 1) -> SavepointType]
    BY <1>4, <1>5, <1>6, Zenon
  <2>3. Len(q) - 1 \in Nat
    BY <1>1
  <2> QED
    BY <2>1, <2>2, <2>3
<1>8. Ordered(q) => Ordered(p)
  <2> SUFFICES ASSUME Ordered(q), NEW k \in DOMAIN p, NEW j \in DOMAIN p, k <= j
               PROVE  Within(p[j].mark, p[k].mark)
    BY Zenon DEF Ordered
  <2>1. PICK kk : kk = IF k < i THEN k ELSE k + 1
    BY Zenon
  <2>2. PICK jj : jj = IF j < i THEN j ELSE j + 1
    BY Zenon
  <2>3. kk \in DOMAIN q /\ jj \in DOMAIN q /\ kk <= jj
    BY <1>1, <1>7, <2>1, <2>2
  <2>4. p[k].mark = q[kk].mark /\ p[j].mark = q[jj].mark
    BY <1>6, <1>7, <2>1, <2>2, Zenon
  <2> QED
    BY <2>3, <2>4, Zenon DEF Ordered
<1>9. ASSUME NEW m, AllWithin(q, m), NEW j \in DOMAIN p
      PROVE  Within(p[j].mark, m)
  <2>1. PICK jj : jj = IF j < i THEN j ELSE j + 1
    BY Zenon
  <2>2. jj \in DOMAIN q
    BY <1>1, <1>7, <2>1
  <2>3. p[j].mark = q[jj].mark
    BY <1>6, <1>7, <2>1, Zenon
  <2> QED
    BY <1>9, <2>2, <2>3, Zenon DEF AllWithin
<1> QED
  BY <1>7, <1>8, <1>9, Zenon DEF AllWithin

\* other savepoints, between two statements
LEMMA OtherSavepointsOK ==
  ASSUME NEW s \in Sessions, NEW t, SessionOK(s, t), t.command = "none",
         NEW u \in SessionType,
         u.command = "none", u.committing = t.committing, u.open = t.open,
         u.message = t.message, u.used = t.used, u.mark = t.mark, u.trx = t.trx,
         Ordered(u.savepoints), ~t.committing => AllWithin(u.savepoints, Lengths(t.trx))
  PROVE  SessionOK(s, u)
<1>1. RowsOK(u)
  BY Zenon DEF SessionOK, RowsOK
<1>2. SavepointsOK(u)
  BY Zenon DEF SavepointsOK, Ordered, AllWithin
<1>3. u.open => Opened(u)
  BY Zenon DEF SessionOK, Opened, Written
<1> QED
  BY <1>1, <1>2, <1>3, Zenon DEF SessionOK

\* just the one savepoint is gone, or their messages were exchanged
Removes(t, u, i) == u.savepoints = Without(t.savepoints, i) \/ "erased" \in u.marks

\* Releasing a savepoint keeps the order of the others.
LEMMA ErasedOK ==
  ASSUME NEW s \in Sessions, NEW t, SessionOK(s, t), t.command = "none",
         NEW i \in DOMAIN t.savepoints, NEW u, u = Erased(t, i)
  PROVE  /\ SessionOK(s, u) /\ u.command = "none" /\ u.committing = t.committing
         /\ u.trx = t.trx /\ u.message = t.message /\ u.open = t.open
         /\ t.marks \subseteq u.marks
         /\ Removes(t, u, i)
<1>1. t \in SessionType /\ t.savepoints \in Seq(SavepointType)
  BY Zenon DEF SessionOK, SessionType
<1>2. PICK p : p = Erase(t.savepoints, i)
  BY Zenon
<1>3. PICK marks : marks = IF p = Without(t.savepoints, i) THEN t.marks
                           ELSE t.marks \cup {"erased"}
  BY Zenon
<1>4. marks \in SUBSET Marks
  <2>1. t.marks \in SUBSET Marks /\ "erased" \in Marks
    BY <1>1, Zenon DEF SessionType, Marks
  <2> QED
    BY <1>3, <2>1, Zenon
<1>5. u = [t EXCEPT !.savepoints = p, !.marks = marks]
  BY <1>2, <1>3, Zenon DEF Erased
<1>6. /\ p \in Seq(SavepointType)
      /\ Ordered(t.savepoints) => Ordered(p)
      /\ \A m : AllWithin(t.savepoints, m) => AllWithin(p, m)
  BY <1>1, <1>2, EraseOK, Zenon
<1>7. u \in SessionType
  BY <1>1, <1>4, <1>5, <1>6, Zenon DEF SessionType
<1>8. /\ u.command = "none" /\ u.committing = t.committing /\ u.open = t.open
      /\ u.message = t.message /\ u.used = t.used /\ u.mark = t.mark /\ u.trx = t.trx
      /\ u.savepoints = p /\ u.marks = marks
  BY <1>1, <1>5, Zenon DEF SessionType
<1>9. Ordered(t.savepoints) /\ (~t.committing => AllWithin(t.savepoints, Lengths(t.trx)))
  BY Zenon DEF SessionOK, SavepointsOK, Ordered, AllWithin
<1>10. SessionOK(s, u)
  BY <1>6, <1>7, <1>8, <1>9, OtherSavepointsOK, Zenon
<1>11. t.marks \subseteq marks /\ Removes(t, u, i)
  BY <1>3, <1>8, Zenon DEF Removes
<1> QED
  BY <1>8, <1>10, <1>11, Zenon


\* SAVEPOINT: the new one is the newest
LEMMA SavedOK ==
  ASSUME NEW s \in Sessions, NEW t, SessionOK(s, t), t.command = "none", ~t.committing,
         NEW new \in SavepointType, new.mark = Lengths(t.trx),
         NEW u, u = [t EXCEPT !.savepoints = <<new>> \o @, !.saves = @ + 1]
  PROVE  SessionOK(s, u) /\ u.committing = t.committing
<1>1. t \in SessionType /\ t.savepoints \in Seq(SavepointType) /\ t.saves + 1 \in Nat
  BY DEF SessionOK, SessionType
<1>2. PICK q \in Seq(SavepointType) : q = t.savepoints
  BY <1>1, Zenon
<1>3. PICK p : p = <<new>> \o q
  BY Zenon
<1>4. /\ p \in Seq(SavepointType) /\ Len(p) = Len(q) + 1 /\ p[1] = new
      /\ \A j \in 2..(Len(q) + 1) : p[j] = q[j - 1]
  BY <1>2, <1>3
<1>5. Len(q) \in Nat /\ DOMAIN q = 1..Len(q) /\ DOMAIN p = 1..(Len(q) + 1)
  BY <1>4
<1>6. u = [t EXCEPT !.savepoints = p, !.saves = @ + 1]
  BY <1>2, <1>3, Zenon
<1>7. u \in SessionType
  BY <1>1, <1>4, <1>6, Zenon DEF SessionType
<1>8. /\ u.command = "none" /\ u.committing = t.committing /\ u.open = t.open
      /\ u.message = t.message /\ u.used = t.used /\ u.mark = t.mark /\ u.trx = t.trx
      /\ u.savepoints = p
  BY <1>1, <1>6, Zenon DEF SessionType
<1>9. Lengths(t.trx) \in Mark /\ Within(Lengths(t.trx), Lengths(t.trx))
  BY <1>1, SavepointMarks, WithinChain, Zenon
<1>10. Ordered(q) /\ AllWithin(q, Lengths(t.trx))
  BY <1>2, Zenon DEF SessionOK, SavepointsOK, Ordered, AllWithin
<1>11. AllWithin(p, Lengths(t.trx))
  <2>1. ASSUME NEW j \in DOMAIN p
        PROVE  Within(p[j].mark, Lengths(t.trx))
    <3>1. CASE j = 1
      BY <1>4, <1>9, <3>1, Zenon
    <3>2. CASE j # 1
      <4>1. j \in 2..(Len(q) + 1) /\ j - 1 \in DOMAIN q
        BY <1>5, <2>1, <3>2
      <4> QED
        BY <1>4, <1>10, <4>1, Zenon DEF AllWithin
    <3> QED
      BY <3>1, <3>2, Zenon
  <2> QED
    BY <2>1, Zenon DEF AllWithin
<1>12. ASSUME NEW k \in DOMAIN p, NEW j \in DOMAIN p, k <= j
       PROVE  Within(p[j].mark, p[k].mark)
  <2>1. CASE k = 1
    BY <1>4, <1>11, <1>12, <2>1, Zenon DEF AllWithin
  <2>2. CASE k # 1
    <3>1. /\ j \in 2..(Len(q) + 1) /\ j - 1 \in DOMAIN q
          /\ k \in 2..(Len(q) + 1) /\ k - 1 \in DOMAIN q /\ k - 1 <= j - 1
      BY <1>5, <1>12, <2>2
    <3>2. p[j] = q[j - 1] /\ p[k] = q[k - 1]
      BY <1>4, <3>1, Zenon
    <3> QED
      BY <1>10, <3>1, <3>2, Zenon DEF Ordered
  <2> QED
    BY <2>1, <2>2, Zenon
<1>13. Ordered(u.savepoints) /\ AllWithin(u.savepoints, Lengths(t.trx))
  BY <1>8, <1>11, <1>12, Zenon DEF Ordered
<1>14. SessionOK(s, u)
  BY <1>7, <1>8, <1>13, OtherSavepointsOK, Zenon
<1> QED
  BY <1>8, <1>14, Zenon

\* ROLLBACK TO SAVEPOINT
Restored(t, i, marks) ==
  [t EXCEPT !.savepoints = SubSeq(@, i, Len(@)),
            !.trx = UndoTo(@, t.savepoints[i].mark), !.mark = Lengths(NoTrx),
            !.message = t.savepoints[i].message, !.open = FALSE, !.marks = marks]

\* ROLLBACK TO SAVEPOINT leaves what lies before the savepoint.
LEMMA RestoredOK ==
  ASSUME NEW s \in Sessions, NEW t, SessionOK(s, t), t.command = "none", ~t.committing,
         NEW i \in DOMAIN t.savepoints, NEW marks \in SUBSET Marks,
         NEW u, u = Restored(t, i, marks)
  PROVE  SessionOK(s, u) /\ u.committing = FALSE
<1>1. t \in SessionType /\ t.committing = FALSE /\ t.savepoints \in Seq(SavepointType)
      /\ t.trx \in Trx
  BY Zenon DEF SessionOK, SessionType
<1>2. PICK q \in Seq(SavepointType) : q = t.savepoints
  BY <1>1, Zenon
<1>3. Len(q) \in Nat /\ DOMAIN q = 1..Len(q) /\ i \in 1..Len(q) /\ i \in DOMAIN q
  BY <1>2
<1>4. PICK p : p = SubSeq(q, i, Len(q))
  BY Zenon
<1>5. /\ p \in Seq(SavepointType) /\ DOMAIN p = 1..(Len(q) - i + 1)
      /\ \A j \in 1..(Len(q) - i + 1) : p[j] = q[i + j - 1]
  BY <1>3, <1>4
<1>6. PICK mark \in Mark : mark = q[i].mark
  <2>1. q[i] \in SavepointType
    BY <1>3
  <2> QED
    BY <2>1, Zenon DEF SavepointType
<1>7. PICK message \in Message \cup {NoMessage} : message = q[i].message
  <2>1. q[i] \in SavepointType
    BY <1>3
  <2> QED
    BY <2>1, Zenon DEF SavepointType
<1>8. Ordered(q) /\ AllWithin(q, Lengths(t.trx))
  BY <1>2, Zenon DEF SessionOK, SavepointsOK, Ordered, AllWithin
<1>9. Within(mark, Lengths(t.trx))
  BY <1>3, <1>6, <1>8, Zenon DEF AllWithin
<1>10. PICK trx \in Trx : trx = UndoTo(t.trx, mark)
  BY <1>1, <1>6, <1>9, UndoToTyped, Zenon
<1>11. PICK zero \in Mark : zero = Lengths(NoTrx)
  BY NoTrxTyped, Zenon
<1>12. u = [t EXCEPT !.savepoints = p, !.trx = trx, !.mark = zero, !.message = message,
                     !.open = FALSE, !.marks = marks]
  BY <1>2, <1>4, <1>6, <1>7, <1>10, <1>11, Zenon DEF Restored
<1>13. u \in SessionType
  BY <1>1, <1>5, <1>12, ZenonT(30) DEF SessionType
<1>14. /\ u.command = "none" /\ u.committing = FALSE /\ u.open = FALSE /\ u.used = t.used
       /\ u.mark = zero /\ u.trx = trx /\ u.savepoints = p
  BY <1>1, <1>12, Zenon DEF SessionType
<1>15. \A j \in DOMAIN p : i + j - 1 \in DOMAIN q /\ p[j] = q[i + j - 1] /\ i <= i + j - 1
  BY <1>3, <1>5
<1>16. \A j \in DOMAIN u.savepoints : Within(u.savepoints[j].mark, mark)
  BY <1>3, <1>6, <1>8, <1>14, <1>15, Zenon DEF Ordered
<1>17. ASSUME NEW k \in DOMAIN p, NEW j \in DOMAIN p, k <= j
       PROVE  Within(p[j].mark, p[k].mark)
  <2>1. i + k - 1 <= i + j - 1
    BY <1>3, <1>5, <1>17
  <2> QED
    BY <1>8, <1>15, <2>1, Zenon DEF Ordered
<1>18. \A k, j \in DOMAIN u.savepoints :
         k <= j => Within(u.savepoints[j].mark, u.savepoints[k].mark)
  BY <1>14, <1>17, Zenon
<1>19. u.mark = Lengths(NoTrx) /\ u.trx = UndoTo(t.trx, mark)
  BY <1>10, <1>11, <1>14, Zenon
<1>20. SessionOK(s, u)
  BY <1>9, <1>13, <1>14, <1>16, <1>18, <1>19, UndoneOK, Zenon
<1> QED
  BY <1>14, <1>20, Zenon

-----------------------------------------------------------------------------
(* The rest of the inductive invariant.                                      *)
\* Of what has been committed: it was logged in the order of the commits, and the
\* counter in the system header never fell behind.
HistoryType == [changes : Seq(Nat), rows : Seq(LogRowType), marks : SUBSET Marks,
                disk : Nat, logged : Nat]
EntryType == [commit_id : Nat \ {0}, rows : 1..MaxRows, disk : Nat]

HistoryOK ==
  /\ history \in Seq(HistoryType) /\ log \in Seq(EntryType)
  /\ LoggedAt(Len(history)) = Len(log)
  /\ \A k \in DOMAIN history :
       /\ history[k].disk <= commit_id
       /\ history[k].logged <= Len(log)
       /\ history[k].logged # 0 => log[history[k].logged].disk <= history[k].disk
  /\ \A j, k \in DOMAIN history :
       j <= k => history[j].logged <= history[k].logged /\ history[j].disk <= history[k].disk

SharedOK ==
  /\ threshold \in Thresholds
  /\ commit_id \in Nat
  /\ flushed \in 0..Len(history)
  /\ streamed \in [sent : Seq(Sent), changes : Seq(Nat), marks : SUBSET Marks]
  /\ faults \in [failures : Nat, refusals : Nat, crashes : Nat]

SessionsOK ==
  /\ session = [s \in Sessions |-> session[s]]
  /\ \A s \in Sessions : SessionOK(s, session[s])

MInv == SharedOK /\ HistoryOK /\ SessionsOK

\* The invariant contains the types.
LEMMA MInvImplies ==
  MInv => TypeOK
<1> SUFFICES ASSUME MInv PROVE TypeOK
  BY Zenon
<1>1. session \in [Sessions -> SessionType]
  BY Zenon DEF MInv, SessionsOK, SessionOK
<1>2. /\ threshold \in Thresholds /\ commit_id \in Nat /\ flushed \in 0..Len(history)
      /\ streamed \in [sent : Seq(Sent), changes : Seq(Nat), marks : SUBSET Marks]
      /\ faults \in [failures : Nat, refusals : Nat, crashes : Nat]
  BY Zenon DEF MInv, SharedOK
<1>3. /\ history \in Seq([changes : Seq(Nat), rows : Seq(LogRowType), marks : SUBSET Marks,
                          disk : Nat, logged : Nat])
      /\ log \in Seq([commit_id : Nat \ {0}, rows : 1..MaxRows, disk : Nat])
  BY Zenon DEF MInv, HistoryOK, HistoryType, EntryType
<1>4. ASSUME NEW s \in Sessions, NEW t, t = session[s]
      PROVE  /\ t.command \in Commands[s] \cup {"none"}
             /\ t.open => t.message # NoMessage /\ t.message.statement # << >>
             /\ t.used <= MaxChanges[s]
             /\ Within(t.mark, Lengths(t.trx))
             /\ ~t.committing =>
                  \A i \in DOMAIN t.savepoints : Within(t.savepoints[i].mark, Lengths(t.trx))
  <2>1. SessionOK(s, t)
    BY <1>4, Zenon DEF MInv, SessionsOK
  <2>2. t.open => t.message # NoMessage /\ t.message.statement # << >>
    BY <2>1, NoMessageAssumption, Zenon DEF SessionOK, Opened, Written
  <2> QED
    BY <2>1, <2>2, Zenon DEF SessionOK, SavepointsOK
<1> QED
  BY <1>1, <1>2, <1>3, <1>4, Zenon DEF TypeOK

-----------------------------------------------------------------------------
(* The steps.  A step of one session that draws no commit id is none of the  *)
(* log's; one that draws it is Draw, or Waste when nothing comes of it.      *)
StreamedType == [sent : Seq(Sent), changes : Seq(Nat), marks : SUBSET Marks]
FaultsType == [failures : Nat, refusals : Nat, crashes : Nat]

\* What a session has drawn and not published.
LEMMA PendingIs ==
  ASSUME NEW s, NEW t, SessionOK(s, t)
  PROVE  /\ Pending(t) \in Nat
         /\ t.committing = FALSE => Pending(t) = 0
         /\ t.committing = TRUE => Pending(t) = CommitId(t.trx.rows)
<1>1. t \in SessionType /\ t.committing \in BOOLEAN
  BY Zenon DEF SessionOK, SessionType
<1>2. t.trx.rows \in Seq(LogRowType)
  BY <1>1, Zenon DEF SessionType, Trx
<1>3. JustTheLast(t.trx.rows)
  BY Zenon DEF SessionOK, RowsOK, JustTheLast
<1>4. CommitId(t.trx.rows) \in Nat
  BY <1>2, <1>3, CommitIdTyped, Zenon
<1> QED
  BY <1>1, <1>4, Zenon DEF Pending

\* A step of one session leaves the others, and what they have drawn.
LEMMA SetOK ==
  ASSUME SessionsOK, NEW s \in Sessions, NEW u, SessionOK(s, u), Set(s, u)
  PROVE  /\ SessionsOK'
         /\ [r \in Sessions |-> Pending(session'[r])]
              = [[r \in Sessions |-> Pending(session[r])] EXCEPT ![s] = Pending(u)]
<1>1. session' = [session EXCEPT ![s] = u]
  BY Zenon DEF Set
<1>2. session = [r \in Sessions |-> session[r]]
  BY Zenon DEF SessionsOK
<1>3. session' = [r \in Sessions |-> session'[r]] /\ session'[s] = u
  BY <1>1, <1>2, Zenon
<1>4. \A r \in Sessions : r # s => session'[r] = session[r]
  BY <1>1, <1>2, Zenon
<1>5. \A r \in Sessions : SessionOK(r, session'[r])
  BY <1>3, <1>4, Zenon DEF SessionsOK
<1>6. SessionsOK'
  BY <1>3, <1>5, Zenon DEF SessionsOK
<1>7. \A r \in Sessions : Pending(session'[r]) = IF r = s THEN Pending(u) ELSE Pending(session[r])
  BY <1>3, <1>4, Zenon
<1> QED
  BY <1>6, <1>7, Zenon

\* The types of what has been committed.
LEMMA HistoryParts ==
  ASSUME HistoryOK
  PROVE  /\ history \in Seq(HistoryType) /\ Len(history) \in Nat
         /\ log \in Seq(EntryType) /\ Len(log) \in Nat
         /\ DOMAIN history = 1..Len(history)
         /\ \A k \in DOMAIN history : history[k].disk \in Nat /\ history[k].logged \in Nat
<1>1. history \in Seq(HistoryType) /\ log \in Seq(EntryType)
  BY Zenon DEF HistoryOK
<1>2. ASSUME NEW k \in DOMAIN history
      PROVE  history[k].disk \in Nat /\ history[k].logged \in Nat
  <2>1. history[k] \in HistoryType
    BY <1>1
  <2> QED
    BY <2>1, Zenon DEF HistoryType
<1> QED
  BY <1>1, <1>2

\* What has been committed stays, while the counter grows.
LEMMA HistoryStays ==
  ASSUME HistoryOK, commit_id \in Nat, commit_id' \in Nat, commit_id <= commit_id',
         UNCHANGED <<history, log>>
  PROVE  HistoryOK' /\ (flushed' = flushed => LoggedAt(flushed)' = LoggedAt(flushed))
<1>1. history' = history /\ log' = log
  BY Zenon
<1>2. \A k \in DOMAIN history : history[k].disk \in Nat
  BY HistoryParts, Zenon
<1>3. \A k \in DOMAIN history : history[k].disk <= commit_id'
  BY <1>2 DEF HistoryOK
<1> QED
  BY <1>1, <1>3, Zenon DEF HistoryOK, LoggedAt

\* A step that draws and publishes nothing leaves the log of CommitLog alone.
LEMMA QuietStep ==
  ASSUME MInv, NEW s \in Sessions, NEW u, SessionOK(s, u), Pending(u) = Pending(session[s]),
         Set(s, u), UNCHANGED <<threshold, commit_id, history, log, flushed>>,
         streamed' \in StreamedType, faults' \in FaultsType
  PROVE  MInv' /\ UNCHANGED Log!logvars
<1>1. SharedOK /\ HistoryOK /\ SessionsOK /\ commit_id \in Nat
  BY Zenon DEF MInv, SharedOK
<1>2. SharedOK'
  BY <1>1, Zenon DEF SharedOK, StreamedType, FaultsType
<1>3. HistoryOK' /\ LoggedAt(flushed)' = LoggedAt(flushed)
  BY <1>1, HistoryStays
<1>4. /\ SessionsOK'
      /\ [r \in Sessions |-> Pending(session'[r])]
           = [[r \in Sessions |-> Pending(session[r])] EXCEPT ![s] = Pending(u)]
  BY <1>1, SetOK, Zenon
<1>5. [r \in Sessions |-> Pending(session[r])]' = [r \in Sessions |-> Pending(session[r])]
  <2>1. [r \in Sessions |-> Pending(session[r])]' = [r \in Sessions |-> Pending(session'[r])]
    BY Zenon
  <2> QED
    BY <1>4, <2>1, Zenon
<1>6. UNCHANGED Log!logvars
  BY <1>3, <1>5, Zenon DEF Log!logvars
<1> QED
  BY <1>2, <1>3, <1>4, <1>6, Zenon DEF MInv


\* A step that draws an id is CommitLog's Draw, or Waste if the id is not kept.
LEMMA DrawStep ==
  ASSUME MInv, NEW s \in Sessions, NEW u, SessionOK(s, u), Pending(session[s]) = 0,
         Pending(u) = 0 \/ Pending(u) = commit_id + 1,
         Set(s, u), commit_id' = commit_id + 1, UNCHANGED <<threshold, history, log, flushed>>,
         streamed' \in StreamedType, faults' \in FaultsType
  PROVE  MInv' /\ Log!LogNext
<1>1. SharedOK /\ HistoryOK /\ SessionsOK /\ commit_id \in Nat
  BY Zenon DEF MInv, SharedOK
<1>2. commit_id' \in Nat /\ commit_id <= commit_id'
  BY <1>1
<1>3. SharedOK'
  BY <1>1, <1>2, Zenon DEF SharedOK, StreamedType, FaultsType
<1>4. HistoryOK' /\ LoggedAt(flushed)' = LoggedAt(flushed)
  BY <1>1, <1>2, HistoryStays, Zenon
<1>5. /\ SessionsOK'
      /\ [r \in Sessions |-> Pending(session'[r])]
           = [[r \in Sessions |-> Pending(session[r])] EXCEPT ![s] = Pending(u)]
  BY <1>1, SetOK, Zenon
<1>6. [r \in Sessions |-> Pending(session[r])]'
        = [[r \in Sessions |-> Pending(session[r])] EXCEPT ![s] = Pending(u)]
  <2>1. [r \in Sessions |-> Pending(session[r])]' = [r \in Sessions |-> Pending(session'[r])]
    BY Zenon
  <2> QED
    BY <1>5, <2>1, Zenon
<1>7. CASE Pending(u) = 0
  <2>1. [r \in Sessions |-> Pending(session[r])]' = [r \in Sessions |-> Pending(session[r])]
    BY <1>6, <1>7, Zenon
  <2>2. Log!Waste
    BY <1>4, <2>1, Zenon DEF Log!Waste
  <2> QED
    BY <1>3, <1>4, <1>5, <2>2, Zenon DEF MInv, Log!LogNext
<1>8. CASE Pending(u) = commit_id + 1
  <2>1. [r \in Sessions |-> Pending(session[r])]'
          = [[r \in Sessions |-> Pending(session[r])] EXCEPT ![s] = commit_id + 1]
    BY <1>6, <1>8, Zenon
  <2>2. [r \in Sessions |-> Pending(session[r])][s] = 0
    BY Zenon
  <2>3. Log!Draw(s)
    BY <1>4, <2>1, <2>2, Zenon DEF Log!Draw
  <2> QED
    BY <1>3, <1>4, <1>5, <2>3, Zenon DEF MInv, Log!LogNext
<1> QED
  BY <1>7, <1>8, Zenon

\* the transaction is over
LEMMA EndTyped ==
  ASSUME NEW s \in Sessions, NEW t, SessionOK(s, t), NEW changes \in Seq(Nat), End(s, t, changes)
  PROVE  /\ Set(s, Idle(t.used, t.saves)) /\ SessionOK(s, Idle(t.used, t.saves))
         /\ Pending(Idle(t.used, t.saves)) = 0
         /\ streamed' \in StreamedType
<1>1. t \in SessionType /\ t.used \in Nat /\ t.saves \in Nat /\ t.used <= MaxChanges[s]
      /\ t.sent \in Seq(Sent) /\ t.marks \in SUBSET Marks
  BY Zenon DEF SessionOK, SessionType
<1>2. Set(s, Idle(t.used, t.saves)) /\ streamed' = [sent |-> t.sent, changes |-> changes, marks |-> t.marks]
  BY Zenon DEF End
<1>3. streamed' \in StreamedType
  BY <1>1, <1>2, Zenon DEF StreamedType
<1>4. SessionOK(s, Idle(t.used, t.saves)) /\ Idle(t.used, t.saves).committing = FALSE
  BY <1>1, IdleOK, Zenon
<1> QED
  BY <1>2, <1>3, <1>4, PendingIs, Zenon

\* ... and nothing was said of it.
LEMMA UnannouncedTyped ==
  ASSUME NEW s \in Sessions, NEW t, SessionOK(s, t), End(s, Unannounced(t), << >>)
  PROVE  /\ Set(s, Idle(t.used, t.saves)) /\ SessionOK(s, Idle(t.used, t.saves))
         /\ Pending(Idle(t.used, t.saves)) = 0
         /\ streamed' \in StreamedType
<1>1. t \in SessionType /\ t.used \in Nat /\ t.saves \in Nat /\ t.used <= MaxChanges[s]
      /\ t.sent \in Seq(Sent) /\ t.marks \in SUBSET Marks
  BY Zenon DEF SessionOK, SessionType
<1>2. PICK v : v = Unannounced(t)
  BY Zenon
<1>3. v.used = t.used /\ v.saves = t.saves /\ v.sent = t.sent /\ v.marks \in SUBSET Marks
  <2>1. t.marks \cup {"unannounced"} \in SUBSET Marks
    BY <1>1, Zenon DEF Marks
  <2>2. CASE t.sent = << >>
    BY <1>1, <1>2, <2>2, Zenon DEF Unannounced
  <2>3. CASE t.sent # << >>
    <3>1. v = [t EXCEPT !.marks = t.marks \cup {"unannounced"}]
      BY <1>2, <2>3, Zenon DEF Unannounced
    <3> QED
      BY <1>1, <2>1, <3>1, Zenon DEF SessionType
  <2> QED
    BY <2>2, <2>3, Zenon
<1>4. Set(s, Idle(v.used, v.saves)) /\ streamed' = [sent |-> v.sent, changes |-> << >>, marks |-> v.marks]
  BY <1>2, Zenon DEF End
<1>5. << >> \in Seq(Nat)
  OBVIOUS
<1>6. streamed' \in StreamedType
  BY <1>1, <1>3, <1>4, <1>5, Zenon DEF StreamedType
<1>7. SessionOK(s, Idle(t.used, t.saves)) /\ Idle(t.used, t.saves).committing = FALSE
  BY <1>1, IdleOK, Zenon
<1> QED
  BY <1>3, <1>4, <1>6, <1>7, PendingIs, Zenon

\* Counting a fault.
LEMMA FaultTyped ==
  ASSUME faults \in FaultsType, NEW kind \in {"failures", "refusals", "crashes"}, Fault(kind)
  PROVE  faults' \in FaultsType
<1>1. CASE kind = "failures"
  BY <1>1 DEF FaultsType, Fault
<1>2. CASE kind = "refusals"
  BY <1>2 DEF FaultsType, Fault
<1>3. CASE kind = "crashes"
  BY <1>3 DEF FaultsType, Fault
<1> QED
  BY <1>1, <1>2, <1>3, Zenon

\* what the invariant says where a session takes a step
LEMMA AtSession ==
  ASSUME MInv, NEW s \in Sessions
  PROVE  /\ SessionOK(s, session[s]) /\ session[s] \in SessionType
         /\ session[s].used \in Nat /\ MaxChanges[s] \in Nat
         /\ session[s].committing \in BOOLEAN
         /\ session[s].committing = FALSE => Pending(session[s]) = 0
         /\ commit_id \in Nat /\ streamed \in StreamedType /\ faults \in FaultsType
<1>1. SessionOK(s, session[s])
  BY Zenon DEF MInv, SessionsOK
<1>2. session[s] \in SessionType
  BY <1>1, Zenon DEF SessionOK
<1>3. session[s].used \in Nat /\ session[s].committing \in BOOLEAN
  BY <1>2, Zenon DEF SessionType
<1>4. commit_id \in Nat /\ streamed \in StreamedType /\ faults \in FaultsType
  BY Zenon DEF MInv, SharedOK, StreamedType, FaultsType
<1> QED
  BY <1>1, <1>2, <1>3, <1>4, PendingIs, MessagesAssumption, Zenon


LogStep == [Log!LogNext]_(Log!logvars)

\* commitTransactionMessage draws an id, or has nothing to push.
LEMMA PushCommitStep ==
  ASSUME MInv, NEW s \in Sessions, NEW t, SessionOK(s, t), t.command = "none",
         t.committing = FALSE, Pending(session[s]) = 0, NEW refused \in BOOLEAN,
         PushCommit(s, t, refused), UNCHANGED <<threshold, history, log, flushed>>
  PROVE  MInv' /\ LogStep
<1>1. commit_id \in Nat /\ streamed \in StreamedType /\ faults \in FaultsType
  BY AtSession, Zenon
<1>2. t \in SessionType /\ t.marks \in SUBSET Marks /\ t.message \in Message \cup {NoMessage}
  BY Zenon DEF SessionOK, SessionType
<1>3. CASE t.message = NoMessage \/ t.message.statement = << >>
  <2>1. PICK marks : marks = IF t.message # NoMessage /\ t.message.segment_id > 1
                             THEN t.marks \cup {"empty_end"} ELSE t.marks
    BY Zenon
  <2>2. marks \in SUBSET Marks
    <3>1. "empty_end" \in Marks
      BY Zenon DEF Marks
    <3> QED
      BY <1>2, <2>1, <3>1, Zenon
  <2>3. PICK u : u = [t EXCEPT !.committing = TRUE, !.message = NoMessage, !.open = FALSE,
                               !.marks = marks]
    BY Zenon
  <2>4. Set(s, u) /\ UNCHANGED <<commit_id, streamed, faults>>
    BY <1>3, <2>1, <2>3, Zenon DEF PushCommit
  <2>5. SessionOK(s, u) /\ CommitId(u.trx.rows) = 0
    BY <2>2, <2>3, EmptyEndOK, Zenon
  <2>6. Pending(u) = 0
    BY <2>5, Zenon DEF Pending
  <2>7. streamed' \in StreamedType /\ faults' \in FaultsType
    BY <1>1, <2>4, Zenon
  <2>8. MInv' /\ UNCHANGED Log!logvars
    BY <2>4, <2>5, <2>6, <2>7, QuietStep, Zenon
  <2> QED
    BY <2>8, Zenon DEF LogStep
<1>4. CASE ~(t.message = NoMessage \/ t.message.statement = << >>) /\ refused
  <2>1. commit_id' = commit_id + 1 /\ Fault("refusals") /\ End(s, Unannounced(t), << >>)
    BY <1>4, Zenon DEF PushCommit
  <2>3. PICK u : u = Idle(t.used, t.saves)
    BY Zenon
  <2>4. Set(s, u) /\ SessionOK(s, u) /\ Pending(u) = 0 /\ streamed' \in StreamedType
    BY <2>1, <2>3, UnannouncedTyped, Zenon
  <2>5. faults' \in FaultsType
    BY <1>1, <2>1, FaultTyped, Zenon
  <2>6. MInv' /\ Log!LogNext
    BY <2>1, <2>4, <2>5, DrawStep, Zenon
  <2> QED
    BY <2>6, Zenon DEF LogStep
<1>5. CASE ~(t.message = NoMessage \/ t.message.statement = << >>) /\ ~refused
  <2>1. PICK id \in Nat : id = commit_id + 1
    BY <1>1
  <2>2. PICK u : u = PushedEnd(t, id)
    BY Zenon
  <2>3. commit_id' = commit_id + 1 /\ Set(s, u) /\ UNCHANGED <<faults, streamed>>
    BY <1>5, <2>1, <2>2, Zenon DEF PushCommit, Committing, PushedEnd
  <2>4. Written(t)
    BY <1>2, <1>5, Zenon DEF Written
  <2>5. /\ SessionOK(s, u)
        /\ CommitId(u.trx.rows) \in {0, commit_id + 1}
    <3>1. SessionOK(s, u) /\ CommitId(u.trx.rows) \in {0, id}
      BY <2>2, <2>4, EndSegmentOK, Zenon
    <3> QED
      BY <2>1, <3>1, Zenon
  <2>6. Pending(u) = 0 \/ Pending(u) = commit_id + 1
    BY <2>5, Zenon DEF Pending
  <2>7. streamed' \in StreamedType /\ faults' \in FaultsType
    BY <1>1, <2>3, Zenon
  <2>8. MInv' /\ Log!LogNext
    BY <2>3, <2>5, <2>6, <2>7, DrawStep, Zenon
  <2> QED
    BY <2>8, Zenon DEF LogStep
<1> QED
  BY <1>3, <1>4, <1>5, Zenon

\* rollbackTransaction draws an id for the ROLLBACK message, or nothing.
LEMMA RollbackAllStep ==
  ASSUME MInv, NEW s \in Sessions, NEW t, SessionOK(s, t), Pending(session[s]) = 0,
         NEW refused \in BOOLEAN, RollbackAll(s, t, refused), UNCHANGED <<threshold, history, log, flushed>>,
         faults' \in FaultsType
  PROVE  MInv' /\ LogStep
<1>1. commit_id \in Nat /\ streamed \in StreamedType
  BY AtSession, Zenon
<1>2. CASE Bulk(t.message)
  <2>1. PICK m : m = [t.message EXCEPT !.statement = <<Statement("ROLLBACK")>>]
    BY Zenon
  <2>2. m \in Message
    <3>1. t.message \in Message
      BY <1>2, Zenon DEF Bulk, SessionOK, SessionType
    <3>2. Statement("ROLLBACK") \in StatementType
      BY StatementIsTyped, Zenon
    <3>3. <<Statement("ROLLBACK")>> \in Seq(StatementType)
      BY <3>2
    <3> QED
      BY <2>1, <3>1, <3>3, Zenon DEF Message
  <2>3. PICK id \in Nat : id = commit_id + 1
    BY <1>1
  <2>4. PICK u : u = PushedRollback(t, m, id, refused)
    BY Zenon
  <2>6. commit_id' = commit_id + 1 /\ Set(s, u) /\ UNCHANGED streamed
    BY <1>2, <2>1, <2>3, <2>4, Zenon DEF RollbackAll, WithTrx, RolledBack, PushedRollback
  <2>8. /\ SessionOK(s, u)
        /\ CommitId(u.trx.rows) \in {0, commit_id + 1}
    <3>1. SessionOK(s, u) /\ CommitId(u.trx.rows) \in {0, id}
      BY <2>2, <2>4, RollbackMessageOK, Zenon
    <3> QED
      BY <2>3, <3>1, Zenon
  <2>9. Pending(u) = 0 \/ Pending(u) = commit_id + 1
    BY <2>8, Zenon DEF Pending
  <2>10. streamed' \in StreamedType
    BY <1>1, <2>6, Zenon
  <2>11. MInv' /\ Log!LogNext
    BY <2>6, <2>8, <2>9, <2>10, DrawStep, Zenon
  <2> QED
    BY <2>11, Zenon DEF LogStep
<1>3. CASE ~Bulk(t.message)
  <2>1. UNCHANGED commit_id /\ End(s, Unannounced(t), << >>)
    BY <1>3, Zenon DEF RollbackAll
  <2>3. PICK u : u = Idle(t.used, t.saves)
    BY Zenon
  <2>4. Set(s, u) /\ SessionOK(s, u) /\ Pending(u) = 0 /\ streamed' \in StreamedType
    BY <2>1, <2>3, UnannouncedTyped, Zenon
  <2>5. MInv' /\ UNCHANGED Log!logvars
    BY <2>1, <2>4, QuietStep, Zenon
  <2> QED
    BY <2>5, Zenon DEF LogStep
<1> QED
  BY <1>2, <1>3, Zenon


-----------------------------------------------------------------------------
(* One lemma per action: the invariant holds again, and the log took a step  *)
(* of its own or none.                                                       *)
LEMMA BeginStep ==
  ASSUME MInv, NEW s \in Sessions, begin(s), UNCHANGED threshold
  PROVE  MInv' /\ LogStep
<1>1. /\ SessionOK(s, session[s]) /\ session[s].committing \in BOOLEAN
      /\ session[s].committing = FALSE => Pending(session[s]) = 0
      /\ streamed \in StreamedType /\ faults \in FaultsType
  BY AtSession, Zenon
<1>2. PICK u : u = [session[s] EXCEPT !.begun = TRUE]
  BY Zenon
<1>3. /\ Set(s, u) /\ ~session[s].committing
      /\ UNCHANGED <<commit_id, history, log, flushed, streamed, faults>>
  BY <1>2, Zenon DEF begin, Ready
<1>4. SessionOK(s, u) /\ u.committing = session[s].committing
  BY <1>1, <1>2, BegunOK, Zenon
<1>5. Pending(u) = Pending(session[s])
  BY <1>1, <1>3, <1>4, Zenon DEF Pending
<1>6. streamed' \in StreamedType /\ faults' \in FaultsType
  BY <1>1, <1>3, Zenon
<1>7. MInv' /\ UNCHANGED Log!logvars
  BY <1>3, <1>4, <1>5, <1>6, QuietStep, Zenon
<1> QED
  BY <1>7, Zenon DEF LogStep

\* The start of a statement.
LEMMA StartStatementStep ==
  ASSUME MInv, NEW s \in Sessions, NEW c \in Commands[s], startStatement(s, c),
         UNCHANGED threshold
  PROVE  MInv' /\ LogStep
<1>1. /\ SessionOK(s, session[s]) /\ session[s].committing \in BOOLEAN
      /\ session[s].committing = FALSE => Pending(session[s]) = 0
      /\ streamed \in StreamedType /\ faults \in FaultsType
  BY AtSession, Zenon
<1>2. PICK u : u = [session[s] EXCEPT !.command = c, !.mark = Lengths(session[s].trx)]
  BY Zenon
<1>3. /\ Set(s, u) /\ ~session[s].committing
      /\ UNCHANGED <<commit_id, history, log, flushed, streamed, faults>>
  BY <1>2, Zenon DEF startStatement, Ready
<1>4. SessionOK(s, u) /\ u.committing = FALSE
  BY <1>1, <1>2, <1>3, StartedOK, Zenon
<1>5. Pending(u) = Pending(session[s])
  BY <1>1, <1>3, <1>4, Zenon DEF Pending
<1>6. streamed' \in StreamedType /\ faults' \in FaultsType
  BY <1>1, <1>3, Zenon
<1>7. MInv' /\ UNCHANGED Log!logvars
  BY <1>3, <1>4, <1>5, <1>6, QuietStep, Zenon
<1> QED
  BY <1>7, Zenon DEF LogStep

\* A row change.
LEMMA ChangeRowStep ==
  ASSUME MInv, NEW s \in Sessions, NEW k \in Kinds, NEW refused \in BOOLEAN,
         changeRow(s, k, refused), UNCHANGED threshold
  PROVE  MInv' /\ LogStep
<1>1. /\ SessionOK(s, session[s]) /\ streamed \in StreamedType /\ faults \in FaultsType
  BY AtSession, Zenon
<1>2. PICK t : t = session[s]
  BY Zenon
<1>3. PICK u : u = LogRow(WithChange(t), k, t.used + 1, refused)
  BY Zenon
<1>4. u \in Logged(t, k)
  BY <1>3, Zenon DEF Logged
<1>5. /\ Set(s, u) /\ t.command # "none" /\ t.used < MaxChanges[s]
      /\ UNCHANGED <<commit_id, history, log, flushed, streamed>>
      /\ Fault("refusals") \/ UNCHANGED faults
  BY <1>2, <1>3, Zenon DEF changeRow, WithChange
<1>6. SessionOK(s, u) /\ t.committing = FALSE /\ u.committing = FALSE
  BY <1>1, <1>2, <1>4, <1>5, ChangedOK, Zenon
<1>7. Pending(u) = Pending(session[s])
  BY <1>2, <1>6, Zenon DEF Pending
<1>8. streamed' \in StreamedType /\ faults' \in FaultsType
  BY <1>1, <1>5, FaultTyped, Zenon
<1>9. MInv' /\ UNCHANGED Log!logvars
  BY <1>5, <1>6, <1>7, <1>8, QuietStep, Zenon
<1> QED
  BY <1>9, Zenon DEF LogStep

\* The end of a statement, which commits without a transaction around it.
LEMMA EndStatementStep ==
  ASSUME MInv, NEW s \in Sessions, NEW refused \in BOOLEAN, endStatement(s, refused),
         UNCHANGED threshold
  PROVE  MInv' /\ LogStep
<1>1. /\ SessionOK(s, session[s]) /\ streamed \in StreamedType /\ faults \in FaultsType
      /\ session[s].committing = FALSE => Pending(session[s]) = 0
  BY AtSession, Zenon
<1>2. PICK t : t = Ended(session[s])
  BY Zenon
<1>3. session[s].command # "none" /\ UNCHANGED <<history, log, flushed>>
  BY Zenon DEF endStatement
<1>4. /\ SessionOK(s, t) /\ t.committing = FALSE /\ t.command = "none"
      /\ session[s].committing = FALSE
  BY <1>1, <1>2, <1>3, EndedOK, ZenonT(30)
<1>5. Pending(t) = 0 /\ Pending(session[s]) = 0
  BY <1>1, <1>4, Zenon DEF Pending
<1>6. CASE t.begun
  <2>1. Set(s, t) /\ UNCHANGED <<commit_id, streamed, faults>>
    BY <1>2, <1>6, Zenon DEF endStatement, Ended
  <2>2. streamed' \in StreamedType /\ faults' \in FaultsType
    BY <1>1, <2>1, Zenon
  <2>3. MInv' /\ UNCHANGED Log!logvars
    BY <1>3, <1>4, <1>5, <2>1, <2>2, QuietStep, Zenon
  <2> QED
    BY <2>3, Zenon DEF LogStep
<1>7. CASE ~t.begun
  <2>1. PushCommit(s, t, refused)
    BY <1>2, <1>7, Zenon DEF endStatement, Ended
  <2> QED
    BY <1>3, <1>4, <1>5, <2>1, PushCommitStep, Zenon
<1> QED
  BY <1>6, <1>7, Zenon

\* A statement that fails, alone or with its transaction.
LEMMA FailStatementStep ==
  ASSUME MInv, NEW s \in Sessions, NEW whole \in BOOLEAN, NEW refused \in BOOLEAN,
         failStatement(s, whole, refused), UNCHANGED threshold
  PROVE  MInv' /\ LogStep
<1>1. /\ SessionOK(s, session[s]) /\ streamed \in StreamedType /\ faults \in FaultsType
      /\ session[s].committing = FALSE => Pending(session[s]) = 0
  BY AtSession, Zenon
<1>2. PICK t : t = session[s]
  BY Zenon
<1>3. PICK u : u = Undone(t)
  BY Zenon
<1>4. t.command # "none" /\ UNCHANGED <<history, log, flushed>>
  BY <1>2, Zenon DEF failStatement
<1>5. /\ SessionOK(s, u) /\ u.committing = FALSE /\ t.committing = FALSE
  BY <1>1, <1>2, <1>3, <1>4, FailedOK, Zenon
<1>6. Pending(u) = 0 /\ Pending(session[s]) = 0
  BY <1>1, <1>2, <1>5, Zenon DEF Pending
<1>7. faults' \in FaultsType
  <2>1. PICK more : more = IF refused THEN faults.refusals + 1 ELSE faults.refusals
    BY Zenon
  <2>2. faults' = [faults EXCEPT !.failures = @ + 1, !.refusals = more]
    BY <2>1, Zenon DEF failStatement
  <2>3. faults.failures + 1 \in Nat /\ faults.refusals + 1 \in Nat /\ faults.refusals \in Nat
    BY <1>1 DEF FaultsType
  <2>4. more \in Nat
    BY <2>1, <2>3, Zenon
  <2> QED
    BY <1>1, <2>2, <2>3, <2>4, Zenon DEF FaultsType
<1>8. \/ RollbackAll(s, t, refused)
      \/ RollbackAll(s, u, refused)
      \/ Set(s, u) /\ UNCHANGED <<commit_id, streamed>>
  BY <1>2, <1>3, Zenon DEF failStatement, Undone
<1>9. CASE RollbackAll(s, t, refused)
  BY <1>1, <1>2, <1>4, <1>6, <1>7, <1>9, RollbackAllStep, Zenon
<1>10. CASE RollbackAll(s, u, refused)
  BY <1>4, <1>5, <1>6, <1>7, <1>10, RollbackAllStep, Zenon
<1>11. CASE Set(s, u) /\ UNCHANGED <<commit_id, streamed>>
  <2>1. streamed' \in StreamedType
    BY <1>1, <1>11, Zenon
  <2>2. MInv' /\ UNCHANGED Log!logvars
    BY <1>4, <1>5, <1>6, <1>7, <1>11, <2>1, QuietStep, Zenon
  <2> QED
    BY <2>2, Zenon DEF LogStep
<1> QED
  BY <1>8, <1>9, <1>10, <1>11, Zenon

\* COMMIT, up to the push.
LEMMA CommitStep ==
  ASSUME MInv, NEW s \in Sessions, NEW refused \in BOOLEAN, commit(s, refused),
         UNCHANGED threshold
  PROVE  MInv' /\ LogStep
<1>1. /\ SessionOK(s, session[s]) /\ session[s].committing \in BOOLEAN
      /\ session[s].committing = FALSE => Pending(session[s]) = 0
  BY AtSession, Zenon
<1>2. /\ PushCommit(s, session[s], refused) /\ UNCHANGED <<history, log, flushed>>
      /\ session[s].command = "none" /\ ~session[s].committing
  BY Zenon DEF commit, Ready
<1>3. session[s].committing = FALSE
  BY <1>1, <1>2, Zenon
<1> QED
  BY <1>1, <1>2, <1>3, PushCommitStep, Zenon

\* ROLLBACK.
LEMMA RollbackStep ==
  ASSUME MInv, NEW s \in Sessions, NEW refused \in BOOLEAN, rollback(s, refused),
         UNCHANGED threshold
  PROVE  MInv' /\ LogStep
<1>1. /\ SessionOK(s, session[s]) /\ session[s].committing \in BOOLEAN
      /\ session[s].committing = FALSE => Pending(session[s]) = 0
      /\ faults \in FaultsType
  BY AtSession, Zenon
<1>2. /\ RollbackAll(s, session[s], refused) /\ UNCHANGED <<history, log, flushed>>
      /\ ~session[s].committing /\ (Fault("refusals") \/ UNCHANGED faults)
  BY Zenon DEF rollback, Ready
<1>3. Pending(session[s]) = 0 /\ faults' \in FaultsType
  BY <1>1, <1>2, FaultTyped, Zenon
<1> QED
  BY <1>1, <1>2, <1>3, RollbackAllStep, Zenon


\* SAVEPOINT, which releases an older one of the name.
LEMMA SetSavepointStep ==
  ASSUME MInv, NEW s \in Sessions, NEW name \in Savepoints, setSavepoint(s, name),
         UNCHANGED threshold
  PROVE  MInv' /\ LogStep
<1>1. /\ SessionOK(s, session[s]) /\ session[s] \in SessionType
      /\ session[s].committing \in BOOLEAN
      /\ session[s].committing = FALSE => Pending(session[s]) = 0
      /\ streamed \in StreamedType /\ faults \in FaultsType
  BY AtSession, Zenon
<1>2. PICK t : t = session[s]
  BY Zenon
<1>3. PICK kept : kept = IF Find(t, name) = {} THEN t
                         ELSE Erased(t, CHOOSE i \in Find(t, name) : TRUE)
  BY Zenon
<1>4. PICK new : new = [name |-> name, mark |-> Lengths(t.trx), message |-> t.message]
  BY Zenon
<1>5. PICK u : u = [kept EXCEPT !.savepoints = <<new>> \o @, !.saves = @ + 1]
  BY Zenon
<1>6. /\ Set(s, u) /\ t.command = "none" /\ ~t.committing
      /\ UNCHANGED <<commit_id, history, log, flushed, streamed, faults>>
  BY <1>2, <1>3, <1>4, <1>5, Zenon DEF setSavepoint, Ready
<1>7. new \in SavepointType /\ new.mark = Lengths(t.trx)
  <2>1. Lengths(t.trx) \in Mark
    BY <1>1, <1>2, SavepointMarks, Zenon
  <2>2. t.message \in Message \cup {NoMessage}
    BY <1>1, <1>2, Zenon DEF SessionType
  <2> QED
    BY <1>4, <2>1, <2>2, Zenon DEF SavepointType
<1>8. SessionOK(s, kept) /\ kept.command = "none" /\ kept.committing = FALSE /\ kept.trx = t.trx
  <2>1. CASE Find(t, name) = {}
    BY <1>1, <1>2, <1>3, <1>6, <2>1, Zenon
  <2>2. CASE Find(t, name) # {}
    <3>1. PICK i : i = CHOOSE k \in Find(t, name) : TRUE
      BY Zenon
    <3>2. i \in Find(t, name)
      BY <2>2, <3>1, Zenon
    <3>3. i \in DOMAIN t.savepoints
      BY <3>2, Zenon DEF Find
    <3>4. kept = Erased(t, i)
      BY <1>3, <2>2, <3>1, Zenon
    <3>5. SessionOK(s, kept) /\ kept.command = "none" /\ kept.committing = t.committing
          /\ kept.trx = t.trx
      BY <1>1, <1>2, <1>6, <3>3, <3>4, ErasedOK
    <3> QED
      BY <1>1, <1>2, <1>6, <3>5, Zenon
  <2> QED
    BY <2>1, <2>2, Zenon
<1>9. SessionOK(s, u) /\ u.committing = FALSE
  BY <1>5, <1>7, <1>8, SavedOK, Zenon
<1>10. Pending(u) = Pending(session[s])
  BY <1>1, <1>2, <1>6, <1>9, Zenon DEF Pending
<1>11. streamed' \in StreamedType /\ faults' \in FaultsType
  BY <1>1, <1>6, Zenon
<1>12. MInv' /\ UNCHANGED Log!logvars
  BY <1>6, <1>9, <1>10, <1>11, QuietStep, Zenon
<1> QED
  BY <1>12, Zenon DEF LogStep

\* RELEASE SAVEPOINT.
LEMMA ReleaseSavepointStep ==
  ASSUME MInv, NEW s \in Sessions, NEW name \in Savepoints, releaseSavepoint(s, name),
         UNCHANGED threshold
  PROVE  MInv' /\ LogStep
<1>1. /\ SessionOK(s, session[s]) /\ session[s].committing \in BOOLEAN
      /\ session[s].committing = FALSE => Pending(session[s]) = 0
      /\ streamed \in StreamedType /\ faults \in FaultsType
  BY AtSession, Zenon
<1>2. PICK t : t = session[s]
  BY Zenon
<1>3. PICK i : i = CHOOSE j \in Find(t, name) : TRUE
  BY Zenon
<1>4. PICK u : u = Erased(t, i)
  BY Zenon
<1>5. /\ Set(s, u) /\ t.command = "none" /\ ~t.committing /\ Find(t, name) # {}
      /\ UNCHANGED <<commit_id, history, log, flushed, streamed, faults>>
  BY <1>2, <1>3, <1>4, Zenon DEF releaseSavepoint, Ready
<1>6. i \in Find(t, name)
  BY <1>3, <1>5, Zenon
<1>7. i \in DOMAIN t.savepoints
  BY <1>6, Zenon DEF Find
<1>8. SessionOK(s, u) /\ u.committing = t.committing
  <2>1. SessionOK(s, t) /\ t.command = "none"
    BY <1>1, <1>2, <1>5, Zenon
  <2> QED
    BY <1>4, <1>7, <2>1, ErasedOK
<1>9. Pending(u) = Pending(session[s])
  BY <1>1, <1>2, <1>5, <1>8, Zenon DEF Pending
<1>10. streamed' \in StreamedType /\ faults' \in FaultsType
  BY <1>1, <1>5, Zenon
<1>11. MInv' /\ UNCHANGED Log!logvars
  BY <1>5, <1>8, <1>9, <1>10, QuietStep, Zenon
<1> QED
  BY <1>11, Zenon DEF LogStep

\* ROLLBACK TO SAVEPOINT.
LEMMA RollbackToSavepointStep ==
  ASSUME MInv, NEW s \in Sessions, NEW name \in Savepoints, rollbackToSavepoint(s, name),
         UNCHANGED threshold
  PROVE  MInv' /\ LogStep
<1>1. /\ SessionOK(s, session[s]) /\ session[s] \in SessionType
      /\ session[s].committing \in BOOLEAN
      /\ session[s].committing = FALSE => Pending(session[s]) = 0
      /\ streamed \in StreamedType /\ faults \in FaultsType
  BY AtSession, Zenon
<1>2. PICK t : t = session[s]
  BY Zenon
<1>3. PICK i : i = CHOOSE j \in Find(t, name) : TRUE
  BY Zenon
<1>4. PICK marks : marks = IF /\ t.message # NoMessage
                              /\ t.message.segment_id >
                                   (IF t.savepoints[i].message = NoMessage
                                    THEN 1 ELSE t.savepoints[i].message.segment_id)
                           THEN t.marks \cup {"restored"} ELSE t.marks
  BY Zenon
<1>5. marks \in SUBSET Marks
  <2>1. t.marks \in SUBSET Marks
    BY <1>1, <1>2, Zenon DEF SessionType
  <2>2. "restored" \in Marks
    BY Zenon DEF Marks
  <2> QED
    BY <1>4, <2>1, <2>2, Zenon
<1>6. PICK u : u = Restored(t, i, marks)
  BY Zenon
<1>7. /\ Set(s, u) /\ t.command = "none" /\ ~t.committing /\ Find(t, name) # {}
      /\ UNCHANGED <<commit_id, history, log, flushed, streamed, faults>>
  BY <1>2, <1>3, <1>4, <1>6, Zenon DEF rollbackToSavepoint, Ready, Restored
<1>8. i \in Find(t, name)
  BY <1>3, <1>7, Zenon
<1>9. i \in DOMAIN t.savepoints
  BY <1>8, Zenon DEF Find
<1>10. SessionOK(s, u) /\ u.committing = FALSE
  BY <1>1, <1>2, <1>5, <1>6, <1>7, <1>9, RestoredOK, Zenon
<1>11. Pending(u) = Pending(session[s])
  BY <1>1, <1>2, <1>7, <1>10, Zenon DEF Pending
<1>12. streamed' \in StreamedType /\ faults' \in FaultsType
  BY <1>1, <1>7, Zenon
<1>13. MInv' /\ UNCHANGED Log!logvars
  BY <1>7, <1>10, <1>11, <1>12, QuietStep, Zenon
<1> QED
  BY <1>13, Zenon DEF LogStep


-----------------------------------------------------------------------------
(* The commit, the redo log and a crash.                                     *)
LEMMA LoggedAtTyped ==
  ASSUME HistoryOK, NEW k \in 0..Len(history)
  PROVE  /\ LoggedAt(k) \in Nat /\ LoggedAt(k) <= Len(log)
         /\ \A j \in 0..k : LoggedAt(j) \in Nat /\ LoggedAt(j) <= LoggedAt(k)
<1>1. /\ Len(history) \in Nat /\ Len(log) \in Nat /\ DOMAIN history = 1..Len(history)
      /\ \A j \in DOMAIN history : history[j].logged \in Nat
  BY HistoryParts, Zenon
<1>2. /\ \A j \in DOMAIN history : history[j].logged <= Len(log)
      /\ \A i, j \in DOMAIN history : i <= j => history[i].logged <= history[j].logged
  BY Zenon DEF HistoryOK
<1>3. ASSUME NEW j \in 0..Len(history)
      PROVE  LoggedAt(j) \in Nat /\ LoggedAt(j) <= Len(log)
  BY <1>1, <1>2 DEF LoggedAt
<1>4. ASSUME NEW j \in 0..k
      PROVE  LoggedAt(j) \in Nat /\ LoggedAt(j) <= LoggedAt(k)
  <2>1. CASE j = 0
    BY <1>3, <2>1 DEF LoggedAt
  <2>2. CASE j # 0
    <3>1. j \in DOMAIN history /\ k \in DOMAIN history /\ j <= k /\ k # 0
      BY <1>1, <2>2
    <3> QED
      BY <1>1, <1>2, <2>2, <3>1, Zenon DEF LoggedAt
  <2> QED
    BY <2>1, <2>2, Zenon
<1> QED
  BY <1>3, <1>4, Zenon

\* The flush of the redo log is CommitLog's, or no logged transaction was in it.
LEMMA FlushStep ==
  ASSUME MInv, flush, UNCHANGED threshold
  PROVE  MInv' /\ LogStep
<1>1. /\ SharedOK /\ HistoryOK /\ SessionsOK /\ commit_id \in Nat
      /\ flushed \in 0..Len(history)
  BY Zenon DEF MInv, SharedOK
<1>2. /\ flushed' = Len(history)
      /\ UNCHANGED <<session, commit_id, history, log, streamed, faults>>
  BY Zenon DEF flush
<1>3. Len(history) \in Nat /\ Len(log) \in Nat
  BY <1>1, HistoryParts, Zenon
<1>4. HistoryOK'
  BY <1>1, <1>2, HistoryStays
<1>5. SessionsOK'
  BY <1>1, <1>2, Zenon DEF SessionsOK
<1>6. SharedOK'
  <2>1. flushed' \in 0..Len(history)
    BY <1>2, <1>3
  <2> QED
    BY <1>1, <1>2, <2>1, Zenon DEF SharedOK
<1>7. LoggedAt(flushed)' = Len(log)
  <2>1. LoggedAt(Len(history)) = Len(log)
    BY <1>1, Zenon DEF HistoryOK
  <2>2. LoggedAt(flushed)' = LoggedAt(Len(history))
    BY <1>2, Zenon DEF LoggedAt
  <2> QED
    BY <2>1, <2>2, Zenon
<1>8. LoggedAt(flushed) \in Nat /\ LoggedAt(flushed) <= Len(log)
  BY <1>1, LoggedAtTyped, Zenon
<1>9. [r \in Sessions |-> Pending(session[r])]' = [r \in Sessions |-> Pending(session[r])]
  BY <1>2, Zenon
<1>10. LogStep
  <2>1. CASE LoggedAt(flushed) = Len(log)
    <3>1. UNCHANGED Log!logvars
      BY <1>2, <1>7, <1>9, <2>1, Zenon DEF Log!logvars
    <3> QED
      BY <3>1, Zenon DEF LogStep
  <2>2. CASE LoggedAt(flushed) # Len(log)
    <3>1. LoggedAt(flushed) < Len(log)
      BY <1>3, <1>8, <2>2
    <3>2. Log!Flush
      BY <1>2, <1>7, <1>9, <3>1, Zenon DEF Log!Flush
    <3> QED
      BY <3>2, Zenon DEF LogStep, Log!LogNext
  <2> QED
    BY <2>1, <2>2, Zenon
<1> QED
  BY <1>4, <1>5, <1>6, <1>10, Zenon DEF MInv

\* Recovery finds a prefix of the commits and a counter not behind it.
LEMMA CrashedHistory ==
  ASSUME HistoryOK, commit_id \in Nat, NEW k \in 0..Len(history),
         history' = SubSeq(history, 1, k), log' = SubSeq(log, 1, LoggedAt(k)),
         commit_id' \in (IF k = 0 THEN 0 ELSE history[k].disk)..commit_id
  PROVE  /\ HistoryOK' /\ Len(history') = k /\ commit_id' \in Nat /\ commit_id' <= commit_id
         /\ (flushed' = k => LoggedAt(flushed)' = LoggedAt(k))
         /\ LoggedAt(k) # 0 => log[LoggedAt(k)].disk <= commit_id'
<1>1. /\ history \in Seq(HistoryType) /\ Len(history) \in Nat
      /\ log \in Seq(EntryType) /\ Len(log) \in Nat
      /\ DOMAIN history = 1..Len(history)
      /\ \A j \in DOMAIN history : history[j].disk \in Nat /\ history[j].logged \in Nat
  BY HistoryParts, Zenon
<1>2. PICK n \in Nat : n = LoggedAt(k) /\ n <= Len(log)
  BY LoggedAtTyped, Zenon
<1>3. k \in Nat /\ k <= Len(history)
  BY <1>1
<1>4. /\ history' \in Seq(HistoryType) /\ Len(history') = k /\ DOMAIN history' = 1..k
      /\ 1..k \subseteq DOMAIN history /\ \A i \in 1..k : history'[i] = history[i]
  BY <1>1, <1>3, Prefix, Zenon
<1>5. /\ log' \in Seq(EntryType) /\ Len(log') = n
      /\ \A i \in 1..n : log'[i] = log[i]
  BY <1>1, <1>2, Prefix, Zenon
<1>6. /\ \A j \in DOMAIN history :
           /\ history[j].disk <= commit_id
           /\ history[j].logged <= Len(log)
           /\ history[j].logged # 0 => log[history[j].logged].disk <= history[j].disk
      /\ \A i, j \in DOMAIN history :
           i <= j => history[i].logged <= history[j].logged /\ history[i].disk <= history[j].disk
  BY Zenon DEF HistoryOK
<1>7. CASE k = 0
  <2>1. n = 0 /\ commit_id' \in Nat /\ commit_id' <= commit_id
    BY <1>2, <1>7 DEF LoggedAt
  <2>2. DOMAIN history' = {} /\ Len(history') = 0 /\ Len(log') = 0
    BY <1>4, <1>5, <1>7, <2>1
  <2>3. LoggedAt(Len(history))' = Len(log')
    BY <2>2, Zenon DEF LoggedAt
  <2>4. HistoryOK'
    BY <1>4, <1>5, <2>2, <2>3, Zenon DEF HistoryOK
  <2>5. flushed' = k => LoggedAt(flushed)' = LoggedAt(k)
    BY <1>7, Zenon DEF LoggedAt
  <2> QED
    BY <1>2, <1>4, <1>7, <2>1, <2>4, <2>5
<1>8. CASE k # 0
  <2>1. k \in DOMAIN history /\ n = history[k].logged
    BY <1>1, <1>2, <1>3, <1>8 DEF LoggedAt
  <2>2. commit_id' \in Nat /\ history[k].disk <= commit_id' /\ commit_id' <= commit_id
    BY <1>1, <1>8, <2>1
  <2>3. k \in 1..k
    BY <1>3, <1>8
  <2>4. LoggedAt(Len(history))' = Len(log') /\ (flushed' = k => LoggedAt(flushed)' = LoggedAt(k))
    BY <1>2, <1>4, <1>5, <1>8, <2>1, <2>3, Zenon DEF LoggedAt
  <2>5. ASSUME NEW j \in DOMAIN history'
        PROVE  /\ history'[j].disk <= commit_id'
               /\ history'[j].logged <= Len(log')
               /\ history'[j].logged # 0 => log'[history'[j].logged].disk <= history'[j].disk
    <3>1. j \in DOMAIN history /\ j <= k /\ history'[j] = history[j]
      BY <1>3, <1>4, <2>5
    <3>2. history[j].disk <= history[k].disk /\ history[j].logged <= n
          /\ history[j].logged \in Nat
      BY <1>1, <1>6, <2>1, <3>1, Zenon
    <3>3. ASSUME history[j].logged # 0
          PROVE  log'[history[j].logged].disk <= history[j].disk
      <4>1. history[j].logged \in 1..n
        BY <3>2, <3>3
      <4> QED
        BY <1>5, <1>6, <3>1, <3>3, <4>1, Zenon
    <3>4. history[j].disk \in Nat /\ history[k].disk \in Nat
      BY <1>1, <2>1, <3>1, Zenon
    <3>5. history[j].disk <= commit_id'
      BY <2>2, <3>2, <3>4
    <3> QED
      BY <1>5, <2>1, <3>1, <3>2, <3>3, <3>5, Zenon
  <2>6. ASSUME NEW i \in DOMAIN history', NEW j \in DOMAIN history', i <= j
        PROVE  history'[i].logged <= history'[j].logged /\ history'[i].disk <= history'[j].disk
    BY <1>4, <1>6, <2>6, Zenon
  <2>7. HistoryOK'
    BY <1>4, <1>5, <2>4, <2>5, <2>6, Zenon DEF HistoryOK
  <2>8. ASSUME LoggedAt(k) # 0
        PROVE  log[LoggedAt(k)].disk <= commit_id'
    <3>1. LoggedAt(k) \in DOMAIN log
      BY <1>1, <1>2, <2>8
    <3>2. log[LoggedAt(k)].disk <= history[k].disk
      BY <1>2, <1>6, <2>1, <2>8, Zenon
    <3>3. log[LoggedAt(k)] \in EntryType
      BY <1>1, <3>1
    <3>4. log[LoggedAt(k)].disk \in Nat /\ history[k].disk \in Nat
      BY <1>1, <2>1, <3>3, Zenon DEF EntryType
    <3> QED
      BY <2>2, <3>2, <3>4
  <2> QED
    BY <1>4, <2>4, <2>7, <2>8, <2>2, Zenon
<1> QED
  BY <1>7, <1>8, Zenon


\* A crash is CommitLog's.
LEMMA CrashStep ==
  ASSUME MInv, crash, UNCHANGED threshold
  PROVE  MInv' /\ LogStep
<1>1. /\ SharedOK /\ HistoryOK /\ SessionsOK /\ commit_id \in Nat
      /\ flushed \in 0..Len(history) /\ faults \in FaultsType
  BY Zenon DEF MInv, SharedOK, FaultsType
<1>2. Len(history) \in Nat /\ Len(log) \in Nat
  BY <1>1, HistoryParts, Zenon
<1>3. PICK k \in flushed..Len(history) :
        /\ history' = SubSeq(history, 1, k)
        /\ log' = SubSeq(log, 1, LoggedAt(k))
        /\ flushed' = k
        /\ commit_id' \in (IF k = 0 THEN 0 ELSE history[k].disk)..commit_id
  BY Zenon DEF crash
<1>4. /\ session' = [s \in Sessions |-> Idle(session[s].used, session[s].saves)]
      /\ streamed' = streamed /\ Fault("crashes")
  BY Zenon DEF crash
<1>5. k \in 0..Len(history) /\ flushed \in 0..k /\ k \in Nat
  BY <1>1, <1>2
<1>6. /\ HistoryOK' /\ Len(history') = k /\ commit_id' \in Nat /\ commit_id' <= commit_id
      /\ LoggedAt(flushed)' = LoggedAt(k)
      /\ LoggedAt(k) # 0 => log[LoggedAt(k)].disk <= commit_id'
  BY <1>1, <1>3, <1>5, CrashedHistory, Zenon
<1>7. SharedOK'
  <2>1. faults' \in FaultsType
    BY <1>1, <1>4, FaultTyped, Zenon
  <2>2. flushed' \in 0..Len(history')
    BY <1>3, <1>5, <1>6
  <2> QED
    BY <1>1, <1>4, <1>6, <2>1, <2>2, Zenon DEF SharedOK, FaultsType
<1>8. ASSUME NEW s \in Sessions
      PROVE  SessionOK(s, session'[s]) /\ Pending(session'[s]) = 0
  <2>1. PICK u : u = Idle(session[s].used, session[s].saves)
    BY Zenon
  <2>2. session[s] \in SessionType /\ session[s].used <= MaxChanges[s]
    BY <1>1, Zenon DEF SessionsOK, SessionOK
  <2>3. session[s].used \in Nat /\ session[s].saves \in Nat
    BY <2>2, Zenon DEF SessionType
  <2>4. SessionOK(s, u) /\ u.committing = FALSE
    BY <2>1, <2>2, <2>3, IdleOK, Zenon
  <2>5. Pending(u) = 0
    BY <2>4, Zenon DEF Pending
  <2>6. session'[s] = u
    BY <1>4, <2>1, Zenon
  <2> QED
    BY <2>4, <2>5, <2>6, Zenon
<1>9. SessionsOK'
  <2>1. session' = [s \in Sessions |-> session'[s]]
    BY <1>4, Zenon
  <2> QED
    BY <1>8, <2>1, Zenon DEF SessionsOK
<1>10. [r \in Sessions |-> Pending(session[r])]' = [r \in Sessions |-> 0]
  BY <1>8, Zenon
<1>11. PICK n \in Nat : n = LoggedAt(k) /\ n <= Len(log)
  BY <1>1, <1>5, LoggedAtTyped, Zenon
<1>12. LoggedAt(flushed) \in Nat /\ LoggedAt(flushed) <= n
  BY <1>1, <1>5, <1>11, LoggedAtTyped, Zenon
<1>13. n \in LoggedAt(flushed)..Len(log)
  BY <1>2, <1>11, <1>12
<1>14. commit_id' \in Log!OnDisk(log, n)..commit_id
  <2>1. CASE n = 0
    BY <1>1, <1>6, <2>1 DEF Log!OnDisk
  <2>2. CASE n # 0
    <3>1. log[n].disk \in Nat
      <4>1. log \in Seq(EntryType) /\ n \in DOMAIN log
        BY <1>1, <1>11, <2>2, HistoryParts
      <4>2. log[n] \in EntryType
        BY <4>1
      <4> QED
        BY <4>2, Zenon DEF EntryType
    <3>2. log[n].disk <= commit_id'
      BY <1>6, <1>11, <2>2, Zenon
    <3> QED
      BY <1>1, <1>6, <2>2, <3>1, <3>2 DEF Log!OnDisk
  <2> QED
    BY <2>1, <2>2, Zenon
<1>15. log' = SubSeq(log, 1, n) /\ LoggedAt(flushed)' = n
  BY <1>3, <1>6, <1>11, Zenon
<1>16. Log!Crash
  BY <1>10, <1>13, <1>14, <1>15, Zenon DEF Log!Crash
<1>17. LogStep
  BY <1>16, Zenon DEF LogStep, Log!LogNext
<1> QED
  BY <1>6, <1>7, <1>9, <1>17, Zenon DEF MInv

\* the history after a commit: the log has its transaction, or nothing more
LEMMA CommittedHistory ==
  ASSUME HistoryOK, commit_id \in Nat, commit_id' = commit_id, flushed \in 0..Len(history),
         flushed' = flushed, NEW h \in HistoryType, history' = Append(history, h),
         h.disk = commit_id, h.logged = Len(log'),
         \/ log' = log
         \/ \E e \in EntryType : e.disk = commit_id /\ log' = Append(log, e)
  PROVE  HistoryOK' /\ LoggedAt(flushed)' = LoggedAt(flushed)
<1>1. /\ history \in Seq(HistoryType) /\ Len(history) \in Nat
      /\ log \in Seq(EntryType) /\ Len(log) \in Nat
      /\ DOMAIN history = 1..Len(history)
      /\ \A j \in DOMAIN history : history[j].disk \in Nat /\ history[j].logged \in Nat
  BY HistoryParts, Zenon
<1>2. PICK n \in Nat : n = Len(history)
  BY <1>1, Zenon
<1>3. /\ history' \in Seq(HistoryType) /\ Len(history') = n + 1 /\ DOMAIN history' = 1..(n + 1)
      /\ \A j \in 1..n : history'[j] = history[j]
      /\ history'[n + 1] = h
  <2>1. /\ history' \in Seq(HistoryType) /\ Len(history') = n + 1
        /\ \A j \in 1..n : history'[j] = history[j]
        /\ history'[n + 1] = h
    BY <1>1, <1>2, Appended
  <2> QED
    BY <2>1
<1>4. /\ \A j \in DOMAIN history :
           /\ history[j].disk <= commit_id
           /\ history[j].logged <= Len(log)
           /\ history[j].logged # 0 => log[history[j].logged].disk <= history[j].disk
      /\ \A i, j \in DOMAIN history :
           i <= j => history[i].logged <= history[j].logged /\ history[i].disk <= history[j].disk
      /\ LoggedAt(Len(history)) = Len(log)
  BY Zenon DEF HistoryOK
<1>5. /\ log' \in Seq(EntryType) /\ Len(log') \in Nat /\ Len(log) <= Len(log')
      /\ \A i \in 1..Len(log) : log'[i] = log[i]
      /\ Len(log') # 0 => log'[Len(log')].disk <= commit_id
  <2>1. CASE log' = log
    <3>1. ASSUME Len(log) # 0
          PROVE  log[Len(log)].disk <= commit_id
      <4>1. n # 0 /\ n \in DOMAIN history /\ history[n].logged = Len(log)
        BY <1>1, <1>2, <1>4, <3>1 DEF LoggedAt
      <4>2. log[Len(log)].disk <= history[n].disk /\ history[n].disk <= commit_id
            /\ history[n].disk \in Nat
        BY <1>1, <1>4, <3>1, <4>1, Zenon
      <4>3. log[Len(log)].disk \in Nat
        <5>1. log[Len(log)] \in EntryType
          BY <1>1, <3>1
        <5> QED
          BY <5>1, Zenon DEF EntryType
      <4> QED
        BY <4>2, <4>3
    <3> QED
      BY <1>1, <2>1, <3>1
  <2>2. ASSUME NEW e \in EntryType, e.disk = commit_id, log' = Append(log, e)
        PROVE  /\ log' \in Seq(EntryType) /\ Len(log') \in Nat /\ Len(log) <= Len(log')
               /\ \A i \in 1..Len(log) : log'[i] = log[i]
               /\ log'[Len(log')].disk <= commit_id
    <3>1. /\ log' \in Seq(EntryType) /\ Len(log') = Len(log) + 1
          /\ \A i \in 1..Len(log) : log'[i] = log[i]
          /\ log'[Len(log) + 1] = e
      BY <1>1, <2>2, Appended
    <3>2. log'[Len(log')].disk = commit_id
      BY <2>2, <3>1, Zenon
    <3>3. log'[Len(log')].disk <= commit_id
      BY <3>2
    <3> QED
      BY <1>1, <3>1, <3>3
  <2> QED
    BY <2>1, <2>2, Zenon
<1>6. ASSUME NEW j \in DOMAIN history'
      PROVE  /\ history'[j].disk <= commit_id'
             /\ history'[j].logged <= Len(log')
             /\ history'[j].logged # 0 => log'[history'[j].logged].disk <= history'[j].disk
  <2>1. CASE j = n + 1
    BY <1>3, <1>5, <2>1
  <2>2. CASE j \in 1..n
    <3>1. j \in DOMAIN history /\ history'[j] = history[j]
      BY <1>1, <1>2, <1>3, <2>2, Zenon
    <3>2. history[j].disk <= commit_id /\ history[j].logged <= Len(log) /\ history[j].logged \in Nat
      BY <1>1, <1>4, <3>1, Zenon
    <3>3. history[j].logged <= Len(log')
      BY <1>1, <1>5, <3>2
    <3>4. ASSUME history[j].logged # 0
          PROVE  log'[history[j].logged].disk <= history[j].disk
      <4>1. history[j].logged \in 1..Len(log)
        BY <1>1, <3>2, <3>4
      <4> QED
        BY <1>4, <1>5, <3>1, <3>4, <4>1, Zenon
    <3> QED
      BY <3>1, <3>2, <3>3, <3>4, Zenon
  <2> QED
    BY <1>3, <1>6, <2>1, <2>2
<1>7. ASSUME NEW i \in DOMAIN history', NEW j \in DOMAIN history', i <= j
      PROVE  history'[i].logged <= history'[j].logged /\ history'[i].disk <= history'[j].disk
  <2>1. CASE j = n + 1
    <3>1. history'[j].logged = Len(log') /\ history'[j].disk = commit_id'
      BY <1>3, <2>1, Zenon
    <3> QED
      BY <1>6, <3>1, Zenon
  <2>2. CASE j \in 1..n
    <3>1. /\ i \in DOMAIN history /\ history'[i] = history[i]
          /\ j \in DOMAIN history /\ history'[j] = history[j]
      BY <1>1, <1>2, <1>3, <1>7, <2>2
    <3> QED
      BY <1>4, <1>7, <3>1, Zenon
  <2> QED
    BY <1>3, <1>7, <2>1, <2>2
<1>8. LoggedAt(Len(history))' = Len(log')
  <2>1. LoggedAt(Len(history))' = history'[n + 1].logged
    BY <1>3 DEF LoggedAt
  <2> QED
    BY <1>3, <2>1, Zenon
<1>9. HistoryOK'
  BY <1>3, <1>5, <1>6, <1>7, <1>8, Zenon DEF HistoryOK
<1>10. LoggedAt(flushed)' = LoggedAt(flushed)
  <2>1. CASE flushed = 0
    BY <2>1, Zenon DEF LoggedAt
  <2>2. CASE flushed # 0
    <3>1. flushed \in 1..n
      BY <1>1, <1>2, <2>2
    <3>2. history'[flushed] = history[flushed]
      BY <1>3, <3>1, Zenon
    <3> QED
      BY <2>2, <3>2, Zenon DEF LoggedAt
  <2> QED
    BY <2>1, <2>2, Zenon
<1> QED
  BY <1>9, <1>10, Zenon


\* The engine's commit publishes what was drawn, or logs nothing.
LEMMA CommitPhaseOneStep ==
  ASSUME MInv, NEW s \in Sessions, commitPhaseOne(s), UNCHANGED threshold
  PROVE  MInv' /\ LogStep
<1>1. /\ SharedOK /\ HistoryOK /\ SessionsOK /\ commit_id \in Nat
      /\ flushed \in 0..Len(history) /\ faults \in FaultsType
  BY Zenon DEF MInv, SharedOK, FaultsType
<1>2. PICK t : t = session[s]
  BY Zenon
<1>3. SessionOK(s, t) /\ t \in SessionType
  BY <1>2, AtSession, Zenon
<1>4. /\ t.trx \in Trx /\ t.trx.changes \in Seq(Nat) /\ t.trx.rows \in Seq(LogRowType)
      /\ t.marks \in SUBSET Marks /\ t.used \in Nat
  BY <1>3, Zenon DEF SessionType, Trx
<1>5. PICK id : id = CommitId(t.trx.rows)
  BY Zenon
<1>6. PICK e : e = [commit_id |-> id, rows |-> Len(t.trx.rows), disk |-> commit_id]
  BY Zenon
<1>7. PICK h : h = [changes |-> t.trx.changes, rows |-> t.trx.rows, marks |-> t.marks,
                    disk |-> commit_id, logged |-> Len(log')]
  BY Zenon
<1>8. /\ t.committing
      /\ log' = IF id = 0 THEN log ELSE Append(log, e)
      /\ history' = IF t.trx = NoTrx THEN history ELSE Append(history, h)
      /\ End(s, t, t.trx.changes)
      /\ UNCHANGED <<commit_id, flushed, faults>>
  BY <1>2, <1>5, <1>6, <1>7, Zenon DEF commitPhaseOne, HeaderCommitId
<1>9. PICK u : u = Idle(t.used, t.saves)
  BY Zenon
<1>10. Set(s, u) /\ SessionOK(s, u) /\ Pending(u) = 0 /\ streamed' \in StreamedType
  BY <1>3, <1>4, <1>8, <1>9, EndTyped, Zenon
<1>11. /\ SessionsOK'
       /\ [r \in Sessions |-> Pending(session'[r])]
            = [[r \in Sessions |-> Pending(session[r])] EXCEPT ![s] = 0]
  BY <1>1, <1>10, SetOK, Zenon
<1>12. [r \in Sessions |-> Pending(session[r])]'
         = [[r \in Sessions |-> Pending(session[r])] EXCEPT ![s] = 0]
  <2>1. [r \in Sessions |-> Pending(session[r])]' = [r \in Sessions |-> Pending(session'[r])]
    BY Zenon
  <2> QED
    BY <1>11, <2>1, Zenon
<1>13. id \in Nat /\ Pending(session[s]) = id /\ (t.trx.rows = << >> => id = 0)
  <2>1. JustTheLast(t.trx.rows)
    BY <1>3, Zenon DEF SessionOK, RowsOK, JustTheLast
  <2>2. CommitId(t.trx.rows) \in Nat /\ (t.trx.rows = << >> => CommitId(t.trx.rows) = 0)
    BY <1>4, <2>1, CommitIdTyped, Zenon
  <2>3. Pending(session[s]) = CommitId(t.trx.rows)
    BY <1>2, <1>8, Zenon DEF Pending
  <2> QED
    BY <1>5, <2>2, <2>3, Zenon
<1>14. ASSUME id # 0
       PROVE  e \in EntryType /\ Len(t.trx.rows) \in 1..MaxRows /\ t.trx # NoTrx
  <2>1. t.trx.rows # << >>
    BY <1>13, <1>14, Zenon
  <2>2. Len(t.trx.rows) \in Nat /\ Len(t.trx.rows) # 0
    BY <1>4, <2>1
  <2>3. Len(t.trx.rows) <= t.used + 1
    BY <1>3, <1>8, Zenon DEF SessionOK, RowsOK
  <2>4. t.used <= MaxChanges[s] /\ MaxChanges[s] \in Nat /\ MaxRows \in Nat /\ MaxChanges[s] < MaxRows
    BY <1>3, MessagesAssumption, Zenon DEF SessionOK
  <2>5. Len(t.trx.rows) \in 1..MaxRows
    BY <1>4, <2>2, <2>3, <2>4
  <2>6. e \in EntryType
    BY <1>1, <1>6, <1>13, <1>14, <2>5, Zenon DEF EntryType
  <2>7. t.trx # NoTrx
    BY <2>1, NoTrxTyped, Zenon
  <2> QED
    BY <2>5, <2>6, <2>7, Zenon
<1>15. Len(log) \in Nat /\ Len(log') \in Nat
  <2>1. log \in Seq(EntryType) /\ Len(log) \in Nat
    BY <1>1, HistoryParts, Zenon
  <2>2. CASE id = 0
    BY <1>8, <2>1, <2>2, Zenon
  <2>3. CASE id # 0
    <3>1. log' = Append(log, e) /\ e \in EntryType
      BY <1>8, <1>14, <2>3, Zenon
    <3> QED
      BY <2>1, <3>1, Appended, Zenon
  <2> QED
    BY <2>2, <2>3, Zenon
<1>16. HistoryOK' /\ LoggedAt(flushed)' = LoggedAt(flushed) /\ Len(history) <= Len(history')
       /\ Len(history') \in Nat /\ Len(history) \in Nat
  <2>1. CASE t.trx = NoTrx
    <3>1. id = 0
      BY <1>14, <2>1, Zenon
    <3>2. history' = history /\ log' = log
      BY <1>8, <2>1, <3>1, Zenon
    <3>3. HistoryOK' /\ LoggedAt(flushed)' = LoggedAt(flushed)
      BY <1>1, <1>8, <3>2, HistoryStays
    <3> QED
      BY <1>1, <3>2, <3>3, HistoryParts
  <2>2. CASE t.trx # NoTrx
    <3>1. h \in HistoryType /\ h.disk = commit_id /\ h.logged = Len(log')
      BY <1>1, <1>4, <1>7, <1>15, Zenon DEF HistoryType
    <3>2. history' = Append(history, h)
      BY <1>8, <2>2, Zenon
    <3>3. \/ log' = log
          \/ \E x \in EntryType : x.disk = commit_id /\ log' = Append(log, x)
      <4>1. e.disk = commit_id
        BY <1>6, Zenon
      <4> QED
        BY <1>8, <1>14, <4>1, Zenon
    <3>4. HistoryOK' /\ LoggedAt(flushed)' = LoggedAt(flushed)
      BY <1>1, <1>8, <3>1, <3>2, <3>3, CommittedHistory, Zenon
    <3>5. history \in Seq(HistoryType)
      BY <1>1, HistoryParts, Zenon
    <3>6. Len(history') = Len(history) + 1 /\ Len(history) \in Nat
      BY <3>1, <3>2, <3>5, Appended
    <3> QED
      BY <3>4, <3>6
  <2> QED
    BY <2>1, <2>2, Zenon
<1>17. SharedOK'
  <2>1. flushed' \in 0..Len(history')
    BY <1>1, <1>8, <1>16
  <2> QED
    BY <1>1, <1>8, <1>10, <2>1, Zenon DEF SharedOK, StreamedType
<1>18. LogStep
  <2>1. CASE id = 0
    <3>1. [r \in Sessions |-> Pending(session[r])]' = [r \in Sessions |-> Pending(session[r])]
      BY <1>12, <1>13, <2>1, Zenon
    <3>2. UNCHANGED Log!logvars
      BY <1>8, <1>16, <2>1, <3>1, Zenon DEF Log!logvars
    <3> QED
      BY <3>2, Zenon DEF LogStep
  <2>2. CASE id # 0
    <3>1. PICK rows \in 1..MaxRows : rows = Len(t.trx.rows)
      BY <1>14, <2>2, Zenon
    <3>2. [r \in Sessions |-> Pending(session[r])][s] = id
      BY <1>13, Zenon
    <3>3. log' = Append(log, [commit_id |-> id, rows |-> rows, disk |-> commit_id])
      BY <1>6, <1>8, <2>2, <3>1, Zenon
    <3>4. Log!Publish(s, rows)
      BY <1>8, <1>12, <1>16, <2>2, <3>2, <3>3, Zenon DEF Log!Publish
    <3> QED
      BY <3>4, Zenon DEF LogStep, Log!LogNext
  <2> QED
    BY <2>1, <2>2, Zenon
<1> QED
  BY <1>11, <1>16, <1>17, <1>18, Zenon DEF MInv

-----------------------------------------------------------------------------
(* The theorems.                                                             *)
LEMMA InitMInv ==
  Init => MInv /\ Log!LogInit
<1> SUFFICES ASSUME Init PROVE MInv /\ Log!LogInit
  BY Zenon
<1>1. ASSUME NEW s \in Sessions
      PROVE  SessionOK(s, session[s]) /\ Pending(session[s]) = 0
  <2>1. PICK u : u = Idle(0, 0)
    BY Zenon
  <2>2. 0 \in Nat /\ 0 <= MaxChanges[s]
    BY MessagesAssumption
  <2>3. SessionOK(s, u) /\ u.committing = FALSE
    BY <2>1, <2>2, IdleOK, Zenon
  <2>4. Pending(u) = 0
    BY <2>3, Zenon DEF Pending
  <2>5. session[s] = u
    BY <2>1, Zenon DEF Init
  <2> QED
    BY <2>3, <2>4, <2>5, Zenon
<1>2. SessionsOK
  <2>1. session = [s \in Sessions |-> session[s]]
    BY Zenon DEF Init
  <2> QED
    BY <1>1, <2>1, Zenon DEF SessionsOK
<1>3. /\ history \in Seq(HistoryType) /\ Len(history) = 0 /\ DOMAIN history = {}
      /\ log \in Seq(EntryType) /\ Len(log) = 0
  BY DEF Init
<1>4. HistoryOK
  BY <1>3, Zenon DEF HistoryOK, LoggedAt
<1>5. SharedOK
  <2>1. streamed \in [sent : Seq(Sent), changes : Seq(Nat), marks : SUBSET Marks]
    <3>1. << >> \in Seq(Sent) /\ << >> \in Seq(Nat) /\ {} \in SUBSET Marks
      OBVIOUS
    <3> QED
      BY <3>1, Zenon DEF Init
  <2>2. faults \in [failures : Nat, refusals : Nat, crashes : Nat]
    BY Zenon DEF Init
  <2> QED
    BY <1>3, <2>1, <2>2 DEF Init, SharedOK
<1>6. Log!LogInit
  <2>1. [s \in Sessions |-> Pending(session[s])] = [s \in Sessions |-> 0]
    BY <1>1, Zenon
  <2>2. LoggedAt(flushed) = 0
    BY Zenon DEF Init, LoggedAt
  <2> QED
    BY <2>1, <2>2, Zenon DEF Init, Log!LogInit
<1> QED
  BY <1>2, <1>4, <1>5, <1>6, Zenon DEF MInv

\* Every step keeps the invariant and is a step of CommitLog, or none.
LEMMA NextMInv ==
  MInv /\ [Next]_vars => MInv' /\ LogStep
<1> SUFFICES ASSUME MInv, [Next]_vars PROVE MInv' /\ LogStep
  BY Zenon
<1>1. CASE UNCHANGED vars
  <2>1. /\ threshold' = threshold /\ session' = session /\ commit_id' = commit_id
        /\ history' = history /\ log' = log /\ flushed' = flushed /\ streamed' = streamed
        /\ faults' = faults
    BY <1>1, Zenon DEF vars
  <2>2. MInv'
    BY <2>1, Zenon DEF MInv, SharedOK, HistoryOK, SessionsOK, LoggedAt
  <2>3. UNCHANGED Log!logvars
    BY <2>1, Zenon DEF Log!logvars, LoggedAt
  <2> QED
    BY <2>2, <2>3, Zenon DEF LogStep
<1>2. CASE Next
  <2>0. UNCHANGED threshold
    BY <1>2, Zenon DEF Next
  <2>1. ASSUME NEW s \in Sessions, begin(s) PROVE MInv' /\ LogStep
    BY <2>0, <2>1, BeginStep, Zenon
  <2>2. ASSUME NEW s \in Sessions, NEW c \in Commands[s], startStatement(s, c)
        PROVE  MInv' /\ LogStep
    BY <2>0, <2>2, StartStatementStep, Zenon
  <2>3. ASSUME NEW s \in Sessions, NEW k \in Kinds, NEW r \in BOOLEAN, changeRow(s, k, r)
        PROVE  MInv' /\ LogStep
    BY <2>0, <2>3, ChangeRowStep, Zenon
  <2>4. ASSUME NEW s \in Sessions, NEW r \in BOOLEAN, endStatement(s, r) PROVE MInv' /\ LogStep
    BY <2>0, <2>4, EndStatementStep, Zenon
  <2>5. ASSUME NEW s \in Sessions, NEW whole \in BOOLEAN, NEW r \in BOOLEAN,
               failStatement(s, whole, r)
        PROVE  MInv' /\ LogStep
    BY <2>0, <2>5, FailStatementStep, Zenon
  <2>6. ASSUME NEW s \in Sessions, NEW r \in BOOLEAN, commit(s, r) PROVE MInv' /\ LogStep
    BY <2>0, <2>6, CommitStep, Zenon
  <2>7. ASSUME NEW s \in Sessions, commitPhaseOne(s) PROVE MInv' /\ LogStep
    BY <2>0, <2>7, CommitPhaseOneStep, Zenon
  <2>8. ASSUME NEW s \in Sessions, NEW r \in BOOLEAN, rollback(s, r) PROVE MInv' /\ LogStep
    BY <2>0, <2>8, RollbackStep, Zenon
  <2>9. ASSUME NEW s \in Sessions, NEW n \in Savepoints, setSavepoint(s, n)
        PROVE  MInv' /\ LogStep
    BY <2>0, <2>9, SetSavepointStep, Zenon
  <2>10. ASSUME NEW s \in Sessions, NEW n \in Savepoints, rollbackToSavepoint(s, n)
         PROVE  MInv' /\ LogStep
    BY <2>0, <2>10, RollbackToSavepointStep, Zenon
  <2>11. ASSUME NEW s \in Sessions, NEW n \in Savepoints, releaseSavepoint(s, n)
         PROVE  MInv' /\ LogStep
    BY <2>0, <2>11, ReleaseSavepointStep, Zenon
  <2>12. CASE flush
    BY <2>0, <2>12, FlushStep, Zenon
  <2>13. CASE crash
    BY <2>0, <2>13, CrashStep, Zenon
  <2> QED
    BY <1>2, <2>1, <2>2, <2>3, <2>4, <2>5, <2>6, <2>7, <2>8, <2>9, <2>10, <2>11, <2>12, <2>13, Zenon
       DEF Next
<1> QED
  BY <1>1, <1>2, Zenon

\* The inductive invariant holds throughout.
THEOREM TransactionMessagesInvariance == Spec => []MInv
<1>1. Init => MInv
  BY InitMInv, Zenon
<1>2. MInv /\ [Next]_vars => MInv'
  BY NextMInv, Zenon
<1> QED
  BY <1>1, <1>2, PTL DEF Spec

\* For any sessions, statements, savepoints, failures, refused messages and crashes: an
\* open statement is the last one of a message, and what InnoDB undoes to, the start of
\* the statement or a savepoint, has not been undone before (TransactionServices and
\* innobase_rollback_to_savepoint agree on what there is).
THEOREM TransactionMessagesTypeCorrect == Spec => []TypeOK
<1>1. MInv => TypeOK
  BY MInvImplies, Zenon
<1> QED
  BY <1>1, TransactionMessagesInvariance, PTL

\* For any sessions, statements, savepoints, failures, refused messages and crashes:
\* insert_replication_message, trx_commit_off_kernel and recovery together are the
\* replication log of CommitLog.  A commit id is drawn once, its rows appear at once under
\* it, and a crash leaves a prefix of the log and a counter that is not behind it; what
\* CommitLogProofs shows of CommitLog holds of the server.
THEOREM MessagesImplementCommitLog == Spec => ImplementsCommitLog
<1>1. Init => Log!LogInit
  BY InitMInv, Zenon
<1>2. MInv /\ [Next]_vars => [Log!LogNext]_(Log!logvars)
  BY NextMInv, Zenon DEF LogStep
<1>3. Spec => Log!LogInit /\ [][Log!LogNext]_(Log!logvars)
  BY <1>1, <1>2, TransactionMessagesInvariance, PTL DEF Spec
<1> QED
  BY <1>3, Zenon DEF ImplementsCommitLog, Log!LogSpec


\* CommitLog's lemmas, for the log of this server.
LogLemmas == INSTANCE CommitLogProofs WITH
               Clients <- Sessions,
               counter <- commit_id,
               pending <- [s \in Sessions |-> Pending(session[s])],
               flushed <- LoggedAt(flushed)

\* Whatever sessions, statements, failures, refused messages and crashes do, no two
\* transactions that a reader finds in the server's replication log have the same commit
\* id: insert_replication_message draws each from trx_sys_commit_id, and recovery never
\* sets that behind an id that survived.
THEOREM ServerCommitIdsDistinct == Spec => []Log!CommitIdsDistinct
<1>1. MaxRows \in Nat \ {0}
  BY MessagesAssumption, Zenon
<1>2. LogLemmas!LogInit => LogLemmas!LogInv
  BY <1>1, LogLemmas!LogInvInit, Zenon
<1>3. LogLemmas!LogInv /\ [LogLemmas!LogNext]_(LogLemmas!logvars) => LogLemmas!LogInv'
  BY <1>1, LogLemmas!LogInvStep, Zenon
<1>4. LogLemmas!LogInv => Log!CommitIdsDistinct
  BY Zenon DEF LogLemmas!LogInv, LogLemmas!CommitIdsDistinct, Log!CommitIdsDistinct
<1>5. Log!LogInit => LogLemmas!LogInit
  BY Zenon DEF Log!LogInit, LogLemmas!LogInit
<1>6. [Log!LogNext]_(Log!logvars) => [LogLemmas!LogNext]_(LogLemmas!logvars)
  BY Zenon DEF Log!LogNext, Log!logvars, Log!Draw, Log!Publish, Log!Waste, Log!Flush, Log!Crash,
         LogLemmas!LogNext, LogLemmas!logvars, LogLemmas!Draw, LogLemmas!Publish,
         LogLemmas!Waste, LogLemmas!Flush, LogLemmas!Crash, Log!OnDisk, LogLemmas!OnDisk
<1>7. Spec => Log!LogInit /\ [][Log!LogNext]_(Log!logvars)
  BY MessagesImplementCommitLog, Zenon DEF ImplementsCommitLog, Log!LogSpec
<1> QED
  BY <1>2, <1>3, <1>4, <1>5, <1>6, <1>7, PTL

-----------------------------------------------------------------------------
(* The segments of a transaction follow each other.  The invariant of one    *)
(* session, while nothing has spoiled its transaction: the rows pushed so far *)
(* are its first segments, the message is the next one, and so is the copy    *)
(* in each savepoint of the rows that were there.  A message that follows     *)
(* others is not empty, not even without the statement that runs, so the      *)
(* transaction does not end without an end segment.                           *)
Numbered(q) == \A i \in DOMAIN q : q[i].message.segment_id = i /\ q[i].end = FALSE

\* the message m goes on after n rows
Fits(m, n) ==
  IF m = NoMessage THEN n = 0 ELSE m.segment_id = n + 1 /\ (n > 0 => m.statement # << >>)

\* the first n rows have m's transaction id
Under(q, n, m) == \A i \in 1..n : q[i].message.id = m.id

\* so it is with the message of each savepoint
SavedFit(q, S) ==
  \A j \in DOMAIN S : Fits(S[j].message, S[j].mark.rows) /\ Under(q, S[j].mark.rows, S[j].message)

InOrder(t) ==
  LET n == Len(t.trx.rows)
  IN /\ Numbered(t.trx.rows)
     /\ Fits(t.message, n) /\ Under(t.trx.rows, n, t.message)
     /\ SavedFit(t.trx.rows, t.savepoints)
     /\ t.command = "none" => ~t.open
     /\ t.open /\ t.mark.rows = n /\ n > 0 => Len(t.message.statement) > 1

Follows(t) ==
  ~Spoiled(t.marks) => IF t.committing THEN Whole(t.trx.rows) ELSE InOrder(t)

NInv == \A s \in Sessions : Follows(session[s])

\* What spoils a transaction is never forgotten.
LEMMA StaysSpoiled ==
  ASSUME NEW a, NEW b, a \subseteq b, ~Spoiled(b)
  PROVE  ~Spoiled(a)
BY Zenon DEF Spoiled

Agree(p, q, k) == \A i \in 1..k : p[i] = q[i]
AllBefore(S, k) == \A j \in DOMAIN S : S[j].mark.rows \in Nat /\ S[j].mark.rows <= k

\* Savepoints tell of the rows before them only.
LEMMA SavedStillFit ==
  ASSUME NEW p, NEW q, NEW k \in Nat, Agree(p, q, k), NEW S, AllBefore(S, k), SavedFit(q, S)
  PROVE  SavedFit(p, S)
<1> SUFFICES ASSUME NEW j \in DOMAIN S
             PROVE  Under(p, S[j].mark.rows, S[j].message)
  BY Zenon DEF SavedFit
<1>1. PICK n \in Nat : n = S[j].mark.rows /\ n <= k
  BY Zenon DEF AllBefore
<1>2. \A i \in 1..n : i \in 1..k
  BY <1>1
<1>3. Under(q, n, S[j].message)
  BY <1>1, Zenon DEF SavedFit
<1>4. Under(p, n, S[j].message)
  BY <1>2, <1>3, Zenon DEF Under, Agree
<1> QED
  BY <1>1, <1>4, Zenon

\* What a sound session has.
LEMMA Parts ==
  ASSUME NEW s \in Sessions, NEW t, SessionOK(s, t)
  PROVE  /\ t.trx \in Trx /\ t.trx.rows \in Seq(LogRowType) /\ Len(t.trx.rows) \in Nat
         /\ DOMAIN t.trx.rows = 1..Len(t.trx.rows)
         /\ t.mark \in Mark /\ t.mark.rows \in Nat /\ t.mark.rows <= Len(t.trx.rows)
         /\ ~t.committing => AllBefore(t.savepoints, Len(t.trx.rows))
         /\ t.message \in Message \cup {NoMessage} /\ t.open \in BOOLEAN
         /\ t.savepoints \in Seq(SavepointType)
<1>1. /\ t \in SessionType /\ t.trx \in Trx /\ t.mark \in Mark /\ t.open \in BOOLEAN
      /\ t.message \in Message \cup {NoMessage} /\ t.savepoints \in Seq(SavepointType)
  BY Zenon DEF SessionOK, SessionType
<1>2. t.trx.rows \in Seq(LogRowType) /\ t.mark.rows \in Nat
  BY <1>1, Zenon DEF Trx, Mark
<1>3. Len(t.trx.rows) \in Nat /\ DOMAIN t.trx.rows = 1..Len(t.trx.rows)
  BY <1>2
<1>4. Lengths(t.trx).rows = Len(t.trx.rows)
  BY <1>1, LengthsTyped, Zenon
<1>5. t.mark.rows <= Len(t.trx.rows)
  BY <1>4, Zenon DEF SessionOK, Within
<1>6. ASSUME ~t.committing, NEW j \in DOMAIN t.savepoints
      PROVE  t.savepoints[j].mark.rows \in Nat /\ t.savepoints[j].mark.rows <= Len(t.trx.rows)
  <2>1. Within(t.savepoints[j].mark, Lengths(t.trx))
    BY <1>6, Zenon DEF SessionOK, SavepointsOK
  <2>2. t.savepoints[j] \in SavepointType
    BY <1>1, <1>6
  <2>3. t.savepoints[j].mark.rows \in Nat
    BY <2>2, Zenon DEF SavepointType, Mark
  <2> QED
    BY <1>4, <2>1, <2>3, Zenon DEF Within
<1> QED
  BY <1>1, <1>2, <1>3, <1>5, <1>6, Zenon DEF AllBefore

\* A sequence with something in it.
LEMMA Filled ==
  ASSUME NEW S, NEW q \in Seq(S)
  PROVE  Len(q) \in Nat /\ (q # << >> <=> Len(q) # 0)
OBVIOUS

\* One more at the end.
LEMMA OneLonger ==
  ASSUME NEW S, NEW q \in Seq(S), NEW r \in S, NEW n \in Nat, n = Len(q), NEW p, p = Append(q, r)
  PROVE  /\ Len(p) = n + 1 /\ DOMAIN p = 1..(n + 1) /\ p \in Seq(S)
         /\ (\A i \in 1..n : p[i] = q[i]) /\ p[n + 1] = r
OBVIOUS

\* The key of a segment that follows is new.
LEMMA NextKey ==
  ASSUME NEW t, NEW n \in Nat, DOMAIN t.trx.rows = 1..n, Numbered(t.trx.rows),
         NEW m, m.segment_id = n + 1
  PROVE  NewKey(t, m)
<1> SUFFICES ASSUME NEW i \in 1..n, t.trx.rows[i].message.segment_id = m.segment_id
             PROVE  FALSE
  BY Zenon DEF NewKey
<1>1. t.trx.rows[i].message.segment_id = i
  BY Zenon DEF Numbered
<1>2. i # n + 1
  OBVIOUS
<1> QED
  BY <1>1, <1>2, Zenon

\* A session without a transaction.
LEMMA IdleFollows ==
  ASSUME NEW used, NEW saves, NEW u, u = Idle(used, saves)
  PROVE  Follows(u)
<1>1. /\ u.trx.rows = << >> /\ u.message = NoMessage /\ u.savepoints = << >> /\ u.open = FALSE
      /\ u.committing = FALSE
  BY Zenon DEF Idle, NoTrx
<1>2. PICK q : q = u.trx.rows
  BY Zenon
<1>3. Len(q) = 0 /\ DOMAIN q = {} /\ DOMAIN u.savepoints = {} /\ 1..Len(q) = {}
  BY <1>1, <1>2
<1>4. Numbered(q) /\ Under(q, Len(q), u.message) /\ SavedFit(q, u.savepoints)
      /\ Fits(u.message, Len(q))
  BY <1>1, <1>3, Zenon DEF Numbered, Under, SavedFit, Fits
<1>5. InOrder(u)
  BY <1>1, <1>2, <1>4, Zenon DEF InOrder
<1> QED
  BY <1>1, <1>5, Zenon DEF Follows

\* BEGIN, the start and the end of a statement say nothing to the message.
LEMMA SameFollows ==
  ASSUME NEW t, NEW u, Follows(t), t.committing = FALSE, u.committing = FALSE,
         u.trx = t.trx, u.message = t.message, u.savepoints = t.savepoints, u.marks = t.marks,
         \/ u.open = t.open /\ u.command = t.command /\ u.mark = t.mark
         \/ u.open = FALSE
  PROVE  Follows(u)
<1> SUFFICES ASSUME ~Spoiled(u.marks) PROVE InOrder(u)
  BY Zenon DEF Follows
<1>1. InOrder(t)
  BY Zenon DEF Follows
<1> QED
  BY <1>1, Zenon DEF InOrder

\* A row change: the message is the first segment, or still the next one, or it is the
\* next row and the message is the one after it.
LEMMA ChangedFollows ==
  ASSUME NEW s \in Sessions, NEW t, SessionOK(s, t), t.command # "none", Follows(t),
         NEW u, SessionOK(s, u), t.committing = FALSE, u.committing = FALSE,
         Carries(t, u), Opened(u), Writes(t, u)
  PROVE  Follows(u)
<1> SUFFICES ASSUME ~Spoiled(u.marks) PROVE InOrder(u)
  BY Zenon DEF Follows
<1>1. InOrder(t)
  <2>1. ~Spoiled(t.marks)
    BY StaysSpoiled, Zenon DEF Carries
  <2> QED
    BY <2>1, Zenon DEF Follows
<1>2. PICK q \in Seq(LogRowType), n \in Nat :
        q = t.trx.rows /\ n = Len(q) /\ DOMAIN q = 1..n
  BY Parts, Zenon
<1>3. /\ Numbered(q) /\ Fits(t.message, n) /\ Under(q, n, t.message)
      /\ SavedFit(q, t.savepoints)
      /\ t.open /\ t.mark.rows = n /\ n > 0 => Len(t.message.statement) > 1
  BY <1>1, <1>2, Zenon DEF InOrder
<1>4. /\ t.mark.rows \in Nat /\ t.mark.rows <= n /\ AllBefore(t.savepoints, n)
      /\ t.open \in BOOLEAN
  BY <1>2, Parts, Zenon
<1>5. /\ u.command # "none" /\ u.mark = t.mark /\ u.savepoints = t.savepoints
  BY Zenon DEF Carries
<1>6. u.message \in Message /\ u.message # NoMessage /\ u.message.statement # << >>
  BY NoMessageAssumption, Zenon DEF Opened, Written
<1>7. ASSUME Begins(t, u)
      PROVE  InOrder(u)
  <2>1. u.trx.rows = q /\ u.message.segment_id = 1 /\ t.message = NoMessage
    BY <1>2, <1>7, Zenon DEF Begins
  <2>2. n = 0
    BY <1>3, <2>1, Zenon DEF Fits
  <2>3. u.message.segment_id = n + 1 /\ 1..n = {} /\ ~(n > 0)
    BY <2>1, <2>2
  <2>4. Fits(u.message, n) /\ Under(q, n, u.message)
    BY <1>6, <2>3, Zenon DEF Fits, Under
  <2> QED
    BY <1>2, <1>3, <1>5, <2>1, <2>3, <2>4, Zenon DEF InOrder
<1>8. ASSUME Continues(t, u)
      PROVE  InOrder(u)
  <2>1. /\ u.trx.rows = q /\ t.message \in Message /\ t.message # NoMessage
        /\ u.message.id = t.message.id /\ u.message.segment_id = t.message.segment_id
        /\ Len(u.message.statement) = Len(t.message.statement) + (IF t.open THEN 0 ELSE 1)
    BY <1>2, <1>8, NoMessageAssumption, Zenon DEF Continues, Written, SameNumber
  <2>2. Fits(u.message, n) /\ Under(q, n, u.message)
    BY <1>3, <1>6, <2>1, Zenon DEF Fits, Under
  <2>3. ASSUME n > 0, u.mark.rows = n
        PROVE  Len(u.message.statement) > 1
    <3>1. t.message.statement \in Seq(StatementType)
      BY <2>1, Zenon DEF Message
    <3>2. t.message.statement # << >>
      BY <1>3, <2>1, <2>3, Zenon DEF Fits
    <3>3. Len(t.message.statement) \in Nat /\ Len(t.message.statement) # 0
      BY <3>1, <3>2, Filled, Zenon
    <3>4. t.open => Len(t.message.statement) > 1
      BY <1>3, <1>5, <2>3, Zenon
    <3>5. CASE t.open
      <4>1. Len(u.message.statement) = Len(t.message.statement) + 0
        BY <2>1, <3>5, Zenon
      <4> QED
        BY <3>3, <3>4, <3>5, <4>1
    <3>6. CASE ~t.open
      <4>1. Len(u.message.statement) = Len(t.message.statement) + 1
        BY <2>1, <3>6, Zenon
      <4> QED
        BY <3>3, <4>1
    <3> QED
      BY <3>5, <3>6, Zenon
  <2> QED
    BY <1>2, <1>3, <1>5, <2>1, <2>2, <2>3, Zenon DEF InOrder
<1>9. ASSUME Segments(t, u)
      PROVE  InOrder(u)
  <2>1. PICK m \in Message : /\ m.id = t.message.id /\ m.segment_id = t.message.segment_id
                             /\ Inserted(t, u, m, FALSE, 0)
    BY <1>9, Zenon DEF Segments
  <2>2. /\ t.message # NoMessage /\ t.message.segment_id = n + 1
        /\ u.message.id = t.message.id /\ u.message.segment_id = t.message.segment_id + 1
    BY <1>3, <1>9, NoMessageAssumption, Zenon DEF Segments, Written, Fits
  <2>3. PICK r : r = Row(m, FALSE, 0)
    BY Zenon
  <2>4. r \in LogRowType /\ r.message = m /\ r.end = FALSE
    BY <2>3 DEF Row, LogRowType
  <2>5. u.trx.rows = Append(q, r)
    <3>1. NewKey(t, m)
      BY <1>2, <1>3, <2>1, <2>2, NextKey, Zenon
    <3> QED
      BY <1>2, <2>1, <2>3, <3>1, Zenon DEF Inserted
  <2>6. PICK p \in Seq(LogRowType) : p = u.trx.rows
    BY Parts, Zenon
  <2>7. /\ Len(p) = n + 1 /\ DOMAIN p = 1..(n + 1) /\ n + 1 \in Nat
        /\ (\A i \in 1..n : p[i] = q[i]) /\ p[n + 1] = r
    <3>1. n + 1 \in Nat
      OBVIOUS
    <3>2. p = Append(q, r)
      BY <2>5, <2>6, Zenon
    <3> QED
      BY <1>2, <2>4, <3>1, <3>2, OneLonger
  <2>8. \A i \in 1..(n + 1) : i \in 1..n \/ i = n + 1
    OBVIOUS
  <2>9. Numbered(p)
    <3>1. ASSUME NEW i \in 1..n
          PROVE  p[i].message.segment_id = i /\ p[i].end = FALSE
      <4>1. p[i] = q[i] /\ i \in DOMAIN q
        BY <1>2, <2>7, <3>1, Zenon
      <4>2. q[i].message.segment_id = i /\ q[i].end = FALSE
        BY <1>3, <4>1, Zenon DEF Numbered
      <4> QED
        BY <4>1, <4>2, Zenon
    <3>2. p[n + 1].message.segment_id = n + 1 /\ p[n + 1].end = FALSE
      BY <2>1, <2>2, <2>4, <2>7, Zenon
    <3> QED
      BY <2>7, <2>8, <3>1, <3>2, Zenon DEF Numbered
  <2>10. Under(p, n + 1, u.message)
    BY <1>3, <2>1, <2>2, <2>4, <2>7, <2>8, Zenon DEF Under
  <2>11. Fits(u.message, n + 1)
    BY <1>6, <2>2, Zenon DEF Fits
  <2>12. SavedFit(p, u.savepoints)
    BY <1>3, <1>4, <1>5, <2>7, SavedStillFit, Zenon DEF Agree
  <2>13. u.mark.rows # n + 1
    BY <1>4, <1>5
  <2> QED
    BY <1>5, <2>6, <2>7, <2>9, <2>10, <2>11, <2>12, <2>13, Zenon DEF InOrder
<1> QED
  BY <1>7, <1>8, <1>9, Zenon DEF Writes

\* A failed statement: it had pushed no segment, or the transaction is spoiled.
LEMMA FailedFollows ==
  ASSUME NEW s \in Sessions, NEW t, SessionOK(s, t), t.command # "none", Follows(t),
         NEW u, u = Undone(t)
  PROVE  Follows(u)
<1>1. /\ SessionOK(s, u) /\ u.committing = FALSE /\ t.committing = FALSE
      /\ u.open = FALSE /\ u.trx = UndoTo(t.trx, t.mark) /\ u.savepoints = t.savepoints
      /\ t.marks \subseteq u.marks
      /\ Len(t.trx.rows) > t.mark.rows => "undone" \in u.marks
      /\ Withdraws(t, u)
  BY FailedOK, ZenonT(30)
<1> SUFFICES ASSUME ~Spoiled(u.marks) PROVE InOrder(u)
  BY <1>1, Zenon DEF Follows
<1>2. InOrder(t) /\ "undone" \notin u.marks
  <2>1. ~Spoiled(t.marks)
    BY <1>1, StaysSpoiled, Zenon
  <2>2. "undone" \notin u.marks
    BY Zenon DEF Spoiled
  <2> QED
    BY <1>1, <2>1, <2>2, Zenon DEF Follows
<1>3. PICK q \in Seq(LogRowType), n \in Nat :
        q = t.trx.rows /\ n = Len(q) /\ DOMAIN q = 1..n
  BY Parts, Zenon
<1>4. /\ Numbered(q) /\ Fits(t.message, n) /\ Under(q, n, t.message)
      /\ SavedFit(q, t.savepoints)
      /\ t.open /\ t.mark.rows = n /\ n > 0 => Len(t.message.statement) > 1
  BY <1>2, <1>3, Zenon DEF InOrder
<1>5. /\ t.mark.rows \in Nat /\ t.mark.rows <= n /\ AllBefore(t.savepoints, n)
      /\ t.mark \in Mark /\ t.trx \in Trx
  BY <1>1, <1>3, Parts, Zenon
<1>6. t.mark.rows = n
  <2>1. ~(n > t.mark.rows)
    BY <1>1, <1>2, <1>3, Zenon
  <2> QED
    BY <1>5, <2>1
<1>7. PICK p \in Seq(LogRowType) : p = u.trx.rows
  BY <1>1, Parts, Zenon
<1>8. Len(p) = n /\ DOMAIN p = 1..n /\ \A i \in 1..n : p[i] = q[i]
  <2>1. Within(t.mark, Lengths(t.trx))
    BY Zenon DEF SessionOK
  <2>2. /\ u.trx \in Trx /\ Lengths(u.trx) = t.mark
        /\ \A i \in DOMAIN u.trx.rows : u.trx.rows[i] = t.trx.rows[i]
    BY <1>1, <1>5, <2>1, UndoToTyped, Zenon
  <2>3. Len(p) = n
    BY <1>6, <1>7, <2>2, LengthsTyped, Zenon
  <2>4. DOMAIN p = 1..Len(p)
    OBVIOUS
  <2> QED
    BY <1>3, <1>7, <2>2, <2>3, <2>4, Zenon
<1>9. Numbered(p)
  BY <1>3, <1>4, <1>8, Zenon DEF Numbered
<1>10. SavedFit(p, u.savepoints)
  BY <1>1, <1>4, <1>5, <1>8, SavedStillFit, Zenon DEF Agree
<1>11. CASE t.open
  <2>1. /\ u.message \in Message /\ u.message # NoMessage /\ t.message # NoMessage
        /\ t.message \in Message
        /\ u.message.id = t.message.id /\ u.message.segment_id = t.message.segment_id
        /\ Len(t.message.statement) <= Len(u.message.statement) + 1
    BY <1>1, <1>11, NoMessageAssumption, Zenon
       DEF Withdraws, Written, SameNumber, SessionOK, Opened
  <2>2. u.message.segment_id = n + 1 /\ Under(p, n, u.message)
    BY <1>4, <1>8, <2>1, Zenon DEF Fits, Under
  <2>3. ASSUME n > 0
        PROVE  u.message.statement # << >>
    <3>1. Len(t.message.statement) > 1
      BY <1>4, <1>6, <1>11, <2>3, Zenon
    <3>2. u.message.statement \in Seq(StatementType) /\ t.message.statement \in Seq(StatementType)
      BY <2>1, Zenon DEF Message
    <3>3. Len(u.message.statement) \in Nat /\ Len(t.message.statement) \in Nat
      BY <3>2, Filled, Zenon
    <3>4. Len(u.message.statement) # 0
      BY <2>1, <3>1, <3>3
    <3> QED
      BY <3>2, <3>4, Filled, Zenon
  <2>4. Fits(u.message, n)
    BY <2>1, <2>2, <2>3, Zenon DEF Fits
  <2> QED
    BY <1>1, <1>7, <1>8, <1>9, <1>10, <2>2, <2>4, Zenon DEF InOrder
<1>12. CASE ~t.open
  <2>1. u.message = t.message
    BY <1>1, <1>12, Zenon DEF Withdraws
  <2>2. Fits(u.message, n) /\ Under(p, n, u.message)
    BY <1>4, <1>8, <2>1, Zenon DEF Under
  <2> QED
    BY <1>1, <1>7, <1>8, <1>9, <1>10, <2>2, Zenon DEF InOrder
<1> QED
  BY <1>11, <1>12, Zenon

\* A transaction that ends with nothing in its message has no rows.
LEMMA EmptyFollows ==
  ASSUME NEW s \in Sessions, NEW t, SessionOK(s, t), ~t.committing, Follows(t),
         t.message = NoMessage \/ t.message.statement = << >>,
         NEW u, u.committing = TRUE, u.trx = t.trx, t.marks \subseteq u.marks
  PROVE  Follows(u)
<1> SUFFICES ASSUME ~Spoiled(u.marks) PROVE Whole(u.trx.rows)
  BY Zenon DEF Follows
<1>1. InOrder(t)
  <2>1. ~Spoiled(t.marks)
    BY StaysSpoiled, Zenon
  <2> QED
    BY <2>1, Zenon DEF Follows
<1>2. PICK n \in Nat : n = Len(t.trx.rows) /\ DOMAIN t.trx.rows = 1..n
  BY Parts, Zenon
<1>3. Fits(t.message, n)
  BY <1>1, <1>2, Zenon DEF InOrder
<1>4. n = 0 \/ ~(n > 0)
  BY <1>3, Zenon DEF Fits
<1>5. 1..n = {}
  BY <1>4
<1> QED
  BY <1>2, <1>5, Zenon DEF Whole

\* The end segment is the last one, and it has the commit id.
LEMMA EndFollows ==
  ASSUME NEW s \in Sessions, NEW t, SessionOK(s, t), ~t.committing, Follows(t), Written(t),
         NEW id \in Nat \ {0},
         NEW u, SessionOK(s, u), u.committing = TRUE, t.marks \subseteq u.marks,
         Inserted(t, u, t.message, TRUE, id)
  PROVE  Follows(u)
<1> SUFFICES ASSUME ~Spoiled(u.marks) PROVE Whole(u.trx.rows)
  BY Zenon DEF Follows
<1>1. InOrder(t)
  <2>1. ~Spoiled(t.marks)
    BY StaysSpoiled, Zenon
  <2> QED
    BY <2>1, Zenon DEF Follows
<1>2. PICK q \in Seq(LogRowType), n \in Nat :
        q = t.trx.rows /\ n = Len(q) /\ DOMAIN q = 1..n
  BY Parts, Zenon
<1>3. /\ Numbered(q) /\ t.message.segment_id = n + 1 /\ Under(q, n, t.message)
  BY <1>1, <1>2, NoMessageAssumption, Zenon DEF InOrder, Fits, Written
<1>4. PICK r : r = Row(t.message, TRUE, id)
  BY Zenon
<1>5. r \in LogRowType /\ r.message = t.message /\ r.end = TRUE /\ r.commit_id = id
  BY <1>4, Zenon DEF Row, LogRowType, Written
<1>6. u.trx.rows = Append(q, r)
  <2>1. NewKey(t, t.message)
    BY <1>2, <1>3, NextKey, Zenon
  <2> QED
    BY <1>2, <1>4, <2>1, Zenon DEF Inserted
<1>7. PICK p \in Seq(LogRowType) : p = u.trx.rows
  BY Parts, Zenon
<1>8. /\ Len(p) = n + 1 /\ DOMAIN p = 1..(n + 1)
      /\ (\A i \in 1..n : p[i] = q[i]) /\ p[n + 1] = r
  <2>1. p = Append(q, r)
    BY <1>6, <1>7, Zenon
  <2> QED
    BY <1>2, <1>5, <2>1, OneLonger
<1>9. \A i \in DOMAIN q : q[i].commit_id = 0
  BY <1>2, NoRowHasId, Zenon
<1>10. ASSUME NEW i \in 1..(n + 1)
       PROVE  p[i].message.id = t.message.id
  <2>1. CASE i = n + 1
    BY <1>5, <1>8, <2>1, Zenon
  <2>2. CASE i \in 1..n
    BY <1>3, <1>8, <2>2, Zenon DEF Under
  <2> QED
    BY <1>10, <2>1, <2>2
<1>11. ASSUME NEW i \in 1..(n + 1)
       PROVE  /\ p[i].message.segment_id = i
              /\ p[i].end <=> i = n + 1
              /\ p[i].commit_id # 0 <=> i = n + 1
  <2>1. CASE i = n + 1
    BY <1>3, <1>5, <1>8, <2>1, Zenon
  <2>2. CASE i \in 1..n
    <3>1. i # n + 1
      BY <2>2
    <3> QED
      BY <1>2, <1>3, <1>8, <1>9, <2>2, <3>1, Zenon DEF Numbered
  <2> QED
    BY <1>11, <2>1, <2>2
<1>12. 1 \in 1..(n + 1)
  OBVIOUS
<1>13. ASSUME NEW i \in DOMAIN p
       PROVE  /\ p[i].message.segment_id = i
              /\ p[i].message.id = p[1].message.id
              /\ p[i].end <=> i = Len(p)
              /\ p[i].commit_id # 0 <=> i = Len(p)
  <2>1. i \in 1..(n + 1)
    BY <1>8, <1>13, Zenon
  <2>2. p[i].message.id = p[1].message.id
    BY <1>10, <1>12, <2>1, Zenon
  <2> QED
    BY <1>8, <1>11, <2>1, <2>2, Zenon
<1> QED
  BY <1>7, <1>13, Zenon DEF Whole

\* Releasing a savepoint, unless the messages of others were exchanged.
LEMMA ErasedFollows ==
  ASSUME NEW s \in Sessions, NEW t, SessionOK(s, t), t.command = "none", ~t.committing, Follows(t),
         NEW i \in DOMAIN t.savepoints,
         NEW u, u.committing = FALSE, u.command = "none", u.trx = t.trx, u.message = t.message,
         u.open = t.open, t.marks \subseteq u.marks, Removes(t, u, i)
  PROVE  Follows(u)
<1> SUFFICES ASSUME ~Spoiled(u.marks) PROVE InOrder(u)
  BY Zenon DEF Follows
<1>1. InOrder(t)
  <2>1. ~Spoiled(t.marks)
    BY StaysSpoiled, Zenon
  <2> QED
    BY <2>1, Zenon DEF Follows
<1>2. u.savepoints = Without(t.savepoints, i)
  BY Zenon DEF Removes, Spoiled
<1>3. PICK S \in Seq(SavepointType) : S = t.savepoints
  BY Parts, Zenon
<1>4. i \in 1..Len(S) /\ DOMAIN S = 1..Len(S) /\ Len(S) \in Nat
  BY <1>3
<1>5. PICK p : p = Without(S, i)
  BY Zenon
<1>6. /\ p \in Seq(SavepointType) /\ Len(p) = Len(S) - 1
      /\ \A j \in 1..(Len(S) - 1) : p[j] = S[IF j < i THEN j ELSE j + 1]
  BY <1>4, <1>5, RemovedAt, Zenon
<1>7. DOMAIN p = 1..(Len(S) - 1)
  BY <1>6
<1>8. ASSUME NEW j \in DOMAIN p
      PROVE  \E k \in DOMAIN S : p[j] = S[k]
  <2>1. PICK k : k = IF j < i THEN j ELSE j + 1
    BY Zenon
  <2>2. k \in DOMAIN S
    BY <1>4, <1>7, <1>8, <2>1
  <2> QED
    BY <1>6, <1>7, <1>8, <2>1, <2>2, Zenon
<1>9. SavedFit(t.trx.rows, S)
  BY <1>1, <1>3, Zenon DEF InOrder
<1>10. SavedFit(u.trx.rows, u.savepoints)
  <2>1. u.savepoints = p
    BY <1>2, <1>3, <1>5, Zenon
  <2>2. SavedFit(t.trx.rows, p)
    BY <1>8, <1>9, Zenon DEF SavedFit
  <2> QED
    BY <2>1, <2>2, Zenon
<1> QED
  BY <1>1, <1>10, Zenon DEF InOrder

\* SAVEPOINT copies the message as it goes on after the rows that are there.
LEMMA SavedFollows ==
  ASSUME NEW s \in Sessions, NEW t, SessionOK(s, t), t.command = "none", ~t.committing, Follows(t),
         NEW new \in SavepointType, new.mark = Lengths(t.trx), new.message = t.message,
         NEW u, u = [t EXCEPT !.savepoints = <<new>> \o @, !.saves = @ + 1]
  PROVE  Follows(u)
<1>1. t \in SessionType /\ t.committing = FALSE
  BY Zenon DEF SessionOK, SessionType
<1>2. PICK S \in Seq(SavepointType) : S = t.savepoints
  BY Parts, Zenon
<1>3. PICK p : p = <<new>> \o S
  BY Zenon
<1>4. /\ DOMAIN p = 1..(Len(S) + 1) /\ p[1] = new /\ Len(S) \in Nat /\ DOMAIN S = 1..Len(S)
      /\ \A j \in 2..(Len(S) + 1) : p[j] = S[j - 1]
  BY <1>2, <1>3
<1>5. u = [t EXCEPT !.savepoints = p, !.saves = @ + 1]
  BY <1>2, <1>3, Zenon
<1>6. /\ u.command = "none" /\ u.committing = FALSE /\ u.open = t.open
      /\ u.message = t.message /\ u.trx = t.trx /\ u.savepoints = p /\ u.marks = t.marks
  BY <1>1, <1>5, Zenon DEF SessionType
<1> SUFFICES ASSUME ~Spoiled(u.marks) PROVE InOrder(u)
  BY <1>6, Zenon DEF Follows
<1>7. InOrder(t)
  BY <1>1, <1>6, Zenon DEF Follows
<1> PICK q : q = t.trx.rows
  BY Zenon
<1>8. PICK n \in Nat : n = Len(q) /\ new.mark.rows = n
  <2>1. t.trx \in Trx
    BY Parts, Zenon
  <2>2. Lengths(t.trx).rows = Len(t.trx.rows) /\ Len(t.trx.rows) \in Nat
    BY <2>1, LengthsTyped, Zenon
  <2> QED
    BY <2>2, Zenon
<1>9. Fits(new.message, n) /\ Under(q, n, new.message) /\ SavedFit(q, S)
  BY <1>2, <1>7, <1>8, Zenon DEF InOrder
<1>10. ASSUME NEW j \in DOMAIN p
       PROVE  Fits(p[j].message, p[j].mark.rows) /\ Under(q, p[j].mark.rows, p[j].message)
  <2>1. CASE j = 1
    BY <1>4, <1>8, <1>9, <2>1, Zenon
  <2>2. CASE j # 1
    <3>1. j \in 2..(Len(S) + 1) /\ j - 1 \in DOMAIN S
      BY <1>4, <1>10, <2>2
    <3>2. p[j] = S[j - 1]
      BY <1>4, <3>1, Zenon
    <3> QED
      BY <1>9, <3>1, <3>2, Zenon DEF SavedFit
  <2> QED
    BY <2>1, <2>2, Zenon
<1>11. SavedFit(u.trx.rows, u.savepoints)
  BY <1>6, <1>8, <1>10, Zenon DEF SavedFit
<1> QED
  BY <1>6, <1>7, <1>11, Zenon DEF InOrder

\* ROLLBACK TO SAVEPOINT: the copy of the message goes on after the rows that were there.
LEMMA RestoredFollows ==
  ASSUME NEW s \in Sessions, NEW t, SessionOK(s, t), t.command = "none", ~t.committing, Follows(t),
         NEW i \in DOMAIN t.savepoints, NEW marks \in SUBSET Marks, t.marks \subseteq marks,
         NEW u, u = Restored(t, i, marks)
  PROVE  Follows(u)
<1>1. t \in SessionType /\ t.committing = FALSE /\ t.trx \in Trx
  BY Zenon DEF SessionOK, SessionType
<1>2. PICK S \in Seq(SavepointType) : S = t.savepoints
  BY Parts, Zenon
<1>3. Len(S) \in Nat /\ DOMAIN S = 1..Len(S) /\ i \in 1..Len(S) /\ i \in DOMAIN S
  BY <1>2
<1>4. PICK R : R = SubSeq(S, i, Len(S))
  BY Zenon
<1>5. /\ DOMAIN R = 1..(Len(S) - i + 1)
      /\ \A j \in 1..(Len(S) - i + 1) : R[j] = S[i + j - 1]
  BY <1>3, <1>4
<1>6. \A j \in DOMAIN R : i + j - 1 \in DOMAIN S /\ R[j] = S[i + j - 1] /\ i <= i + j - 1
  BY <1>3, <1>5
<1>7. PICK v \in SavepointType : v = S[i]
  BY <1>3
<1>8. v.mark \in Mark /\ v.mark.rows \in Nat
  BY Zenon DEF SavepointType, Mark
<1>9. PICK trx : trx = UndoTo(t.trx, v.mark)
  BY Zenon
<1>10. Ordered(S) /\ AllWithin(S, Lengths(t.trx))
  BY <1>2, Zenon DEF SessionOK, SavepointsOK, Ordered, AllWithin
<1> PICK q : q = t.trx.rows
  BY Zenon
<1>11. PICK k \in Nat : k = v.mark.rows
  BY <1>8, Zenon
<1>12. /\ trx \in Trx /\ Len(trx.rows) = k
       /\ \A j \in DOMAIN trx.rows : j \in DOMAIN q /\ trx.rows[j] = q[j]
  <2>1. Within(v.mark, Lengths(t.trx))
    BY <1>3, <1>7, <1>10, Zenon DEF AllWithin
  <2>2. /\ trx \in Trx /\ Lengths(trx) = v.mark
        /\ \A j \in DOMAIN trx.rows : j \in DOMAIN t.trx.rows /\ trx.rows[j] = t.trx.rows[j]
    BY <1>1, <1>8, <1>9, <2>1, UndoToTyped
  <2> QED
    BY <1>11, <2>2, LengthsTyped, Zenon
<1>13. PICK p \in Seq(LogRowType) : p = trx.rows
  BY <1>12, Zenon DEF Trx
<1>14. Len(p) = k /\ DOMAIN p = 1..k /\ \A j \in 1..k : j \in DOMAIN q /\ p[j] = q[j]
  <2>1. DOMAIN p = 1..Len(p)
    OBVIOUS
  <2> QED
    BY <1>12, <1>13, <2>1, Zenon
<1>15. PICK zero : zero = Lengths(NoTrx)
  BY Zenon
<1>16. u = [t EXCEPT !.savepoints = R, !.trx = trx, !.mark = zero, !.message = v.message,
                     !.open = FALSE, !.marks = marks]
  BY <1>2, <1>4, <1>7, <1>9, <1>15, Zenon DEF Restored
<1>17. /\ u.committing = FALSE /\ u.open = FALSE /\ u.trx = trx /\ u.savepoints = R
       /\ u.message = v.message /\ u.marks = marks
  BY <1>1, <1>16, Zenon DEF SessionType
<1> SUFFICES ASSUME ~Spoiled(marks) PROVE InOrder(u)
  BY <1>17, Zenon DEF Follows
<1>18. InOrder(t)
  <2>1. ~Spoiled(t.marks)
    BY StaysSpoiled, Zenon
  <2> QED
    BY <1>1, <2>1, Zenon DEF Follows
<1>19. Numbered(q) /\ SavedFit(q, S)
  BY <1>2, <1>11, <1>18, Zenon DEF InOrder
<1>20. Numbered(p)
  <2>1. ASSUME NEW j \in DOMAIN p
        PROVE  p[j].message.segment_id = j /\ p[j].end = FALSE
    <3>1. j \in DOMAIN q /\ p[j] = q[j]
      BY <1>14, <2>1, Zenon
    <3> QED
      BY <1>19, <3>1, Zenon DEF Numbered
  <2> QED
    BY <2>1, Zenon DEF Numbered
<1>21. Fits(v.message, k) /\ Under(q, k, v.message)
  BY <1>3, <1>7, <1>11, <1>19, Zenon DEF SavedFit
<1>22. Under(p, k, v.message)
  BY <1>14, <1>21, Zenon DEF Under
<1>23. SavedFit(q, R)
  BY <1>6, <1>19, Zenon DEF SavedFit
<1>24. AllBefore(R, k)
  <2>1. ASSUME NEW j \in DOMAIN R
        PROVE  R[j].mark.rows \in Nat /\ R[j].mark.rows <= k
    <3>1. PICK jj \in DOMAIN S : R[j] = S[jj] /\ i <= jj
      BY <1>6, <2>1, Zenon
    <3>2. Within(S[jj].mark, S[i].mark)
      BY <1>3, <1>10, <3>1, Zenon DEF Ordered
    <3>3. S[jj] \in SavepointType
      BY <3>1
    <3>4. S[jj].mark.rows \in Nat
      BY <3>3, Zenon DEF SavepointType, Mark
    <3> QED
      BY <1>7, <1>11, <3>1, <3>2, <3>4, Zenon DEF Within
  <2> QED
    BY <2>1, Zenon DEF AllBefore
<1>25. SavedFit(p, R)
  BY <1>14, <1>23, <1>24, SavedStillFit, Zenon DEF Agree
<1> QED
  BY <1>13, <1>14, <1>17, <1>20, <1>21, <1>22, <1>25, Zenon DEF InOrder

\* A step of one session: it changes no other session's messages.
LEMMA SetFollows ==
  ASSUME MInv, NInv, NEW s \in Sessions, NEW u, Set(s, u), Follows(u)
  PROVE  NInv'
<1>1. session' = [session EXCEPT ![s] = u]
  BY Zenon DEF Set
<1>2. session = [r \in Sessions |-> session[r]]
  BY Zenon DEF MInv, SessionsOK
<1>3. ASSUME NEW r \in Sessions
      PROVE  Follows(session'[r])
  <2>1. CASE r = s
    <3>1. session'[r] = u
      BY <1>1, <1>2, <2>1, Zenon
    <3> QED
      BY <3>1, Zenon
  <2>2. CASE r # s
    <3>1. session'[r] = session[r]
      BY <1>1, <1>2, <2>2, Zenon
    <3> QED
      BY <1>3, <3>1, Zenon DEF NInv
  <2> QED
    BY <2>1, <2>2, Zenon
<1> QED
  BY <1>3, Zenon DEF NInv

\* A step of one session that commits nothing.
LEMMA FollowsSet ==
  ASSUME MInv, NInv, SegmentsFollow, NEW s \in Sessions, NEW u, Set(s, u), Follows(u),
         history' = history
  PROVE  NInv' /\ SegmentsFollow'
<1>1. NInv'
  BY SetFollows, Zenon
<1>2. SegmentsFollow'
  BY Zenon DEF SegmentsFollow
<1> QED
  BY <1>1, <1>2, Zenon

\* The end of the transaction, without a commit.
LEMMA EndFollowsStep ==
  ASSUME MInv, NInv, SegmentsFollow, NEW s \in Sessions, NEW t, NEW changes, End(s, t, changes),
         history' = history
  PROVE  NInv' /\ SegmentsFollow'
<1>1. PICK u : u = Idle(t.used, t.saves)
  BY Zenon
<1>2. Set(s, u) /\ Follows(u)
  BY <1>1, IdleFollows, Zenon DEF End
<1> QED
  BY <1>2, FollowsSet, Zenon

\* commitTransactionMessage.
LEMMA PushCommitFollows ==
  ASSUME MInv, NInv, SegmentsFollow, NEW s \in Sessions, NEW t, SessionOK(s, t), Follows(t),
         t.command = "none", ~t.committing, NEW refused \in BOOLEAN, PushCommit(s, t, refused),
         history' = history
  PROVE  NInv' /\ SegmentsFollow'
<1>1. commit_id \in Nat
  BY AtSession, Zenon
<1>2. t \in SessionType /\ t.message \in Message \cup {NoMessage}
  BY Zenon DEF SessionOK, SessionType
<1>3. CASE t.message = NoMessage \/ t.message.statement = << >>
  <2>1. PICK marks : marks = IF t.message # NoMessage /\ t.message.segment_id > 1
                             THEN t.marks \cup {"empty_end"} ELSE t.marks
    BY Zenon
  <2>2. PICK u : u = [t EXCEPT !.committing = TRUE, !.message = NoMessage, !.open = FALSE,
                               !.marks = marks]
    BY Zenon
  <2>3. Set(s, u)
    BY <1>3, <2>1, <2>2, Zenon DEF PushCommit
  <2>4. u.committing = TRUE /\ u.trx = t.trx /\ u.marks = marks
    BY <1>2, <2>2, Zenon DEF SessionType
  <2>5. t.marks \subseteq u.marks
    BY <2>1, <2>4, Zenon
  <2>6. Follows(u)
    BY <1>3, <2>4, <2>5, EmptyFollows, Zenon
  <2> QED
    BY <2>3, <2>6, FollowsSet, Zenon
<1>4. CASE ~(t.message = NoMessage \/ t.message.statement = << >>) /\ refused
  <2>1. End(s, Unannounced(t), << >>)
    BY <1>4, Zenon DEF PushCommit
  <2> QED
    BY <2>1, EndFollowsStep, Zenon
<1>5. CASE ~(t.message = NoMessage \/ t.message.statement = << >>) /\ ~refused
  <2>1. commit_id + 1 \in Nat \ {0}
    BY <1>1
  <2>2. PICK id \in Nat \ {0} : id = commit_id + 1
    BY <2>1, Zenon
  <2>3. PICK u : u = PushedEnd(t, id)
    BY Zenon
  <2>4. Set(s, u)
    BY <1>5, <2>2, <2>3, Zenon DEF PushCommit, Committing, PushedEnd
  <2>5. Written(t)
    BY <1>2, <1>5, Zenon DEF Written
  <2>6. id \in Nat
    OBVIOUS
  <2>7. /\ SessionOK(s, u) /\ u.committing = TRUE /\ t.marks \subseteq u.marks
        /\ Inserted(t, u, t.message, TRUE, id)
    BY <2>3, <2>5, <2>6, EndSegmentOK, Zenon
  <2>8. Follows(u)
    BY <2>5, <2>7, EndFollows, Zenon
  <2> QED
    BY <2>4, <2>8, FollowsSet, Zenon
<1> QED
  BY <1>3, <1>4, <1>5, Zenon

\* rollbackTransaction.
LEMMA RollbackAllFollows ==
  ASSUME MInv, NInv, SegmentsFollow, NEW s \in Sessions, NEW t, SessionOK(s, t),
         NEW refused \in BOOLEAN, RollbackAll(s, t, refused), history' = history
  PROVE  NInv' /\ SegmentsFollow'
<1>1. CASE Bulk(t.message)
  <2>1. PICK m : m = [t.message EXCEPT !.statement = <<Statement("ROLLBACK")>>]
    BY Zenon
  <2>2. PICK id \in Nat : id = commit_id + 1
    <3>1. commit_id \in Nat
      BY AtSession, Zenon
    <3>2. commit_id + 1 \in Nat
      BY <3>1
    <3> QED
      BY <3>2, Zenon
  <2>3. PICK u : u = PushedRollback(t, m, id, refused)
    BY Zenon
  <2>4. Set(s, u)
    BY <1>1, <2>1, <2>2, <2>3, Zenon DEF RollbackAll, WithTrx, RolledBack, PushedRollback
  <2>5. m \in Message
    <3>1. t.message \in Message
      BY <1>1, Zenon DEF Bulk, SessionOK, SessionType
    <3>2. Statement("ROLLBACK") \in StatementType
      BY StatementIsTyped, Zenon
    <3>3. <<Statement("ROLLBACK")>> \in Seq(StatementType)
      BY <3>2
    <3> QED
      BY <2>1, <3>1, <3>3, Zenon DEF Message
  <2>6. "rollback" \in u.marks
    BY <2>3, <2>5, RollbackMessageOK, Zenon
  <2>7. Follows(u)
    BY <2>6, Zenon DEF Follows, Spoiled
  <2> QED
    BY <2>4, <2>7, FollowsSet, Zenon
<1>2. CASE ~Bulk(t.message)
  <2>1. End(s, Unannounced(t), << >>)
    BY <1>2, Zenon DEF RollbackAll
  <2> QED
    BY <2>1, EndFollowsStep, Zenon
<1> QED
  BY <1>1, <1>2, Zenon

\* One lemma per action, as above.
LEMMA QuietFollows ==
  ASSUME MInv, NInv, SegmentsFollow, NEW s \in Sessions,
         begin(s) \/ \E c \in Commands[s] : startStatement(s, c)
  PROVE  NInv' /\ SegmentsFollow'
<1>1. PICK t : t = session[s]
  BY Zenon
<1>2. SessionOK(s, t) /\ t \in SessionType /\ Follows(t)
  BY <1>1, AtSession, Zenon DEF NInv
<1>3. CASE begin(s)
  <2>1. PICK u : u = [t EXCEPT !.begun = TRUE]
    BY Zenon
  <2>2. Set(s, u) /\ ~t.committing /\ history' = history
    BY <1>1, <1>3, <2>1, Zenon DEF begin, Ready
  <2>3. /\ u.committing = FALSE /\ t.committing = FALSE /\ u.trx = t.trx /\ u.message = t.message
        /\ u.savepoints = t.savepoints /\ u.marks = t.marks
        /\ u.open = t.open /\ u.command = t.command /\ u.mark = t.mark
    BY <1>2, <2>1, <2>2, Zenon DEF SessionType
  <2>4. Follows(u)
    BY <1>2, <2>3, SameFollows, Zenon
  <2> QED
    BY <2>2, <2>4, FollowsSet, Zenon
<1>4. ASSUME NEW c \in Commands[s], startStatement(s, c)
      PROVE  NInv' /\ SegmentsFollow'
  <2>1. PICK u : u = [t EXCEPT !.command = c, !.mark = Lengths(t.trx)]
    BY Zenon
  <2>2. Set(s, u) /\ ~t.committing /\ history' = history /\ t.command = "none"
    BY <1>1, <1>4, <2>1, Zenon DEF startStatement, Ready
  <2>3. /\ u.committing = FALSE /\ t.committing = FALSE /\ u.trx = t.trx /\ u.message = t.message
        /\ u.savepoints = t.savepoints /\ u.marks = t.marks /\ u.open = t.open
        /\ t.open \in BOOLEAN
    BY <1>2, <2>1, <2>2, Zenon DEF SessionType
  <2>4. Follows(u)
    <3>1. CASE Spoiled(t.marks)
      BY <2>3, <3>1, Zenon DEF Follows
    <3>2. CASE ~Spoiled(t.marks)
      <4>1. InOrder(t)
        BY <1>2, <2>3, <3>2, Zenon DEF Follows
      <4>2. u.open = FALSE
        BY <2>2, <2>3, <4>1, Zenon DEF InOrder
      <4> QED
        BY <1>2, <2>3, <4>2, SameFollows, Zenon
    <3> QED
      BY <3>1, <3>2, Zenon
  <2> QED
    BY <2>2, <2>4, FollowsSet, Zenon
<1> QED
  BY <1>3, <1>4, Zenon

\* A row change.
LEMMA ChangeRowFollows ==
  ASSUME MInv, NInv, SegmentsFollow, NEW s \in Sessions, NEW k \in Kinds, NEW refused \in BOOLEAN,
         changeRow(s, k, refused)
  PROVE  NInv' /\ SegmentsFollow'
<1>1. PICK t : t = session[s]
  BY Zenon
<1>2. SessionOK(s, t) /\ Follows(t)
  BY <1>1, AtSession, Zenon DEF NInv
<1>3. PICK u : u = LogRow(WithChange(t), k, t.used + 1, refused)
  BY Zenon
<1>4. u \in Logged(t, k)
  BY <1>3, Zenon DEF Logged
<1>5. Set(s, u) /\ t.command # "none" /\ t.used < MaxChanges[s] /\ history' = history
  BY <1>1, <1>3, Zenon DEF changeRow, WithChange
<1>6. /\ SessionOK(s, u) /\ t.committing = FALSE /\ u.committing = FALSE
      /\ Carries(t, u) /\ Opened(u) /\ Writes(t, u)
  BY <1>2, <1>4, <1>5, ChangedOK, Zenon
<1>7. Follows(u)
  BY <1>2, <1>5, <1>6, ChangedFollows, Zenon
<1> QED
  BY <1>5, <1>7, FollowsSet, Zenon

\* The end of a statement, and COMMIT.
LEMMA CommitFollows ==
  ASSUME MInv, NInv, SegmentsFollow, NEW s \in Sessions, NEW refused \in BOOLEAN,
         endStatement(s, refused) \/ commit(s, refused)
  PROVE  NInv' /\ SegmentsFollow'
<1>1. PICK t : t = session[s]
  BY Zenon
<1>2. SessionOK(s, t) /\ t \in SessionType /\ Follows(t)
  BY <1>1, AtSession, Zenon DEF NInv
<1>3. CASE endStatement(s, refused)
  <2>1. PICK u : u = Ended(t)
    BY Zenon
  <2>2. t.command # "none" /\ history' = history
    BY <1>1, <1>3, Zenon DEF endStatement
  <2>3. SessionOK(s, u) /\ u.committing = FALSE /\ u.command = "none" /\ t.committing = FALSE
    BY <1>2, <2>1, <2>2, EndedOK, Zenon
  <2>4. /\ u.trx = t.trx /\ u.message = t.message /\ u.savepoints = t.savepoints
        /\ u.marks = t.marks /\ u.open = FALSE
    BY <1>2, <2>1, Zenon DEF Ended, SessionType
  <2>5. Follows(u)
    BY <1>2, <2>3, <2>4, SameFollows, Zenon
  <2>6. Set(s, u) \/ PushCommit(s, u, refused)
    BY <1>1, <1>3, <2>1, Zenon DEF endStatement, Ended
  <2>7. ASSUME Set(s, u)
        PROVE  NInv' /\ SegmentsFollow'
    BY <2>2, <2>5, <2>7, FollowsSet, Zenon
  <2>8. ASSUME PushCommit(s, u, refused)
        PROVE  NInv' /\ SegmentsFollow'
    BY <2>2, <2>3, <2>5, <2>8, PushCommitFollows, Zenon
  <2> QED
    BY <2>6, <2>7, <2>8, Zenon
<1>4. CASE commit(s, refused)
  <2>1. /\ PushCommit(s, t, refused) /\ history' = history /\ t.command = "none" /\ ~t.committing
    BY <1>1, <1>4, Zenon DEF commit, Ready
  <2> QED
    BY <1>2, <2>1, PushCommitFollows, Zenon
<1> QED
  BY <1>3, <1>4, Zenon

\* A statement that fails, and ROLLBACK.
LEMMA RollbackFollows ==
  ASSUME MInv, NInv, SegmentsFollow, NEW s \in Sessions,
         NEW r \in BOOLEAN, rollback(s, r) \/ \E whole \in BOOLEAN : failStatement(s, whole, r)
  PROVE  NInv' /\ SegmentsFollow'
<1>1. PICK t : t = session[s]
  BY Zenon
<1>2. SessionOK(s, t) /\ Follows(t)
  BY <1>1, AtSession, Zenon DEF NInv
<1>3. CASE rollback(s, r)
  <2>1. RollbackAll(s, t, r) /\ history' = history
    BY <1>1, <1>3, Zenon DEF rollback
  <2> QED
    BY <1>2, <2>1, RollbackAllFollows, Zenon
<1>4. ASSUME NEW whole \in BOOLEAN, failStatement(s, whole, r)
      PROVE  NInv' /\ SegmentsFollow'
  <2>1. PICK u : u = Undone(t)
    BY Zenon
  <2>2. t.command # "none" /\ history' = history
    BY <1>1, <1>4, Zenon DEF failStatement
  <2>3. RollbackAll(s, t, r) \/ RollbackAll(s, u, r) \/ Set(s, u)
    BY <1>1, <1>4, <2>1, Zenon DEF failStatement, Undone
  <2>4. SessionOK(s, u)
    BY <1>2, <2>1, <2>2, FailedOK, ZenonT(30)
  <2>5. Follows(u)
    BY <1>2, <2>1, <2>2, FailedFollows, Zenon
  <2>6. ASSUME RollbackAll(s, t, r)
        PROVE  NInv' /\ SegmentsFollow'
    BY <1>2, <2>2, <2>6, RollbackAllFollows, Zenon
  <2>7. ASSUME RollbackAll(s, u, r)
        PROVE  NInv' /\ SegmentsFollow'
    BY <2>2, <2>4, <2>7, RollbackAllFollows, Zenon
  <2>8. ASSUME Set(s, u)
        PROVE  NInv' /\ SegmentsFollow'
    BY <2>2, <2>5, <2>8, FollowsSet, Zenon
  <2> QED
    BY <2>3, <2>6, <2>7, <2>8, Zenon
<1> QED
  BY <1>3, <1>4, Zenon

\* The savepoint an action finds.
LEMMA Found ==
  ASSUME NEW t, NEW name, Find(t, name) # {}, NEW i, i = CHOOSE j \in Find(t, name) : TRUE
  PROVE  i \in DOMAIN t.savepoints
<1>1. i \in Find(t, name)
  BY Zenon
<1> QED
  BY <1>1, Zenon DEF Find

\* SAVEPOINT.
LEMMA SetSavepointFollows ==
  ASSUME MInv, NInv, SegmentsFollow, NEW s \in Sessions, NEW name \in Savepoints,
         setSavepoint(s, name)
  PROVE  NInv' /\ SegmentsFollow'
<1>1. PICK t : t = session[s]
  BY Zenon
<1>2. SessionOK(s, t) /\ t \in SessionType /\ Follows(t)
  BY <1>1, AtSession, Zenon DEF NInv
<1>3. PICK kept : kept = IF Find(t, name) = {} THEN t
                         ELSE Erased(t, CHOOSE i \in Find(t, name) : TRUE)
  BY Zenon
<1>4. PICK new : new = [name |-> name, mark |-> Lengths(t.trx), message |-> t.message]
  BY Zenon
<1>5. PICK u : u = [kept EXCEPT !.savepoints = <<new>> \o @, !.saves = @ + 1]
  BY Zenon
<1>6. Set(s, u) /\ t.command = "none" /\ ~t.committing /\ history' = history
  BY <1>1, <1>3, <1>4, <1>5, Zenon DEF setSavepoint, Ready
<1>7. new \in SavepointType /\ new.mark = Lengths(t.trx) /\ new.message = t.message
  <2>1. Lengths(t.trx) \in Mark
    BY <1>2, SavepointMarks, Zenon
  <2>2. t.message \in Message \cup {NoMessage}
    BY <1>2, Zenon DEF SessionType
  <2> QED
    BY <1>4, <2>1, <2>2, Zenon DEF SavepointType
<1>8. /\ SessionOK(s, kept) /\ kept.command = "none" /\ ~kept.committing /\ Follows(kept)
      /\ kept.trx = t.trx /\ kept.message = t.message
  <2>1. CASE Find(t, name) = {}
    BY <1>2, <1>3, <1>6, <2>1, Zenon
  <2>2. CASE Find(t, name) # {}
    <3>1. PICK i : i = CHOOSE k \in Find(t, name) : TRUE
      BY Zenon
    <3>2. i \in DOMAIN t.savepoints
      BY <2>2, <3>1, Found, Zenon
    <3>3. kept = Erased(t, i)
      BY <1>3, <2>2, <3>1, Zenon
    <3>4. /\ SessionOK(s, kept) /\ kept.command = "none" /\ kept.committing = t.committing
          /\ kept.trx = t.trx /\ kept.message = t.message /\ kept.open = t.open
          /\ t.marks \subseteq kept.marks /\ Removes(t, kept, i)
      BY <1>2, <1>6, <3>2, <3>3, ErasedOK
    <3>5. kept.committing = FALSE
      BY <1>2, <1>6, <3>4, Zenon DEF SessionType
    <3>6. Follows(kept)
      BY <1>2, <1>6, <3>2, <3>4, <3>5, ErasedFollows, Zenon
    <3> QED
      BY <3>4, <3>5, <3>6, Zenon
  <2> QED
    BY <2>1, <2>2, Zenon
<1>9. Follows(u)
  <2>1. new.mark = Lengths(kept.trx) /\ new.message = kept.message
    BY <1>7, <1>8, Zenon
  <2> QED
    BY <1>5, <1>7, <1>8, <2>1, SavedFollows, Zenon
<1> QED
  BY <1>6, <1>9, FollowsSet, Zenon

\* RELEASE SAVEPOINT.
LEMMA ReleaseSavepointFollows ==
  ASSUME MInv, NInv, SegmentsFollow, NEW s \in Sessions, NEW name \in Savepoints,
         releaseSavepoint(s, name)
  PROVE  NInv' /\ SegmentsFollow'
<1>1. PICK t : t = session[s]
  BY Zenon
<1>2. SessionOK(s, t) /\ t \in SessionType /\ Follows(t)
  BY <1>1, AtSession, Zenon DEF NInv
<1>3. PICK i : i = CHOOSE j \in Find(t, name) : TRUE
  BY Zenon
<1>4. PICK u : u = Erased(t, i)
  BY Zenon
<1>5. /\ Set(s, u) /\ t.command = "none" /\ ~t.committing /\ Find(t, name) # {}
      /\ history' = history
  BY <1>1, <1>3, <1>4, Zenon DEF releaseSavepoint, Ready
<1>6. i \in DOMAIN t.savepoints
  BY <1>3, <1>5, Found, Zenon
<1>7. /\ u.command = "none" /\ u.committing = t.committing
      /\ u.trx = t.trx /\ u.message = t.message /\ u.open = t.open
      /\ t.marks \subseteq u.marks /\ Removes(t, u, i)
  BY <1>2, <1>4, <1>5, <1>6, ErasedOK
<1>8. u.committing = FALSE
  BY <1>2, <1>5, <1>7, Zenon DEF SessionType
<1>9. Follows(u)
  BY <1>2, <1>5, <1>6, <1>7, <1>8, ErasedFollows, Zenon
<1> QED
  BY <1>5, <1>9, FollowsSet, Zenon

\* ROLLBACK TO SAVEPOINT.
LEMMA RollbackToSavepointFollows ==
  ASSUME MInv, NInv, SegmentsFollow, NEW s \in Sessions, NEW name \in Savepoints,
         rollbackToSavepoint(s, name)
  PROVE  NInv' /\ SegmentsFollow'
<1>1. PICK t : t = session[s]
  BY Zenon
<1>2. SessionOK(s, t) /\ t \in SessionType /\ Follows(t)
  BY <1>1, AtSession, Zenon DEF NInv
<1>3. PICK i : i = CHOOSE j \in Find(t, name) : TRUE
  BY Zenon
<1>4. PICK marks : marks = IF /\ t.message # NoMessage
                              /\ t.message.segment_id >
                                   (IF t.savepoints[i].message = NoMessage
                                    THEN 1 ELSE t.savepoints[i].message.segment_id)
                           THEN t.marks \cup {"restored"} ELSE t.marks
  BY Zenon
<1>5. marks \in SUBSET Marks /\ t.marks \subseteq marks
  <2>1. t.marks \in SUBSET Marks /\ "restored" \in Marks
    BY <1>2, Zenon DEF SessionType, Marks
  <2> QED
    BY <1>4, <2>1, Zenon
<1>6. PICK u : u = Restored(t, i, marks)
  BY Zenon
<1>7. /\ Set(s, u) /\ t.command = "none" /\ ~t.committing /\ Find(t, name) # {}
      /\ history' = history
  BY <1>1, <1>3, <1>4, <1>6, Zenon DEF rollbackToSavepoint, Ready, Restored
<1>8. i \in DOMAIN t.savepoints
  BY <1>3, <1>7, Found, Zenon
<1>9. Follows(u)
  BY <1>2, <1>5, <1>6, <1>7, <1>8, RestoredFollows, Zenon
<1> QED
  BY <1>7, <1>9, FollowsSet, Zenon

\* The commit: what it adds to the history is whole.
LEMMA CommitPhaseOneFollows ==
  ASSUME MInv, NInv, SegmentsFollow, NEW s \in Sessions, commitPhaseOne(s)
  PROVE  NInv' /\ SegmentsFollow'
<1>1. PICK t : t = session[s]
  BY Zenon
<1>2. SessionOK(s, t) /\ t \in SessionType /\ Follows(t)
  BY <1>1, AtSession, Zenon DEF NInv
<1>3. PICK h : h = [changes |-> t.trx.changes, rows |-> t.trx.rows, marks |-> t.marks,
                    disk |-> commit_id, logged |-> Len(log')]
  BY Zenon
<1>4. /\ t.committing /\ End(s, t, t.trx.changes)
      /\ history' = history \/ history' = Append(history, h)
  BY <1>1, <1>3, Zenon DEF commitPhaseOne, HeaderCommitId
<1>5. ASSUME history' = history
      PROVE  NInv' /\ SegmentsFollow'
  BY <1>4, <1>5, EndFollowsStep, Zenon
<1>6. ASSUME history' = Append(history, h)
      PROVE  NInv' /\ SegmentsFollow'
  <2>1. PICK u : u = Idle(t.used, t.saves)
    BY Zenon
  <2>2. Set(s, u) /\ Follows(u)
    BY <1>4, <2>1, IdleFollows, Zenon DEF End
  <2>3. NInv'
    BY <2>2, SetFollows, Zenon
  <2>4. history \in Seq(HistoryType) /\ Len(history) \in Nat /\ DOMAIN history = 1..Len(history)
    BY HistoryParts, Zenon DEF MInv
  <2>5. h.rows = t.trx.rows /\ h.marks = t.marks
    BY <1>3, Zenon
  <2>6. ~Spoiled(h.marks) => Whole(h.rows)
    BY <1>2, <1>4, <2>5, Zenon DEF Follows
  <2>7. PICK n \in Nat : n = Len(history)
    BY <2>4, Zenon
  <2>8. /\ DOMAIN history' = 1..(n + 1) /\ history'[n + 1] = h
        /\ \A k \in 1..n : history'[k] = history[k]
    BY <1>6, <2>4, <2>7
  <2>9. ASSUME NEW k \in DOMAIN history'
        PROVE  ~Spoiled(history'[k].marks) => Whole(history'[k].rows)
    <3>1. CASE k = n + 1
      BY <2>6, <2>8, <3>1, Zenon
    <3>2. CASE k # n + 1
      <4>1. k \in 1..n
        BY <2>8, <2>9, <3>2
      <4> QED
        BY <2>4, <2>7, <2>8, <4>1, Zenon DEF SegmentsFollow
    <3> QED
      BY <3>1, <3>2, Zenon
  <2>10. SegmentsFollow'
    BY <2>9, Zenon DEF SegmentsFollow
  <2> QED
    BY <2>3, <2>10, Zenon
<1> QED
  BY <1>4, <1>5, <1>6, Zenon

\* A crash leaves the first of the commits, and no session with a transaction.
LEMMA CrashFollows ==
  ASSUME MInv, NInv, SegmentsFollow, crash
  PROVE  NInv' /\ SegmentsFollow'
<1>1. history \in Seq(HistoryType) /\ Len(history) \in Nat /\ flushed \in 0..Len(history)
  BY HistoryParts, Zenon DEF MInv, SharedOK
<1>2. PICK k \in flushed..Len(history) : history' = SubSeq(history, 1, k)
  BY Zenon DEF crash
<1>3. k \in Nat /\ k <= Len(history)
  BY <1>1
<1>4. /\ DOMAIN history' = 1..k /\ 1..k \subseteq DOMAIN history
      /\ \A j \in 1..k : history'[j] = history[j]
  BY <1>1, <1>2, <1>3, Prefix, Zenon
<1>5. SegmentsFollow'
  <2>1. ASSUME NEW j \in DOMAIN history'
        PROVE  ~Spoiled(history'[j].marks) => Whole(history'[j].rows)
    <3>1. j \in DOMAIN history /\ history'[j] = history[j]
      BY <1>4, <2>1, Zenon
    <3> QED
      BY <3>1, Zenon DEF SegmentsFollow
  <2> QED
    BY <2>1, Zenon DEF SegmentsFollow
<1>6. ASSUME NEW s \in Sessions
      PROVE  Follows(session'[s])
  <2>1. session'[s] = Idle(session[s].used, session[s].saves)
    BY <1>6, Zenon DEF crash
  <2> QED
    BY <2>1, IdleFollows, Zenon
<1> QED
  BY <1>5, <1>6, Zenon DEF NInv

\* Every step keeps the segments in order.
LEMMA NextNInv ==
  MInv /\ NInv /\ SegmentsFollow /\ [Next]_vars => NInv' /\ SegmentsFollow'
<1> SUFFICES ASSUME MInv, NInv, SegmentsFollow, [Next]_vars PROVE NInv' /\ SegmentsFollow'
  BY Zenon
<1>1. ASSUME session' = session, history' = history
      PROVE  NInv' /\ SegmentsFollow'
  <2>1. NInv'
    BY <1>1, Zenon DEF NInv
  <2>2. SegmentsFollow'
    BY <1>1, Zenon DEF SegmentsFollow
  <2> QED
    BY <2>1, <2>2, Zenon
<1>2. CASE UNCHANGED vars
  <2>1. session' = session /\ history' = history
    BY <1>2, Zenon DEF vars
  <2> QED
    BY <1>1, <2>1, Zenon
<1>3. ASSUME NEW s \in Sessions, begin(s) \/ \E c \in Commands[s] : startStatement(s, c)
      PROVE  NInv' /\ SegmentsFollow'
  BY <1>3, QuietFollows, Zenon
<1>4. ASSUME NEW s \in Sessions, NEW k \in Kinds, NEW r \in BOOLEAN, changeRow(s, k, r)
      PROVE  NInv' /\ SegmentsFollow'
  BY <1>4, ChangeRowFollows, Zenon
<1>5. ASSUME NEW s \in Sessions, NEW r \in BOOLEAN, endStatement(s, r) \/ commit(s, r)
      PROVE  NInv' /\ SegmentsFollow'
  BY <1>5, CommitFollows, Zenon
<1>6. ASSUME NEW s \in Sessions, NEW r \in BOOLEAN,
             rollback(s, r) \/ \E whole \in BOOLEAN : failStatement(s, whole, r)
      PROVE  NInv' /\ SegmentsFollow'
  BY <1>6, RollbackFollows, Zenon
<1>7. ASSUME NEW s \in Sessions, commitPhaseOne(s)
      PROVE  NInv' /\ SegmentsFollow'
  BY <1>7, CommitPhaseOneFollows, Zenon
<1>8. ASSUME NEW s \in Sessions, NEW n \in Savepoints, setSavepoint(s, n)
      PROVE  NInv' /\ SegmentsFollow'
  BY <1>8, SetSavepointFollows, Zenon
<1>9. ASSUME NEW s \in Sessions, NEW n \in Savepoints, rollbackToSavepoint(s, n)
      PROVE  NInv' /\ SegmentsFollow'
  BY <1>9, RollbackToSavepointFollows, Zenon
<1>10. ASSUME NEW s \in Sessions, NEW n \in Savepoints, releaseSavepoint(s, n)
       PROVE  NInv' /\ SegmentsFollow'
  BY <1>10, ReleaseSavepointFollows, Zenon
<1>11. CASE flush
  <2>1. session' = session /\ history' = history
    BY <1>11, Zenon DEF flush
  <2> QED
    BY <1>1, <2>1, Zenon
<1>12. CASE crash
  BY <1>12, CrashFollows, Zenon
<1> QED
  BY <1>2, <1>3, <1>4, <1>5, <1>6, <1>7, <1>8, <1>9, <1>10, <1>11, <1>12, Zenon DEF Next

\* For any sessions, thresholds, statements, savepoints, refused messages and crashes: the
\* rows that insert_replication_message leaves of a committed transaction are its segments
\* 1..n under one transaction id, and the last one, no other, is the end segment and has
\* the commit id - unless a statement failed after it had pushed a segment, a bulk
\* transaction was rolled back, or deque::erase exchanged the messages of savepoints.
THEOREM SegmentsFollowEachOther == Spec => []SegmentsFollow
<1>1. Init => NInv /\ SegmentsFollow
  <2> SUFFICES ASSUME Init PROVE NInv /\ SegmentsFollow
    BY Zenon
  <2>1. ASSUME NEW s \in Sessions
        PROVE  Follows(session[s])
    <3>1. session[s] = Idle(0, 0)
      BY <2>1, Zenon DEF Init
    <3> QED
      BY <3>1, IdleFollows, Zenon
  <2>2. DOMAIN history = {}
    BY DEF Init
  <2>3. SegmentsFollow
    BY <2>2, Zenon DEF SegmentsFollow
  <2> QED
    BY <2>1, <2>3, Zenon DEF NInv
<1>2. MInv /\ NInv /\ SegmentsFollow /\ [Next]_vars => NInv' /\ SegmentsFollow'
  BY NextNInv, Zenon
<1> QED
  BY <1>1, <1>2, TransactionMessagesInvariance, PTL DEF Spec
=============================================================================
