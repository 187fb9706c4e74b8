----------------------------- MODULE MCThrLock -----------------------------
(* Small instances of ThrLock for TLC.                                       *)
EXTENDS ThrLock, TLC

CONSTANTS a, b, c

OneSession    == { a }
TwoSessions   == { a, b }
ThreeSessions == { a, b, c }
OneTable      == { 1 }
TwoTables     == { 1, 2 }
Nobody        == {}

St(command, tables, written, read_type, write_type) ==
    [ command |-> command, tables |-> tables, written |-> written,
      read_type |-> read_type, write_type |-> write_type ]

Select(tables)       == St("SELECT", tables, {}, TL_READ, TL_WRITE)
ShareMode(tables)    == St("SELECT", tables, {}, TL_READ_WITH_SHARED_LOCKS, TL_WRITE)
ForUpdate(tables)    == St("SELECT", tables, DOMAIN tables, TL_READ, TL_WRITE)
Insert(t)            == St("INSERT", << t >>, {1}, TL_READ, TL_WRITE_CONCURRENT_INSERT)
InsertSelect(t, u)   == St("INSERT", << t, u >>, {1}, TL_READ, TL_WRITE_CONCURRENT_INSERT)
CreateSelect(t, u)   == St("CREATE_TABLE", << t, u >>, {1}, TL_READ, TL_WRITE)
Truncate(t)          == St("TRUNCATE", << t >>, {1}, TL_READ, TL_WRITE)
Alter(t)             == St("ALTER_TABLE", << t >>, {1}, TL_READ, TL_WRITE_ALLOW_READ)
Check(t)             == St("CHECK", << t >>, {}, TL_READ_NO_INSERT, TL_WRITE)

(* Every kind of lock on one table, and statements that name two tables in   *)
(* either order.                                                             *)
OneTableStatements ==
    { Select(<< 1 >>), ShareMode(<< 1, 1 >>), Insert(1), InsertSelect(1, 1), Truncate(1), Alter(1) }
TwoTableStatements ==
    { InsertSelect(1, 2), CreateSelect(1, 2), CreateSelect(2, 1), Check(1), Truncate(1), Alter(2) }
AllStatements == OneTableStatements \cup TwoTableStatements
MixedAllowed ==
    (a :> { InsertSelect(1, 2), CreateSelect(2, 1), ShareMode(<< 1, 1 >>), Insert(1) })
    @@ (b :> { CreateSelect(1, 2), Truncate(1), Select(<< 1 >>), InsertSelect(1, 1) })
    @@ (c :> { Alter(2), Check(1), Alter(1), Truncate(1) })

(* Two tables, locked in the order of their addresses whatever the order in  *)
(* the statement.                                                            *)
SharedOut == (a :> { InsertSelect(1, 2), CreateSelect(2, 1) })
             @@ (b :> { CreateSelect(1, 2), Truncate(1) })
             @@ (c :> { Alter(2), Check(1) })

(* A self-join FOR UPDATE, which locks one table for writing twice.          *)
SelfJoinStatements == { ForUpdate(<< 1, 1 >>), Insert(1), Truncate(1) }
SelfJoinAllowed == (a :> { ForUpdate(<< 1, 1 >>) }) @@ (b :> { Insert(1) }) @@ (c :> { Truncate(1) })
=============================================================================
