------------------------ MODULE ColumnMigrationProofs ------------------------
(***************************************************************************)
(* Where the rows of a table are while its column is migrated, proved for  *)
(* all columns, any number of changes and interruptions: a script either   *)
(* leaves the rows alone or is SQLite's rebuild, whose steps move them to  *)
(* the copy and back.                                                      *)
(*                                                                         *)
(* And the order of the statements of a migration, which the servers are   *)
(* known to refuse in four cases only: what is left of a script and what   *)
(* the server holds after the statements before fit each other.            *)
(***************************************************************************)
EXTENDS ColumnMigration, TLAPS

Moving == {"copyRows", "dropTable", "copyBack", "dropCopy"}

(* A script that leaves the rows where they are.                           *)
Harmless(q) ==
  LET S == {q[i] : i \in DOMAIN q} IN q \in Seq(S) /\ \A e \in S : e.op \notin Moving

(* What is left of a rebuild before its k-th step, and where the rows are. *)
Steps == <<"copyRows", "dropTable", "createTable", "copyBack", "dropCopy">>
Place == <<"table", "both", "copy", "copy", "both">>
RestOf(q, k) ==
  /\ q \in Seq({q[i] : i \in DOMAIN q}) /\ Len(q) = 6 - k
  /\ \A i \in 1 .. 6 - k : q[i].op = Steps[k + i - 1]

Home == rows \in {"table", "nowhere"}

Rebuilding ==
  platform = "sqlite" /\ \E k \in 1 .. 5 : RestOf(pending, k) /\ rows \in {Place[k], "nowhere"}

IInv ==
  /\ interruptions \in Nat
  /\ rows = "nowhere" => platform = "sqlite" /\ interruptions > 0
  /\ phase \notin {"running", "refused"} => Home
  /\ phase = "running" => pending # <<>> /\ ((Harmless(pending) /\ Home) \/ Rebuilding)

-----------------------------------------------------------------------------
(* Scripts. *)

(* A sequence over harmless statements is a harmless script.               *)
LEMMA HarmlessIs ==
  ASSUME NEW S, NEW q \in Seq(S), \A e \in S : e.op \notin Moving
  PROVE  Harmless(q)
<1>1. PICK R : R = {q[i] : i \in DOMAIN q}
  OBVIOUS
<1>2. \A e \in R : e \in S
  BY <1>1
<1>3. q \in Seq(R)
  BY <1>1
<1> QED BY <1>1, <1>2, <1>3 DEF Harmless

LEMMA HarmlessNone == Harmless(<<>>)
<1>1. PICK q, S : q = <<>> /\ S = {}
  OBVIOUS
<1>2. q \in Seq(S) /\ \A e \in S : e.op \notin Moving
  BY <1>1
<1>3. Harmless(q)
  BY <1>2, HarmlessIs
<1> QED BY <1>1, <1>3

LEMMA HarmlessOne ==
  ASSUME NEW s, s.op \notin Moving
  PROVE  Harmless(<<s>>)
<1>1. PICK q, S : q = <<s>> /\ S = {s}
  OBVIOUS
<1>2. q \in Seq(S) /\ \A e \in S : e.op \notin Moving
  BY <1>1
<1>3. Harmless(q)
  BY <1>2, HarmlessIs
<1> QED BY <1>1, <1>3

LEMMA HarmlessStatement ==
  ASSUME NEW op, NEW arg, op \notin Moving
  PROVE  Statement(op, arg).op \notin Moving /\ Harmless(<<Statement(op, arg)>>)
<1>1. Statement(op, arg).op = op
  BY DEF Statement
<1> QED BY <1>1, HarmlessOne

LEMMA HarmlessWhen ==
  ASSUME NEW condition, NEW s, condition => s.op \notin Moving
  PROVE  Harmless(When(condition, s))
<1>1. CASE condition
  BY <1>1, HarmlessOne DEF When
<1>2. CASE ~ condition
  BY <1>2, HarmlessNone DEF When
<1> QED BY <1>1, <1>2

LEMMA HarmlessJoin ==
  ASSUME NEW s, Harmless(s), NEW t, Harmless(t)
  PROVE  Harmless(s \o t)
<1>1. PICK A, B : A = {s[i] : i \in DOMAIN s} /\ B = {t[i] : i \in DOMAIN t}
  OBVIOUS
<1>2. /\ s \in Seq(A) /\ \A e \in A : e.op \notin Moving
      /\ t \in Seq(B) /\ \A e \in B : e.op \notin Moving
  BY <1>1 DEF Harmless
<1>3. s \in Seq(A \cup B) /\ t \in Seq(A \cup B)
  BY <1>2
<1>4. s \o t \in Seq(A \cup B)
  BY <1>3
<1>5. \A e \in A \cup B : e.op \notin Moving
  BY <1>2
<1> QED BY <1>4, <1>5, HarmlessIs

LEMMA HarmlessTail ==
  ASSUME NEW q, Harmless(q), q # <<>>
  PROVE  q[1].op \notin Moving /\ Harmless(Tail(q))
<1>1. PICK S : S = {q[i] : i \in DOMAIN q}
  OBVIOUS
<1>2. q \in Seq(S) /\ \A e \in S : e.op \notin Moving
  BY <1>1 DEF Harmless
<1>3. q[1] \in S /\ Tail(q) \in Seq(S)
  BY <1>2
<1> QED BY <1>2, <1>3, HarmlessIs

-----------------------------------------------------------------------------
(* The scripts of the platforms. *)

(* createTable().                                                          *)
LEMMA CreateHarmless ==
  ASSUME NEW c
  PROVE  Harmless(CreateStatements(c)) /\ CreateStatements(c) # <<>>
<1>1. PICK a, b, d, e :
        /\ a = Statement("createTable", InTable(c))
        /\ b = Statement("comment", c.comment)
        /\ d = Statement("addComment", c.comment)
        /\ e = Statement("addConstraint", getDefaultValueDeclarationSQL(platform, c))
  OBVIOUS
<1>2. /\ a.op \notin Moving /\ b.op \notin Moving /\ d.op \notin Moving /\ e.op \notin Moving
  BY <1>1 DEF Statement, Moving
<1>3. PICK x, y : /\ x = IF platform = "pg" THEN Commented(c) ELSE <<>>
                  /\ y = IF platform # "sqlserver" THEN <<>>
                         ELSE When(c.comment # "", d) \o When(c.default # NoValue, e)
  OBVIOUS
<1>4. Harmless(<<a>>)
  BY <1>2, HarmlessOne
<1>5. Harmless(x)
  <2>1. Harmless(Commented(c))
    BY <1>1, <1>2, HarmlessWhen, Zenon DEF Commented
  <2> QED BY <1>3, <2>1, HarmlessNone, Zenon
<1>6. Harmless(y)
  <2>1. Harmless(When(c.comment # "", d)) /\ Harmless(When(c.default # NoValue, e))
    BY <1>2, HarmlessWhen, Zenon
  <2>2. Harmless(When(c.comment # "", d) \o When(c.default # NoValue, e))
    BY <2>1, HarmlessJoin, Zenon
  <2> QED BY <1>3, <2>2, HarmlessNone, Zenon
<1>7. CreateStatements(c) = (<<a>> \o x) \o y
  BY <1>1, <1>3, Zenon DEF CreateStatements
<1>8. Harmless((<<a>> \o x) \o y)
  BY <1>4, <1>5, <1>6, HarmlessJoin, Zenon
<1>9. (<<a>> \o x) \o y # <<>>
  <2>1. PICK S : x \in Seq(S) /\ y \in Seq(S) /\ <<a>> \in Seq(S)
    <3>1. PICK X, Y : x \in Seq(X) /\ y \in Seq(Y)
      BY <1>5, <1>6 DEF Harmless
    <3>2. x \in Seq(X \cup Y \cup {a}) /\ y \in Seq(X \cup Y \cup {a}) /\ <<a>> \in Seq(X \cup Y \cup {a})
      BY <3>1
    <3> QED BY <3>2
  <2>2. Len((<<a>> \o x) \o y) = 1 + Len(x) + Len(y) /\ Len(x) \in Nat /\ Len(y) \in Nat
    BY <2>1
  <2> QED BY <2>2
<1> QED BY <1>7, <1>8, <1>9

LEMMA MySQLHarmless ==
  ASSUME NEW old, NEW new
  PROVE  Harmless(AlterMySQL(old, new))
<1>1. /\ "addColumn" \notin Moving /\ "dropColumn" \notin Moving /\ "changeColumn" \notin Moving
  BY DEF Moving
<1> QED BY <1>1, HarmlessStatement DEF AlterMySQL

LEMMA PostgreSQLHarmless ==
  ASSUME NEW old, NEW new
  PROVE  Harmless(AlterPostgreSQL(old, new))
<1>1. /\ "addColumn" \notin Moving /\ "dropColumn" \notin Moving /\ "alterType" \notin Moving
      /\ "setDefault" \notin Moving /\ "setNotnull" \notin Moving /\ "setIdentity" \notin Moving
      /\ "comment" \notin Moving
  BY DEF Moving
<1>2. Harmless(Commented(new))
  BY <1>1, HarmlessStatement, HarmlessWhen, Zenon DEF Commented
<1>3. PICK a, b, d, e, f :
        /\ a = Statement("alterType", TypeOf(new))
        /\ b = Statement("setDefault", IF new.default = NoValue THEN NoDefault
                                       ELSE getDefaultValueDeclarationSQL(platform, new))
        /\ d = Statement("setNotnull", new.notnull)
        /\ e = Statement("setIdentity", new.autoincrement)
        /\ f = Statement("comment", new.comment)
  OBVIOUS
<1>4. /\ a.op \notin Moving /\ b.op \notin Moving /\ d.op \notin Moving /\ e.op \notin Moving
      /\ f.op \notin Moving
  BY <1>1, <1>3 DEF Statement
<1>5. PICK changes :
        changes = When(TypeOf(old) # TypeOf(new), a) \o When(DefaultChanged(old, new), b)
                  \o When(old.notnull # new.notnull, d)
                  \o When(old.autoincrement # new.autoincrement, e)
                  \o When(old.comment # new.comment, f)
  OBVIOUS
<1>6. Harmless(changes)
  <2>1. /\ Harmless(When(TypeOf(old) # TypeOf(new), a)) /\ Harmless(When(DefaultChanged(old, new), b))
        /\ Harmless(When(old.notnull # new.notnull, d))
        /\ Harmless(When(old.autoincrement # new.autoincrement, e))
        /\ Harmless(When(old.comment # new.comment, f))
    BY <1>4, HarmlessWhen, Zenon
  <2> QED BY <1>5, <2>1, HarmlessJoin, Zenon
<1>7. AlterPostgreSQL(old, new) =
        CASE old = Absent -> <<Statement("addColumn", getColumnDeclarationSQL(platform, new))>> \o Commented(new)
          [] new = Absent -> <<Statement("dropColumn", <<>>)>>
          [] OTHER -> changes
  BY <1>3, <1>5, Zenon DEF AlterPostgreSQL
<1>8. /\ Harmless(<<Statement("addColumn", getColumnDeclarationSQL(platform, new))>> \o Commented(new))
      /\ Harmless(<<Statement("dropColumn", <<>>)>>)
  BY <1>1, <1>2, HarmlessStatement, HarmlessJoin, Zenon
<1> QED BY <1>6, <1>7, <1>8, Zenon

(* The comments of SQL Server.                                             *)
LEMMA CommentHarmless ==
  ASSUME NEW old, NEW new, old.comment # new.comment
  PROVE  CommentOf(old, new).op \notin Moving
<1>1. PICK op : op = CASE old.comment # "" /\ new.comment # "" -> "updateComment"
                       [] new.comment = "" -> "dropComment"
                       [] old.comment = "" -> "addComment"
  OBVIOUS
<1>2. op \in {"updateComment", "dropComment", "addComment"}
  BY <1>1, Zenon
<1>3. CommentOf(old, new) = Statement(op, new.comment)
  BY <1>1, Zenon DEF CommentOf
<1>4. op \notin Moving
  BY <1>2 DEF Moving
<1> QED BY <1>3, <1>4, HarmlessStatement, Zenon

LEMMA SQLServerHarmless ==
  ASSUME NEW old, NEW new
  PROVE  Harmless(AlterSQLServer(old, new))
<1>1. /\ "addColumn" \notin Moving /\ "dropColumn" \notin Moving /\ "alterColumn" \notin Moving
      /\ "dropConstraint" \notin Moving /\ "addConstraint" \notin Moving
  BY DEF Moving
<1>2. DropConstraint.op \notin Moving /\ AddConstraint(new).op \notin Moving
  BY <1>1, HarmlessStatement, Zenon DEF DropConstraint, AddConstraint
<1>3. PICK drops, altered, declared, adds :
        /\ drops = alterColumnRequiresDropDefaultConstraint(old, new)
        /\ declared = getColumnDeclarationSQL(platform, new)
        /\ altered = (getColumnDeclarationSQL(platform, old) # declared)
        /\ adds = ((altered \/ DefaultChanged(old, new)) /\ new.default # NoValue
                   /\ (drops \/ DefaultChanged(old, new)))
  OBVIOUS
<1>4. ChangeSQLServer(old, new) =
        When(drops, DropConstraint) \o When(altered, Statement("alterColumn", declared))
        \o When(adds, AddConstraint(new)) \o When(old.comment # new.comment, CommentOf(old, new))
  BY <1>3, Zenon DEF ChangeSQLServer
<1>5. /\ Harmless(When(drops, DropConstraint))
      /\ Harmless(When(altered, Statement("alterColumn", declared)))
      /\ Harmless(When(adds, AddConstraint(new)))
      /\ Harmless(When(old.comment # new.comment, CommentOf(old, new)))
      /\ Harmless(When(old.default # NoValue, DropConstraint))
  <2>1. Statement("alterColumn", declared).op \notin Moving
    BY <1>1, HarmlessStatement, Zenon
  <2> QED BY <2>1, <1>2, CommentHarmless, HarmlessWhen, Zenon
<1>6. Harmless(ChangeSQLServer(old, new))
  BY <1>4, <1>5, HarmlessJoin, Zenon
<1>7. /\ Harmless(<<Statement("addColumn", AbstractDeclaration(platform, new))>>)
      /\ Harmless(<<Statement("dropColumn", <<>>)>>)
  BY <1>1, HarmlessStatement, Zenon
<1>8. Harmless(When(old.default # NoValue, DropConstraint) \o <<Statement("dropColumn", <<>>)>>)
  BY <1>5, <1>7, HarmlessJoin, Zenon
<1> QED BY <1>6, <1>7, <1>8, Zenon DEF AlterSQLServer

LEMMA RebuildIs ==
  ASSUME NEW new
  PROVE  RestOf(Rebuild(new), 1)
<1>1. PICK q, e : q = Rebuild(new) /\ e = InTable(new)
  OBVIOUS
<1>2. q = << [op |-> "copyRows", arg |-> <<>>], [op |-> "dropTable", arg |-> <<>>],
             [op |-> "createTable", arg |-> e], [op |-> "copyBack", arg |-> <<>>],
             [op |-> "dropCopy", arg |-> <<>>] >>
  BY <1>1 DEF Rebuild, Statement
<1>3. /\ Len(q) = 5 /\ DOMAIN q = 1 .. 5
      /\ q[1].op = "copyRows" /\ q[2].op = "dropTable" /\ q[3].op = "createTable"
      /\ q[4].op = "copyBack" /\ q[5].op = "dropCopy"
  BY <1>2
<1>4. q \in Seq({q[i] : i \in DOMAIN q})
  <2>1. PICK S : S = {q[i] : i \in DOMAIN q}
    OBVIOUS
  <2>2. q[1] \in S /\ q[2] \in S /\ q[3] \in S /\ q[4] \in S /\ q[5] \in S
    BY <2>1, <1>3
  <2>3. q = <<q[1], q[2], q[3], q[4], q[5]>>
    BY <1>2
  <2>4. <<q[1], q[2], q[3], q[4], q[5]>> \in Seq(S)
    BY <2>2
  <2> QED BY <2>1, <2>3, <2>4
<1>5. \A i \in 1 .. 5 : q[i].op = Steps[i]
  <2>1. /\ Steps[1] = "copyRows" /\ Steps[2] = "dropTable" /\ Steps[3] = "createTable"
        /\ Steps[4] = "copyBack" /\ Steps[5] = "dropCopy"
    BY DEF Steps
  <2>2. \A i \in 1 .. 5 : i = 1 \/ i = 2 \/ i = 3 \/ i = 4 \/ i = 5
    OBVIOUS
  <2> QED BY <1>3, <2>1, <2>2
<1>6. \A i \in 1 .. 6 - 1 : i \in 1 .. 5 /\ 1 + i - 1 = i
  OBVIOUS
<1>7. RestOf(q, 1)
  BY <1>3, <1>4, <1>5, <1>6 DEF RestOf
<1> QED BY <1>1, <1>7

(* A migration leaves the rows alone or is a rebuild on SQLite.            *)
LEMMA MigrationIs ==
  ASSUME NEW old, NEW new
  PROVE  \/ Harmless(MigrationStatements(old, new))
         \/ platform = "sqlite" /\ RestOf(MigrationStatements(old, new), 1)
<1>1. /\ Harmless(AlterMySQL(old, new)) /\ Harmless(AlterPostgreSQL(old, new))
      /\ Harmless(AlterSQLServer(old, new)) /\ Harmless(<<>>)
  BY MySQLHarmless, PostgreSQLHarmless, SQLServerHarmless, HarmlessNone
<1>2. Harmless(AlterSQLite(old, new)) \/ RestOf(AlterSQLite(old, new), 1)
  <2>1. "addColumn" \notin Moving
    BY DEF Moving
  <2> QED BY <2>1, HarmlessStatement, RebuildIs, Zenon DEF AlterSQLite
<1>3. getAlterTableSQL(old, new) \in {AlterMySQL(old, new), AlterPostgreSQL(old, new), AlterSQLServer(old, new)}
      \/ (platform = "sqlite" /\ getAlterTableSQL(old, new) = AlterSQLite(old, new))
  <2>1. CASE platform \in MySQL
    BY <2>1 DEF getAlterTableSQL, MySQL
  <2>2. CASE platform \notin MySQL
    BY <2>2 DEF getAlterTableSQL
  <2> QED BY <2>1, <2>2
<1> QED BY <1>1, <1>2, <1>3, Zenon DEF MigrationStatements

-----------------------------------------------------------------------------
(* The steps. *)

LEMMA RowsAfterIs ==
  /\ \A op : op \notin Moving => RowsAfter(op) = rows
  /\ RowsAfter("copyRows") = IF rows = "table" THEN "both" ELSE rows
  /\ rows = "both" => RowsAfter("dropTable") = "copy"
  /\ rows = "copy" => RowsAfter("copyBack") = "both"
  /\ rows = "both" => RowsAfter("dropCopy") = "table"
  /\ \A op : rows = "nowhere" => RowsAfter(op) = "nowhere"
BY DEF RowsAfter, Moving

(* The k-th step of a rebuild.                                             *)
LEMMA RebuildStep ==
  ASSUME NEW k \in 1 .. 5, NEW q, RestOf(q, k), rows \in {Place[k], "nowhere"}
  PROVE  /\ rows = "nowhere" <=> RowsAfter(q[1].op) = "nowhere"
         /\ k = 5 => Tail(q) = <<>> /\ RowsAfter(q[1].op) \in {"table", "nowhere"}
         /\ k # 5 => /\ k + 1 \in 1 .. 5 /\ RestOf(Tail(q), k + 1)
                     /\ RowsAfter(q[1].op) \in {Place[k + 1], "nowhere"}
<1>1. q[1].op = Steps[k]
  <2>1. 1 \in 1 .. 6 - k /\ k + 1 - 1 = k
    OBVIOUS
  <2> QED BY <2>1 DEF RestOf
<1>2. /\ rows = "nowhere" <=> RowsAfter(Steps[k]) = "nowhere"
      /\ k = 5 => RowsAfter(Steps[k]) \in {"table", "nowhere"}
      /\ k # 5 => RowsAfter(Steps[k]) \in {Place[k + 1], "nowhere"}
  <2>1. /\ Steps[1] = "copyRows" /\ Steps[2] = "dropTable" /\ Steps[3] = "createTable"
        /\ Steps[4] = "copyBack" /\ Steps[5] = "dropCopy"
        /\ Place[1] = "table" /\ Place[2] = "both" /\ Place[3] = "copy" /\ Place[4] = "copy"
        /\ Place[5] = "both"
    BY DEF Steps, Place
  <2>2. "createTable" \notin Moving
    BY DEF Moving
  <2>3. k = 1 \/ k = 2 \/ k = 3 \/ k = 4 \/ k = 5
    OBVIOUS
  <2>4. CASE rows = "nowhere"
    BY <2>4, RowsAfterIs
  <2>5. CASE rows # "nowhere"
    <3>1. rows = Place[k]
      BY <2>5
    <3>2. CASE k = 1
      BY <3>1, <3>2, <2>1, RowsAfterIs
    <3>3. CASE k = 2
      BY <3>1, <3>3, <2>1, RowsAfterIs
    <3>4. CASE k = 3
      BY <3>1, <3>4, <2>1, <2>2, RowsAfterIs
    <3>5. CASE k = 4
      BY <3>1, <3>5, <2>1, RowsAfterIs
    <3>6. CASE k = 5
      BY <3>1, <3>6, <2>1, RowsAfterIs
    <3> QED BY <2>3, <3>2, <3>3, <3>4, <3>5, <3>6
  <2> QED BY <2>4, <2>5
<1>3. PICK S, t : S = {q[i] : i \in DOMAIN q} /\ t = Tail(q)
  OBVIOUS
<1>4. q \in Seq(S) /\ Len(q) = 6 - k
  BY <1>3 DEF RestOf
<1>5. t \in Seq(S) /\ Len(t) = 5 - k /\ \A i \in 1 .. 5 - k : t[i] = q[i + 1]
  BY <1>3, <1>4
<1>6. k = 5 => t = <<>>
  BY <1>5
<1>7. ASSUME k # 5 PROVE k + 1 \in 1 .. 5 /\ RestOf(t, k + 1)
  <2>1. k + 1 \in 1 .. 5 /\ 6 - (k + 1) = 5 - k
    BY <1>7
  <2>2. t \in Seq({t[i] : i \in DOMAIN t})
    BY <1>5
  <2>3. ASSUME NEW i \in 1 .. 5 - k PROVE t[i].op = Steps[(k + 1) + i - 1]
    <3>1. i + 1 \in 1 .. 6 - k /\ k + (i + 1) - 1 = (k + 1) + i - 1
      OBVIOUS
    <3>2. q[i + 1].op = Steps[k + (i + 1) - 1]
      BY <3>1 DEF RestOf
    <3>3. t[i] = q[i + 1]
      BY <1>5
    <3> QED BY <3>1, <3>2, <3>3
  <2> QED BY <2>1, <2>2, <2>3, <1>5 DEF RestOf
<1> QED BY <1>1, <1>2, <1>3, <1>6, <1>7

LEMMA InitSound == Init => IInv
BY DEF Init, IInv, Home

LEMMA CreateTableSound ==
  ASSUME IInv, CreateTable
  PROVE  IInv'
<1>1. PICK q : q = CreateStatements(wanted) /\ pending' = q /\ Harmless(q) /\ q # <<>>
  BY CreateHarmless DEF CreateTable
<1>2. Harmless(pending')
  BY <1>1
<1>3. /\ phase = "new" /\ phase' = "running" /\ rows' = rows /\ interruptions' = interruptions
      /\ platform' = platform
  BY DEF CreateTable
<1>4. Home /\ Home'
  BY <1>3 DEF IInv, Home
<1>5. (Harmless(pending))'
  BY <1>2
<1> QED BY <1>1, <1>3, <1>4, <1>5 DEF IInv

LEMMA MigrateSound ==
  ASSUME IInv, Migrate
  PROVE  IInv'
<1>1. PICK old, q : q = MigrationStatements(old, wanted) /\ pending' = q
  BY DEF Migrate
<1>2. Harmless(q) \/ (platform = "sqlite" /\ RestOf(q, 1))
  BY <1>1, MigrationIs
<1>3. /\ phase = "idle" /\ rows' = rows /\ interruptions' = interruptions /\ platform' = platform
      /\ phase' = IF q = <<>> THEN "done" ELSE "running"
  BY <1>1 DEF Migrate
<1>4. Home /\ Home'
  BY <1>3 DEF IInv, Home
<1>5. CASE q = <<>>
  BY <1>3, <1>4, <1>5 DEF IInv
<1>6. CASE q # <<>>
  <2>1. CASE Harmless(q)
    BY <1>1, <1>3, <1>4, <1>6, <2>1 DEF IInv
  <2>2. CASE platform = "sqlite" /\ RestOf(q, 1)
    <3>1. Place[1] = "table" /\ 1 \in 1 .. 5
      BY DEF Place
    <3>2. rows' \in {Place[1], "nowhere"}
      BY <3>1, <1>4 DEF Home
    <3>3. Rebuilding'
      BY <1>1, <1>3, <2>2, <3>1, <3>2 DEF Rebuilding
    <3> QED BY <1>1, <1>3, <1>4, <1>6, <3>3 DEF IInv
  <2> QED BY <1>2, <2>1, <2>2
<1> QED BY <1>5, <1>6

LEMMA ExecuteSound ==
  ASSUME IInv, Execute
  PROVE  IInv'
<1>1. PICK q, t : q = pending /\ t = Tail(q) /\ pending' = t
  BY DEF Execute
<1>2. /\ phase = "running" /\ q # <<>> /\ rows' = RowsAfter(q[1].op)
      /\ interruptions' = interruptions /\ platform' = platform
      /\ phase' = IF t = <<>> THEN "done" ELSE "running"
  BY <1>1 DEF Execute, IInv
<1>3. interruptions \in Nat /\ (rows = "nowhere" => platform = "sqlite" /\ interruptions > 0)
  BY DEF IInv
<1>4. CASE Harmless(q) /\ Home
  <2>1. rows' = rows /\ Harmless(t)
    BY <1>1, <1>2, <1>4, HarmlessTail, RowsAfterIs
  <2>2. Home'
    BY <1>4, <2>1 DEF Home
  <2> QED BY <1>1, <1>2, <1>3, <2>1, <2>2 DEF IInv
<1>5. CASE Rebuilding
  <2>1. PICK k \in 1 .. 5 : RestOf(q, k) /\ rows \in {Place[k], "nowhere"}
    BY <1>1, <1>5 DEF Rebuilding
  <2>2. /\ rows = "nowhere" <=> rows' = "nowhere"
        /\ k = 5 => t = <<>> /\ rows' \in {"table", "nowhere"}
        /\ k # 5 => k + 1 \in 1 .. 5 /\ RestOf(t, k + 1) /\ rows' \in {Place[k + 1], "nowhere"}
    BY <1>1, <1>2, <2>1, RebuildStep
  <2>3. platform = "sqlite"
    BY <1>5 DEF Rebuilding
  <2>4. CASE k = 5
    BY <1>2, <1>3, <2>2, <2>4 DEF IInv, Home
  <2>5. CASE k # 5
    <3>1. Rebuilding'
      BY <1>1, <1>2, <2>2, <2>3, <2>5 DEF Rebuilding
    <3>2. t # <<>>
      <4>1. Len(t) = 6 - (k + 1) /\ 6 - (k + 1) # 0
        BY <2>2, <2>5 DEF RestOf
      <4> QED BY <4>1
    <3> QED BY <1>1, <1>2, <1>3, <2>2, <3>1, <3>2 DEF IInv
  <2> QED BY <2>4, <2>5
<1> QED BY <1>1, <1>2, <1>4, <1>5 DEF IInv

LEMMA InterruptSound ==
  ASSUME IInv, Interrupt
  PROVE  IInv'
<1>1. /\ phase = "running" /\ phase' \in {"idle", "new"} /\ interruptions' = interruptions + 1
      /\ platform' = platform
      /\ rows' = CASE rows = "both" -> "table" [] rows = "copy" -> "nowhere" [] OTHER -> rows
  BY DEF Interrupt
<1>2. interruptions \in Nat /\ (rows = "nowhere" => platform = "sqlite")
  BY DEF IInv
<1>3. \/ rows \in {"table", "nowhere"}
      \/ platform = "sqlite" /\ rows \in {"table", "both", "copy", "nowhere"}
  <2>1. CASE Home
    BY <2>1 DEF Home
  <2>2. CASE Rebuilding
    <3>1. \A k \in 1 .. 5 : Place[k] \in {"table", "both", "copy"}
      BY DEF Place
    <3> QED BY <2>2, <3>1 DEF Rebuilding
  <2> QED BY <1>1, <2>1, <2>2 DEF IInv
<1>4. rows' \in {"table", "nowhere"} /\ (rows' = "nowhere" => platform = "sqlite")
  BY <1>1, <1>2, <1>3
<1>5. interruptions + 1 \in Nat /\ interruptions + 1 > 0
  BY <1>2
<1> QED BY <1>1, <1>4, <1>5 DEF IInv, Home

LEMMA NextSound == IInv /\ [Next]_vars => IInv'
<1> SUFFICES ASSUME IInv, [Next]_vars PROVE IInv'
  OBVIOUS
<1>1. CASE CreateTable
  BY <1>1, CreateTableSound
<1>2. ASSUME NEW c \in Columns \cup {Absent}, Change(c) PROVE IInv'
  BY <1>2 DEF Change, IInv, Home
<1>3. CASE Migrate
  BY <1>3, MigrateSound
<1>4. CASE Execute
  BY <1>4, ExecuteSound
<1>5. CASE Fail
  BY <1>5 DEF Fail, IInv, Home
<1>6. CASE Interrupt
  BY <1>6, InterruptSound
<1>7. CASE UNCHANGED vars
  BY <1>7 DEF vars, IInv, Home, Rebuilding
<1> QED BY <1>1, <1>2, <1>3, <1>4, <1>5, <1>6, <1>7 DEF Next

(* The rows of a table survive every migration of its column, however many *)
(* there are: only one that is interrupted may lose them, and only where   *)
(* SQLite's table is rebuilt.  (getAlterTableSQL() of every platform.)     *)
THEOREM AlwaysRowsKept == Spec => []RowsKept
<1>1. IInv => RowsKept
  BY DEF IInv, Home, RowsKept
<1> QED BY <1>1, InitSound, NextSound, PTL DEF Spec

-----------------------------------------------------------------------------
(* Scripts in order. *)

Elements(q) == {q[i] : i \in DOMAIN q}
Ops(E)      == {x.op : x \in E}

(* The statements of a script come in the order of their ranks.            *)
InOrder(q, R) ==
  /\ q \in Seq(Elements(q))
  /\ Ops(Elements(q)) \subseteq DOMAIN R
  /\ \A i, j \in DOMAIN q : i < j => R[q[i].op] < R[q[j].op]

Script(q, R, E)  == InOrder(q, R) /\ Elements(q) = E
Before(A, B, R)  == \A x \in A, y \in B : R[x.op] < R[y.op]

PostgreSQLOrder ==
  [createTable |-> 0, addColumn |-> 0, dropColumn |-> 0, alterType |-> 1, setDefault |-> 2,
   setNotnull |-> 3, setIdentity |-> 4, comment |-> 5]
SQLServerOrder ==
  [addColumn |-> 0, dropConstraint |-> 1, alterColumn |-> 2, dropColumn |-> 2, addConstraint |-> 3,
   addComment |-> 4, updateComment |-> 4, dropComment |-> 4]
SQLServerCreates == [createTable |-> 0, addComment |-> 1, addConstraint |-> 2]
SQLiteOrder ==
  [addColumn |-> 0, copyRows |-> 1, dropTable |-> 2, createTable |-> 3, copyBack |-> 4, dropCopy |-> 5]

(* What the servers hold, and what is left to be executed of a plan to     *)
(* make n of o, while they hold s.                                         *)
Creates(E, p, n) ==
  \A x \in E : x.op = "createTable" => x.arg = IF n = Absent THEN <<>> ELSE getColumnDeclarationSQL(p, n)

Fields == {"name", "length", "precision", "scale", "unsigned", "auto", "notnull", "default", "comment", "keyed"}
NoBound == {NoDefault, Bare("NULL")}

(* PostgreSQL: an identity column has no default; the identity is changed  *)
(* after all else.                                                         *)
PostgreSQLColumn(s, key) ==
  s # Absent =>
    /\ DOMAIN s = Fields
    /\ s.auto \in BOOLEAN /\ s.default # Bare("NULL")
    /\ s.auto => key /\ s.default = NoDefault

Alterations == {"alterType", "setDefault", "setNotnull", "setIdentity"}

PostgreSQLScript(E, s, o, n) ==
  /\ Creates(E, "pg", n)
  /\ \A x \in E :
       /\ x.op = "addColumn" => x.arg = getColumnDeclarationSQL("pg", n)
       /\ x.op = "dropColumn" => E = {x}
       /\ x.op = "comment" => n # Absent /\ (s # Absent \/ Ops(E) \cap {"createTable", "addColumn"} # {})
       /\ x.op \in Alterations =>
            /\ s # Absent /\ s.auto = o.autoincrement /\ Ops(E) \subseteq Alterations \cup {"comment"}
            /\ o.autoincrement => o.default = NoValue
       /\ x.op = "alterType" => x.arg = getSQLDeclaration("pg", [n EXCEPT !.autoincrement = FALSE])
       /\ x.op = "setDefault" => DefaultChanged(o, n) /\ (n.default = NoValue => x.arg = NoDefault)
       /\ x.op = "setNotnull" => x.arg = n.notnull
       /\ x.op = "setIdentity" =>
            /\ x.arg = n.autoincrement
            /\ s.notnull = n.notnull \/ "setNotnull" \in Ops(E)
            /\ s.default = NoDefault \/ n.default # NoValue \/ "setDefault" \in Ops(E)

(* SQL Server: the constraint of a default is dropped before the column    *)
(* becomes of another type, is dropped or gets another one.                *)
SQLServerColumn(s) ==
  s # Absent => DOMAIN s = Fields /\ s.name \notin {"text", "blob"}

Bindable(E, s) == s.default \in NoBound \/ Ops(E) \cap {"dropConstraint", "createTable"} # {}

(* The type stays, as far as it is read.                                   *)
SameType(s, o, n) ==
  \/ CatalogueName("sqlserver", getSQLDeclaration("sqlserver", n).name) = s.name
  \/ s.name \in {"char", "varchar"} /\ {o.type, n.type} = {"string"}

SQLServerScript(E, s, o, n) ==
  /\ Creates(E, "sqlserver", n)
  /\ Ops(E) \cap {"createTable", "addColumn"} = {} => s # Absent
  /\ \A x \in E :
       /\ x.op = "createTable" => n # Absent \/ E = {x}
       /\ x.op = "addColumn" => x.arg = AbstractDeclaration("sqlserver", n) /\ E = {x}
       /\ x.op = "dropColumn" => Ops(E) \subseteq {"dropConstraint", "dropColumn"}
       /\ x.op = "dropConstraint" => s.default # NoDefault
       /\ x.op \in {"dropColumn", "addConstraint"} => Bindable(E, s)
       /\ x.op = "alterColumn" =>
            /\ x.arg = getColumnDeclarationSQL("sqlserver", n)
            /\ Bindable(E, s) \/ SameType(s, o, n)
       /\ x.op = "addComment" => s.comment = "" \/ "createTable" \in Ops(E)
       /\ x.op \in {"updateComment", "dropComment"} => s.comment # ""

(* SQLite: a column that is added to rows has a value for them, and a      *)
(* rebuild ends with the column that is wanted.                            *)
Addable(c) == ~c.notnull \/ c.default # NoValue

SQLiteScript(E, s, o, n) ==
  /\ Creates(E, "sqlite", n)
  /\ \A x \in E :
       x.op = "addColumn" =>
         /\ x.arg = getColumnDeclarationSQL("sqlite", n)
         /\ s = Absent /\ o = Absent /\ n # Absent /\ ~RequiresRebuild(n)
  /\ "dropTable" \in Ops(E) => "createTable" \in Ops(E)
  /\ Ops(E) \cap {"createTable", "addColumn"} = {} => (s = Absent <=> n = Absent)

(* What is left to be executed of a plan to make n of o.                   *)
Remaining(p, q, s, o, n, there) ==
  CASE p = "pg" ->
         InOrder(q, PostgreSQLOrder) /\ PostgreSQLScript(Elements(q), s, o, n)
    [] p = "sqlserver" ->
         /\ InOrder(q, SQLServerOrder) \/ InOrder(q, SQLServerCreates)
         /\ SQLServerScript(Elements(q), s, o, n)
    [] p = "sqlite" ->
         /\ InOrder(q, SQLiteOrder) /\ SQLiteScript(Elements(q), s, o, n)
         /\ "addColumn" \in Ops(Elements(q)) => there
    [] OTHER -> TRUE

StoredColumn(p, s, key) ==
  /\ p = "pg" => PostgreSQLColumn(s, key)
  /\ p = "sqlserver" => SQLServerColumn(s)

(* What is true of the column that is wanted.                              *)
WantedColumn ==
  /\ wanted \in Columns \cup {Absent}
  /\ keyed => wanted.notnull
  /\ ~keyed => ~wanted.autoincrement
  /\ phase # "new" => wanted = Absent \/ Declarable(platform, wanted)

Running ==
  phase = "running" =>
    pending # <<>> /\ plan.new = wanted /\ Remaining(platform, pending, stored, plan.old, wanted, exists)

(* What SQLite's columns are between migrations.                           *)
SQLiteTable ==
  /\ phase = "new" => ~exists
  /\ phase = "done" => (stored = Absent <=> wanted = Absent)
  /\ phase \in {"idle", "running"} /\ exists /\ stored = Absent => wanted = Absent \/ Addable(wanted)

OrderInv ==
  /\ WantedColumn /\ Running /\ NoOtherRefusal
  /\ StoredColumn(platform, stored, keyed)
  /\ platform = "sqlite" => SQLiteTable

-----------------------------------------------------------------------------
(* What scripts are put together from. *)

LEMMA OneStatement ==
  ASSUME NEW R, NEW x, x.op \in DOMAIN R
  PROVE  Script(<<x>>, R, {x})
<1>1. PICK q : q = <<x>>
  OBVIOUS
<1>2. DOMAIN q = {1} /\ q[1] = x
  BY <1>1
<1>3. Elements(q) = {x}
  BY <1>2 DEF Elements
<1>4. q \in Seq(Elements(q))
  BY <1>1, <1>3
<1>5. InOrder(q, R)
  BY <1>2, <1>3, <1>4 DEF InOrder, Ops
<1> QED BY <1>1, <1>3, <1>5 DEF Script

LEMMA NoStatement ==
  ASSUME NEW R
  PROVE  Script(<<>>, R, {})
<1>1. PICK q : q = <<>>
  OBVIOUS
<1>2. DOMAIN q = {}
  BY <1>1
<1>3. Elements(q) = {}
  BY <1>2 DEF Elements
<1>4. q \in Seq(Elements(q))
  BY <1>1
<1>5. InOrder(q, R)
  BY <1>2, <1>3, <1>4 DEF InOrder, Ops
<1> QED BY <1>1, <1>3, <1>5 DEF Script

LEMMA MaybeStatement ==
  ASSUME NEW R, NEW c, NEW x, x.op \in DOMAIN R
  PROVE  Script(When(c, x), R, IF c THEN {x} ELSE {})
<1>1. CASE c
  <2>1. When(c, x) = <<x>>
    BY <1>1 DEF When
  <2> QED BY <1>1, <2>1, OneStatement
<1>2. CASE ~ c
  <2>1. When(c, x) = <<>>
    BY <1>2 DEF When
  <2> QED BY <1>2, <2>1, NoStatement
<1> QED BY <1>1, <1>2

LEMMA BeforeIs ==
  ASSUME NEW R, NEW A, NEW B, NEW m \in Nat, NEW n \in Nat, m < n,
         \A x \in A : R[x.op] \in 0 .. m, \A y \in B : R[y.op] = n
  PROVE  Before(A, B, R)
BY DEF Before

LEMMA OneAfterTheOther ==
  ASSUME NEW R, NEW s, NEW A, NEW t, NEW B, Script(s, R, A), Script(t, R, B), Before(A, B, R)
  PROVE  Script(s \o t, R, A \cup B)
<1>1. A = Elements(s) /\ B = Elements(t) /\ InOrder(s, R) /\ InOrder(t, R)
  BY DEF Script
<1>2. s \in Seq(A \cup B) /\ t \in Seq(A \cup B)
  <2>1. s \in Seq(A) /\ t \in Seq(B)
    BY <1>1 DEF InOrder
  <2> QED BY <2>1
<1>3. PICK m \in Nat, n \in Nat : m = Len(s) /\ n = Len(t)
  BY <1>2
<1>4. PICK q : q = s \o t
  OBVIOUS
<1>5. /\ DOMAIN s = 1 .. m /\ DOMAIN t = 1 .. n /\ DOMAIN q = 1 .. m + n
      /\ \A i \in 1 .. m : q[i] = s[i]
      /\ \A i \in m + 1 .. m + n : q[i] = t[i - m]
      /\ q \in Seq(A \cup B)
  BY <1>2, <1>3, <1>4
<1>6. \A i \in 1 .. m + n : i \in 1 .. m \/ (i \in m + 1 .. m + n /\ i - m \in 1 .. n)
  OBVIOUS
<1>7. \A i \in 1 .. n : m + i \in m + 1 .. m + n /\ (m + i) - m = i
  OBVIOUS
<1>8. Elements(q) = A \cup B
  <2>1. ASSUME NEW x \in Elements(q) PROVE x \in A \cup B
    <3>1. PICK i \in 1 .. m + n : x = q[i]
      BY <1>5 DEF Elements
    <3> QED BY <3>1, <1>1, <1>5, <1>6 DEF Elements
  <2>2. ASSUME NEW x \in A PROVE x \in Elements(q)
    <3>1. PICK i \in 1 .. m : x = s[i]
      BY <1>1, <1>5 DEF Elements
    <3>2. i \in 1 .. m + n /\ q[i] = x
      BY <3>1, <1>5
    <3> QED BY <3>2, <1>5 DEF Elements
  <2>3. ASSUME NEW x \in B PROVE x \in Elements(q)
    <3>1. PICK i \in 1 .. n : x = t[i]
      BY <1>1, <1>5 DEF Elements
    <3>2. PICK j \in m + 1 .. m + n : j = m + i /\ j - m = i
      BY <3>1, <1>7
    <3>3. j \in 1 .. m + n /\ q[j] = x
      BY <3>1, <3>2, <1>5
    <3> QED BY <3>3, <1>5 DEF Elements
  <2> QED BY <2>1, <2>2, <2>3
<1>9. ASSUME NEW i \in 1 .. m + n, NEW j \in 1 .. m + n, i < j PROVE R[q[i].op] < R[q[j].op]
  <2>1. CASE j \in 1 .. m
    <3>1. i \in 1 .. m /\ q[i] = s[i] /\ q[j] = s[j]
      BY <1>5, <1>9, <2>1
    <3> QED BY <3>1, <1>1, <1>5, <1>9, <2>1 DEF InOrder
  <2>2. CASE i \notin 1 .. m
    <3>0. i \in m + 1 .. m + n /\ j \in m + 1 .. m + n
      BY <1>9, <2>2
    <3>1. PICK k \in 1 .. n, l \in 1 .. n : k = i - m /\ l = j - m /\ k < l
      BY <3>0, <1>9
    <3>2. q[i] = t[k] /\ q[j] = t[l]
      BY <3>0, <3>1, <1>5
    <3>3. R[t[k].op] < R[t[l].op]
      BY <3>1, <1>1, <1>5 DEF InOrder
    <3> QED BY <3>2, <3>3
  <2>3. CASE i \in 1 .. m /\ j \notin 1 .. m
    <3>1. q[i] \in Elements(s) /\ q[j] \in Elements(t)
      BY <2>3, <1>5, <1>6 DEF Elements
    <3> QED BY <3>1, <1>1 DEF Before
  <2> QED BY <2>1, <2>2, <2>3
<1>10. Ops(Elements(q)) \subseteq DOMAIN R
  BY <1>1, <1>8 DEF InOrder, Ops
<1>11. InOrder(q, R)
  BY <1>5, <1>8, <1>9, <1>10 DEF InOrder
<1> QED BY <1>4, <1>8, <1>11 DEF Script

(* The first statement of a script, and those after it.                    *)
LEMMA FirstStatement ==
  ASSUME NEW R, NEW q, InOrder(q, R), q # <<>>
  PROVE  /\ Elements(q) = {q[1]} \cup Elements(Tail(q))
         /\ InOrder(Tail(q), R)
         /\ q[1].op \in DOMAIN R
         /\ \A y \in Elements(Tail(q)) : y.op \in DOMAIN R /\ R[q[1].op] < R[y.op]
         /\ Tail(q) = <<>> => Elements(Tail(q)) = {}
         /\ Tail(q) # <<>> => Elements(Tail(q)) # {}
<1>1. PICK S : S = Elements(q)
  OBVIOUS
<1>2. q \in Seq(S)
  BY <1>1 DEF InOrder
<1>3. PICK n \in Nat : n = Len(q) /\ n # 0
  BY <1>2
<1>4. PICK t : t = Tail(q)
  OBVIOUS
<1>5. /\ DOMAIN q = 1 .. n /\ 1 \in 1 .. n /\ DOMAIN t = 1 .. n - 1 /\ t \in Seq(S)
      /\ \A i \in 1 .. n - 1 : t[i] = q[i + 1]
  BY <1>2, <1>3, <1>4
<1>6. \A i \in 1 .. n - 1 : i + 1 \in 1 .. n /\ 1 < i + 1
  OBVIOUS
<1>7. \A i \in 1 .. n : i # 1 => i - 1 \in 1 .. n - 1 /\ (i - 1) + 1 = i
  OBVIOUS
<1>8. ASSUME NEW y \in Elements(t)
      PROVE  y \in Elements(q) /\ R[q[1].op] < R[y.op]
  <2>1. PICK i \in 1 .. n - 1 : y = t[i]
    BY <1>5 DEF Elements
  <2>2. PICK j \in 1 .. n : j = i + 1 /\ 1 < j
    BY <2>1, <1>6
  <2>3. y = q[j]
    BY <2>1, <2>2, <1>5
  <2> QED BY <2>2, <2>3, <1>5 DEF Elements, InOrder
<1>9. Elements(q) = {q[1]} \cup Elements(t)
  <2>1. ASSUME NEW x \in Elements(q), x # q[1] PROVE x \in Elements(t)
    <3>1. PICK i \in 1 .. n : x = q[i]
      BY <1>5 DEF Elements
    <3>2. PICK j \in 1 .. n - 1 : j = i - 1 /\ j + 1 = i
      BY <3>1, <2>1, <1>7
    <3>3. x = t[j]
      BY <3>1, <3>2, <1>5
    <3> QED BY <3>3, <1>5 DEF Elements
  <2>2. q[1] \in Elements(q)
    BY <1>5 DEF Elements
  <2> QED BY <2>1, <2>2, <1>8
<1>10. \A y \in Elements(q) : y.op \in DOMAIN R
  BY DEF InOrder, Ops
<1>11. InOrder(t, R)
  <2>1. t \in Seq(Elements(t))
    <3>1. \A i \in 1 .. n - 1 : t[i] \in Elements(t)
      BY <1>5 DEF Elements
    <3>2. Len(t) = n - 1
      BY <1>3, <1>4, <1>2
    <3> QED BY <3>1, <3>2, <1>5
  <2>2. ASSUME NEW i \in DOMAIN t, NEW j \in DOMAIN t, i < j PROVE R[t[i].op] < R[t[j].op]
    <3>1. PICK k \in 1 .. n, l \in 1 .. n : k = i + 1 /\ l = j + 1 /\ k < l
      BY <2>2, <1>5, <1>6
    <3>2. t[i] = q[k] /\ t[j] = q[l]
      BY <3>1, <1>5
    <3> QED BY <3>1, <3>2, <1>5 DEF InOrder
  <2>3. Ops(Elements(t)) \subseteq DOMAIN R
    BY <1>8, <1>10 DEF Ops
  <2> QED BY <2>1, <2>2, <2>3 DEF InOrder
<1>12. t = <<>> <=> Elements(t) = {}
  <2>1. t = <<>> <=> n - 1 = 0
    BY <1>3, <1>4, <1>2
  <2>2. n - 1 # 0 => 1 \in DOMAIN t
    BY <1>5
  <2>3. n - 1 = 0 => DOMAIN t = {}
    BY <1>5
  <2> QED BY <2>1, <2>2, <2>3 DEF Elements
<1> QED BY <1>4, <1>8, <1>9, <1>10, <1>11, <1>12

-----------------------------------------------------------------------------
(* What is declared and what is read. *)

LEMMA PlainTypes ==
  /\ \A name : Type(name).flags = {} /\ Type(name).name = name
  /\ \A name, k : Sized(name, k).flags = {} /\ Sized(name, k).name = name
  /\ \A t, f : Flagged(Type(t), f).flags = f /\ Flagged(Type(t), f).name = t
<1>1. \A name : Type(name).flags = {} /\ Type(name).name = name
  BY DEF Type
<1>2. \A name, k : Sized(name, k).flags = {} /\ Sized(name, k).name = name
  BY DEF Type, Sized
<1>3. \A t, f : Flagged(Type(t), f).flags = f /\ Flagged(Type(t), f).name = t
  BY DEF Type, Flagged
<1> QED BY <1>1, <1>2, <1>3

(* The declaration of each type.                                           *)
DeclaredAs(g, p, c) ==
  /\ c.type \in Integral => g = IntegerDeclaration(p, c)
  /\ c.type = "boolean" => g = BooleanDeclaration(p)
  /\ c.type = "string" => g = StringDeclaration(p, c)
  /\ c.type = "ascii_string" => g = AsciiStringDeclaration(p, c)
  /\ c.type = "dateinterval" => g = StringDeclaration(p, [c EXCEPT !.length = {255}])
  /\ c.type = "guid" => g = GuidDeclaration(p, c)
  /\ c.type = "binary" => g = BinaryDeclaration(p, c)
  /\ c.type \in {"text", "simple_array"} => g = ClobDeclaration(p, c)
  /\ c.type = "blob" => g = BlobDeclaration(p, c)
  /\ c.type \in {"json", "jsonb"} => g = JsonDeclaration(p, c)
  /\ c.type = "enum" => g = EnumDeclaration(p, c)
  /\ c.type \in {"decimal", "number"} => g = DecimalDeclaration(c)
  /\ c.type = "float" => g = Type("double precision")
  /\ c.type = "smallfloat" => g = Type("real")
  /\ c.type \notin Integral \cup {"boolean", "string", "ascii_string", "dateinterval", "guid", "binary", "text",
                              "simple_array", "blob", "json", "jsonb", "enum", "decimal", "number",
                              "float", "smallfloat"} => g = DateTimeDeclaration(p, c.type)

LEMMA DeclarationIs ==
  ASSUME NEW p, NEW c
  PROVE  DeclaredAs(getSQLDeclaration(p, c), p, c)
<1> DEFINE g == getSQLDeclaration(p, c)
<1>1. /\ c.type \in Integral => g = IntegerDeclaration(p, c)
      /\ c.type = "boolean" => g = BooleanDeclaration(p)
      /\ c.type = "string" => g = StringDeclaration(p, c)
      /\ c.type = "ascii_string" => g = AsciiStringDeclaration(p, c)
      /\ c.type = "dateinterval" => g = StringDeclaration(p, [c EXCEPT !.length = {255}])
  BY DEF getSQLDeclaration, Integral
<1>2. /\ c.type = "guid" => g = GuidDeclaration(p, c)
      /\ c.type = "binary" => g = BinaryDeclaration(p, c)
      /\ c.type \in {"text", "simple_array"} => g = ClobDeclaration(p, c)
      /\ c.type = "blob" => g = BlobDeclaration(p, c)
  BY DEF getSQLDeclaration, Integral
<1>3. /\ c.type \in {"json", "jsonb"} => g = JsonDeclaration(p, c)
      /\ c.type = "enum" => g = EnumDeclaration(p, c)
      /\ c.type \in {"decimal", "number"} => g = DecimalDeclaration(c)
  BY DEF getSQLDeclaration, Integral
<1>4. /\ c.type = "float" => g = Type("double precision")
      /\ c.type = "smallfloat" => g = Type("real")
  BY DEF getSQLDeclaration, Integral
<1>5. c.type \notin Integral \cup {"boolean", "string", "ascii_string", "dateinterval", "guid", "binary", "text",
                              "simple_array", "blob", "json", "jsonb", "enum", "decimal", "number",
                              "float", "smallfloat"} => g = DateTimeDeclaration(p, c.type)
  BY DEF getSQLDeclaration
<1> QED BY <1>1, <1>2, <1>3, <1>4, <1>5 DEF DeclaredAs

(* Only an autoincremented column is declared as an identity.              *)
LEMMA IdentityIs ==
  ASSUME NEW c, "auto" \in getSQLDeclaration("pg", c).flags
  PROVE  c.autoincrement
<1>1. \A k : CharDeclaration("pg", k).flags = {} /\ VarcharDeclaration("pg", k).flags = {}
  BY PlainTypes DEF CharDeclaration, VarcharDeclaration
<1>2. \A d : StringDeclaration("pg", d).flags = {}
  BY <1>1 DEF StringDeclaration
<1>3. \A d : /\ AsciiStringDeclaration("pg", d).flags = {} /\ GuidDeclaration("pg", d).flags = {}
             /\ BinaryDeclaration("pg", d).flags = {} /\ ClobDeclaration("pg", d).flags = {}
             /\ BlobDeclaration("pg", d).flags = {}
  BY <1>2, PlainTypes DEF AsciiStringDeclaration, GuidDeclaration, BinaryDeclaration, ClobDeclaration,
                          BlobDeclaration, MySQL
<1>4. JsonDeclaration("pg", c).flags = {} /\ BooleanDeclaration("pg").flags = {}
  BY PlainTypes DEF JsonDeclaration, BooleanDeclaration, MySQL
<1>5. EnumDeclaration("pg", c).flags = {}
  BY <1>1, PlainTypes DEF EnumDeclaration, Refused, MySQL
<1>6. DecimalDeclaration(c).flags = {}
  BY DEF DecimalDeclaration, Type
<1>7. \A type : DateTimeDeclaration("pg", type).flags = {}
  BY PlainTypes DEF DateTimeDeclaration
<1>8. "auto" \in IntegerDeclaration("pg", c).flags => c.autoincrement
  <2>1. IntegerDeclaration("pg", c).flags = IntegerFlags("pg", c)
    BY PlainTypes, Zenon DEF IntegerDeclaration
  <2>2. IntegerFlags("pg", c) = {f \in {"auto"} : c.autoincrement}
    BY DEF IntegerFlags, MySQL
  <2> QED BY <2>1, <2>2
<1>9. PICK g : g = getSQLDeclaration("pg", c) /\ "auto" \in g.flags
  OBVIOUS
<1>10. DeclaredAs(g, "pg", c)
  BY <1>9, DeclarationIs, Zenon
<1>11. c.type \in Integral
  <2>1. c.type \notin {"boolean", "string", "ascii_string", "dateinterval"}
    <3>1. c.type \notin {"boolean", "ascii_string"}
      <4>1. AsciiStringDeclaration("pg", c).flags = {} /\ BooleanDeclaration("pg").flags = {}
        BY <1>3, <1>4
      <4>2. /\ c.type = "boolean" => g = BooleanDeclaration("pg")
            /\ c.type = "ascii_string" => g = AsciiStringDeclaration("pg", c)
        BY <1>10, Zenon DEF DeclaredAs
      <4> QED BY <1>9, <4>1, <4>2
    <3>2. PICK e : e = [c EXCEPT !.length = {255}]
      OBVIOUS
    <3>3. /\ c.type = "string" => g = StringDeclaration("pg", c)
          /\ c.type = "dateinterval" => g = StringDeclaration("pg", e)
      BY <1>10, <3>2, Zenon DEF DeclaredAs
    <3>4. c.type \notin {"string", "dateinterval"}
      BY <1>2, <1>9, <3>3
    <3> QED BY <3>1, <3>4
  <2>2. c.type \notin {"guid", "binary", "text", "simple_array", "blob"}
    BY <1>3, <1>9, <1>10 DEF DeclaredAs
  <2>3. c.type \notin {"json", "jsonb", "enum", "decimal", "number"}
    BY <1>4, <1>5, <1>6, <1>9, <1>10 DEF DeclaredAs
  <2>4. c.type \notin {"float", "smallfloat"}
    BY <1>9, <1>10, PlainTypes DEF DeclaredAs
  <2>5. "auto" \notin DateTimeDeclaration("pg", c.type).flags
    BY <1>7
  <2> QED BY <1>9, <1>10, <2>1, <2>2, <2>3, <2>4, <2>5 DEF DeclaredAs
<1>12. g = IntegerDeclaration("pg", c)
  BY <1>10, <1>11 DEF DeclaredAs
<1> QED BY <1>8, <1>9, <1>12

(* What the managers read of a default, a comment and an identity.         *)
LEMMA PortableIs ==
  ASSUME NEW p, NEW type, NEW s, NEW c, c = Portable(p, type, s)
  PROVE  /\ c.comment = s.comment /\ c.autoincrement = s.auto /\ c.notnull = s.notnull
         /\ c.type = type
         /\ c.default = NoValue <=> s.default \in NoBound
<1>1. /\ c.comment = s.comment /\ c.autoincrement = s.auto /\ c.notnull = s.notnull
      /\ c.type = type /\ c.default = ReadDefault(p, type, s)
  BY DEF Portable, Column
<1>2. \A t : String(t).kind = "string"
  BY DEF String, Value
<1>3. \A t, v : v.kind # "null" => AsNumber(t, v).kind # "null" /\ AsBoolean(t, v).kind # "null"
  BY DEF AsNumber, AsBoolean, Value
<1>4. NoValue.kind = "null" /\ Now.kind = "expression"
  BY DEF NoValue, Now, Value
<1>5. PICK d : d = s.default
  OBVIOUS
<1>6. /\ \A n : parseMySQLColumnDefault(n, d).kind # "null" /\ parseMariaDBColumnDefault(d).kind # "null"
      /\ parseSQLServerDefault(d).kind # "null"
  BY <1>2, <1>4 DEF parseMySQLColumnDefault, parseMariaDBColumnDefault, parseSQLServerDefault
<1>7. parsePostgreSQLDefault(d).kind # "null"
  BY <1>2 DEF parsePostgreSQLDefault, Value
<1>8. d \notin NoBound => ReadDefault(p, type, s).kind # "null"
  <2>1. \A v : v.kind # "null" => AsNumber(type, v).kind # "null" /\ AsBoolean(type, v).kind # "null"
    BY <1>3
  <2>2. String(d.text).kind # "null"
    BY <1>2
  <2> QED BY <2>1, <2>2, <1>5, <1>6, <1>7, Zenon DEF ReadDefault, NoBound
<1>9. d \in NoBound => ReadDefault(p, type, s) = NoValue
  BY <1>5 DEF ReadDefault, NoBound
<1> QED BY <1>1, <1>4, <1>5, <1>8, <1>9

(* The names in SQL Server's catalogue. *)
LEMMA CatalogueNames ==
  ASSUME NEW n
  PROVE  CatalogueName("sqlserver", n) =
           IF n = "double precision" THEN "float"
           ELSE IF n = "varchar max" THEN "varchar"
           ELSE IF n = "varbinary max" THEN "varbinary"
           ELSE n
BY DEF CatalogueName, MySQL

(* What each type is named there when a column of it was declared.         *)
CatalogueNameOf(c) == CatalogueName("sqlserver", getSQLDeclaration("sqlserver", c).name)

LEMMA NameIs ==
  ASSUME NEW c
  PROVE  /\ CatalogueNameOf(c) \notin {"text", "blob"}
         /\ c.type = "integer" => CatalogueNameOf(c) = "int"
         /\ c.type \in {"bigint", "smallint", "date", "time"} => CatalogueNameOf(c) = c.type
         /\ c.type = "boolean" => CatalogueNameOf(c) = "bit"
         /\ c.type = "string" /\ c.fixed => CatalogueNameOf(c) = "nchar"
         /\ c.type = "string" /\ ~c.fixed /\ Declarable("sqlserver", c) => CatalogueNameOf(c) = "nvarchar"
         /\ c.type = "guid" => CatalogueNameOf(c) = "uniqueidentifier"
         /\ c.type = "binary" => CatalogueNameOf(c) = IF c.fixed THEN "binary" ELSE "varbinary"
         /\ c.type = "text" => CatalogueNameOf(c) = "varchar"
         /\ c.type = "blob" => CatalogueNameOf(c) = "varbinary"
         /\ c.type = "decimal" => CatalogueNameOf(c) = "numeric"
         /\ c.type = "float" => CatalogueNameOf(c) = "float"
         /\ c.type = "smallfloat" => CatalogueNameOf(c) = "real"
         /\ c.type = "datetime" => CatalogueNameOf(c) = "datetime2"
         /\ c.type = "datetimetz" => CatalogueNameOf(c) = "datetimeoffset"
<1>1. PICK g : g = getSQLDeclaration("sqlserver", c)
  OBVIOUS
<1>1a. DeclaredAs(g, "sqlserver", c)
  BY <1>1, DeclarationIs, Zenon
<1>2. /\ \A k : CharDeclaration("sqlserver", k).name = "nchar"
      /\ \A k : VarcharDeclaration("sqlserver", k).name \in {"nvarchar", "exception"}
      /\ \A k : VarcharDeclaration("sqlserver", k) # Refused => VarcharDeclaration("sqlserver", k).name = "nvarchar"
      /\ Refused.name = "exception"
  BY PlainTypes DEF CharDeclaration, VarcharDeclaration, Refused
<1>3. \A d : /\ d.fixed => StringDeclaration("sqlserver", d).name = "nchar"
             /\ ~d.fixed /\ StringDeclaration("sqlserver", d) # Refused => StringDeclaration("sqlserver", d).name = "nvarchar"
             /\ StringDeclaration("sqlserver", d).name \in {"nchar", "nvarchar", "exception"}
  BY <1>2 DEF StringDeclaration
<1>4. \A d : /\ AsciiStringDeclaration("sqlserver", d).name \in {"char", "varchar"}
             /\ GuidDeclaration("sqlserver", d).name = "uniqueidentifier"
             /\ ClobDeclaration("sqlserver", d).name = "varchar max"
             /\ BlobDeclaration("sqlserver", d).name = "varbinary max"
             /\ BinaryDeclaration("sqlserver", d).name = IF d.fixed THEN "binary" ELSE "varbinary"
  <2>1. \A d : AsciiStringDeclaration("sqlserver", d).name \in {"char", "varchar"}
    BY PlainTypes DEF AsciiStringDeclaration
  <2>2. \A d : GuidDeclaration("sqlserver", d).name = "uniqueidentifier"
    BY PlainTypes DEF GuidDeclaration
  <2>3. \A d : /\ ClobDeclaration("sqlserver", d).name = "varchar max"
               /\ BlobDeclaration("sqlserver", d).name = "varbinary max"
    <3>1. "sqlserver" \notin MySQL
      BY DEF MySQL
    <3>2. \A d : ClobDeclaration("sqlserver", d) = Type("varchar max")
      BY <3>1 DEF ClobDeclaration
    <3>3. \A d : BlobDeclaration("sqlserver", d) = Type("varbinary max")
      BY <3>1 DEF BlobDeclaration
    <3> QED BY <3>2, <3>3, PlainTypes
  <2>4. \A d : BinaryDeclaration("sqlserver", d).name = IF d.fixed THEN "binary" ELSE "varbinary"
    BY PlainTypes DEF BinaryDeclaration
  <2> QED BY <2>1, <2>2, <2>3, <2>4
<1>5. JsonDeclaration("sqlserver", c).name = "varchar max" /\ BooleanDeclaration("sqlserver").name = "bit"
  BY <1>4, PlainTypes DEF JsonDeclaration, BooleanDeclaration, MySQL
<1>6. EnumDeclaration("sqlserver", c).name \in {"nvarchar", "exception"}
  BY <1>2 DEF EnumDeclaration, MySQL
<1>7. DecimalDeclaration(c).name = "numeric"
  BY DEF DecimalDeclaration, Type
<1>8. \A t : DateTimeDeclaration("sqlserver", t).name =
               IF t = "datetime" THEN "datetime2" ELSE IF t = "datetimetz" THEN "datetimeoffset" ELSE t
  BY PlainTypes DEF DateTimeDeclaration
<1>9. c.type \in Integral => IntegerDeclaration("sqlserver", c).name = IF c.type = "integer" THEN "int" ELSE c.type
  BY PlainTypes DEF IntegerDeclaration, Integral
<1>10. /\ c.type \in Integral => g = IntegerDeclaration("sqlserver", c)
       /\ c.type = "boolean" => g = BooleanDeclaration("sqlserver")
       /\ c.type = "string" => g = StringDeclaration("sqlserver", c)
       /\ c.type = "ascii_string" => g = AsciiStringDeclaration("sqlserver", c)
       /\ c.type = "dateinterval" => g = StringDeclaration("sqlserver", [c EXCEPT !.length = {255}])
       /\ c.type = "guid" => g = GuidDeclaration("sqlserver", c)
       /\ c.type = "binary" => g = BinaryDeclaration("sqlserver", c)
       /\ c.type \in {"text", "simple_array"} => g = ClobDeclaration("sqlserver", c)
       /\ c.type = "blob" => g = BlobDeclaration("sqlserver", c)
       /\ c.type \in {"json", "jsonb"} => g = JsonDeclaration("sqlserver", c)
       /\ c.type = "enum" => g = EnumDeclaration("sqlserver", c)
       /\ c.type \in {"decimal", "number"} => g = DecimalDeclaration(c)
       /\ c.type = "float" => g = Type("double precision")
       /\ c.type = "smallfloat" => g = Type("real")
  BY <1>1a DEF DeclaredAs
<1>11. c.type \notin Integral \cup {"boolean", "string", "ascii_string", "dateinterval", "guid", "binary", "text",
                                    "simple_array", "blob", "json", "jsonb", "enum", "decimal", "number",
                                    "float", "smallfloat"} => g = DateTimeDeclaration("sqlserver", c.type)
  BY <1>1a DEF DeclaredAs
<1>12. CatalogueNameOf(c) = CatalogueName("sqlserver", g.name)
  BY <1>1 DEF CatalogueNameOf
<1>13. /\ c.type = "integer" => g.name = "int"
       /\ c.type \in {"bigint", "smallint", "date", "time"} => g.name = c.type
       /\ c.type = "boolean" => g.name = "bit"
       /\ c.type = "string" /\ c.fixed => g.name = "nchar"
       /\ c.type = "string" /\ ~c.fixed /\ g # Refused => g.name = "nvarchar"
       /\ c.type = "guid" => g.name = "uniqueidentifier"
       /\ c.type = "binary" => g.name = IF c.fixed THEN "binary" ELSE "varbinary"
       /\ c.type = "text" => g.name = "varchar max"
       /\ c.type = "blob" => g.name = "varbinary max"
       /\ c.type = "decimal" => g.name = "numeric"
       /\ c.type = "float" => g.name = "double precision"
       /\ c.type = "smallfloat" => g.name = "real"
       /\ c.type = "datetime" => g.name = "datetime2"
       /\ c.type = "datetimetz" => g.name = "datetimeoffset"
  <2>1. /\ c.type = "integer" => g.name = "int"
        /\ c.type \in {"bigint", "smallint"} => g.name = c.type
    <3>1. c.type \in {"integer", "bigint", "smallint"} => g.name = IF c.type = "integer" THEN "int" ELSE c.type
      BY <1>9, <1>10 DEF Integral
    <3> QED BY <3>1
  <2>2. /\ c.type = "string" /\ c.fixed => g.name = "nchar"
        /\ c.type = "string" /\ ~c.fixed /\ g # Refused => g.name = "nvarchar"
    BY <1>3, <1>10
  <2>3. /\ c.type = "guid" => g.name = "uniqueidentifier"
        /\ c.type = "binary" => g.name = IF c.fixed THEN "binary" ELSE "varbinary"
        /\ c.type = "text" => g.name = "varchar max"
        /\ c.type = "blob" => g.name = "varbinary max"
    BY <1>4, <1>10
  <2>4. /\ c.type = "boolean" => g.name = "bit"
        /\ c.type = "decimal" => g.name = "numeric"
    BY <1>5, <1>7, <1>10
  <2>5. /\ c.type = "float" => g.name = "double precision"
        /\ c.type = "smallfloat" => g.name = "real"
    BY <1>10, PlainTypes
  <2>6. /\ c.type \in {"date", "time"} => g.name = c.type
        /\ c.type = "datetime" => g.name = "datetime2"
        /\ c.type = "datetimetz" => g.name = "datetimeoffset"
    BY <1>8, <1>11 DEF Integral
  <2> QED BY <2>1, <2>2, <2>3, <2>4, <2>5, <2>6
<1>14. g.name \notin {"text", "blob"}
  <2>1. CASE c.type \in Integral \cup {"boolean", "string", "ascii_string", "dateinterval", "guid", "binary", "text",
                                       "simple_array", "blob", "json", "jsonb", "enum", "decimal", "number",
                                       "float", "smallfloat"}
    <3>1. c.type \in Integral => g.name \in {"int", "bigint", "smallint"}
      BY <1>9, <1>10 DEF Integral
    <3>2. c.type \in {"string", "dateinterval"} => g.name \in {"nchar", "nvarchar", "exception"}
      BY <1>3, <1>10
    <3>3. /\ c.type = "ascii_string" => g.name \in {"char", "varchar"}
          /\ c.type \in {"guid", "text", "simple_array", "blob"} =>
               g.name \in {"uniqueidentifier", "varchar max", "varbinary max"}
          /\ c.type = "binary" => g.name \in {"binary", "varbinary"}
      BY <1>4, <1>10
    <3>4. /\ c.type \in {"boolean", "json", "jsonb"} => g.name \in {"bit", "varchar max"}
          /\ c.type \in {"decimal", "number"} => g.name = "numeric"
      BY <1>5, <1>7, <1>10
    <3>5. c.type = "enum" => g.name \in {"nvarchar", "exception"}
      BY <1>6, <1>10
    <3>6. c.type \in {"float", "smallfloat"} => g.name \in {"double precision", "real"}
      BY <1>10, PlainTypes
    <3> QED BY <2>1, <3>1, <3>2, <3>3, <3>4, <3>5, <3>6
  <2>2. CASE c.type \notin Integral \cup {"boolean", "string", "ascii_string", "dateinterval", "guid", "binary", "text",
                                          "simple_array", "blob", "json", "jsonb", "enum", "decimal", "number",
                                          "float", "smallfloat"}
    <3>1. g.name \in {"datetime2", "datetimeoffset", c.type}
      BY <2>2, <1>8, <1>11
    <3> QED BY <2>2, <3>1
  <2> QED BY <2>1, <2>2
<1>15. Declarable("sqlserver", c) <=> g # Refused
  BY <1>1 DEF Declarable
<1> QED BY <1>12, <1>13, <1>14, <1>15, CatalogueNames

(* A type that SQL Server's manager reads is declared by the name it had,  *)
(* but for those of ascii strings.                                         *)
LEMMA ReadAsDeclared ==
  ASSUME NEW s, NEW c, Readable("sqlserver", s), s.name \notin {"text", "blob"},
         Declarable("sqlserver", c), NEW o, o = Read("sqlserver", s),
         o.type = c.type, o.fixed = c.fixed
  PROVE  SameType(s, o, c)
<1>1. PICK name : name = CASE s.name = "varchar" /\ s.length = {-1}   -> "text"
                           [] s.name = "varbinary" /\ s.length = {-1} -> "blob"
                           [] OTHER -> s.name
  OBVIOUS
<1>2. /\ o.type = Mapping("sqlserver")[name]
      /\ o.fixed = (name \in {"char", "nchar", "binary"})
  <2>1. o = ReadSQLServer(s)
    BY DEF Read, MySQL
  <2> QED BY <2>1, <1>1 DEF ReadSQLServer, Portable, Column
<1>3. Mapping("sqlserver") = SQLServerMapping
  BY DEF Mapping, MySQL
<1>4. s.name \in DOMAIN SQLServerMapping
  BY <1>3 DEF Readable, hasDatazenTypeMappingFor
<1>5. s.name \in {"bigint", "binary", "bit", "char", "date", "datetime2", "datetimeoffset", "float", "int",
                  "nchar", "numeric", "nvarchar", "real", "smallint", "time", "uniqueidentifier", "varbinary",
                  "varchar"}
  BY <1>4 DEF SQLServerMapping
<1>6. SameType(s, o, c) <=> CatalogueNameOf(c) = s.name \/ (s.name \in {"char", "varchar"} /\ {o.type, c.type} = {"string"})
  BY Zenon DEF SameType, CatalogueNameOf
<1>7. CASE s.name \in {"varchar", "varbinary"}
  <2>1. name \in {s.name, "text", "blob"} /\ (name = "text" => s.name = "varchar") /\ (name = "blob" => s.name = "varbinary")
    BY <1>1
  <2>2. /\ SQLServerMapping["varchar"] = "string" /\ SQLServerMapping["varbinary"] = "binary"
        /\ SQLServerMapping["text"] = "text" /\ SQLServerMapping["blob"] = "blob"
    BY DEF SQLServerMapping
  <2>3. ~ o.fixed
    BY <1>2, <1>7, <2>1
  <2>4. /\ s.name = "varchar" => c.type \in {"string", "text"}
        /\ s.name = "varbinary" => c.type \in {"binary", "blob"}
        /\ ~ c.fixed
    BY <1>2, <1>3, <1>7, <2>1, <2>2, <2>3
  <2>5. CASE s.name = "varchar"
    <3>1. CASE c.type = "string"
      BY <1>6, <2>5, <3>1
    <3>2. CASE c.type = "text"
      BY <1>6, <2>5, <3>2, NameIs
    <3> QED BY <2>4, <2>5, <3>1, <3>2
  <2>6. CASE s.name = "varbinary"
    BY <1>6, <2>4, <2>6, NameIs
  <2> QED BY <1>7, <2>5, <2>6
<1>8. CASE s.name \notin {"varchar", "varbinary"}
  <2>1. name = s.name
    BY <1>1, <1>8
  <2>2. o.type = SQLServerMapping[s.name] /\ o.fixed = (s.name \in {"char", "nchar", "binary"})
    BY <1>2, <1>3, <2>1
  <2>3. CASE s.name \in {"bigint", "smallint", "date", "time", "bit", "int", "numeric", "float", "real",
                         "datetime2", "datetimeoffset", "uniqueidentifier"}
    <3>1. /\ SQLServerMapping["bigint"] = "bigint" /\ SQLServerMapping["smallint"] = "smallint"
          /\ SQLServerMapping["date"] = "date" /\ SQLServerMapping["time"] = "time"
          /\ SQLServerMapping["bit"] = "boolean" /\ SQLServerMapping["int"] = "integer"
          /\ SQLServerMapping["numeric"] = "decimal" /\ SQLServerMapping["float"] = "float"
          /\ SQLServerMapping["real"] = "smallfloat" /\ SQLServerMapping["datetime2"] = "datetime"
          /\ SQLServerMapping["datetimeoffset"] = "datetimetz"
          /\ SQLServerMapping["uniqueidentifier"] = "guid"
      BY DEF SQLServerMapping
    <3>2. /\ s.name \in {"bigint", "smallint", "date", "time"} => c.type = s.name
          /\ s.name = "bit" => c.type = "boolean"
          /\ s.name = "int" => c.type = "integer"
          /\ s.name = "numeric" => c.type = "decimal"
          /\ s.name = "float" => c.type = "float"
          /\ s.name = "real" => c.type = "smallfloat"
          /\ s.name = "datetime2" => c.type = "datetime"
          /\ s.name = "datetimeoffset" => c.type = "datetimetz"
          /\ s.name = "uniqueidentifier" => c.type = "guid"
      BY <2>2, <3>1
    <3>3. CatalogueNameOf(c) = s.name
      <4>1. CASE s.name \in {"bigint", "smallint", "date", "time"}
        BY <3>2, <4>1, NameIs
      <4>2. CASE s.name \in {"bit", "int", "numeric", "float"}
        BY <3>2, <4>2, NameIs
      <4>3. CASE s.name \in {"real", "datetime2", "datetimeoffset", "uniqueidentifier"}
        BY <3>2, <4>3, NameIs
      <4> QED BY <2>3, <4>1, <4>2, <4>3
    <3> QED BY <3>3, <1>6
  <2>4. CASE s.name \in {"char", "nchar", "nvarchar", "binary"}
    <3>1. /\ SQLServerMapping["char"] = "string" /\ SQLServerMapping["nchar"] = "string"
          /\ SQLServerMapping["nvarchar"] = "string" /\ SQLServerMapping["binary"] = "binary"
      BY DEF SQLServerMapping
    <3>2. /\ s.name \in {"char", "nchar", "nvarchar"} => c.type = "string"
          /\ s.name = "binary" => c.type = "binary"
          /\ c.fixed = (s.name # "nvarchar")
      BY <2>2, <2>4, <3>1
    <3>3. CASE s.name = "char"
      BY <1>6, <3>2, <3>3
    <3>4. CASE s.name \in {"nchar", "nvarchar", "binary"}
      BY <1>6, <3>2, <3>4, NameIs
    <3> QED BY <2>4, <3>3, <3>4
  <2> QED BY <1>5, <1>8, <2>3, <2>4
<1> QED BY <1>7, <1>8

-----------------------------------------------------------------------------
(* Statements and columns. *)

LEMMA StatementIs == \A op, arg : Statement(op, arg).op = op /\ Statement(op, arg).arg = arg
BY DEF Statement

(* No column of a catalogue is the absent one.                             *)
LEMMA AbsentIs ==
  /\ Absent.comment = "" /\ Absent.default = NoValue /\ Absent.notnull = TRUE
  /\ Absent.autoincrement = FALSE /\ Absent.type = "absent"
  /\ \A s : DOMAIN s = Fields => s # Absent
<1>1. /\ Absent.comment = "" /\ Absent.default = NoValue /\ Absent.notnull = TRUE
      /\ Absent.autoincrement = FALSE /\ Absent.type = "absent" /\ "type" \in DOMAIN Absent
  BY DEF Absent, Column
<1>2. "type" \notin Fields
  BY DEF Fields
<1> QED BY <1>1, <1>2

LEMMA KeptIs ==
  ASSUME NEW d
  PROVE  /\ DOMAIN Kept(d) = Fields
         /\ Kept(d).name = CatalogueName(platform, d.type.name)
         /\ Kept(d).auto = ("auto" \in d.type.flags) /\ Kept(d).auto \in BOOLEAN
         /\ Kept(d).notnull = d.notnull /\ Kept(d).comment = d.comment
         /\ Kept(d).default = CatalogueDefault(platform, d.default, ~d.notnull)
BY DEF Kept, Catalogue, Fields

(* What every statement does to the column.                                *)
LEMMA ColumnAfterIs ==
  ASSUME NEW x
  PROVE  /\ x.op = "createTable" => ColumnAfter(x) = IF x.arg = <<>> THEN Absent ELSE Kept(x.arg)
         /\ x.op = "addColumn" => ColumnAfter(x) = Kept(x.arg)
         /\ x.op \in {"dropColumn", "dropTable"} => ColumnAfter(x) = Absent
         /\ x.op = "alterColumn" =>
              ColumnAfter(x) = [Kept(x.arg) EXCEPT !.default = stored.default, !.comment = stored.comment]
         /\ x.op \in {"setDefault", "addConstraint"} =>
              ColumnAfter(x) = [stored EXCEPT !.default = CatalogueDefault(platform, x.arg, ~stored.notnull)]
         /\ x.op = "dropConstraint" => ColumnAfter(x) = [stored EXCEPT !.default = NoDefault]
         /\ x.op = "setNotnull" => ColumnAfter(x) = [stored EXCEPT !.notnull = x.arg]
         /\ x.op = "setIdentity" => ColumnAfter(x) = [stored EXCEPT !.auto = x.arg]
         /\ x.op \in {"comment", "addComment", "updateComment", "dropComment"} =>
              ColumnAfter(x) = [stored EXCEPT !.comment = x.arg]
         /\ x.op \in {"copyRows", "copyBack", "dropCopy"} => ColumnAfter(x) = stored
BY DEF ColumnAfter

LEMMA AlterTypeIs ==
  ASSUME NEW x, x.op = "alterType"
  PROVE  /\ DOMAIN ColumnAfter(x) = Fields
         /\ ColumnAfter(x).default = stored.default /\ ColumnAfter(x).notnull = stored.notnull
         /\ ColumnAfter(x).comment = stored.comment /\ ColumnAfter(x).auto = stored.auto
<1>1. PICK k : k = Kept([type |-> x.arg, default |-> NoDefault, notnull |-> TRUE, comment |-> ""])
  OBVIOUS
<1>2. ColumnAfter(x) = [k EXCEPT !.default = stored.default, !.notnull = stored.notnull,
                                 !.comment = stored.comment, !.auto = stored.auto]
  BY <1>1 DEF ColumnAfter
<1>3. DOMAIN k = Fields
  BY <1>1, KeptIs
<1> QED BY <1>2, <1>3 DEF Fields

-----------------------------------------------------------------------------
(* PostgreSQL. *)

LEMMA PostgreSQLRanks ==
  /\ DOMAIN PostgreSQLOrder = {"createTable", "addColumn", "dropColumn", "alterType", "setDefault",
                               "setNotnull", "setIdentity", "comment"}
  /\ PostgreSQLOrder["createTable"] = 0 /\ PostgreSQLOrder["addColumn"] = 0 /\ PostgreSQLOrder["dropColumn"] = 0
  /\ PostgreSQLOrder["alterType"] = 1 /\ PostgreSQLOrder["setDefault"] = 2
  /\ PostgreSQLOrder["setNotnull"] = 3 /\ PostgreSQLOrder["setIdentity"] = 4 /\ PostgreSQLOrder["comment"] = 5
BY DEF PostgreSQLOrder

Comments(c) == IF c.comment # "" THEN {Statement("comment", c.comment)} ELSE {}

LEMMA PostgreSQLComments ==
  ASSUME NEW c, NEW x, x.op \in {"createTable", "addColumn"}
  PROVE  Script(<<x>> \o Commented(c), PostgreSQLOrder, {x} \cup Comments(c))
<1>1. PICK y : y = Statement("comment", c.comment) /\ y.op = "comment"
  BY StatementIs
<1>2. x.op \in DOMAIN PostgreSQLOrder /\ y.op \in DOMAIN PostgreSQLOrder
  BY <1>1, PostgreSQLRanks
<1>3. Script(<<x>>, PostgreSQLOrder, {x})
  BY <1>2, OneStatement
<1>4. PICK C : C = Comments(c) /\ C = IF c.comment # "" THEN {y} ELSE {}
  BY <1>1 DEF Comments
<1>5. Script(Commented(c), PostgreSQLOrder, C)
  <2>1. Script(When(c.comment # "", y), PostgreSQLOrder, IF c.comment # "" THEN {y} ELSE {})
    BY <1>2, MaybeStatement, Zenon
  <2> QED BY <2>1, <1>1, <1>4 DEF Commented
<1>6. Before({x}, C, PostgreSQLOrder)
  <2>1. \A b \in C : PostgreSQLOrder[b.op] = 5
    BY <1>1, <1>4, PostgreSQLRanks
  <2>2. \A a \in {x} : PostgreSQLOrder[a.op] \in 0 .. 0
    BY PostgreSQLRanks
  <2>3. 0 \in Nat /\ 5 \in Nat /\ 0 < 5
    OBVIOUS
  <2> QED BY <2>1, <2>2, <2>3, BeforeIs
<1> QED BY <1>3, <1>4, <1>5, <1>6, OneAfterTheOther

(* createTable().                                                          *)
LEMMA CreatedInPostgreSQL ==
  ASSUME NEW c, platform = "pg", NEW s, NEW o, NEW q, q = CreateStatements(c)
  PROVE  InOrder(q, PostgreSQLOrder) /\ PostgreSQLScript(Elements(q), s, o, c)
<1>1. PICK x : x = Statement("createTable", InTable(c)) /\ x.op = "createTable" /\ x.arg = InTable(c)
  BY StatementIs
<1>2. PICK t, E : t = <<x>> \o Commented(c) /\ E = {x} \cup Comments(c)
  OBVIOUS
<1>3. Script(t, PostgreSQLOrder, E)
  <2>1. x.op \in {"createTable", "addColumn"}
    BY <1>1
  <2>2. Script(<<x>> \o Commented(c), PostgreSQLOrder, {x} \cup Comments(c))
    BY <2>1, PostgreSQLComments
  <2> QED BY <2>2, <1>2
<1>4. q = t
  <2>1. q = t \o <<>>
    BY <1>1, <1>2 DEF CreateStatements
  <2>2. PICK S : t \in Seq(S)
    BY <1>3 DEF InOrder, Script
  <2> QED BY <2>1, <2>2
<1>5. \A z \in E : z = x \/ (z.op = "comment" /\ c.comment # "")
  BY <1>2, StatementIs DEF Comments
<1>6. "createTable" \in Ops(E)
  BY <1>1, <1>2 DEF Ops
<1>7. x.arg = IF c = Absent THEN <<>> ELSE getColumnDeclarationSQL("pg", c)
  BY <1>1 DEF InTable
<1>8. PostgreSQLScript(E, s, o, c)
  BY <1>1, <1>5, <1>6, <1>7, AbsentIs DEF PostgreSQLScript, Creates, Alterations
<1> QED BY <1>3, <1>4, <1>8 DEF Script

(* The statements that change a column come one after the other.           *)
Sets(c, x) == IF c THEN {x} ELSE {}

PostgreSQLChange(old, new) ==
  When(TypeOf(old) # TypeOf(new), Statement("alterType", TypeOf(new)))
  \o When(DefaultChanged(old, new),
          Statement("setDefault", IF new.default = NoValue THEN NoDefault
                                   ELSE getDefaultValueDeclarationSQL(platform, new)))
  \o When(old.notnull # new.notnull, Statement("setNotnull", new.notnull))
  \o When(old.autoincrement # new.autoincrement, Statement("setIdentity", new.autoincrement))
  \o When(old.comment # new.comment, Statement("comment", new.comment))

LEMMA PostgreSQLChanges ==
  ASSUME NEW old, NEW new, NEW q, q = PostgreSQLChange(old, new)
  PROVE  /\ InOrder(q, PostgreSQLOrder)
         /\ \A x \in Elements(q) :
              /\ x.op \in Alterations \cup {"comment"}
              /\ x.op = "alterType" => x.arg = TypeOf(new)
              /\ x.op = "setDefault" => DefaultChanged(old, new) /\ (new.default = NoValue => x.arg = NoDefault)
              /\ x.op = "setNotnull" => x.arg = new.notnull
              /\ x.op = "setIdentity" => x.arg = new.autoincrement
         /\ old.notnull # new.notnull => "setNotnull" \in Ops(Elements(q))
         /\ DefaultChanged(old, new) => "setDefault" \in Ops(Elements(q))
<1>1. PICK a, b, d, e, f :
        /\ a = Statement("alterType", TypeOf(new))
        /\ b = Statement("setDefault", IF new.default = NoValue THEN NoDefault
                                       ELSE getDefaultValueDeclarationSQL(platform, new))
        /\ d = Statement("setNotnull", new.notnull)
        /\ e = Statement("setIdentity", new.autoincrement)
        /\ f = Statement("comment", new.comment)
  OBVIOUS
<1>2. /\ a.op = "alterType" /\ b.op = "setDefault" /\ d.op = "setNotnull" /\ e.op = "setIdentity" /\ f.op = "comment"
      /\ a.arg = TypeOf(new) /\ d.arg = new.notnull /\ e.arg = new.autoincrement
      /\ new.default = NoValue => b.arg = NoDefault
  BY <1>1, StatementIs
<1>3. /\ a.op \in DOMAIN PostgreSQLOrder /\ b.op \in DOMAIN PostgreSQLOrder /\ d.op \in DOMAIN PostgreSQLOrder
      /\ e.op \in DOMAIN PostgreSQLOrder /\ f.op \in DOMAIN PostgreSQLOrder
  BY <1>2, PostgreSQLRanks
<1>4. PICK A, B, D, E, F :
        /\ A = Sets(TypeOf(old) # TypeOf(new), a) /\ B = Sets(DefaultChanged(old, new), b)
        /\ D = Sets(old.notnull # new.notnull, d) /\ E = Sets(old.autoincrement # new.autoincrement, e)
        /\ F = Sets(old.comment # new.comment, f)
  OBVIOUS
<1>5. PICK u, v, w, y, z :
        /\ u = When(TypeOf(old) # TypeOf(new), a) /\ v = When(DefaultChanged(old, new), b)
        /\ w = When(old.notnull # new.notnull, d) /\ y = When(old.autoincrement # new.autoincrement, e)
        /\ z = When(old.comment # new.comment, f)
  OBVIOUS
<1>6. /\ Script(u, PostgreSQLOrder, A) /\ Script(v, PostgreSQLOrder, B) /\ Script(w, PostgreSQLOrder, D)
      /\ Script(y, PostgreSQLOrder, E) /\ Script(z, PostgreSQLOrder, F)
  <2>1. \A c, x : x.op \in DOMAIN PostgreSQLOrder => Script(When(c, x), PostgreSQLOrder, Sets(c, x))
    BY MaybeStatement, Zenon DEF Sets
  <2>2. /\ Script(When(TypeOf(old) # TypeOf(new), a), PostgreSQLOrder, Sets(TypeOf(old) # TypeOf(new), a))
        /\ Script(When(DefaultChanged(old, new), b), PostgreSQLOrder, Sets(DefaultChanged(old, new), b))
        /\ Script(When(old.notnull # new.notnull, d), PostgreSQLOrder, Sets(old.notnull # new.notnull, d))
        /\ Script(When(old.autoincrement # new.autoincrement, e), PostgreSQLOrder,
                  Sets(old.autoincrement # new.autoincrement, e))
        /\ Script(When(old.comment # new.comment, f), PostgreSQLOrder, Sets(old.comment # new.comment, f))
    BY <2>1, <1>3, Zenon
  <2> QED BY <2>2, <1>4, <1>5, Zenon
<1>7. /\ \A x \in A : x = a
      /\ \A x \in B : x = b /\ DefaultChanged(old, new)
      /\ \A x \in D : x = d
      /\ \A x \in E : x = e
      /\ \A x \in F : x = f
      /\ old.notnull # new.notnull => d \in D
      /\ DefaultChanged(old, new) => b \in B
  BY <1>4, Zenon DEF Sets
<1>8. q = (((u \o v) \o w) \o y) \o z
  BY <1>1, <1>5, Zenon DEF PostgreSQLChange
<1>9. PICK r1, r2, r3, r4 : r1 = u \o v /\ r2 = r1 \o w /\ r3 = r2 \o y /\ r4 = r3 \o z /\ r4 = q
  BY <1>8, Zenon
<1>10. /\ \A x \in A : PostgreSQLOrder[x.op] = 1
       /\ \A x \in B : PostgreSQLOrder[x.op] = 2
       /\ \A x \in D : PostgreSQLOrder[x.op] = 3
       /\ \A x \in E : PostgreSQLOrder[x.op] = 4
       /\ \A x \in F : PostgreSQLOrder[x.op] = 5
  BY <1>2, <1>7, PostgreSQLRanks
<1>11. PICK S1, S2, S3, S4 : S1 = A \cup B /\ S2 = S1 \cup D /\ S3 = S2 \cup E /\ S4 = S3 \cup F
  OBVIOUS
<1>12. Script(r1, PostgreSQLOrder, S1)
  <2>1. Before(A, B, PostgreSQLOrder)
    BY <1>10 DEF Before
  <2> QED BY <2>1, <1>6, <1>9, <1>11, OneAfterTheOther
<1>13. Script(r2, PostgreSQLOrder, S2)
  <2>1. Before(S1, D, PostgreSQLOrder)
    BY <1>10, <1>11 DEF Before
  <2> QED BY <2>1, <1>6, <1>9, <1>11, <1>12, OneAfterTheOther
<1>14. Script(r3, PostgreSQLOrder, S3)
  <2>1. Before(S2, E, PostgreSQLOrder)
    BY <1>10, <1>11 DEF Before
  <2> QED BY <2>1, <1>6, <1>9, <1>11, <1>13, OneAfterTheOther
<1>15. Script(r4, PostgreSQLOrder, S4)
  <2>1. Before(S3, F, PostgreSQLOrder)
    BY <1>10, <1>11 DEF Before
  <2>2. Script(r3 \o z, PostgreSQLOrder, S3 \cup F)
    BY <2>1, <1>6, <1>14, OneAfterTheOther
  <2> QED BY <2>2, <1>9, <1>11, Zenon
<1>16. /\ \A x \in S4 : x \in {a, d, e, f} \/ (x = b /\ DefaultChanged(old, new))
       /\ old.notnull # new.notnull => d \in S4
       /\ DefaultChanged(old, new) => b \in S4
  BY <1>7, <1>11
<1>17. InOrder(q, PostgreSQLOrder) /\ Elements(q) = S4
  BY <1>9, <1>15 DEF Script
<1> QED BY <1>2, <1>16, <1>17 DEF Alterations, Ops

LEMMA AlteredInPostgreSQL ==
  ASSUME NEW s, NEW n, NEW o, NEW q, platform = "pg", PostgreSQLColumn(s, keyed),
         o = (IF s = Absent THEN Absent ELSE Read("pg", s)), o # n, q = AlterPostgreSQL(o, n)
  PROVE  InOrder(q, PostgreSQLOrder) /\ PostgreSQLScript(Elements(q), s, o, n)
<1>1. CASE o = Absent
  <2>1. PICK x : x = Statement("addColumn", getColumnDeclarationSQL("pg", n))
                 /\ x.op = "addColumn" /\ x.arg = getColumnDeclarationSQL("pg", n)
    BY StatementIs
  <2>2. PICK t, E : t = <<x>> \o Commented(n) /\ E = {x} \cup Comments(n)
    OBVIOUS
  <2>3. q = t
    BY <1>1, <2>1, <2>2 DEF AlterPostgreSQL
  <2>4. Script(t, PostgreSQLOrder, E)
    <3>1. x.op \in {"createTable", "addColumn"}
      BY <2>1
    <3>2. Script(<<x>> \o Commented(n), PostgreSQLOrder, {x} \cup Comments(n))
      BY <3>1, PostgreSQLComments
    <3> QED BY <3>2, <2>2
  <2>5. \A z \in E : z = x \/ z.op = "comment"
    BY <2>2, StatementIs DEF Comments
  <2>6. "addColumn" \in Ops(E)
    BY <2>1, <2>2 DEF Ops
  <2>7. PostgreSQLScript(E, s, o, n)
    BY <1>1, <2>1, <2>5, <2>6 DEF PostgreSQLScript, Creates, Alterations
  <2> QED BY <2>3, <2>4, <2>7 DEF Script
<1>2. CASE o # Absent /\ n = Absent
  <2>1. PICK x, t : x = Statement("dropColumn", <<>>) /\ x.op = "dropColumn" /\ t = <<x>>
    BY StatementIs
  <2>2. q = t
    BY <1>2, <2>1 DEF AlterPostgreSQL
  <2>3. Script(t, PostgreSQLOrder, {x})
    BY <2>1, PostgreSQLRanks, OneStatement
  <2>4. PostgreSQLScript({x}, s, o, n)
    BY <2>1 DEF PostgreSQLScript, Creates, Alterations
  <2> QED BY <2>2, <2>3, <2>4 DEF Script
<1>3. CASE o # Absent /\ n # Absent
  <2>1. s # Absent /\ o = Read("pg", s)
    BY <1>3
  <2>2. PICK type : o = [Portable("pg", type, s) EXCEPT
                          !.length = IF s.name \in {"bpchar", "varchar"} THEN s.length ELSE {},
                          !.precision = s.precision, !.scale = s.scale,
                          !.fixed = s.name = "bpchar",
                          !.jsonb = s.name = "jsonb"]
    BY <2>1 DEF Read, MySQL, ReadPostgreSQL
  <2>3. PICK c : c = Portable("pg", type, s)
    OBVIOUS
  <2>4. o.autoincrement = c.autoincrement /\ o.notnull = c.notnull /\ o.default = c.default
    BY <2>2, <2>3 DEF Portable, Column
  <2>5. o.autoincrement = s.auto /\ o.notnull = s.notnull /\ (o.default = NoValue <=> s.default \in NoBound)
    BY <2>3, <2>4, PortableIs
  <2>6. s.auto => s.default = NoDefault
    BY <2>1 DEF PostgreSQLColumn
  <2>7. s.default # Bare("NULL")
    BY <2>1 DEF PostgreSQLColumn
  <2>8. NoDefault \in NoBound
    BY DEF NoBound
  <2>9. o.autoincrement => o.default = NoValue
    BY <2>5, <2>6, <2>8
  <2>10. q = PostgreSQLChange(o, n)
    BY <1>3, Zenon DEF AlterPostgreSQL, PostgreSQLChange
  <2>11. PICK E : E = Elements(q)
    OBVIOUS
  <2>12. /\ InOrder(q, PostgreSQLOrder)
         /\ \A x \in E :
              /\ x.op \in Alterations \cup {"comment"}
              /\ x.op = "alterType" => x.arg = TypeOf(n)
              /\ x.op = "setDefault" => DefaultChanged(o, n) /\ (n.default = NoValue => x.arg = NoDefault)
              /\ x.op = "setNotnull" => x.arg = n.notnull
              /\ x.op = "setIdentity" => x.arg = n.autoincrement
         /\ o.notnull # n.notnull => "setNotnull" \in Ops(E)
         /\ DefaultChanged(o, n) => "setDefault" \in Ops(E)
    <3>1. /\ InOrder(q, PostgreSQLOrder)
          /\ \A x \in Elements(q) :
               /\ x.op \in Alterations \cup {"comment"}
               /\ x.op = "alterType" => x.arg = TypeOf(n)
               /\ x.op = "setDefault" => DefaultChanged(o, n) /\ (n.default = NoValue => x.arg = NoDefault)
               /\ x.op = "setNotnull" => x.arg = n.notnull
               /\ x.op = "setIdentity" => x.arg = n.autoincrement
          /\ o.notnull # n.notnull => "setNotnull" \in Ops(Elements(q))
          /\ DefaultChanged(o, n) => "setDefault" \in Ops(Elements(q))
      BY <2>10, PostgreSQLChanges
    <3> QED BY <2>11, <3>1, Zenon
  <2>13. TypeOf(n) = getSQLDeclaration("pg", [n EXCEPT !.autoincrement = FALSE])
    BY DEF TypeOf
  <2>14. s.notnull = n.notnull \/ "setNotnull" \in Ops(E)
    BY <2>5, <2>12
  <2>15. s.default = NoDefault \/ n.default # NoValue \/ "setDefault" \in Ops(E)
    <3>1. o.default # n.default => DefaultChanged(o, n)
      BY DEF DefaultChanged
    <3>2. s.default # NoDefault => s.default \notin NoBound
      BY <2>7 DEF NoBound
    <3> QED BY <3>1, <3>2, <2>5, <2>12
  <2>16. Ops(E) \subseteq Alterations \cup {"comment"}
    BY <2>12 DEF Ops
  <2>17. PostgreSQLScript(E, s, o, n)
    <3>1. Creates(E, "pg", n)
      BY <2>12 DEF Creates, Alterations
    <3>2. \A x \in E : x.op # "addColumn" /\ x.op # "dropColumn"
      BY <2>12 DEF Alterations
    <3> QED BY <1>3, <2>1, <2>5, <2>9, <2>12, <2>13, <2>14, <2>15, <2>16, <3>1, <3>2 DEF PostgreSQLScript
  <2> QED BY <2>11, <2>12, <2>17
<1> QED BY <1>1, <1>2, <1>3

(* What is known of the column that is wanted.                             *)
LEMMA WantedIs ==
  ASSUME NEW n \in Columns \cup {Absent}
  PROVE  /\ n.autoincrement \in BOOLEAN /\ n.notnull \in BOOLEAN
         /\ n.autoincrement => n.type \in Integral /\ n.default = NoValue
         /\ n.type \in Integral => n \in ColumnRecords
         /\ n # Absent => n \in ColumnRecords /\ n.default.text # ""
<1>1. CASE n \in Columns
  BY <1>1, ColumnsAssumption DEF ColumnRecords
<1>2. CASE n = Absent
  <2>1. "absent" \notin Integral
    BY DEF Integral
  <2> QED BY <1>2, <2>1, AbsentIs
<1> QED BY <1>1, <1>2

LEMMA IntegersAre ==
  ASSUME NEW c \in ColumnRecords, c.type \in Integral
  PROVE  getSQLDeclaration("pg", [c EXCEPT !.autoincrement = FALSE]).name \in {"int", "bigint", "smallint"}
<1>1. PICK d : d = [c EXCEPT !.autoincrement = FALSE]
  OBVIOUS
<1>2. d.type = c.type
  BY <1>1 DEF ColumnRecords
<1>3. getSQLDeclaration("pg", d) = IntegerDeclaration("pg", d)
  <2>1. d.type \in Integral
    BY <1>2
  <2>2. d.type \notin {"boolean", "string", "ascii_string", "dateinterval", "guid", "binary", "text", "simple_array",
                       "blob", "json", "jsonb", "enum", "decimal", "number", "float", "smallfloat"}
    BY <2>1 DEF Integral
  <2> QED BY <2>1, <2>2 DEF getSQLDeclaration
<1>4. IntegerDeclaration("pg", d).name = IF d.type = "integer" THEN "int" ELSE d.type
  BY PlainTypes DEF IntegerDeclaration
<1> QED BY <1>1, <1>2, <1>3, <1>4 DEF Integral

(* A column as PostgreSQL makes it of its declaration.                     *)
LEMMA MadeByPostgreSQL ==
  ASSUME platform = "pg", NEW n, n.autoincrement => keyed, n.autoincrement \in BOOLEAN,
         NEW d, d = getColumnDeclarationSQL("pg", n)
  PROVE  PostgreSQLColumn(Kept(d), keyed) /\ Kept(d) # Absent /\ d # <<>>
<1>1. /\ d.type = getSQLDeclaration("pg", n) /\ d.default = getDefaultValueDeclarationSQL("pg", n)
      /\ "type" \in DOMAIN d
  BY DEF getColumnDeclarationSQL, AbstractDeclaration
<1>2. PICK k : k = Kept(d)
  OBVIOUS
<1>3. /\ DOMAIN k = Fields /\ k.auto = ("auto" \in d.type.flags) /\ k.auto \in BOOLEAN
      /\ k.default = CatalogueDefault("pg", d.default, ~d.notnull)
  BY <1>2, KeptIs
<1>4. k.auto => n.autoincrement
  BY <1>1, <1>3, IdentityIs
<1>5. k.default = IF d.default = Bare("NULL") THEN NoDefault ELSE d.default
  BY <1>3 DEF CatalogueDefault
<1>6. NoDefault # Bare("NULL")
  BY DEF NoDefault, Bare
<1>7. n.autoincrement => d.default = NoDefault
  BY <1>1 DEF getDefaultValueDeclarationSQL
<1>8. PostgreSQLColumn(k, keyed)
  BY <1>3, <1>4, <1>5, <1>6, <1>7 DEF PostgreSQLColumn
<1>9. d # <<>>
  BY <1>1
<1> QED BY <1>2, <1>3, <1>8, <1>9, AbsentIs

(* A statement that PostgreSQL refuses ends an identity after something    *)
(* that it forbids; one that it executes leaves the rest of the script.    *)
LEMMA RefusedByPostgreSQL ==
  ASSUME platform = "pg", NEW n \in Columns \cup {Absent}, NEW o, NEW E, NEW h \in E,
         PostgreSQLScript(E, stored, o, n), PostgreSQLColumn(stored, keyed),
         \A y \in E : h.op = "setIdentity" => y.op \notin {"setNotnull", "setDefault"},
         keyed => n.notnull, ~keyed => ~n.autoincrement, Refuses(h)
  PROVE  o.autoincrement /\ ~n.autoincrement /\ (n.default # NoValue \/ n.type \notin Integral)
<1>1. CASE stored # Absent /\ stored.auto
  <2>1. \/ h.op = "alterType" /\ h.arg.name \notin {"int", "bigint", "smallint"}
        \/ h.op = "setDefault"
        \/ h.op = "setNotnull" /\ ~h.arg
    BY <1>1, Zenon DEF Refuses
  <2>2. h.op \in Alterations
    BY <2>1 DEF Alterations
  <2>3. o.autoincrement /\ o.default = NoValue
    BY <1>1, <2>2 DEF PostgreSQLScript
  <2>4. keyed
    BY <1>1 DEF PostgreSQLColumn
  <2>5. CASE h.op = "alterType"
    <3>1. h.arg = getSQLDeclaration("pg", [n EXCEPT !.autoincrement = FALSE])
      BY <2>5 DEF PostgreSQLScript
    <3>2. n.type \notin Integral
      BY <2>1, <2>5, <3>1, WantedIs, IntegersAre
    <3> QED BY <2>3, <3>2, WantedIs
  <2>6. CASE h.op = "setDefault"
    <3>1. DefaultChanged(o, n)
      BY <2>6 DEF PostgreSQLScript
    <3>2. NoValue.kind # "expression"
      BY DEF NoValue, Value
    <3>3. n.default # NoValue
      BY <2>3, <3>1, <3>2 DEF DefaultChanged
    <3> QED BY <2>3, <3>3, WantedIs
  <2>7. CASE h.op = "setNotnull"
    <3>1. h.arg = n.notnull
      BY <2>7 DEF PostgreSQLScript
    <3> QED BY <2>1, <2>4, <2>7, <3>1
  <2> QED BY <2>1, <2>5, <2>6, <2>7
<1>2. CASE ~(stored # Absent /\ stored.auto)
  <2>1. h.op = "setIdentity" /\ h.arg /\ ~(stored.notnull /\ stored.default = NoDefault)
    BY <1>2, Zenon DEF Refuses
  <2>2. /\ h.arg = n.autoincrement
        /\ stored.notnull = n.notnull \/ "setNotnull" \in Ops(E)
        /\ stored.default = NoDefault \/ n.default # NoValue \/ "setDefault" \in Ops(E)
    BY <2>1 DEF PostgreSQLScript
  <2>3. "setNotnull" \notin Ops(E) /\ "setDefault" \notin Ops(E)
    BY <2>1 DEF Ops
  <2>4. n.autoincrement /\ n.default = NoValue /\ n.notnull
    BY <2>1, <2>2, WantedIs
  <2> QED BY <2>1, <2>2, <2>3, <2>4
<1> QED BY <1>1, <1>2

LEMMA LeftInPostgreSQL ==
  ASSUME platform = "pg", NEW n \in Columns \cup {Absent}, NEW o, NEW E, NEW h, NEW T, E = {h} \cup T,
         h.op \in DOMAIN PostgreSQLOrder, Before({h}, T, PostgreSQLOrder), Ops(T) \subseteq DOMAIN PostgreSQLOrder,
         PostgreSQLScript(E, stored, o, n), PostgreSQLColumn(stored, keyed),
         ~keyed => ~n.autoincrement, ~Refuses(h), NEW t, t = ColumnAfter(h)
  PROVE  PostgreSQLColumn(t, keyed) /\ PostgreSQLScript(T, t, o, n)
<1>1. /\ h \in E /\ \A y \in T : y \in E
      /\ \A y \in T : y.op \in DOMAIN PostgreSQLOrder /\ PostgreSQLOrder[h.op] < PostgreSQLOrder[y.op]
  BY DEF Before, Ops
<1>2. Creates(T, "pg", n)
  BY <1>1 DEF PostgreSQLScript, Creates
<1>3. /\ \A y \in T : y.op \in Ops(E)
      /\ h.op \in Ops(E)
      /\ \A op \in Ops(E) : op = h.op \/ op \in Ops(T)
  BY <1>1 DEF Ops
<1>4. n.autoincrement \in BOOLEAN /\ (n.autoincrement => keyed)
  BY WantedIs
<1>5. CASE h.op \in {"createTable", "addColumn"}
  <2>1. \A y \in T : y.op = "comment"
    <3>1. \A y \in T : y.op \notin {"createTable", "addColumn", "dropColumn"}
      BY <1>1, <1>5, PostgreSQLRanks
    <3>2. \A y \in T : y.op \notin Alterations
      BY <1>1, <1>3, <1>5 DEF PostgreSQLScript, Alterations
    <3> QED BY <1>1, <3>1, <3>2, PostgreSQLRanks DEF Alterations
  <2>2. PostgreSQLColumn(t, keyed) /\ (n # Absent => t # Absent)
    <3>1. PICK d : d = getColumnDeclarationSQL("pg", n)
      OBVIOUS
    <3>2. PostgreSQLColumn(Kept(d), keyed) /\ Kept(d) # Absent /\ d # <<>>
      BY <1>4, <3>1, MadeByPostgreSQL
    <3>3. CASE h.op = "addColumn"
      <4>1. h.arg = d
        BY <1>1, <3>1, <3>3 DEF PostgreSQLScript
      <4> QED BY <3>2, <3>3, <4>1, ColumnAfterIs
    <3>4. CASE h.op = "createTable"
      <4>1. h.arg = IF n = Absent THEN <<>> ELSE d
        BY <1>1, <3>1, <3>4 DEF PostgreSQLScript, Creates
      <4>2. t = IF h.arg = <<>> THEN Absent ELSE Kept(h.arg)
        BY <3>4, ColumnAfterIs
      <4> QED BY <3>2, <4>1, <4>2 DEF PostgreSQLColumn
    <3> QED BY <1>5, <3>3, <3>4
  <2>3. \A y \in T : n # Absent
    BY <1>1, <2>1 DEF PostgreSQLScript
  <2> QED BY <1>2, <2>1, <2>2, <2>3 DEF PostgreSQLScript, Alterations
<1>6. CASE h.op = "dropColumn"
  <2>1. E = {h}
    BY <1>1, <1>6 DEF PostgreSQLScript
  <2>2. T = {}
    BY <1>1, <1>6, <2>1, PostgreSQLRanks
  <2>3. t = Absent
    BY <1>6, ColumnAfterIs
  <2> QED BY <2>2, <2>3 DEF PostgreSQLScript, PostgreSQLColumn, Creates
<1>7. CASE h.op \in Alterations
  <2>1. /\ stored # Absent /\ stored.auto = o.autoincrement /\ Ops(E) \subseteq Alterations \cup {"comment"}
        /\ o.autoincrement => o.default = NoValue
    BY <1>1, <1>7 DEF PostgreSQLScript
  <2>2. /\ DOMAIN stored = Fields /\ stored.auto \in BOOLEAN /\ stored.default # Bare("NULL")
        /\ stored.auto => keyed /\ stored.default = NoDefault
    BY <2>1 DEF PostgreSQLColumn
  <2>3. /\ "auto" \in Fields /\ "default" \in Fields /\ "notnull" \in Fields
    BY DEF Fields
  <2>4. /\ DOMAIN t = Fields
        /\ h.op # "setIdentity" => t.auto = stored.auto
        /\ h.op = "setIdentity" => t.auto = h.arg
        /\ h.op # "setNotnull" => t.notnull = stored.notnull
        /\ h.op = "setNotnull" => t.notnull = h.arg
        /\ h.op # "setDefault" => t.default = stored.default
        /\ h.op = "setDefault" => t.default = CatalogueDefault("pg", h.arg, ~stored.notnull)
    <3>1. CASE h.op = "alterType"
      BY <3>1, AlterTypeIs
    <3>2. CASE h.op = "setDefault"
      <4>1. t = [stored EXCEPT !.default = CatalogueDefault("pg", h.arg, ~stored.notnull)]
        BY <3>2, ColumnAfterIs
      <4> QED BY <4>1, <3>2, <2>2, <2>3
    <3>3. CASE h.op = "setNotnull"
      <4>1. t = [stored EXCEPT !.notnull = h.arg]
        BY <3>3, ColumnAfterIs
      <4> QED BY <4>1, <3>3, <2>2, <2>3
    <3>4. CASE h.op = "setIdentity"
      <4>1. t = [stored EXCEPT !.auto = h.arg]
        BY <3>4, ColumnAfterIs
      <4> QED BY <4>1, <3>4, <2>2, <2>3
    <3> QED BY <1>7, <3>1, <3>2, <3>3, <3>4 DEF Alterations
  <2>5. t # Absent
    BY <2>4, AbsentIs
  <2>6. h.op = "setDefault" => t.default # Bare("NULL") /\ ~stored.auto /\ (h.arg = NoDefault => t.default = NoDefault)
    <3>1. ASSUME h.op = "setDefault" PROVE ~stored.auto
      BY <2>1, <3>1 DEF Refuses
    <3>2. NoDefault # Bare("NULL")
      BY DEF NoDefault, Bare
    <3>3. CatalogueDefault("pg", h.arg, ~stored.notnull) = IF h.arg = Bare("NULL") THEN NoDefault ELSE h.arg
      BY DEF CatalogueDefault
    <3> QED BY <3>1, <3>2, <3>3, <2>4
  <2>7. h.op = "setIdentity" => /\ h.arg = n.autoincrement
                                /\ h.arg => stored.default = NoDefault
    <3>1. ASSUME h.op = "setIdentity" PROVE h.arg = n.autoincrement
      BY <1>1, <3>1 DEF PostgreSQLScript
    <3>2. ASSUME h.op = "setIdentity", ~stored.auto, h.arg PROVE stored.default = NoDefault
      BY <3>2 DEF Refuses
    <3> QED BY <2>2, <3>1, <3>2
  <2>8. PostgreSQLColumn(t, keyed)
    BY <1>4, <2>2, <2>4, <2>6, <2>7 DEF PostgreSQLColumn
  <2>9. ASSUME NEW y \in T
        PROVE  /\ y.op \in Alterations \cup {"comment"}
               /\ h.op = "setIdentity" => y.op = "comment"
               /\ y.op \in Alterations => t.auto = o.autoincrement
    <3>1. y.op \in Alterations \cup {"comment"}
      BY <1>3, <2>1
    <3>2. h.op = "setIdentity" => y.op = "comment"
      BY <1>1, <3>1, PostgreSQLRanks DEF Alterations
    <3>3. "comment" \notin Alterations
      BY DEF Alterations
    <3> QED BY <2>1, <2>4, <3>1, <3>2, <3>3
  <2>10. ASSUME NEW y \in T, y.op = "setIdentity"
         PROVE  /\ t.notnull = n.notnull \/ "setNotnull" \in Ops(T)
                /\ t.default = NoDefault \/ n.default # NoValue \/ "setDefault" \in Ops(T)
    <3>1. /\ stored.notnull = n.notnull \/ "setNotnull" \in Ops(E)
          /\ stored.default = NoDefault \/ n.default # NoValue \/ "setDefault" \in Ops(E)
      BY <1>1, <2>10 DEF PostgreSQLScript
    <3>2. h.op = "setNotnull" => t.notnull = n.notnull
      BY <1>1, <2>4 DEF PostgreSQLScript
    <3>3. h.op = "setDefault" /\ n.default = NoValue => t.default = NoDefault
      BY <1>1, <2>6 DEF PostgreSQLScript
    <3> QED BY <1>3, <2>4, <3>1, <3>2, <3>3
  <2>11. Ops(T) \subseteq Alterations \cup {"comment"}
    BY <2>9 DEF Ops
  <2>12. \A y \in T : /\ y.op = "comment" => n # Absent
                      /\ y.op # "addColumn" /\ y.op # "dropColumn"
                      /\ y.op = "alterType" => y.arg = getSQLDeclaration("pg", [n EXCEPT !.autoincrement = FALSE])
                      /\ y.op = "setDefault" => DefaultChanged(o, n) /\ (n.default = NoValue => y.arg = NoDefault)
                      /\ y.op = "setNotnull" => y.arg = n.notnull
                      /\ y.op = "setIdentity" => y.arg = n.autoincrement
    <3>1. \A y \in T : y.op # "addColumn" /\ y.op # "dropColumn"
      BY <2>9 DEF Alterations
    <3> QED BY <1>1, <3>1 DEF PostgreSQLScript
  <2>13. PostgreSQLScript(T, t, o, n)
    BY <1>2, <2>1, <2>5, <2>9, <2>10, <2>11, <2>12 DEF PostgreSQLScript
  <2> QED BY <2>8, <2>13
<1>8. CASE h.op = "comment"
  <2>1. T = {}
    <3>1. \A y \in T : FALSE
      BY <1>1, <1>8, PostgreSQLRanks
    <3> QED BY <3>1
  <2>2. stored # Absent
    <3>1. \A op \in Ops(E) : op = "comment"
      BY <1>3, <1>8, <2>1 DEF Ops
    <3> QED BY <1>1, <1>8, <3>1 DEF PostgreSQLScript
  <2>3. t = [stored EXCEPT !.comment = h.arg]
    BY <1>8, ColumnAfterIs
  <2>4. "auto" \in Fields /\ "default" \in Fields /\ "comment" \in Fields
    BY DEF Fields
  <2>5. DOMAIN t = Fields /\ t.auto = stored.auto /\ t.default = stored.default
    BY <2>2, <2>3, <2>4 DEF PostgreSQLColumn
  <2> QED BY <2>1, <2>2, <2>5 DEF PostgreSQLColumn, PostgreSQLScript, Creates
<1> QED BY <1>5, <1>6, <1>7, <1>8, PostgreSQLRanks DEF Alterations

-----------------------------------------------------------------------------
(* SQL Server. *)

LEMMA SQLServerRanks ==
  /\ DOMAIN SQLServerOrder = {"addColumn", "dropConstraint", "alterColumn", "dropColumn", "addConstraint",
                              "addComment", "updateComment", "dropComment"}
  /\ SQLServerOrder["addColumn"] = 0 /\ SQLServerOrder["dropConstraint"] = 1
  /\ SQLServerOrder["alterColumn"] = 2 /\ SQLServerOrder["dropColumn"] = 2
  /\ SQLServerOrder["addConstraint"] = 3 /\ SQLServerOrder["addComment"] = 4
  /\ SQLServerOrder["updateComment"] = 4 /\ SQLServerOrder["dropComment"] = 4
  /\ DOMAIN SQLServerCreates = {"createTable", "addComment", "addConstraint"}
  /\ SQLServerCreates["createTable"] = 0 /\ SQLServerCreates["addComment"] = 1
  /\ SQLServerCreates["addConstraint"] = 2
BY DEF SQLServerOrder, SQLServerCreates

LEMMA PossibleStatement ==
  ASSUME NEW R, NEW c, NEW x, x.op \in DOMAIN R
  PROVE  Script(When(c, x), R, Sets(c, x))
BY MaybeStatement, Zenon DEF Sets

(* createTable().                                                          *)
LEMMA CreatedInSQLServer ==
  ASSUME NEW c, platform = "sqlserver", NEW s, NEW o, NEW q, q = CreateStatements(c)
  PROVE  InOrder(q, SQLServerCreates) /\ SQLServerScript(Elements(q), s, o, c)
<1>1. PICK x, y, z :
        /\ x = Statement("createTable", InTable(c)) /\ x.op = "createTable" /\ x.arg = InTable(c)
        /\ y = Statement("addComment", c.comment) /\ y.op = "addComment"
        /\ z = Statement("addConstraint", getDefaultValueDeclarationSQL(platform, c)) /\ z.op = "addConstraint"
  BY StatementIs
<1>2. PICK u, v, w : /\ u = <<x>> /\ v = When(c.comment # "", y) /\ w = When(c.default # NoValue, z)
  OBVIOUS
<1>3. PICK A, B : A = Sets(c.comment # "", y) /\ B = Sets(c.default # NoValue, z)
  OBVIOUS
<1>4. Script(u, SQLServerCreates, {x}) /\ Script(v, SQLServerCreates, A) /\ Script(w, SQLServerCreates, B)
  <2>1. x.op \in DOMAIN SQLServerCreates /\ y.op \in DOMAIN SQLServerCreates /\ z.op \in DOMAIN SQLServerCreates
    BY <1>1, SQLServerRanks
  <2>2. Script(<<x>>, SQLServerCreates, {x})
    BY <2>1, OneStatement
  <2>3. /\ Script(When(c.comment # "", y), SQLServerCreates, Sets(c.comment # "", y))
        /\ Script(When(c.default # NoValue, z), SQLServerCreates, Sets(c.default # NoValue, z))
    BY <2>1, PossibleStatement, Zenon
  <2> QED BY <2>2, <2>3, <1>2, <1>3, Zenon
<1>5. /\ \A a \in A : a = y /\ c.comment # ""
      /\ \A b \in B : b = z /\ c.default # NoValue
  BY <1>3, Zenon DEF Sets
<1>5a. /\ \A e \in {x} : SQLServerCreates[e.op] = 0
       /\ \A a \in A : SQLServerCreates[a.op] = 1
       /\ \A b \in B : SQLServerCreates[b.op] = 2
  BY <1>1, <1>5, SQLServerRanks
<1>6. PICK r : r = v \o w
  OBVIOUS
<1>7. Script(r, SQLServerCreates, A \cup B)
  <2>1. Before(A, B, SQLServerCreates)
    BY <1>5a DEF Before
  <2> QED BY <2>1, <1>4, <1>6, OneAfterTheOther
<1>8. PICK t, E : t = u \o r /\ E = {x} \cup (A \cup B)
  OBVIOUS
<1>9. Script(t, SQLServerCreates, E)
  <2>1. Before({x}, A \cup B, SQLServerCreates)
    BY <1>5a DEF Before
  <2> QED BY <2>1, <1>4, <1>7, <1>8, OneAfterTheOther
<1>10. q = t
  <2>1. q = (u \o <<>>) \o r
    BY <1>1, <1>2, <1>6 DEF CreateStatements
  <2>2. u \o <<>> = u
    <3>1. PICK S : u \in Seq(S)
      BY <1>4 DEF InOrder, Script
    <3> QED BY <3>1
  <2> QED BY <2>1, <2>2, <1>8
<1>11. /\ \A e \in E : e = x \/ (e = y /\ c.comment # "") \/ (e = z /\ c.default # NoValue)
       /\ x \in E
  BY <1>5, <1>8
<1>12. "createTable" \in Ops(E)
  BY <1>1, <1>11 DEF Ops
<1>13. x.arg = IF c = Absent THEN <<>> ELSE getColumnDeclarationSQL("sqlserver", c)
  BY <1>1 DEF InTable
<1>14. c = Absent => E = {x}
  BY <1>11, AbsentIs
<1>15. SQLServerScript(E, s, o, c)
  BY <1>1, <1>11, <1>12, <1>13, <1>14 DEF SQLServerScript, Creates, Bindable
<1> QED BY <1>9, <1>10, <1>15 DEF Script

(* The statements that change a column, and when there are any.            *)
LEMMA SQLServerChanges ==
  ASSUME NEW old, NEW new, NEW q, q = ChangeSQLServer(old, new), platform = "sqlserver"
  PROVE  /\ InOrder(q, SQLServerOrder)
         /\ \A x \in Elements(q) :
              \/ x.op = "dropConstraint" /\ alterColumnRequiresDropDefaultConstraint(old, new)
              \/ x.op = "alterColumn" /\ x.arg = getColumnDeclarationSQL("sqlserver", new)
              \/ /\ x.op = "addConstraint"
                 /\ alterColumnRequiresDropDefaultConstraint(old, new) \/ DefaultChanged(old, new)
              \/ x.op = "addComment" /\ old.comment = ""
              \/ x.op \in {"updateComment", "dropComment"} /\ old.comment # ""
         /\ alterColumnRequiresDropDefaultConstraint(old, new) => "dropConstraint" \in Ops(Elements(q))
<1>1. PICK drops, altered, adds :
        /\ drops = alterColumnRequiresDropDefaultConstraint(old, new)
        /\ altered = (getColumnDeclarationSQL(platform, old) # getColumnDeclarationSQL(platform, new))
        /\ adds = ((altered \/ DefaultChanged(old, new)) /\ new.default # NoValue
                   /\ (drops \/ DefaultChanged(old, new)))
  OBVIOUS
<1>2. PICK a, b, d, f :
        /\ a = DropConstraint /\ b = Statement("alterColumn", getColumnDeclarationSQL(platform, new))
        /\ d = AddConstraint(new) /\ f = CommentOf(old, new)
  OBVIOUS
<1>3. /\ a.op = "dropConstraint" /\ b.op = "alterColumn" /\ b.arg = getColumnDeclarationSQL("sqlserver", new)
      /\ d.op = "addConstraint"
  BY <1>2, StatementIs DEF DropConstraint, AddConstraint
<1>4. old.comment # new.comment =>
        \/ f.op = "addComment" /\ old.comment = ""
        \/ f.op \in {"updateComment", "dropComment"} /\ old.comment # ""
  <2>1. PICK op : op = CASE old.comment # "" /\ new.comment # "" -> "updateComment"
                         [] new.comment = "" -> "dropComment"
                         [] old.comment = "" -> "addComment"
    OBVIOUS
  <2>2. old.comment # new.comment => \/ op = "addComment" /\ old.comment = ""
                                     \/ op \in {"updateComment", "dropComment"} /\ old.comment # ""
    BY <2>1
  <2>3. f = Statement(op, new.comment)
    BY <1>2, <2>1, Zenon DEF CommentOf
  <2> QED BY <2>2, <2>3, StatementIs
<1>5. PICK u, v, w, z :
        /\ u = When(drops, a) /\ v = When(altered, b) /\ w = When(adds, d)
        /\ z = When(old.comment # new.comment, f)
  OBVIOUS
<1>6. PICK A, B, D, F :
        /\ A = Sets(drops, a) /\ B = Sets(altered, b) /\ D = Sets(adds, d) /\ F = Sets(old.comment # new.comment, f)
  OBVIOUS
<1>7. /\ Script(u, SQLServerOrder, A) /\ Script(v, SQLServerOrder, B) /\ Script(w, SQLServerOrder, D)
      /\ Script(z, SQLServerOrder, F)
  <2>1. /\ a.op \in DOMAIN SQLServerOrder /\ b.op \in DOMAIN SQLServerOrder /\ d.op \in DOMAIN SQLServerOrder
        /\ old.comment # new.comment => f.op \in DOMAIN SQLServerOrder
    BY <1>3, <1>4, SQLServerRanks
  <2>2. /\ Script(When(drops, a), SQLServerOrder, Sets(drops, a))
        /\ Script(When(altered, b), SQLServerOrder, Sets(altered, b))
        /\ Script(When(adds, d), SQLServerOrder, Sets(adds, d))
    BY <2>1, PossibleStatement, Zenon
  <2>3. Script(z, SQLServerOrder, F)
    <3>1. CASE old.comment # new.comment
      <4>1. Script(When(old.comment # new.comment, f), SQLServerOrder, Sets(old.comment # new.comment, f))
        BY <2>1, <3>1, PossibleStatement, Zenon
      <4> QED BY <4>1, <1>5, <1>6, Zenon
    <3>2. CASE ~(old.comment # new.comment)
      <4>1. z = <<>> /\ F = {}
        BY <1>5, <1>6, <3>2 DEF When, Sets
      <4> QED BY <4>1, NoStatement
    <3> QED BY <3>1, <3>2
  <2> QED BY <2>2, <2>3, <1>5, <1>6, Zenon
<1>8. /\ \A x \in A : x = a /\ drops
      /\ \A x \in B : x = b
      /\ \A x \in D : x = d /\ adds
      /\ \A x \in F : x = f /\ old.comment # new.comment
      /\ drops => a \in A
  BY <1>6, Zenon DEF Sets
<1>9. q = ((u \o v) \o w) \o z
  BY <1>1, <1>2, <1>5, Zenon DEF ChangeSQLServer
<1>10. PICK r1, r2, r3 : r1 = u \o v /\ r2 = r1 \o w /\ r3 = r2 \o z /\ r3 = q
  BY <1>9, Zenon
<1>11. /\ \A x \in A : SQLServerOrder[x.op] = 1
       /\ \A x \in B : SQLServerOrder[x.op] = 2
       /\ \A x \in D : SQLServerOrder[x.op] = 3
       /\ \A x \in F : SQLServerOrder[x.op] = 4
  BY <1>3, <1>4, <1>8, SQLServerRanks
<1>12. PICK S1, S2, S3 : S1 = A \cup B /\ S2 = S1 \cup D /\ S3 = S2 \cup F
  OBVIOUS
<1>13. Script(r1, SQLServerOrder, S1)
  <2>1. Before(A, B, SQLServerOrder)
    BY <1>11 DEF Before
  <2> QED BY <2>1, <1>7, <1>10, <1>12, OneAfterTheOther
<1>14. Script(r2, SQLServerOrder, S2)
  <2>1. Before(S1, D, SQLServerOrder)
    BY <1>11, <1>12 DEF Before
  <2> QED BY <2>1, <1>7, <1>10, <1>12, <1>13, OneAfterTheOther
<1>15. Script(r3, SQLServerOrder, S3)
  <2>1. Before(S2, F, SQLServerOrder)
    BY <1>11, <1>12 DEF Before
  <2>2. Script(r2 \o z, SQLServerOrder, S2 \cup F)
    BY <2>1, <1>7, <1>14, OneAfterTheOther
  <2> QED BY <2>2, <1>10, <1>12, Zenon
<1>16. /\ \A x \in S3 : \/ x = a /\ drops
                        \/ x = b
                        \/ x = d /\ (drops \/ DefaultChanged(old, new))
                        \/ x = f /\ old.comment # new.comment
       /\ drops => a \in S3
  BY <1>1, <1>8, <1>12
<1>17. InOrder(q, SQLServerOrder) /\ Elements(q) = S3
  BY <1>10, <1>15 DEF Script
<1> QED BY <1>1, <1>3, <1>4, <1>16, <1>17 DEF Ops

LEMMA AlteredInSQLServer ==
  ASSUME NEW s, NEW n, NEW o, NEW q, platform = "sqlserver", SQLServerColumn(s),
         s # Absent => Readable("sqlserver", s), n = Absent \/ Declarable("sqlserver", n),
         o = (IF s = Absent THEN Absent ELSE Read("sqlserver", s)), o # n, q = AlterSQLServer(o, n)
  PROVE  InOrder(q, SQLServerOrder) /\ SQLServerScript(Elements(q), s, o, n)
<1>1. CASE o = Absent
  <2>1. PICK x : x = Statement("addColumn", AbstractDeclaration("sqlserver", n)) /\ x.op = "addColumn"
                 /\ x.arg = AbstractDeclaration("sqlserver", n)
    BY StatementIs
  <2>2. q = <<x>>
    BY <1>1, <2>1 DEF AlterSQLServer
  <2>3. Script(q, SQLServerOrder, {x})
    BY <2>1, <2>2, SQLServerRanks, OneStatement
  <2>4. SQLServerScript({x}, s, o, n)
    BY <2>1 DEF SQLServerScript, Creates, Ops
  <2> QED BY <2>3, <2>4 DEF Script
<1>2. ASSUME o # Absent
      PROVE  /\ s # Absent /\ o = Read("sqlserver", s)
             /\ o.comment = s.comment /\ (o.default = NoValue <=> s.default \in NoBound)
  <2>1. s # Absent /\ o = Read("sqlserver", s)
    BY <1>2
  <2>2. o = ReadSQLServer(s)
    BY <2>1 DEF Read, MySQL
  <2>3. PICK name : name = CASE s.name = "varchar" /\ s.length = {-1}   -> "text"
                             [] s.name = "varbinary" /\ s.length = {-1} -> "blob"
                             [] OTHER -> s.name
    OBVIOUS
  <2>3a. PICK type : type = Mapping("sqlserver")[name]
    OBVIOUS
  <2>4. PICK c : c = Portable("sqlserver", type, s)
    OBVIOUS
  <2>5. o.comment = c.comment /\ o.default = c.default
    <3>1. PICK l : l = IF type \in {"text", "string", "binary"} THEN Halved(name, MaxLength(s)) ELSE {}
      OBVIOUS
    <3>2. o = [c EXCEPT !.length = l, !.precision = s.precision, !.scale = s.scale,
                        !.fixed = name \in {"char", "nchar", "binary"}]
      BY <2>2, <2>3, <2>3a, <2>4, <3>1 DEF ReadSQLServer
    <3> QED BY <2>4, <3>2 DEF Portable, Column
  <2> QED BY <2>1, <2>4, <2>5, PortableIs
<1>3. CASE o # Absent /\ n = Absent
  <2>1. PICK x, y : x = DropConstraint /\ x.op = "dropConstraint"
                    /\ y = Statement("dropColumn", <<>>) /\ y.op = "dropColumn"
    BY StatementIs DEF DropConstraint
  <2>2. PICK u, v, A : /\ u = When(o.default # NoValue, x) /\ v = <<y>> /\ A = Sets(o.default # NoValue, x)
    OBVIOUS
  <2>3. Script(u, SQLServerOrder, A) /\ Script(v, SQLServerOrder, {y})
    <3>1. x.op \in DOMAIN SQLServerOrder /\ y.op \in DOMAIN SQLServerOrder
      BY <2>1, SQLServerRanks
    <3>2. Script(When(o.default # NoValue, x), SQLServerOrder, Sets(o.default # NoValue, x))
      BY <3>1, PossibleStatement, Zenon
    <3>3. Script(<<y>>, SQLServerOrder, {y})
      BY <3>1, OneStatement
    <3> QED BY <2>2, <3>2, <3>3, Zenon
  <2>4. \A e \in A : e = x /\ o.default # NoValue
    BY <2>2, Zenon DEF Sets
  <2>5. o.default # NoValue => x \in A
    BY <2>2, Zenon DEF Sets
  <2>6. PICK t, E : t = u \o v /\ E = A \cup {y}
    OBVIOUS
  <2>7. Script(t, SQLServerOrder, E)
    <3>1. /\ \A e \in A : SQLServerOrder[e.op] = 1
          /\ \A e \in {y} : SQLServerOrder[e.op] = 2
      BY <2>1, <2>4, SQLServerRanks
    <3>2. Before(A, {y}, SQLServerOrder)
      BY <3>1 DEF Before
    <3> QED BY <3>2, <2>3, <2>6, OneAfterTheOther
  <2>8. q = t
    BY <1>3, <2>1, <2>2, <2>6, Zenon DEF AlterSQLServer
  <2>9. /\ \A e \in E : e = y \/ (e = x /\ o.default # NoValue)
        /\ o.default # NoValue => x \in E
    BY <2>4, <2>5, <2>6
  <2>10. Ops(E) \subseteq {"dropConstraint", "dropColumn"}
    BY <2>1, <2>9 DEF Ops
  <2>11. Bindable(E, s)
    <3>1. o.default # NoValue => "dropConstraint" \in Ops(E)
      BY <2>1, <2>9 DEF Ops
    <3> QED BY <1>2, <1>3, <3>1 DEF Bindable
  <2>12. o.default # NoValue => s.default # NoDefault
    BY <1>2, <1>3 DEF NoBound
  <2>13. SQLServerScript(E, s, o, n)
    BY <1>2, <1>3, <2>1, <2>9, <2>10, <2>11, <2>12 DEF SQLServerScript, Creates
  <2> QED BY <2>7, <2>8, <2>13 DEF Script
<1>4. CASE o # Absent /\ n # Absent
  <2>1. PICK E, drops : E = Elements(q) /\ drops = alterColumnRequiresDropDefaultConstraint(o, n)
    OBVIOUS
  <2>2. q = ChangeSQLServer(o, n)
    BY <1>4, Zenon DEF AlterSQLServer
  <2>3. /\ InOrder(q, SQLServerOrder)
        /\ \A x \in E :
              \/ x.op = "dropConstraint" /\ drops
              \/ x.op = "alterColumn" /\ x.arg = getColumnDeclarationSQL("sqlserver", n)
              \/ x.op = "addConstraint" /\ (drops \/ DefaultChanged(o, n))
              \/ x.op = "addComment" /\ o.comment = ""
              \/ x.op \in {"updateComment", "dropComment"} /\ o.comment # ""
        /\ drops => "dropConstraint" \in Ops(E)
    BY <2>1, <2>2, SQLServerChanges, Zenon
  <2>4. drops <=> o.default # NoValue /\ (DefaultChanged(o, n) \/ o.type # n.type \/ o.fixed # n.fixed)
    BY <2>1 DEF alterColumnRequiresDropDefaultConstraint
  <2>5. s # Absent /\ o.comment = s.comment /\ (o.default = NoValue <=> s.default \in NoBound) /\ o = Read("sqlserver", s)
    BY <1>2, <1>4
  <2>6. o.default = NoValue \/ drops => Bindable(E, s)
    BY <2>3, <2>5 DEF Bindable
  <2>7. Bindable(E, s) \/ SameType(s, o, n)
    <3>1. CASE o.default = NoValue \/ drops
      BY <3>1, <2>6
    <3>2. CASE o.type = n.type /\ o.fixed = n.fixed
      <4>1. s.name \notin {"text", "blob"}
        BY <2>5 DEF SQLServerColumn
      <4> QED BY <1>4, <2>5, <3>2, <4>1, ReadAsDeclared
    <3> QED BY <2>4, <3>1, <3>2
  <2>8. drops => s.default # NoDefault
    BY <2>4, <2>5 DEF NoBound
  <2>9. \A x \in E : x.op = "addConstraint" => Bindable(E, s)
    BY <2>3, <2>4, <2>6
  <2>10. SQLServerScript(E, s, o, n)
    BY <2>3, <2>5, <2>7, <2>8, <2>9 DEF SQLServerScript, Creates
  <2> QED BY <2>1, <2>3, <2>10
<1> QED BY <1>1, <1>3, <1>4

(* A column as SQL Server makes it of its declaration.                     *)
LEMMA MadeBySQLServer ==
  ASSUME platform = "sqlserver", NEW n, NEW d,
         d \in {getColumnDeclarationSQL("sqlserver", n), AbstractDeclaration("sqlserver", n)}
  PROVE  /\ SQLServerColumn(Kept(d)) /\ DOMAIN Kept(d) = Fields /\ Kept(d) # Absent /\ d # <<>>
         /\ Kept(d).name = CatalogueNameOf(n) /\ Kept(d).name \notin {"text", "blob"} /\ Kept(d).comment = ""
         /\ d = getColumnDeclarationSQL("sqlserver", n) => Kept(d).default = NoDefault
<1>1. d.type = getSQLDeclaration("sqlserver", n) /\ d.comment = "" /\ "type" \in DOMAIN d
  <2>1. PICK e : e = AbstractDeclaration("sqlserver", n)
    OBVIOUS
  <2>2. e.type = getSQLDeclaration("sqlserver", n) /\ e.comment = "" /\ "type" \in DOMAIN e /\ "comment" \in DOMAIN e
    BY <2>1 DEF AbstractDeclaration, InlineComments, MySQL
  <2>3. d = e \/ d = [e EXCEPT !.default = NoDefault]
    BY <2>1 DEF getColumnDeclarationSQL
  <2> QED BY <2>2, <2>3
<1>2. d = getColumnDeclarationSQL("sqlserver", n) => d.default = NoDefault
  BY DEF getColumnDeclarationSQL, AbstractDeclaration
<1>3. PICK k : k = Kept(d)
  OBVIOUS
<1>4. /\ DOMAIN k = Fields /\ k.name = CatalogueName("sqlserver", d.type.name) /\ k.comment = d.comment
      /\ k.default = CatalogueDefault("sqlserver", d.default, ~d.notnull)
  BY <1>3, KeptIs
<1>5. k.name = CatalogueNameOf(n)
  BY <1>1, <1>4 DEF CatalogueNameOf
<1>6. d.default = NoDefault => k.default = NoDefault
  <2>1. NoDefault # Bare(NowText)
    BY DEF NoDefault, Bare, NowText
  <2> QED BY <1>4, <2>1 DEF CatalogueDefault
<1>7. d # <<>>
  <2>1. PICK e : e = <<>> /\ DOMAIN e = {}
    OBVIOUS
  <2>2. "type" \in DOMAIN d
    BY <1>1
  <2> QED BY <2>1, <2>2, Zenon
<1>8. SQLServerColumn(k) /\ k # Absent /\ k.name \notin {"text", "blob"}
  BY <1>4, <1>5, NameIs, AbsentIs DEF SQLServerColumn
<1> QED BY <1>1, <1>2, <1>3, <1>4, <1>5, <1>6, <1>7, <1>8

(* What may follow a statement. *)
SQLServerComments == {"addComment", "updateComment", "dropComment"}

LEMMA AfterInSQLServer ==
  ASSUME NEW R \in {SQLServerOrder, SQLServerCreates}, NEW h, NEW T, h.op \in DOMAIN R, Before({h}, T, R),
         Ops(T) \subseteq DOMAIN R, NEW y \in T
  PROVE  /\ h.op = "createTable" => y.op \in {"addComment", "addConstraint"}
         /\ y.op \notin {"createTable", "addColumn"}
         /\ h.op # "addColumn" => y.op # "dropConstraint"
         /\ h.op \in {"dropColumn", "alterColumn"} => y.op \notin {"dropColumn", "alterColumn"}
         /\ h.op \in SQLServerComments => y.op = "addConstraint"
         /\ h.op = "addConstraint" => y.op \in SQLServerComments
<1>1. y.op \in DOMAIN R /\ R[h.op] < R[y.op]
  BY DEF Before, Ops
<1>2. CASE R = SQLServerOrder
  <2>1. h.op \in DOMAIN SQLServerOrder /\ y.op \in DOMAIN SQLServerOrder /\ SQLServerOrder[h.op] < SQLServerOrder[y.op]
    BY <1>1, <1>2
  <2> QED BY <2>1, SQLServerRanks DEF SQLServerComments
<1>3. CASE R = SQLServerCreates
  <2>1. h.op \in DOMAIN SQLServerCreates /\ y.op \in DOMAIN SQLServerCreates
        /\ SQLServerCreates[h.op] < SQLServerCreates[y.op]
    BY <1>1, <1>3
  <2> QED BY <2>1, SQLServerRanks DEF SQLServerComments
<1> QED BY <1>2, <1>3

LEMMA RefusedBySQLServer ==
  ASSUME platform = "sqlserver", NEW n, NEW o, NEW E, NEW h \in E,
         SQLServerScript(E, stored, o, n),
         h.op \in {"dropColumn", "addConstraint", "alterColumn"} => Ops(E) \cap {"dropConstraint", "createTable"} = {},
         h.op = "addComment" => "createTable" \notin Ops(E), Refuses(h)
  PROVE  \/ stored.default = Bare("NULL")
         \/ stored.name \in {"char", "varchar"} /\ {o.type, n.type} = {"string"}
<1>1. \/ h.op \in {"dropColumn", "addConstraint"} /\ stored.default # NoDefault
      \/ h.op = "dropConstraint" /\ stored.default = NoDefault
      \/ h.op = "alterColumn" /\ stored.default # NoDefault /\ Named(h.arg.type) # stored.name
      \/ h.op = "addComment" /\ stored.comment # ""
      \/ h.op \in {"updateComment", "dropComment"} /\ stored.comment = ""
  BY DEF Refuses
<1>2. /\ h.op # "dropConstraint" \/ stored.default # NoDefault
      /\ h.op # "addComment" \/ stored.comment = ""
      /\ h.op \notin {"updateComment", "dropComment"} \/ stored.comment # ""
  BY DEF SQLServerScript
<1>3. CASE h.op \in {"dropColumn", "addConstraint"} /\ stored.default # NoDefault
  <2>1. Bindable(E, stored)
    BY <1>3 DEF SQLServerScript
  <2> QED BY <1>3, <2>1 DEF Bindable, NoBound
<1>4. CASE h.op = "alterColumn" /\ stored.default # NoDefault /\ Named(h.arg.type) # stored.name
  <2>1. h.arg = getColumnDeclarationSQL("sqlserver", n) /\ (Bindable(E, stored) \/ SameType(stored, o, n))
    BY <1>4 DEF SQLServerScript
  <2>2. CASE Bindable(E, stored)
    BY <1>4, <2>2 DEF Bindable, NoBound
  <2>3. CASE SameType(stored, o, n)
    <3>1. h.arg.type = getSQLDeclaration("sqlserver", n)
      BY <2>1 DEF getColumnDeclarationSQL, AbstractDeclaration
    <3>2. CatalogueName("sqlserver", getSQLDeclaration("sqlserver", n).name) # stored.name
      BY <1>4, <3>1 DEF Named
    <3> QED BY <2>3, <3>2 DEF SameType
  <2> QED BY <2>1, <2>2, <2>3
<1> QED BY <1>1, <1>2, <1>3, <1>4

LEMMA LeftInSQLServer ==
  ASSUME platform = "sqlserver", NEW n, NEW o, NEW E, NEW h, NEW T, E = {h} \cup T,
         NEW R \in {SQLServerOrder, SQLServerCreates}, h.op \in DOMAIN R, Before({h}, T, R),
         Ops(T) \subseteq DOMAIN R,
         SQLServerScript(E, stored, o, n), SQLServerColumn(stored), NEW t, t = ColumnAfter(h)
  PROVE  SQLServerColumn(t) /\ (T # {} => SQLServerScript(T, t, o, n))
<1>1. /\ h \in E /\ \A y \in T : y \in E
      /\ \A y \in T : y.op \in Ops(E)
      /\ h.op \in Ops(E)
      /\ \A op \in Ops(E) : op = h.op \/ op \in Ops(T)
  BY DEF Ops
<1>2. \A y \in T :
        /\ h.op = "createTable" => y.op \in {"addComment", "addConstraint"}
        /\ y.op \notin {"createTable", "addColumn"}
        /\ h.op # "addColumn" => y.op # "dropConstraint"
        /\ h.op \in {"dropColumn", "alterColumn"} => y.op \notin {"dropColumn", "alterColumn"}
        /\ h.op \in SQLServerComments => y.op = "addConstraint"
        /\ h.op = "addConstraint" => y.op \in SQLServerComments
  BY AfterInSQLServer
<1>3. Creates(T, "sqlserver", n)
  BY <1>1 DEF SQLServerScript, Creates
<1>4. "createTable" \notin Ops(T) /\ "addColumn" \notin Ops(T) /\ (h.op # "addColumn" => "dropConstraint" \notin Ops(T))
  BY <1>2 DEF Ops
<1>5. CASE h.op = "createTable"
  <2>1. n = Absent => T = {}
    <3>1. n = Absent => E = {h}
      BY <1>1, <1>5 DEF SQLServerScript
    <3> QED BY <1>2, <1>5, <3>1
  <2>2. PICK d : d = getColumnDeclarationSQL("sqlserver", n)
    OBVIOUS
  <2>3. /\ SQLServerColumn(Kept(d)) /\ Kept(d) # Absent /\ d # <<>> /\ Kept(d).comment = ""
        /\ Kept(d).default = NoDefault
    BY <2>2, MadeBySQLServer
  <2>4. h.arg = IF n = Absent THEN <<>> ELSE d
    BY <1>1, <1>5, <2>2 DEF SQLServerScript, Creates
  <2>5. t = IF n = Absent THEN Absent ELSE Kept(d)
    BY <1>5, <2>3, <2>4, ColumnAfterIs
  <2>6. NoDefault \in NoBound
    BY DEF NoBound
  <2>7. CASE n = Absent
    BY <2>1, <2>5, <2>7 DEF SQLServerColumn
  <2>8. CASE n # Absent
    <3>1. Bindable(T, t)
      BY <2>3, <2>5, <2>6, <2>8 DEF Bindable
    <3> QED BY <1>2, <1>3, <1>5, <2>3, <2>5, <2>8, <3>1 DEF SQLServerScript
  <2> QED BY <2>7, <2>8
<1>6. CASE h.op = "addColumn"
  <2>1. h.arg = AbstractDeclaration("sqlserver", n) /\ E = {h}
    BY <1>1, <1>6 DEF SQLServerScript
  <2>2. T = {}
    BY <1>2, <1>6, <2>1
  <2>3. SQLServerColumn(Kept(h.arg))
    BY <2>1, MadeBySQLServer
  <2> QED BY <1>6, <2>2, <2>3, ColumnAfterIs
<1>7. CASE h.op = "dropColumn"
  <2>1. Ops(E) \subseteq {"dropConstraint", "dropColumn"}
    BY <1>1, <1>7 DEF SQLServerScript
  <2>2. T = {}
    <3>1. \A y \in T : FALSE
      BY <1>1, <1>2, <1>7, <2>1
    <3> QED BY <3>1
  <2>3. t = Absent
    BY <1>7, ColumnAfterIs
  <2> QED BY <2>2, <2>3 DEF SQLServerColumn
<1>8. CASE h.op \notin {"createTable", "addColumn", "dropColumn"}
  <2>1. stored # Absent
    <3>1. "createTable" \notin Ops(E) /\ "addColumn" \notin Ops(E)
      BY <1>1, <1>4, <1>8
    <3> QED BY <3>1 DEF SQLServerScript
  <2>2. DOMAIN stored = Fields /\ stored.name \notin {"text", "blob"}
    BY <2>1 DEF SQLServerColumn
  <2>3. "createTable" \notin Ops(E) /\ (h.op # "dropConstraint" => "dropConstraint" \notin Ops(E))
    BY <1>1, <1>4, <1>8
  <2>4. Bindable(E, stored) /\ h.op # "dropConstraint" => stored.default \in NoBound
    BY <2>3 DEF Bindable
  <2>5. {"default", "comment", "name"} \subseteq Fields
    BY DEF Fields
  <2>6. /\ DOMAIN t = Fields /\ t.name \notin {"text", "blob"}
        /\ h.op \notin SQLServerComments => t.comment = stored.comment
        /\ h.op \in {"alterColumn"} \cup SQLServerComments => t.default = stored.default
        /\ h.op = "dropConstraint" => t.default = NoDefault
        /\ h.op \in {"dropConstraint", "alterColumn", "addConstraint"} \cup SQLServerComments
    <3>1. CASE h.op = "dropConstraint"
      <4>1. t = [stored EXCEPT !.default = NoDefault]
        BY <3>1, ColumnAfterIs
      <4> QED BY <3>1, <4>1, <2>2, <2>5 DEF SQLServerComments
    <3>2. CASE h.op = "alterColumn"
      <4>1. h.arg = getColumnDeclarationSQL("sqlserver", n)
        BY <1>1, <3>2 DEF SQLServerScript
      <4>2. PICK k : k = Kept(h.arg)
        OBVIOUS
      <4>3. DOMAIN k = Fields /\ k.name \notin {"text", "blob"}
        BY <4>1, <4>2, MadeBySQLServer
      <4>4. t = [k EXCEPT !.default = stored.default, !.comment = stored.comment]
        BY <3>2, <4>2, ColumnAfterIs
      <4> QED BY <3>2, <4>3, <4>4, <2>5 DEF SQLServerComments
    <3>3. CASE h.op = "addConstraint"
      <4>1. PICK v : t = [stored EXCEPT !.default = v]
        BY <3>3, ColumnAfterIs
      <4> QED BY <3>3, <4>1, <2>2, <2>5 DEF SQLServerComments
    <3>4. CASE h.op \in SQLServerComments
      <4>1. t = [stored EXCEPT !.comment = h.arg]
        BY <3>4, ColumnAfterIs DEF SQLServerComments
      <4> QED BY <3>4, <4>1, <2>2, <2>5 DEF SQLServerComments
    <3>5. h.op \in {"dropConstraint", "alterColumn", "addConstraint"} \cup SQLServerComments
      BY <1>8, SQLServerRanks DEF SQLServerComments
    <3> QED BY <3>1, <3>2, <3>3, <3>4, <3>5
  <2>7. NoDefault \in NoBound
    BY DEF NoBound
  <2>8. SQLServerColumn(t) /\ t # Absent
    BY <2>6, AbsentIs DEF SQLServerColumn
  <2>9. ASSUME NEW y \in T, y.op \in {"dropColumn", "addConstraint"}
        PROVE  Bindable(T, t)
    <3>1. Bindable(E, stored)
      BY <1>1, <2>9 DEF SQLServerScript
    <3>2. h.op # "addConstraint"
      BY <1>2, <2>9 DEF SQLServerComments
    <3>3. t.default \in NoBound
      BY <2>4, <2>6, <2>7, <3>1, <3>2
    <3> QED BY <3>3 DEF Bindable
  <2>10. ASSUME NEW y \in T, y.op = "alterColumn"
         PROVE  y.arg = getColumnDeclarationSQL("sqlserver", n) /\ Bindable(T, t)
    <3>1. y.arg = getColumnDeclarationSQL("sqlserver", n)
      BY <1>1, <2>10 DEF SQLServerScript
    <3>2. h.op = "dropConstraint"
      BY <1>2, <2>6, <2>10 DEF SQLServerComments
    <3> QED BY <2>6, <2>7, <3>1, <3>2 DEF Bindable
  <2>11. ASSUME NEW y \in T, y.op \in SQLServerComments
         PROVE  /\ y.op = "addComment" => t.comment = ""
                /\ y.op # "addComment" => t.comment # ""
    <3>1. h.op \notin SQLServerComments
      BY <1>2, <2>11 DEF SQLServerComments
    <3>2. y.op = "addComment" => stored.comment = ""
      BY <1>1, <2>3, <2>11 DEF SQLServerScript
    <3>3. y.op # "addComment" => stored.comment # ""
      BY <1>1, <2>11 DEF SQLServerScript, SQLServerComments
    <3> QED BY <2>6, <3>1, <3>2, <3>3
  <2>12. \A y \in T : y.op = "dropColumn" => Ops(T) \subseteq {"dropConstraint", "dropColumn"}
    <3>1. \A y \in T : y.op = "dropColumn" => Ops(E) \subseteq {"dropConstraint", "dropColumn"}
      BY <1>1 DEF SQLServerScript
    <3>2. Ops(T) \subseteq Ops(E)
      BY <1>1 DEF Ops
    <3> QED BY <3>1, <3>2
  <2>13. \A y \in T : y.op \notin {"createTable", "addColumn", "dropConstraint"}
    BY <1>2, <1>8
  <2>14. SQLServerScript(T, t, o, n)
    BY <1>3, <2>8, <2>9, <2>10, <2>11, <2>12, <2>13 DEF SQLServerScript, SQLServerComments
  <2> QED BY <2>8, <2>14
<1> QED BY <1>5, <1>6, <1>7, <1>8

-----------------------------------------------------------------------------
(* SQLite. *)

LEMMA SQLiteRanks ==
  /\ DOMAIN SQLiteOrder = {"addColumn", "copyRows", "dropTable", "createTable", "copyBack", "dropCopy"}
  /\ SQLiteOrder["addColumn"] = 0 /\ SQLiteOrder["copyRows"] = 1 /\ SQLiteOrder["dropTable"] = 2
  /\ SQLiteOrder["createTable"] = 3 /\ SQLiteOrder["copyBack"] = 4 /\ SQLiteOrder["dropCopy"] = 5
BY DEF SQLiteOrder

(* createTable().                                                          *)
LEMMA CreatedInSQLite ==
  ASSUME NEW c, platform = "sqlite", NEW s, NEW o, NEW q, q = CreateStatements(c)
  PROVE  /\ InOrder(q, SQLiteOrder) /\ SQLiteScript(Elements(q), s, o, c)
         /\ "addColumn" \notin Ops(Elements(q))
<1>1. PICK x : x = Statement("createTable", InTable(c)) /\ x.op = "createTable" /\ x.arg = InTable(c)
  BY StatementIs
<1>2. q = <<x>>
  BY <1>1 DEF CreateStatements
<1>3. Script(q, SQLiteOrder, {x})
  BY <1>1, <1>2, SQLiteRanks, OneStatement
<1>4. x.arg = IF c = Absent THEN <<>> ELSE getColumnDeclarationSQL("sqlite", c)
  BY <1>1 DEF InTable
<1>5. Ops({x}) = {"createTable"}
  BY <1>1 DEF Ops
<1>6. SQLiteScript({x}, s, o, c)
  BY <1>1, <1>4, <1>5 DEF SQLiteScript, Creates
<1> QED BY <1>3, <1>5, <1>6 DEF Script

(* The rebuild of a table.                                                 *)
LEMMA RebuiltInSQLite ==
  ASSUME NEW n, platform = "sqlite", NEW s, NEW o, NEW q, q = Rebuild(n)
  PROVE  /\ InOrder(q, SQLiteOrder) /\ SQLiteScript(Elements(q), s, o, n)
         /\ "addColumn" \notin Ops(Elements(q)) /\ q # <<>>
<1>1. PICK E : E = Elements(q)
  OBVIOUS
<1>2. q \in Seq(E) /\ Len(q) = 5 /\ \A i \in 1 .. 5 : q[i].op = Steps[i]
  <2>1. RestOf(q, 1)
    BY RebuildIs
  <2>2. \A i \in 1 .. 5 : i \in 1 .. 6 - 1 /\ 1 + i - 1 = i
    OBVIOUS
  <2> QED BY <2>1, <2>2, <1>1 DEF RestOf, Elements
<1>3. DOMAIN q = 1 .. 5
  BY <1>2
<1>4. \A i \in 1 .. 5 : Steps[i] \in DOMAIN SQLiteOrder /\ SQLiteOrder[Steps[i]] = i /\ Steps[i] # "addColumn"
  <2>1. /\ Steps[1] = "copyRows" /\ Steps[2] = "dropTable" /\ Steps[3] = "createTable"
        /\ Steps[4] = "copyBack" /\ Steps[5] = "dropCopy"
    BY DEF Steps
  <2>2. \A i \in 1 .. 5 : i = 1 \/ i = 2 \/ i = 3 \/ i = 4 \/ i = 5
    OBVIOUS
  <2> QED BY <2>1, <2>2, SQLiteRanks
<1>5. InOrder(q, SQLiteOrder)
  <2>1. \A i, j \in DOMAIN q : i < j => SQLiteOrder[q[i].op] < SQLiteOrder[q[j].op]
    BY <1>2, <1>3, <1>4
  <2>2. Ops(E) \subseteq DOMAIN SQLiteOrder
    BY <1>1, <1>2, <1>3, <1>4 DEF Ops, Elements
  <2> QED BY <1>1, <1>2, <2>1, <2>2 DEF InOrder
<1>6. q[3].op = "createTable" /\ q[3].arg = InTable(n)
  BY DEF Rebuild, Statement
<1>7. \A x \in E : x.op = "createTable" => x = q[3]
  <2>1. ASSUME NEW i \in 1 .. 5, q[i].op = "createTable" PROVE i = 3
    <3>1. SQLiteOrder[q[i].op] = i
      BY <1>2, <1>4
    <3> QED BY <2>1, <3>1, SQLiteRanks
  <2> QED BY <1>1, <1>3, <2>1 DEF Elements
<1>8. Creates(E, "sqlite", n)
  <2>1. InTable(n) = IF n = Absent THEN <<>> ELSE getColumnDeclarationSQL("sqlite", n)
    BY DEF InTable
  <2> QED BY <1>6, <1>7, <2>1 DEF Creates
<1>9. "createTable" \in Ops(E)
  BY <1>1, <1>3, <1>6 DEF Ops, Elements
<1>10. \A x \in E : x.op # "addColumn"
  BY <1>1, <1>2, <1>3, <1>4 DEF Elements
<1>11. SQLiteScript(E, s, o, n)
  BY <1>8, <1>9, <1>10 DEF SQLiteScript
<1>12. q # <<>>
  <2>1. PICK e : e = <<>> /\ DOMAIN e = {}
    OBVIOUS
  <2>2. 1 \in DOMAIN q
    BY <1>3
  <2> QED BY <2>1, <2>2, Zenon
<1> QED BY <1>1, <1>5, <1>10, <1>11, <1>12 DEF Ops

LEMMA AlteredInSQLite ==
  ASSUME NEW s, NEW n, NEW o, NEW q, platform = "sqlite",
         s = Absent <=> o = Absent, o # n, q = AlterSQLite(o, n)
  PROVE  InOrder(q, SQLiteOrder) /\ SQLiteScript(Elements(q), s, o, n)
<1>1. CASE o = Absent /\ ~RequiresRebuild(n)
  <2>1. PICK x : x = Statement("addColumn", getColumnDeclarationSQL("sqlite", n)) /\ x.op = "addColumn"
                 /\ x.arg = getColumnDeclarationSQL("sqlite", n)
    BY StatementIs
  <2>2. q = <<x>>
    BY <1>1, <2>1 DEF AlterSQLite
  <2>3. Script(q, SQLiteOrder, {x})
    BY <2>1, <2>2, SQLiteRanks, OneStatement
  <2>4. Ops({x}) = {"addColumn"}
    BY <2>1 DEF Ops
  <2>5. SQLiteScript({x}, s, o, n)
    BY <1>1, <2>1, <2>4 DEF SQLiteScript, Creates
  <2> QED BY <2>3, <2>5 DEF Script
<1>2. CASE ~(o = Absent /\ ~RequiresRebuild(n))
  <2>1. q = Rebuild(n)
    BY <1>2, Zenon DEF AlterSQLite
  <2> QED BY <2>1, RebuiltInSQLite
<1> QED BY <1>1, <1>2

(* No column that is read is the absent one.                               *)
LEMMA ReadInSQLite ==
  ASSUME NEW s, Readable("sqlite", s)
  PROVE  Read("sqlite", s) # Absent
<1>1. s.name \in DOMAIN SQLiteMapping
  BY DEF Readable, hasDatazenTypeMappingFor, Mapping, MySQL
<1>2. SQLiteMapping[s.name] # "absent"
  BY <1>1 DEF SQLiteMapping
<1>3. Read("sqlite", s).type = SQLiteMapping[s.name]
  <2>1. Read("sqlite", s) = ReadSQLite(s)
    BY DEF Read, MySQL
  <2>2. Mapping("sqlite") = SQLiteMapping
    BY DEF Mapping, MySQL
  <2> QED BY <2>1, <2>2 DEF ReadSQLite, Portable, Column
<1> QED BY <1>2, <1>3, AbsentIs

(* A statement that SQLite refuses adds the time.                          *)
LEMMA RefusedBySQLite ==
  ASSUME platform = "sqlite", NEW n \in Columns \cup {Absent}, NEW o, NEW E, NEW h \in E,
         SQLiteScript(E, stored, o, n), h.op = "addColumn" => Addable(n), Refuses(h)
  PROVE  o = Absent /\ ~RequiresRebuild(n) /\ getDefaultValueDeclarationSQL("sqlite", n) = Bare(NowText)
<1>1. h.op = "addColumn" /\ ((h.arg.notnull /\ h.arg.default = NoDefault) \/ h.arg.default = Bare(NowText))
  BY DEF Refuses
<1>2. h.arg = getColumnDeclarationSQL("sqlite", n) /\ o = Absent /\ n # Absent /\ ~RequiresRebuild(n)
  BY <1>1 DEF SQLiteScript
<1>3. h.arg.notnull = n.notnull /\ h.arg.default = getDefaultValueDeclarationSQL("sqlite", n)
  <2>1. PICK e : e = AbstractDeclaration("sqlite", n)
    OBVIOUS
  <2>2. h.arg = e
    BY <1>2, <2>1 DEF getColumnDeclarationSQL
  <2>3. e.notnull = n.notnull /\ e.default = getDefaultValueDeclarationSQL("sqlite", n)
    BY <2>1 DEF AbstractDeclaration
  <2> QED BY <2>2, <2>3
<1>4. ASSUME n.notnull, getDefaultValueDeclarationSQL("sqlite", n) = NoDefault PROVE FALSE
  <2>1. n.default # NoValue /\ n.default.text # ""
    BY <1>1, <1>2, <1>4, WantedIs DEF Addable
  <2>2. \A text : text # "" => Bare(text) # NoDefault /\ Quoted(text) # NoDefault
    BY DEF Bare, Quoted, NoDefault
  <2>3. convertBooleans("sqlite", n.default) # ""
    BY <2>1 DEF convertBooleans
  <2> QED BY <1>4, <2>1, <2>2, <2>3, Zenon DEF getDefaultValueDeclarationSQL
<1> QED BY <1>1, <1>2, <1>3, <1>4

LEMMA LeftInSQLite ==
  ASSUME platform = "sqlite", NEW n, NEW o, NEW E, NEW h, NEW T, E = {h} \cup T,
         h.op \in DOMAIN SQLiteOrder, Before({h}, T, SQLiteOrder), Ops(T) \subseteq DOMAIN SQLiteOrder,
         SQLiteScript(E, stored, o, n), NEW t, t = ColumnAfter(h)
  PROVE  /\ SQLiteScript(T, t, o, n) /\ "addColumn" \notin Ops(T)
         /\ h.op \in {"addColumn", "createTable"} => (t = Absent <=> n = Absent)
         /\ h.op \notin {"addColumn", "createTable", "dropTable"} => t = stored
<1>1. /\ h \in E /\ \A y \in T : y \in E
      /\ \A y \in T : y.op \in Ops(E)
      /\ h.op \in Ops(E)
      /\ \A op \in Ops(E) : op = h.op \/ op \in Ops(T)
      /\ \A y \in T : y.op \in DOMAIN SQLiteOrder /\ SQLiteOrder[h.op] < SQLiteOrder[y.op]
  BY DEF Ops, Before
<1>2. \A y \in T : /\ y.op # "addColumn"
                   /\ h.op = "createTable" => y.op # "dropTable"
  BY <1>1, SQLiteRanks
<1>3. "addColumn" \notin Ops(T) /\ (h.op = "createTable" => "dropTable" \notin Ops(T))
  BY <1>2 DEF Ops
<1>4. Creates(T, "sqlite", n)
  BY <1>1 DEF SQLiteScript, Creates
<1>5. PICK d : d = getColumnDeclarationSQL("sqlite", n)
  OBVIOUS
<1>6. d # <<>> /\ Kept(d) # Absent
  <2>1. "type" \in DOMAIN d
    BY <1>5 DEF getColumnDeclarationSQL, AbstractDeclaration
  <2>2. PICK e : e = <<>> /\ DOMAIN e = {}
    OBVIOUS
  <2>3. d # <<>>
    BY <2>1, <2>2, Zenon
  <2> QED BY <2>3, KeptIs, AbsentIs
<1>7. h.op \in {"addColumn", "createTable"} => (t = Absent <=> n = Absent)
  <2>1. CASE h.op = "addColumn"
    <3>1. h.arg = d /\ n # Absent
      BY <1>1, <1>5, <2>1 DEF SQLiteScript
    <3> QED BY <1>6, <2>1, <3>1, ColumnAfterIs
  <2>2. CASE h.op = "createTable"
    <3>1. h.arg = IF n = Absent THEN <<>> ELSE d
      BY <1>1, <1>5, <2>2 DEF SQLiteScript, Creates
    <3>2. t = IF h.arg = <<>> THEN Absent ELSE Kept(h.arg)
      BY <2>2, ColumnAfterIs
    <3> QED BY <1>6, <3>1, <3>2
  <2> QED BY <2>1, <2>2
<1>8. h.op \notin {"addColumn", "createTable", "dropTable"} => t = stored
  BY SQLiteRanks, ColumnAfterIs
<1>9. "dropTable" \in Ops(T) => "createTable" \in Ops(T)
  <2>1. Ops(T) \subseteq Ops(E)
    BY <1>1 DEF Ops
  <2> QED BY <1>1, <1>3, <2>1 DEF SQLiteScript
<1>10. Ops(T) \cap {"createTable", "addColumn"} = {} => (t = Absent <=> n = Absent)
  <2>1. CASE h.op \in {"addColumn", "createTable"}
    BY <1>7, <2>1
  <2>2. CASE h.op = "dropTable"
    BY <1>1, <2>2 DEF SQLiteScript
  <2>3. CASE h.op \notin {"addColumn", "createTable", "dropTable"}
    BY <1>1, <1>8, <2>3 DEF SQLiteScript
  <2> QED BY <2>1, <2>2, <2>3
<1>11. SQLiteScript(T, t, o, n)
  BY <1>2, <1>4, <1>9, <1>10 DEF SQLiteScript
<1> QED BY <1>3, <1>7, <1>8, <1>11

-----------------------------------------------------------------------------
(* The steps. *)

(* The first statement h of a script of the statements E, and the rest of it. *)
First(h, E, T, r, R) ==
  /\ E = {h} \cup T /\ h.op \in DOMAIN R /\ Before({h}, T, R) /\ Ops(T) \subseteq DOMAIN R
  /\ InOrder(r, R) /\ (r = <<>> <=> T = {})

LEMMA FirstIs ==
  ASSUME NEW q, NEW R, InOrder(q, R), q # <<>>
  PROVE  First(q[1], Elements(q), Elements(Tail(q)), Tail(q), R)
<1>1. PICK h, T : h = q[1] /\ T = Elements(Tail(q))
  OBVIOUS
<1>2. /\ Elements(q) = {h} \cup T /\ h.op \in DOMAIN R /\ InOrder(Tail(q), R)
      /\ \A y \in T : y.op \in DOMAIN R /\ R[h.op] < R[y.op]
      /\ Tail(q) = <<>> => T = {}
      /\ Tail(q) # <<>> => T # {}
  BY <1>1, FirstStatement
<1>3. Before({h}, T, R)
  BY <1>2 DEF Before
<1>4. Ops(T) \subseteq DOMAIN R
  BY <1>2 DEF Ops
<1>5. First(h, Elements(q), T, Tail(q), R)
  BY <1>2, <1>3, <1>4 DEF First
<1> QED BY <1>1, <1>5, Zenon

LEMMA OrderInit == Init => OrderInv
<1> SUFFICES ASSUME Init PROVE OrderInv
  OBVIOUS
<1>1. WantedColumn
  BY DEF Init, WantedColumn
<1>2. phase = "new" /\ stored = Absent /\ exists = FALSE
  BY DEF Init
<1> QED BY <1>1, <1>2 DEF OrderInv, Running, NoOtherRefusal, StoredColumn, PostgreSQLColumn, SQLServerColumn, SQLiteTable

LEMMA OrderCreate ==
  ASSUME OrderInv, CreateTable
  PROVE  OrderInv'
<1>1. PICK q : q = CreateStatements(wanted) /\ q # <<>> /\ pending' = q
  BY CreateHarmless DEF CreateTable
<1>2. /\ phase = "new" /\ phase' = "running" /\ plan'.old = Absent /\ plan'.new = wanted
      /\ platform' = platform /\ keyed' = keyed /\ wanted' = wanted /\ stored' = stored /\ exists' = exists
      /\ Declarable(platform, wanted)
  BY DEF CreateTable
<1>3. Remaining(platform, q, stored, Absent, wanted, exists)
  <2>1. CASE platform = "pg"
    <3>1. InOrder(q, PostgreSQLOrder) /\ PostgreSQLScript(Elements(q), stored, Absent, wanted)
      BY <1>1, <2>1, CreatedInPostgreSQL
    <3> QED BY <2>1, <3>1 DEF Remaining
  <2>2. CASE platform = "sqlserver"
    <3>1. InOrder(q, SQLServerCreates) /\ SQLServerScript(Elements(q), stored, Absent, wanted)
      BY <1>1, <2>2, CreatedInSQLServer
    <3> QED BY <2>2, <3>1 DEF Remaining
  <2>3. CASE platform = "sqlite"
    <3>1. /\ InOrder(q, SQLiteOrder) /\ SQLiteScript(Elements(q), stored, Absent, wanted)
          /\ "addColumn" \notin Ops(Elements(q))
      BY <1>1, <2>3, CreatedInSQLite
    <3> QED BY <2>3, <3>1 DEF Remaining
  <2> QED BY <2>1, <2>2, <2>3 DEF Remaining
<1>4. WantedColumn'
  BY <1>2 DEF OrderInv, WantedColumn
<1>5. Running'
  BY <1>1, <1>2, <1>3 DEF Running
<1>6. StoredColumn(platform', stored', keyed')
  BY <1>2 DEF OrderInv
<1>7. platform' = "sqlite" => SQLiteTable'
  BY <1>2 DEF OrderInv, SQLiteTable
<1>8. NoOtherRefusal'
  BY <1>2 DEF NoOtherRefusal
<1> QED BY <1>4, <1>5, <1>6, <1>7, <1>8 DEF OrderInv

LEMMA OrderChange ==
  ASSUME OrderInv, NEW c \in Columns \cup {Absent}, Change(c)
  PROVE  OrderInv'
<1>1. /\ phase = "done" /\ phase' = "idle" /\ wanted' = c
      /\ platform' = platform /\ keyed' = keyed /\ stored' = stored
      /\ c = Absent \/ Declarable(platform, c)
      /\ IF keyed THEN c.notnull /\ c # Absent /\ platform # "sqlserver" ELSE ~c.autoincrement
      /\ wanted = Absent => ~c.notnull \/ c.default # NoValue
  BY DEF Change
<1>2. WantedColumn'
  BY <1>1 DEF WantedColumn
<1>3. Running' /\ NoOtherRefusal' /\ StoredColumn(platform', stored', keyed')
  BY <1>1 DEF OrderInv, Running, NoOtherRefusal
<1>4. platform' = "sqlite" => SQLiteTable'
  BY <1>1 DEF OrderInv, SQLiteTable, Addable
<1> QED BY <1>2, <1>3, <1>4 DEF OrderInv

LEMMA OrderMigrate ==
  ASSUME OrderInv, Migrate
  PROVE  OrderInv'
<1>1. PICK o, q : o = Introspected /\ q = MigrationStatements(o, wanted) /\ pending' = q
                  /\ plan'.old = o /\ plan'.new = wanted
  BY DEF Migrate
<1>2. /\ phase = "idle" /\ phase' = (IF q = <<>> THEN "done" ELSE "running") /\ exists
      /\ platform' = platform /\ keyed' = keyed /\ wanted' = wanted /\ stored' = stored /\ exists' = exists
      /\ stored # Absent => Readable(platform, stored)
  BY <1>1 DEF Migrate
<1>3. o = IF stored = Absent THEN Absent ELSE Read(platform, stored)
  BY <1>1 DEF Introspected
<1>4. platform = "sqlite" => (stored = Absent <=> o = Absent)
  BY <1>2, <1>3, ReadInSQLite
<1>5. wanted = Absent \/ Declarable(platform, wanted)
  BY <1>2 DEF OrderInv, WantedColumn
<1>6. ASSUME ~Same(o, wanted)
      PROVE  /\ Remaining(platform, q, stored, o, wanted, exists)
             /\ platform = "sqlite" => SQLiteScript(Elements(q), stored, o, wanted)
  <2>1. o # wanted /\ q = getAlterTableSQL(o, wanted)
    BY <1>1, <1>6 DEF Same, MigrationStatements
  <2>2. CASE platform = "pg"
    <3>1. q = AlterPostgreSQL(o, wanted)
      BY <2>1, <2>2 DEF getAlterTableSQL, MySQL
    <3>2. PostgreSQLColumn(stored, keyed)
      BY <2>2 DEF OrderInv, StoredColumn
    <3>3. InOrder(q, PostgreSQLOrder) /\ PostgreSQLScript(Elements(q), stored, o, wanted)
      BY <1>3, <2>1, <2>2, <3>1, <3>2, AlteredInPostgreSQL
    <3> QED BY <2>2, <3>3 DEF Remaining
  <2>3. CASE platform = "sqlserver"
    <3>1. q = AlterSQLServer(o, wanted)
      BY <2>1, <2>3 DEF getAlterTableSQL, MySQL
    <3>2. SQLServerColumn(stored)
      BY <2>3 DEF OrderInv, StoredColumn
    <3>3. InOrder(q, SQLServerOrder) /\ SQLServerScript(Elements(q), stored, o, wanted)
      BY <1>2, <1>3, <1>5, <2>1, <2>3, <3>1, <3>2, AlteredInSQLServer
    <3> QED BY <2>3, <3>3 DEF Remaining
  <2>4. CASE platform = "sqlite"
    <3>1. q = AlterSQLite(o, wanted)
      BY <2>1, <2>4 DEF getAlterTableSQL, MySQL
    <3>2. InOrder(q, SQLiteOrder) /\ SQLiteScript(Elements(q), stored, o, wanted)
      BY <1>4, <2>1, <2>4, <3>1, AlteredInSQLite
    <3> QED BY <1>2, <2>4, <3>2 DEF Remaining
  <2> QED BY <2>2, <2>3, <2>4 DEF Remaining
<1>7. ASSUME platform = "sqlite", q = <<>> PROVE stored = Absent <=> wanted = Absent
  <2>1. CASE Same(o, wanted)
    BY <1>4, <1>7, <2>1 DEF Same
  <2>2. CASE ~Same(o, wanted)
    <3>1. Elements(q) = {}
      BY <1>7, NoStatement DEF Script
    <3>2. SQLiteScript({}, stored, o, wanted)
      BY <1>6, <1>7, <2>2, <3>1
    <3> QED BY <3>2 DEF SQLiteScript, Ops
  <2> QED BY <2>1, <2>2
<1>8. Same(o, wanted) => q = <<>>
  BY <1>1 DEF MigrationStatements
<1>9. WantedColumn'
  BY <1>2 DEF OrderInv, WantedColumn
<1>10. Running'
  BY <1>1, <1>2, <1>6, <1>8 DEF Running
<1>11. StoredColumn(platform', stored', keyed')
  BY <1>2 DEF OrderInv
<1>12. platform' = "sqlite" => SQLiteTable'
  BY <1>2, <1>7 DEF OrderInv, SQLiteTable
<1>13. NoOtherRefusal'
  BY <1>2 DEF NoOtherRefusal
<1> QED BY <1>9, <1>10, <1>11, <1>12, <1>13 DEF OrderInv

LEMMA OrderExecute ==
  ASSUME OrderInv, Execute
  PROVE  OrderInv'
<1>1. PICK q, r, h, T : /\ q = pending /\ r = Tail(q) /\ h = q[1] /\ T = Elements(r) /\ pending' = r
  BY DEF Execute
<1>2. /\ phase = "running" /\ ~Refuses(h) /\ phase' = (IF r = <<>> THEN "done" ELSE "running")
      /\ platform' = platform /\ keyed' = keyed /\ wanted' = wanted /\ plan' = plan
      /\ exists' = IF h.op = "dropTable" THEN FALSE ELSE exists \/ h.op = "createTable"
  BY <1>1 DEF Execute
<1>3. PICK t : t = ColumnAfter(h) /\ stored' = t
  BY <1>1 DEF Execute
<1>4. PICK o, n, E : o = plan.old /\ n = wanted /\ E = Elements(q)
  OBVIOUS
<1>5. /\ q # <<>> /\ plan.new = n /\ Remaining(platform, q, stored, o, n, exists)
      /\ n \in Columns \cup {Absent} /\ (keyed => n.notnull) /\ (~keyed => ~n.autoincrement)
      /\ StoredColumn(platform, stored, keyed) /\ (platform = "sqlite" => SQLiteTable)
  BY <1>1, <1>2, <1>4 DEF OrderInv, Running, WantedColumn
<1>6. ASSUME NEW R, InOrder(q, R)
      PROVE  /\ E = {h} \cup T /\ h.op \in DOMAIN R /\ Before({h}, T, R) /\ Ops(T) \subseteq DOMAIN R
             /\ InOrder(r, R) /\ (r = <<>> <=> T = {})
  <2>1. q # <<>>
    BY <1>5
  <2>2. First(q[1], Elements(q), Elements(Tail(q)), Tail(q), R)
    BY <1>6, <2>1, FirstIs
  <2>3. First(h, E, T, r, R)
    BY <1>1, <1>4, <2>2, Zenon
  <2> QED BY <2>3 DEF First
<1>7. /\ StoredColumn(platform, t, keyed)
      /\ r # <<>> => Remaining(platform, r, t, o, n, exists')
      /\ platform = "sqlite" => SQLiteTable'
  <2>1. CASE platform = "pg"
    <3>1. InOrder(q, PostgreSQLOrder) /\ PostgreSQLScript(E, stored, o, n)
      BY <1>4, <1>5, <2>1 DEF Remaining
    <3>2. PostgreSQLColumn(stored, keyed)
      BY <1>5, <2>1 DEF StoredColumn
    <3>3. PostgreSQLColumn(t, keyed) /\ PostgreSQLScript(T, t, o, n)
      BY <1>2, <1>3, <1>5, <1>6, <2>1, <3>1, <3>2, LeftInPostgreSQL
    <3>4. InOrder(r, PostgreSQLOrder)
      BY <1>6, <3>1
    <3> QED BY <1>1, <2>1, <3>3, <3>4 DEF StoredColumn, Remaining
  <2>2. CASE platform = "sqlserver"
    <3>1. PICK R \in {SQLServerOrder, SQLServerCreates} : InOrder(q, R)
      BY <1>5, <2>2 DEF Remaining
    <3>2. SQLServerScript(E, stored, o, n)
      BY <1>4, <1>5, <2>2 DEF Remaining
    <3>3. SQLServerColumn(stored)
      BY <1>5, <2>2 DEF StoredColumn
    <3>4. SQLServerColumn(t) /\ (T # {} => SQLServerScript(T, t, o, n))
      BY <1>3, <1>6, <2>2, <3>1, <3>2, <3>3, LeftInSQLServer
    <3>5. InOrder(r, R) /\ (r # <<>> => T # {})
      BY <1>6, <3>1
    <3> QED BY <1>1, <2>2, <3>1, <3>4, <3>5 DEF StoredColumn, Remaining
  <2>3. CASE platform = "sqlite"
    <3>1. /\ InOrder(q, SQLiteOrder) /\ SQLiteScript(E, stored, o, n)
          /\ "addColumn" \in Ops(E) => exists
      BY <1>4, <1>5, <2>3 DEF Remaining
    <3>2. /\ SQLiteScript(T, t, o, n) /\ "addColumn" \notin Ops(T)
          /\ h.op \in {"addColumn", "createTable"} => (t = Absent <=> n = Absent)
          /\ h.op \notin {"addColumn", "createTable", "dropTable"} => t = stored
      <4>1. /\ E = {h} \cup T /\ h.op \in DOMAIN SQLiteOrder /\ Before({h}, T, SQLiteOrder)
            /\ Ops(T) \subseteq DOMAIN SQLiteOrder
        BY <1>6, <3>1
      <4>2. SQLiteScript(E, stored, o, n)
        BY <3>1
      <4> QED BY <1>3, <2>3, <4>1, <4>2, LeftInSQLite
    <3>3. InOrder(r, SQLiteOrder) /\ (r = <<>> => T = {})
      BY <1>6, <3>1
    <3>4. r = <<>> => (t = Absent <=> n = Absent)
      BY <3>2, <3>3 DEF SQLiteScript, Ops
    <3>5. exists' /\ t = Absent => n = Absent \/ Addable(n)
      <4>1. CASE h.op \in {"addColumn", "createTable"}
        BY <3>2, <4>1
      <4>2. CASE h.op = "dropTable"
        BY <1>2, <4>2
      <4>3. CASE h.op \notin {"addColumn", "createTable", "dropTable"}
        BY <1>2, <1>4, <1>5, <2>3, <3>2, <4>3 DEF SQLiteTable
      <4> QED BY <4>1, <4>2, <4>3
    <3>6. SQLiteTable'
      BY <1>2, <1>3, <1>4, <3>4, <3>5 DEF SQLiteTable
    <3>7. Remaining(platform, r, t, o, n, exists')
      BY <1>1, <2>3, <3>2, <3>3 DEF Remaining
    <3> QED BY <2>3, <3>6, <3>7 DEF StoredColumn
  <2> QED BY <2>1, <2>2, <2>3 DEF StoredColumn, Remaining
<1>8. WantedColumn'
  BY <1>2 DEF OrderInv, WantedColumn
<1>9. Running'
  BY <1>1, <1>2, <1>3, <1>4, <1>5, <1>7 DEF Running
<1>10. StoredColumn(platform', stored', keyed')
  BY <1>2, <1>3, <1>7
<1>11. NoOtherRefusal'
  BY <1>2 DEF NoOtherRefusal
<1> QED BY <1>2, <1>7, <1>8, <1>9, <1>10, <1>11 DEF OrderInv

(* A server that refuses a statement has one of the four reasons.          *)
LEMMA OrderFail ==
  ASSUME OrderInv, Fail
  PROVE  OrderInv'
<1>1. PICK q, h, T : q = pending /\ h = q[1] /\ T = Elements(Tail(q))
  OBVIOUS
<1>2. /\ phase = "running" /\ Refuses(h) /\ phase' = "refused"
      /\ platform' = platform /\ keyed' = keyed /\ wanted' = wanted /\ stored' = stored /\ plan' = plan
      /\ exists' = exists
  BY <1>1 DEF Fail
<1>3. PICK o, n, E : o = plan.old /\ n = wanted /\ E = Elements(q)
  OBVIOUS
<1>4. /\ q # <<>> /\ plan.new = n /\ Remaining(platform, q, stored, o, n, exists)
      /\ n \in Columns \cup {Absent} /\ (keyed => n.notnull) /\ (~keyed => ~n.autoincrement)
      /\ StoredColumn(platform, stored, keyed) /\ (platform = "sqlite" => SQLiteTable)
  BY <1>1, <1>2, <1>3 DEF OrderInv, Running, WantedColumn
<1>5. ASSUME NEW R, InOrder(q, R)
      PROVE  E = {h} \cup T /\ h.op \in DOMAIN R /\ Before({h}, T, R) /\ Ops(T) \subseteq DOMAIN R /\ h \in E
  <2>1. q # <<>>
    BY <1>4
  <2>2. First(q[1], Elements(q), Elements(Tail(q)), Tail(q), R)
    BY <1>5, <2>1, FirstIs
  <2>3. First(h, E, T, Tail(q), R)
    BY <1>1, <1>3, <2>2, Zenon
  <2> QED BY <2>3 DEF First
<1>6. IdentityEndsLast \/ NullDefaultBound \/ AsciiIsString \/ TimeAdded
  <2>1. CASE platform = "pg"
    <3>1. InOrder(q, PostgreSQLOrder) /\ PostgreSQLScript(E, stored, o, n) /\ PostgreSQLColumn(stored, keyed)
      BY <1>3, <1>4, <2>1 DEF Remaining, StoredColumn
    <3>2. h \in E /\ \A y \in E : h.op = "setIdentity" => y.op \notin {"setNotnull", "setDefault"}
      <4>1. E = {h} \cup T /\ Before({h}, T, PostgreSQLOrder)
        BY <1>5, <3>1
      <4>2. \A y \in T : PostgreSQLOrder[h.op] < PostgreSQLOrder[y.op]
        BY <4>1 DEF Before
      <4>3. \A y \in T : h.op = "setIdentity" => y.op \notin {"setNotnull", "setDefault"}
        BY <4>2, PostgreSQLRanks
      <4> QED BY <4>1, <4>3
    <3>3. o.autoincrement /\ ~n.autoincrement /\ (n.default # NoValue \/ n.type \notin Integral)
      BY <1>2, <1>4, <2>1, <3>1, <3>2, RefusedByPostgreSQL
    <3> QED BY <1>3, <1>4, <2>1, <3>3 DEF IdentityEndsLast
  <2>2. CASE platform = "sqlserver"
    <3>1. PICK R \in {SQLServerOrder, SQLServerCreates} : InOrder(q, R)
      BY <1>4, <2>2 DEF Remaining
    <3>2. SQLServerScript(E, stored, o, n)
      BY <1>3, <1>4, <2>2 DEF Remaining
    <3>3. E = {h} \cup T /\ h.op \in DOMAIN R /\ Before({h}, T, R) /\ Ops(T) \subseteq DOMAIN R /\ h \in E
      BY <1>5, <3>1
    <3>4. \A y \in T : y.op # "createTable" /\ (h.op # "addColumn" => y.op # "dropConstraint")
      BY <3>3, AfterInSQLServer
    <3>5. h.op \in {"dropColumn", "addConstraint", "alterColumn"} => Ops(E) \cap {"dropConstraint", "createTable"} = {}
      BY <3>3, <3>4 DEF Ops
    <3>6. h.op = "addComment" => "createTable" \notin Ops(E)
      BY <3>3, <3>4 DEF Ops
    <3>7. \/ stored.default = Bare("NULL")
          \/ stored.name \in {"char", "varchar"} /\ {o.type, n.type} = {"string"}
      BY <1>2, <2>2, <3>2, <3>3, <3>5, <3>6, RefusedBySQLServer
    <3> QED BY <1>3, <1>4, <2>2, <3>7 DEF NullDefaultBound, AsciiIsString
  <2>3. CASE platform = "sqlite"
    <3>1. /\ InOrder(q, SQLiteOrder) /\ SQLiteScript(E, stored, o, n)
          /\ "addColumn" \in Ops(E) => exists
      BY <1>3, <1>4, <2>3 DEF Remaining
    <3>2. h \in E
      BY <1>5, <3>1
    <3>3. h.op = "addColumn" => Addable(n)
      <4>1. h.op = "addColumn" => exists /\ stored = Absent /\ n # Absent
        BY <3>1, <3>2 DEF Ops, SQLiteScript
      <4> QED BY <1>2, <1>3, <1>4, <2>3, <4>1 DEF SQLiteTable
    <3>4. o = Absent /\ ~RequiresRebuild(n) /\ getDefaultValueDeclarationSQL("sqlite", n) = Bare(NowText)
      BY <1>2, <1>4, <2>3, <3>1, <3>2, <3>3, RefusedBySQLite
    <3> QED BY <1>3, <1>4, <2>3, <3>4 DEF TimeAdded
  <2>4. platform \in {"pg", "sqlserver", "sqlite"}
    BY <1>2 DEF Refuses
  <2> QED BY <2>1, <2>2, <2>3, <2>4
<1>7. WantedColumn'
  BY <1>2 DEF OrderInv, WantedColumn
<1>8. Running'
  BY <1>2 DEF Running
<1>9. StoredColumn(platform', stored', keyed') /\ (platform' = "sqlite" => SQLiteTable')
  BY <1>2 DEF OrderInv, SQLiteTable
<1>10. NoOtherRefusal'
  BY <1>2, <1>6 DEF NoOtherRefusal, IdentityEndsLast, NullDefaultBound, AsciiIsString, TimeAdded
<1> QED BY <1>7, <1>8, <1>9, <1>10 DEF OrderInv

LEMMA OrderInterrupt ==
  ASSUME OrderInv, Interrupt
  PROVE  OrderInv'
<1>1. /\ phase = "running" /\ phase' = (IF exists THEN "idle" ELSE "new")
      /\ platform' = platform /\ keyed' = keyed /\ wanted' = wanted /\ stored' = stored /\ plan' = plan
      /\ exists' = exists
  BY DEF Interrupt
<1>2. WantedColumn'
  BY <1>1 DEF OrderInv, WantedColumn
<1>3. Running' /\ NoOtherRefusal'
  BY <1>1 DEF Running, NoOtherRefusal
<1>4. StoredColumn(platform', stored', keyed')
  BY <1>1 DEF OrderInv
<1>5. platform' = "sqlite" => SQLiteTable'
  BY <1>1 DEF OrderInv, SQLiteTable
<1> QED BY <1>2, <1>3, <1>4, <1>5 DEF OrderInv

LEMMA OrderNext == OrderInv /\ [Next]_vars => OrderInv'
<1> SUFFICES ASSUME OrderInv, [Next]_vars PROVE OrderInv'
  OBVIOUS
<1>1. CASE CreateTable
  BY <1>1, OrderCreate
<1>2. ASSUME NEW c \in Columns \cup {Absent}, Change(c) PROVE OrderInv'
  BY <1>2, OrderChange
<1>3. CASE Migrate
  BY <1>3, OrderMigrate
<1>4. CASE Execute
  BY <1>4, OrderExecute
<1>5. CASE Fail
  BY <1>5, OrderFail
<1>6. CASE Interrupt
  BY <1>6, OrderInterrupt
<1>7. CASE UNCHANGED vars
  BY <1>7 DEF vars, OrderInv, WantedColumn, Running, NoOtherRefusal, SQLiteTable,
              IdentityEndsLast, NullDefaultBound, AsciiIsString, TimeAdded
<1> QED BY <1>1, <1>2, <1>3, <1>4, <1>5, <1>6, <1>7 DEF Next

(* The statements of a migration come in an order that the server accepts, *)
(* whichever column is changed to which, any number of times and after any *)
(* interruptions: what is refused is one of the four changes that are      *)
(* known to be.  (getAlterTableSQL() of every platform.)                   *)
THEOREM AlwaysNoOtherRefusal == Spec => []NoOtherRefusal
<1>1. OrderInv => NoOtherRefusal
  BY DEF OrderInv
<1> QED BY <1>1, OrderInit, OrderNext, PTL DEF Spec
=============================================================================
