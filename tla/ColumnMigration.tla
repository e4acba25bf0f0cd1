-------------------------- MODULE ColumnMigration --------------------------
(***************************************************************************)
(* One column of a table, created, changed, added and dropped on each      *)
(* platform: the program reads the column, compares it with the one it     *)
(* wants (Comparator.compareTables(), columnsEqual()) and executes the     *)
(* statements of getAlterTableSQL() one by one, outside of a transaction,  *)
(* so that it may be interrupted between any two of them and start again   *)
(* from what it then reads.                                                *)
(*                                                                         *)
(* The column is either the primary key of its table (keyed), and then it  *)
(* may be autoincremented, or no part of it.  The table has other columns, *)
(* and rows.  Servers are external: Effect and Refuses say what they do.   *)
(***************************************************************************)
EXTENDS ColumnCatalogue

CONSTANTS
  UsedPlatforms,
  Columns,           \* the columns the application asks for
  Convertible(_, _), \* pairs of types whose values every server converts
  MaxMigrations,     \* bound: changes of what is wanted
  MaxInterruptions   \* bound

ASSUME ColumnMigrationAssumption == UsedPlatforms \subseteq Platforms

(* An autoincremented column is an integer without a default, and what a   *)
(* default declares is not empty.                                          *)
ASSUME ColumnsAssumption ==
  \A c \in Columns :
    /\ c \in ColumnRecords
    /\ c.autoincrement => c.type \in Integral /\ c.default = NoValue
    /\ c.default.text # ""

VARIABLES
  platform,
  keyed,     \* the column is the primary key
  wanted,    \* the column of the application's schema, or Absent
  stored,    \* the column in the catalogue, or Absent
  rows,      \* where the rows of the table are: table, copy, both, nowhere
  exists,    \* the table exists
  pending,   \* statements not yet executed
  phase,     \* new, idle, running, done, refused
  plan,      \* the column that was read and the one wanted, of the last diff
  migrations,
  interruptions

vars == <<platform, keyed, wanted, stored, rows, exists, pending, phase, plan, migrations, interruptions>>

Absent == Column("absent")
Statement(op, arg) == [op |-> op, arg |-> arg]
When(condition, statement) == IF condition THEN <<statement>> ELSE <<>>

---------------------------------------------------------------------------
(* Statements. *)

Commented(c) == When(c.comment # "", Statement("comment", c.comment))

(* The column in the declaration of the table, which has others. *)
InTable(c) == IF c = Absent THEN <<>> ELSE getColumnDeclarationSQL(platform, c)

CreateStatements(c) ==
  <<Statement("createTable", InTable(c))>>
  \o (IF platform = "pg" THEN Commented(c) ELSE <<>>)
  \o (IF platform # "sqlserver" THEN <<>>
      ELSE When(c.comment # "", Statement("addComment", c.comment))
           \o When(c.default # NoValue,
                   Statement("addConstraint", getDefaultValueDeclarationSQL(platform, c))))

(* hasDefaultChanged() compares expressions as objects.                    *)
DefaultChanged(old, new) == old.default # new.default \/ new.default.kind = "expression"

AlterMySQL(old, new) ==
  CASE old = Absent -> <<Statement("addColumn", getColumnDeclarationSQL(platform, new))>>
    [] new = Absent -> <<Statement("dropColumn", <<>>)>>
    [] OTHER        -> <<Statement("changeColumn", getColumnDeclarationSQL(platform, new))>>

NameOf(c) == Type(getSQLDeclaration(platform, c).name)  \* a mutant of TypeOf
TypeOf(c) == getSQLDeclaration(platform, [c EXCEPT !.autoincrement = FALSE])

AlterPostgreSQL(old, new) ==
  CASE old = Absent -> <<Statement("addColumn", getColumnDeclarationSQL(platform, new))>> \o Commented(new)
    [] new = Absent -> <<Statement("dropColumn", <<>>)>>
    [] OTHER ->
       When(TypeOf(old) # TypeOf(new), Statement("alterType", TypeOf(new)))
       \o When(DefaultChanged(old, new),
               Statement("setDefault", IF new.default = NoValue THEN NoDefault
                                        ELSE getDefaultValueDeclarationSQL(platform, new)))
       \o When(old.notnull # new.notnull, Statement("setNotnull", new.notnull))
       \o When(old.autoincrement # new.autoincrement, Statement("setIdentity", new.autoincrement))
       \o When(old.comment # new.comment, Statement("comment", new.comment))

(* getSimpleAlterTableSQL() knows current defaults by their text only.     *)
RequiresRebuild(c) ==
  c.autoincrement \/ (c.type = "datetime" /\ c.default = String(NowText))

DropFirst(new) ==  \* a mutant of Rebuild
  <<Statement("dropTable", <<>>), Statement("createTable", InTable(new)),
    Statement("copyRows", <<>>), Statement("copyBack", <<>>), Statement("dropCopy", <<>>)>>

Rebuild(new) ==
  <<Statement("copyRows", <<>>), Statement("dropTable", <<>>),
    Statement("createTable", InTable(new)),
    Statement("copyBack", <<>>), Statement("dropCopy", <<>>)>>

AlterSQLite(old, new) ==
  IF old = Absent /\ ~RequiresRebuild(new)
  THEN <<Statement("addColumn", getColumnDeclarationSQL(platform, new))>>
  ELSE Rebuild(new)

DropConstraint == Statement("dropConstraint", <<>>)
AddConstraint(c) == Statement("addConstraint", getDefaultValueDeclarationSQL(platform, c))

DroppedWhenChanged(old, new) == old.default # NoValue /\ DefaultChanged(old, new)  \* its mutant
alterColumnRequiresDropDefaultConstraint(old, new) ==
  old.default # NoValue /\ (DefaultChanged(old, new) \/ old.type # new.type \/ old.fixed # new.fixed)

CommentOf(old, new) ==
  Statement(CASE old.comment # "" /\ new.comment # "" -> "updateComment"
              [] new.comment = "" -> "dropComment"
              [] old.comment = "" -> "addComment", new.comment)

ChangeSQLServer(old, new) ==
  LET drops   == alterColumnRequiresDropDefaultConstraint(old, new)
      altered == getColumnDeclarationSQL(platform, old) # getColumnDeclarationSQL(platform, new) IN
  When(drops, DropConstraint)
  \o When(altered, Statement("alterColumn", getColumnDeclarationSQL(platform, new)))
  \o When((altered \/ DefaultChanged(old, new)) /\ new.default # NoValue /\ (drops \/ DefaultChanged(old, new)),
          AddConstraint(new))
  \o When(old.comment # new.comment, CommentOf(old, new))

AlterSQLServer(old, new) ==
  CASE old = Absent -> <<Statement("addColumn", AbstractDeclaration(platform, new))>>
    [] new = Absent -> When(old.default # NoValue, DropConstraint) \o <<Statement("dropColumn", <<>>)>>
    [] OTHER        -> ChangeSQLServer(old, new)

getAlterTableSQL(old, new) ==
  CASE platform \in MySQL    -> AlterMySQL(old, new)
    [] platform = "pg"       -> AlterPostgreSQL(old, new)
    [] platform = "sqlite"   -> AlterSQLite(old, new)
    [] OTHER                 -> AlterSQLServer(old, new)

(* What the program reads of the table and finds to do.                    *)
Introspected == IF stored = Absent THEN Absent ELSE Read(platform, stored)

Same(old, new) ==
  old = new \/ (Absent \notin {old, new} /\ columnsEqual(platform, old, new))

MigrationStatements(old, new) == IF Same(old, new) THEN <<>> ELSE getAlterTableSQL(old, new)

---------------------------------------------------------------------------
(* Servers. *)

Named(t) == CatalogueName(platform, t.name)

Refuses(s) ==
  CASE platform = "pg" /\ stored # Absent /\ stored.auto ->
         \/ s.op = "alterType" /\ s.arg.name \notin {"int", "bigint", "smallint"}
         \/ s.op = "setDefault"
         \/ s.op = "setNotnull" /\ ~s.arg
    [] platform = "pg" /\ s.op = "setIdentity" /\ ~stored.auto ->
         s.arg /\ ~(stored.notnull /\ stored.default = NoDefault)
    [] platform = "sqlserver" ->
         \/ s.op \in {"dropColumn", "addConstraint"} /\ stored.default # NoDefault
         \/ s.op = "dropConstraint" /\ stored.default = NoDefault
         \/ s.op = "alterColumn" /\ stored.default # NoDefault /\ Named(s.arg.type) # stored.name
         \/ s.op = "addComment" /\ stored.comment # ""
         \/ s.op \in {"updateComment", "dropComment"} /\ stored.comment = ""
    [] platform = "sqlite" /\ s.op = "addColumn" /\ rows = "table" ->
         \/ s.arg.notnull /\ s.arg.default = NoDefault
         \/ s.arg.default = Bare(NowText)
    [] OTHER -> FALSE

Kept(d) == Catalogue(platform, keyed, d)

(* ALTER COLUMN leaves the default to its constraint, and the comment.     *)
ColumnAfter(s) ==
  CASE s.op = "createTable"  -> IF s.arg = <<>> THEN Absent ELSE Kept(s.arg)
    [] s.op \in {"addColumn", "changeColumn"} -> Kept(s.arg)
    [] s.op \in {"dropColumn", "dropTable"}   -> Absent
    [] s.op = "alterColumn" ->
         [Kept(s.arg) EXCEPT !.default = stored.default, !.comment = stored.comment]
    [] s.op = "alterType" ->
         LET new == Kept([type |-> s.arg, default |-> NoDefault, notnull |-> TRUE, comment |-> ""]) IN
         [new EXCEPT !.default = stored.default, !.notnull = stored.notnull,
                     !.comment = stored.comment, !.auto = stored.auto]
    [] s.op \in {"setDefault", "addConstraint"} ->
         [stored EXCEPT !.default = CatalogueDefault(platform, s.arg, ~stored.notnull)]
    [] s.op = "dropConstraint" -> [stored EXCEPT !.default = NoDefault]
    [] s.op = "setNotnull"     -> [stored EXCEPT !.notnull = s.arg]
    [] s.op = "setIdentity"    -> [stored EXCEPT !.auto = s.arg]
    [] s.op \in {"comment", "addComment", "updateComment", "dropComment"} ->
         [stored EXCEPT !.comment = s.arg]
    [] OTHER -> stored

RowsAfter(op) ==
  CASE op = "copyRows"                        -> IF rows = "table" THEN "both" ELSE rows
    [] op = "dropTable" /\ rows = "both"      -> "copy"
    [] op = "dropTable" /\ rows = "table"     -> "nowhere"
    [] op = "copyBack" /\ rows = "copy"       -> "both"
    [] op = "dropCopy" /\ rows = "both"       -> "table"
    [] op = "dropCopy" /\ rows = "copy"       -> "nowhere"
    [] OTHER -> rows

---------------------------------------------------------------------------
(* The application. *)

Init ==
  /\ platform \in UsedPlatforms /\ keyed \in BOOLEAN
  /\ wanted \in {c \in Columns : ~keyed => ~c.autoincrement}
  /\ keyed => wanted.notnull
  /\ stored = Absent /\ rows = "table" /\ exists = FALSE
  /\ pending = <<>> /\ phase = "new"
  /\ plan = [old |-> Absent, new |-> Absent]
  /\ migrations = 0 /\ interruptions = 0

(* createTable(); a type that cannot be declared throws before any statement. *)
CreateTable ==
  /\ phase = "new" /\ Declarable(platform, wanted)
  /\ pending' = CreateStatements(wanted) /\ phase' = "running"
  /\ plan' = [old |-> Absent, new |-> wanted]
  /\ UNCHANGED <<platform, keyed, wanted, stored, rows, exists, migrations, interruptions>>

(* The application's schema changes, to what the server can convert the    *)
(* rows to.  A column that is added has a value for them; SQL Server       *)
(* changes no key.                                                         *)
Change(c) ==
  /\ phase = "done" /\ migrations < MaxMigrations /\ c # wanted
  /\ IF keyed THEN c.notnull /\ c # Absent /\ platform # "sqlserver"
     ELSE ~c.autoincrement
  /\ CASE wanted = Absent -> ~c.notnull \/ c.default # NoValue
       [] c = Absent -> TRUE
       [] OTHER      -> Convertible(wanted.type, c.type)
  /\ c = Absent \/ Declarable(platform, c)
  /\ wanted' = c /\ phase' = "idle" /\ migrations' = migrations + 1
  /\ UNCHANGED <<platform, keyed, stored, rows, exists, pending, plan, interruptions>>

(* introspectTable() finds no table where it cannot read the column.       *)
Migrate ==
  /\ phase = "idle" /\ exists
  /\ IF stored = Absent THEN TRUE ELSE Readable(platform, stored)
  /\ LET old == Introspected IN
     /\ pending' = MigrationStatements(old, wanted)
     /\ plan' = [old |-> old, new |-> wanted]
  /\ phase' = IF pending' = <<>> THEN "done" ELSE "running"
  /\ UNCHANGED <<platform, keyed, wanted, stored, rows, exists, migrations, interruptions>>

Execute ==
  /\ phase = "running" /\ ~Refuses(pending[1])
  /\ stored' = ColumnAfter(pending[1])
  /\ rows' = RowsAfter(pending[1].op)
  /\ exists' = IF pending[1].op = "dropTable" THEN FALSE ELSE exists \/ pending[1].op = "createTable"
  /\ pending' = Tail(pending)
  /\ phase' = IF pending' = <<>> THEN "done" ELSE "running"
  /\ UNCHANGED <<platform, keyed, wanted, plan, migrations, interruptions>>

Fail ==
  /\ phase = "running" /\ Refuses(pending[1])
  /\ phase' = "refused"
  /\ UNCHANGED <<platform, keyed, wanted, stored, rows, exists, pending, plan, migrations, interruptions>>

(* The process or its connection ends, and with it the temporary table.    *)
Interrupt ==
  /\ phase = "running" /\ interruptions < MaxInterruptions
  /\ pending' = <<>> /\ phase' = IF exists THEN "idle" ELSE "new"
  /\ rows' = CASE rows = "both" -> "table" [] rows = "copy" -> "nowhere" [] OTHER -> rows
  /\ interruptions' = interruptions + 1
  /\ UNCHANGED <<platform, keyed, wanted, stored, exists, plan, migrations>>

Next ==
  \/ CreateTable
  \/ \E c \in Columns \cup {Absent} : Change(c)
  \/ Migrate \/ Execute \/ Fail \/ Interrupt

Spec == Init /\ [][Next]_vars

---------------------------------------------------------------------------
(* Properties. *)

(* What is not read back as it was declared, platform by platform: the     *)
(* types whose catalogue names stand for another type, or for none; number *)
(* defaults of types that quote what is read; comments in SQLite.          *)
Unfaithful(c) ==
  \/ c.default.kind = "number" /\ c.type \notin Integral
  \/ platform = "sqlite" /\
       \/ c.comment # ""
       \/ c.type \in {"float", "smallfloat", "binary"}
       \/ c.type = "smallint" /\ ~c.autoincrement
       \/ c.type = "blob" /\ OrElse(c.length, Long) <= Medium
       \/ keyed /\ c.type = "integer" /\ ~c.autoincrement
  \/ platform \in MySQL /\ c.type = "smallfloat"
  \/ platform \in MySQL \cup {"sqlserver"} /\ c.type = "binary" /\ c.fixed /\ c.length = {}
  \/ platform = "sqlserver" /\
       \/ c.type = "ascii_string"
       \/ c.type = "string" /\ c.fixed /\ c.length = {}

ReadsAs(c) == stored # Absent /\ Readable(platform, stored) /\ columnsEqual(platform, Introspected, c)

(* A column that was just created compares equal to the one it was created *)
(* from, unless it is one of the kinds that are known not to, and those    *)
(* do not.  (Every getSQLDeclaration() against every                       *)
(* _getPortableTableColumnDefinition().)                                   *)
RoundTrips ==
  phase = "done" /\ migrations = 0 /\ interruptions = 0 => (ReadsAs(wanted) <=> ~Unfaithful(wanted))

(* SQL Server adds a column without its comment: the next migration does.  *)
CommentLeftOut == platform = "sqlserver" /\ plan.old = Absent /\ plan.new.comment # "" /\ migrations > 0

(* A migration that was executed to its end leaves the column that is      *)
(* wanted, from whatever interrupted migrations left behind.               *)
Settles ==
  phase = "done" /\ ~CommentLeftOut =>
    IF wanted = Absent THEN stored = Absent ELSE Unfaithful(wanted) \/ ReadsAs(wanted)

(* The statements come in an order that the server accepts, whichever      *)
(* column is changed to which, after interruptions too.  Four changes are  *)
(* known to be refused: PostgreSQL's statements end the identity of a      *)
(* column after what an identity column forbids; the default NULL that SQL *)
(* Server's ADD binds to a nullable column is never dropped; nor is the    *)
(* default of an ascii string there, whose type is read as the one it      *)
(* changes to; SQLite cannot add a column whose default is the time to     *)
(* rows, and only the text in a datetime column is taken for it.           *)
IdentityEndsLast ==
  /\ platform = "pg" /\ plan.old.autoincrement /\ ~plan.new.autoincrement
  /\ plan.new.default # NoValue \/ plan.new.type \notin Integral
NullDefaultBound == platform = "sqlserver" /\ stored.default = Bare("NULL")
AsciiIsString ==
  platform = "sqlserver" /\ stored.name \in {"char", "varchar"}
    /\ {plan.old.type, plan.new.type} = {"string"}
TimeAdded ==
  /\ platform = "sqlite" /\ plan.old = Absent /\ ~RequiresRebuild(plan.new)
  /\ getDefaultValueDeclarationSQL(platform, plan.new) = Bare(NowText)

NoOtherRefusal ==
  phase = "refused" => IdentityEndsLast \/ NullDefaultBound \/ AsciiIsString \/ TimeAdded

(* Rows survive every migration; only one that is interrupted may lose     *)
(* them, and only in SQLite, where the table is rebuilt.                   *)
RowsKept ==
  /\ rows = "nowhere" => platform = "sqlite" /\ interruptions > 0
  /\ phase = "done" /\ interruptions = 0 => rows = "table"

(* What was read, declared and read again is the same: a schema dumped     *)
(* from one database and created in another needs no migration there.      *)
(* SQLite's REAL is read as a type that is declared as what cannot be read. *)
ReadIsStable ==
  stored # Absent /\ Readable(platform, stored) /\ ~(platform = "sqlite" /\ stored.name = "real") =>
    LET c == Introspected
        s == [Catalogue(platform, keyed, AbstractDeclaration(platform, c)) EXCEPT !.comment = c.comment] IN
    Readable(platform, s) /\ columnsEqual(platform, c, Read(platform, s))

(* Declaring and reading a column are inverse to each other, from either   *)
(* end.                                                                    *)
ReadBack == RoundTrips /\ ReadIsStable

(* Where the providers read something else than the managers.              *)
ProviderDiffers ==
  \/ platform \in {"pg", "sqlserver"} /\ stored.comment # ""
  \/ platform = "pg" /\ stored.name = "bpchar"
  \/ platform \in MySQL /\ stored.name = "binary"
  \/ platform = "mariadb" /\ stored.default = Bare("current_timestamp()")
  \/ platform = "sqlite" /\ keyed /\ stored.name = "bigint"
  \/ platform = "sqlserver" /\ (stored.auto \/ stored.length = {-1} \/ stored.name \in {"binary", "char"}
                                \/ stored.default = Bare("getdate()"))

(* The metadata providers and the schema managers read the same column     *)
(* from one catalogue, but for the differences above.                      *)
ProvidersAgree ==
  phase = "done" /\ stored # Absent /\ Readable(platform, stored) =>
    (columnsEqual(platform, Introspected, createColumnFromMetadataRow(platform, stored)) <=> ~ProviderDiffers)
=============================================================================
