----------------------------- MODULE AlterTable -----------------------------
(***************************************************************************)
(* A migration on PostgreSQL: the application compares the table in the    *)
(* database with the one it changed, and alterTable of the schema manager  *)
(* runs the statements of getAlterTableSQL (src/src/platforms/             *)
(* postgresql-platform.ts) one by one, outside of any transaction.  It may *)
(* be interrupted between two statements, and then be started again from   *)
(* a fresh comparison.                                                     *)
(***************************************************************************)
EXTENDS Comparator, TableEditor

CONSTANT MaxInterruptions   \* bound: migrations interrupted

VARIABLES
  database,       \* external: the table in the database
  pending,        \* the statements still to run
  phase,          \* of the migration
  interruptions,  \* the number of interruptions
  ordinary        \* history: no comparison gave a diff of an unsupported kind

vars == <<tableVars, editor, database, pending, phase, interruptions, ordinary>>
migrationVars == <<database, pending, phase, interruptions, ordinary>>

-----------------------------------------------------------------------------
(* External: the statements and what PostgreSQL does with them.  Columns   *)
(* carry their data along; indexes and foreign keys refer to columns, not  *)
(* to their names, and go when one of their columns goes.                  *)
Statement(op, name, arg) == [op |-> op, name |-> name, arg |-> arg]

Without(map, c) == SelectSeq(map, LAMBDA e : ~ Contains(e.value, c))
WithoutIndexesOn(map, c) == SelectSeq(map, LAMBDA e : ~ Contains(e.value.cols, c))

Fails(s) ==
  LET columns == Keys(database.columns)
  IN  CASE s.op = "ADD COLUMN" -> s.name \in columns
        [] s.op \in {"DROP COLUMN", "ALTER TYPE"} -> s.name \notin columns
        [] s.op = "RENAME COLUMN" -> s.name \notin columns \/ s.arg \in columns
        [] s.op = "DROP INDEX" -> s.name \notin Keys(database.indexes)
        [] s.op = "CREATE INDEX" -> \/ s.name \in Keys(database.indexes)
                                    \/ ~ Range(s.arg.cols) \subseteq columns
        [] s.op = "DROP FOREIGN KEY" -> s.name \notin Keys(database.foreignKeys)
        [] s.op = "ADD FOREIGN KEY" -> \/ s.name \in Keys(database.foreignKeys)
                                       \/ ~ Range(s.arg) \subseteq columns

Executed(s) ==
  CASE s.op = "ADD COLUMN" ->
         [database EXCEPT !.columns = Put(@, s.name, [type |-> s.arg, data |-> NoColumn])]
    [] s.op = "DROP COLUMN" ->
         [database EXCEPT !.columns = Delete(@, s.name),
                          !.indexes = WithoutIndexesOn(@, s.name),
                          !.foreignKeys = Without(@, s.name)]
    [] s.op = "ALTER TYPE" ->
         [database EXCEPT !.columns = Put(@, s.name, [Get(@, s.name) EXCEPT !.type = s.arg])]
    [] s.op = "RENAME COLUMN" ->
         [database EXCEPT !.columns = Put(Delete(@, s.name), s.arg, Get(@, s.name)),
                          !.indexes = RenamedInIndexes(@, s.name, s.arg),
                          !.foreignKeys = RenamedInConstraints(@, s.name, s.arg)]
    [] s.op = "DROP INDEX" -> [database EXCEPT !.indexes = Delete(@, s.name)]
    [] s.op = "CREATE INDEX" -> [database EXCEPT !.indexes = Put(@, s.name, s.arg)]
    [] s.op = "DROP FOREIGN KEY" -> [database EXCEPT !.foreignKeys = Delete(@, s.name)]
    [] s.op = "ADD FOREIGN KEY" -> [database EXCEPT !.foreignKeys = Put(@, s.name, s.arg)]

(* External: the database as it was created from a table.                  *)
Created(t) ==
  [ columns     |-> [i \in DOMAIN t.columns |->
                      Entry(t.columns[i].key, [type |-> t.columns[i].value,
                                               data |-> t.columns[i].key])],
    indexes     |-> t.indexes,
    foreignKeys |-> t.foreignKeys ]

-----------------------------------------------------------------------------
(* The table read back: the constructor of Table indexes the foreign keys. *)
Introspected ==
  LET read == [ columns           |-> MapValues(database.columns, LAMBDA c : c.type),
                indexes           |-> database.indexes,
                foreignKeys       |-> database.foreignKeys,
                uniqueConstraints |-> <<>>,
                renamed           |-> <<>>,
                primaryKeyName    |-> IF Primary \in Keys(database.indexes) THEN Primary
                                      ELSE NoName ]
  IN  FoldLeft(LAMBDA acc, e : IF acc.threw THEN acc
                               ELSE AddImplicitForeignKeyIndex(acc.table, e.value),
               Returns(read), database.foreignKeys)

(* A primary key is created without its name. *)
CreateIndexSQL(e) ==
  Statement("CREATE INDEX", IF e.value.primary THEN Primary ELSE e.key, e.value)
DropIndexSQL(name) == Statement("DROP INDEX", name, NoName)

(* Mutant: the type is changed before the name.                            *)
TypeBeforeName(e) ==
  (IF e.value.from = e.value.type THEN <<>>
   ELSE <<Statement("ALTER TYPE", e.value.to, e.value.type)>>)
  \o (IF e.key = e.value.to THEN <<>> ELSE <<Statement("RENAME COLUMN", e.key, e.value.to)>>)

ChangedColumnSQL(e) ==
  (IF e.key = e.value.to THEN <<>> ELSE <<Statement("RENAME COLUMN", e.key, e.value.to)>>)
  \o (IF e.value.from = e.value.type THEN <<>>
      ELSE <<Statement("ALTER TYPE", e.value.to, e.value.type)>>)

(* The indexes and foreign keys follow the columns. *)
NonColumnSQL(diff) ==
  LET each(map, Op(_)) == [i \in DOMAIN map |-> Op(map[i])]
      replaced(map, Old(_), New(_)) ==
        FlattenSeq([i \in DOMAIN map |-> <<DropIndexSQL(Old(map[i])), CreateIndexSQL(New(map[i]))>>])
  IN  each(diff.foreignKeys.dropped, LAMBDA e : Statement("DROP FOREIGN KEY", e.key, NoName))
      \o replaced(diff.indexes.renamed, LAMBDA e : e.key, LAMBDA e : e.value)
      \o each(diff.indexes.dropped, LAMBDA e : DropIndexSQL(e.key))
      \o replaced(diff.indexes.modified, LAMBDA e : e.key, LAMBDA e : e)
      \o each(diff.indexes.added, CreateIndexSQL)
      \o each(diff.foreignKeys.added, LAMBDA e : Statement("ADD FOREIGN KEY", e.key, e.value))

GetAlterTableSQL(diff) ==
  [i \in DOMAIN diff.columns.added |->
     Statement("ADD COLUMN", diff.columns.added[i].key, diff.columns.added[i].value)]
  \o [i \in DOMAIN diff.columns.dropped |->
        Statement("DROP COLUMN", diff.columns.dropped[i].key, NoName)]
  \o FlattenSeq([i \in DOMAIN diff.columns.changed |-> ChangedColumnSQL(diff.columns.changed[i])])
  \o NonColumnSQL(diff)

-----------------------------------------------------------------------------
(* What the migration of a diff does not support: the hazards of           *)
(* PROJECT.json that the properties below leave aside.                     *)
DropsIndexedColumn(diff) ==
  \E c \in Keys(diff.columns.dropped) :
    \/ \E index \in Values(database.indexes) : Contains(index.cols, c)
    \/ \E cols \in Values(database.foreignKeys) : Contains(cols, c)

(* The index of a foreign key is missing, so reading the table back invents *)
(* one that the database does not have.                                    *)
InventsIndex == Introspected.table.indexes # database.indexes

(* A name is given to another foreign key or index before it is free.      *)
ReusesName(diff) ==
  \/ Keys(diff.foreignKeys.added) \cap
       (Keys(database.foreignKeys) \ Keys(diff.foreignKeys.dropped)) # {}
  \/ {e.key : e \in Values(diff.indexes.renamed)} \cap Keys(database.indexes) # {}

Supported(diff) == ~ DropsIndexedColumn(diff) /\ ~ InventsIndex /\ ~ ReusesName(diff)

-----------------------------------------------------------------------------
(* The application changes the table before it migrates, itself or through *)
(* an editor.                                                              *)
Edit ==
  /\ phase = "editing"
  /\ \/ ~ editor.open /\ TableNext /\ UNCHANGED editor
     \/ EditorNext
  /\ UNCHANGED migrationVars

(* comparator.compareTables(introspectTable(name), table), and the call of *)
(* alterTable with its diff.                                               *)
Compare ==
  /\ phase \in {"editing", "interrupted"}
  /\ ~ editor.open
  /\ ~ Introspected.threw
  /\ \E config \in Configs :
       LET diff == CompareTables(Introspected.table, table, config)
       IN  /\ pending' = GetAlterTableSQL(diff)
           /\ ordinary' = (ordinary /\ Supported(diff))
  /\ phase' = "altering"
  /\ UNCHANGED <<tableVars, editor, database, interruptions>>

ExecuteStatement ==
  /\ phase = "altering"
  /\ pending # <<>>
  /\ IF Fails(Head(pending))
     THEN phase' = "failed" /\ UNCHANGED <<database, pending>>
     ELSE /\ database' = Executed(Head(pending))
          /\ pending' = Tail(pending)
          /\ UNCHANGED phase
  /\ UNCHANGED <<tableVars, editor, interruptions, ordinary>>

Interrupt ==
  /\ phase = "altering"
  /\ pending # <<>>
  /\ interruptions < MaxInterruptions
  /\ interruptions' = interruptions + 1
  /\ phase' = "interrupted"
  /\ pending' = <<>>
  /\ UNCHANGED <<tableVars, editor, database, ordinary>>

Finish ==
  /\ phase = "altering"
  /\ pending = <<>>
  /\ phase' = "done"
  /\ UNCHANGED <<tableVars, editor, database, pending, interruptions, ordinary>>

Init ==
  /\ TableInit
  /\ editor = NoEditor
  /\ database = Created(old)
  /\ pending = <<>>
  /\ phase = "editing"
  /\ interruptions = 0
  /\ ordinary = TRUE

Next ==
  \/ Edit
  \/ Compare
  \/ ExecuteStatement
  \/ Interrupt
  \/ Finish

Spec == Init /\ [][Next]_vars

-----------------------------------------------------------------------------
(* A table that a database can hold and give back: it refers to columns it *)
(* has, its foreign keys are indexed, and its primary key has no own name. *)
Whole ==
  /\ \A cols \in {index.cols : index \in Values(table.indexes)} \cup Values(table.foreignKeys) :
       Range(cols) \subseteq Keys(table.columns)
  /\ \A cols \in Values(table.foreignKeys) :
       \E index \in Values(table.indexes) : index.cols = Distinct(cols)
  /\ table.primaryKeyName \in {NoName, Primary}

(* A migration leads to the table it was asked for, even when it had been  *)
(* interrupted between any two statements: none of its statements fails,   *)
(* and comparing the table with the one read back finds no change.         *)
MigrationReaches ==
  ordinary /\ Whole =>
    /\ phase # "failed"
    /\ phase = "done" => IsEmpty(CompareTables(table, Introspected.table, Defaults))

(* The renames that led to the column are not hidden by a column that had  *)
(* or got one of its names.                                                *)
Tracked(c) ==
  \/ origin[c] = c
  \/ c \notin Keys(old.columns) /\ origin[c] \notin Keys(table.columns) \cup {NoColumn}

(* A column that was renamed, once or several times, before the migration  *)
(* still holds its data after it, interrupted or not: no rename is taken   *)
(* for a drop and an add, or for the rename of another column.             *)
DataKept ==
  ordinary /\ phase = "done" =>
    \A c \in Keys(table.columns) : Tracked(c) => Get(database.columns, c).data = origin[c]
=============================================================================
