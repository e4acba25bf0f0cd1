------------------------------- MODULE Schemas -------------------------------
(***************************************************************************)
(* A Schema (src/src/schema/schema.ts), the schema manager that creates    *)
(* and drops its objects on a server, and the comparison of what the       *)
(* manager reads there with the schema (compareSchemas of the Comparator). *)
(*                                                                         *)
(* Creating and dropping are lists of statements that are executed one by  *)
(* one, in no transaction: one that the server refuses, or a connection    *)
(* that is lost, leaves those before it done.  Other sessions create a     *)
(* table that refers to one of the schema's, and drop tables, meanwhile.   *)
(*                                                                         *)
(* A name is [ns, base] after getSchemaAssetKey(): names that differ by    *)
(* case or quotes are one.  A table has foreign keys, each on a column     *)
(* that is named after the table it refers to, and what it has for them:   *)
(* an index, and the names of both, which are generated from the table's   *)
(* name at that time and from the column.  Columns are those of Comparator *)
(* and ColumnMigration.  The filter of asset names accepts every name.     *)
(***************************************************************************)
EXTENDS Naturals, FiniteSets, SequencesExt, FiniteSetsExt

CONSTANTS
  Platforms,       \* subset of {"postgresql", "sqlserver", "mysql", "sqlite"}
  TableNames,      \* names of tables of the application
  SequenceNames,   \* names of its sequences
  NoNs,            \* the namespace of a name that is not qualified
  Own,             \* the namespace the server resolves such a name in
  Foreign,         \* the name of a table of another application
  AutoIncrementOf, \* the name of the sequence of a table's auto-increment column
  MaxEdits,        \* calls on the schema
  MaxCalls         \* calls of the schema manager, and of other sessions

ASSUME SchemasAssumption ==
  /\ \A n \in TableNames \cup SequenceNames \cup {Foreign} : {"ns", "base"} = DOMAIN n
  /\ Foreign.ns = Own /\ Own # NoNs
  /\ \A n \in TableNames : n.ns \in {NoNs, Own} => n.base # Foreign.base
  /\ IsFiniteSet(TableNames) /\ IsFiniteSet(SequenceNames)
  /\ DOMAIN AutoIncrementOf \subseteq {n.base : n \in TableNames}
  /\ MaxEdits \in Nat /\ MaxCalls \in Nat

VARIABLES
  platform,
  schema,   \* [name, namespaces, tables, sequences]
  server,   \* [namespaces, tables, sequences]
  script,   \* the statements that are left to execute
  call,     \* [kind, base, status] of the last call of the manager
  edits, calls

vars == <<platform, schema, server, script, call, edits, calls>>

Namespaces == {n.ns : n \in TableNames \cup SequenceNames} \ {NoNs}

(***************************************************************************)
(* Schema.                                                                 *)
(***************************************************************************)
ForeignKeyId(fk)  == [of |-> fk.of, column |-> fk.target.base]
ForeignKey(n, to) == [of |-> n, target |-> to]
Table(n, targets) == [name |-> n, fks |-> {ForeignKey(n, to) : to \in targets}]

NamesOf(tables) == {t.name : t \in ToSet(tables)}

(* The namespaces of a schema that gets an object of this name. *)
WithNamespaceOf(n, s) == IF n.ns = NoNs THEN s.namespaces ELSE s.namespaces \cup {n.ns}

(* A schema is built before the first call that uses it. *)
Editing == edits < MaxEdits /\ calls = 0

Edited(s) ==
  /\ Editing
  /\ schema' = s
  /\ edits' = edits + 1
  /\ UNCHANGED <<platform, server, script, call, calls>>

CreateNamespace(ns) ==
  /\ ns \notin schema.namespaces
  /\ Edited([schema EXCEPT !.namespaces = @ \cup {ns}])

(* addTable() declares the namespace of the table before it finds the name *)
(* taken.                                                                  *)
AddTable(n, targets) ==
  Edited([schema EXCEPT !.namespaces = WithNamespaceOf(n, schema),
                        !.tables = IF n \in NamesOf(@) THEN @
                                   ELSE Append(@, Table(n, targets))])

AddForeignKey(n, to) ==
  \E i \in DOMAIN schema.tables :
    /\ schema.tables[i].name = n
    /\ \A fk \in schema.tables[i].fks : fk.target.base # to.base
    /\ Edited([schema EXCEPT !.tables[i].fks = @ \cup {ForeignKey(n, to)}])

DropTable(n) ==
  \E i \in DOMAIN schema.tables :
    /\ schema.tables[i].name = n
    /\ Edited([schema EXCEPT !.tables = RemoveAt(@, i)])

(* The table goes to the end under its new name.  Its foreign keys keep    *)
(* their names, those of other tables the name of the table, and the       *)
(* namespace of the new name is not declared.                              *)
RenameTable(old, new) ==
  /\ new \notin NamesOf(schema.tables)
  /\ \E i \in DOMAIN schema.tables :
       /\ schema.tables[i].name = old
       /\ Edited([schema EXCEPT !.tables = Append(RemoveAt(@, i), [@[i] EXCEPT !.name = new])])

AddSequence(n) ==
  Edited([schema EXCEPT !.namespaces = WithNamespaceOf(n, schema),
                        !.sequences = IF Contains(@, n) THEN @ ELSE Append(@, n)])

DropSequence(n) ==
  \E i \in DOMAIN schema.sequences :
    /\ schema.sequences[i] = n
    /\ Edited([schema EXCEPT !.sequences = RemoveAt(@, i)])

(***************************************************************************)
(* The statements of the platforms.                                        *)
(***************************************************************************)
SupportsSchemas(p)   == p \in {"postgresql", "sqlserver"}
SupportsSequences(p) == p \in {"postgresql", "sqlserver"}

CreatesSequences(p) == p = "postgresql"

CreateSchemaSQL(ns)      == [op |-> "createSchema", ns |-> ns]
CreateSequenceSQL(n)     == [op |-> "createSequence", name |-> n]
CreateIndexSQL(t, fk)    == [op |-> "createIndex", name |-> t.name, id |-> ForeignKeyId(fk)]
CreateForeignKeySQL(t, fk) == [op |-> "addForeignKey", name |-> t.name, fk |-> fk]
DropForeignKeySQL(t, fk) == [op |-> "dropForeignKey", name |-> t.name, id |-> ForeignKeyId(fk)]

(* Mutant: tables are dropped as sequences are, with what depends on them. *)
CascadingDropTableSQL(n) == [op |-> "dropTable", name |-> n, cascade |-> TRUE]

DropTableSQL(n)          == [op |-> "dropTable", name |-> n, cascade |-> FALSE]
DropSequenceSQL(n)       == [op |-> "dropSequence", name |-> n]

(* A table with what its statement declares: MySQL has the indexes inline, *)
(* SQLite the foreign keys.                                                *)
CreateTableSQL(p, t) ==
  [op      |-> "createTable",
   name    |-> t.name,
   indexes |-> IF p = "mysql" THEN {ForeignKeyId(fk) : fk \in t.fks} ELSE {},
   fks     |-> IF p = "sqlite" THEN t.fks ELSE {}]

(* One statement per foreign key of a table. *)
ForeignKeysOf(t) == SetToSeq(t.fks)

CreateIndexesSQL(t)     == [i \in DOMAIN ForeignKeysOf(t) |-> CreateIndexSQL(t, ForeignKeysOf(t)[i])]
CreateForeignKeysSQL(t) == [i \in DOMAIN ForeignKeysOf(t) |-> CreateForeignKeySQL(t, ForeignKeysOf(t)[i])]
DropForeignKeysSQL(t)   == [i \in DOMAIN ForeignKeysOf(t) |-> DropForeignKeySQL(t, ForeignKeysOf(t)[i])]

BuildCreateTableSQL(p, t) ==
  <<CreateTableSQL(p, t)>>
  \o (IF p = "mysql" THEN <<>> ELSE CreateIndexesSQL(t))

SQLiteCreateTablesSQL(tables) ==
  FlattenSeq([i \in DOMAIN tables |-> BuildCreateTableSQL("sqlite", tables[i])])

(* Mutant: each table with its foreign keys, as for createTable(). *)
CreateTablesInTurnSQL(p, tables) ==
  FlattenSeq([i \in DOMAIN tables |->
    BuildCreateTableSQL(p, tables[i])
    \o (IF p = "sqlite" THEN <<>> ELSE CreateForeignKeysSQL(tables[i]))])

(* Every table before the first foreign key. *)
CreateTablesSQL(p, tables) ==
  IF p = "sqlite" THEN SQLiteCreateTablesSQL(tables)
  ELSE FlattenSeq([i \in DOMAIN tables |-> BuildCreateTableSQL(p, tables[i])])
       \o FlattenSeq([i \in DOMAIN tables |-> CreateForeignKeysSQL(tables[i])])

SQLiteDropTablesSQL(tables) == [i \in DOMAIN tables |-> DropTableSQL(tables[i].name)]

(* Mutant: tables are dropped with their foreign keys. *)
DropTablesAloneSQL(p, tables) == SQLiteDropTablesSQL(tables)

(* Every foreign key before the first table. *)
DropTablesSQL(p, tables) ==
  IF p = "sqlite" THEN SQLiteDropTablesSQL(tables)
  ELSE FlattenSeq([i \in DOMAIN tables |-> DropForeignKeysSQL(tables[i])])
       \o [i \in DOMAIN tables |-> DropTableSQL(tables[i].name)]

ToSql(p, s) ==
  (IF SupportsSchemas(p)
   THEN LET namespaces == SetToSeq(s.namespaces)
        IN  [i \in DOMAIN namespaces |-> CreateSchemaSQL(namespaces[i])]
   ELSE <<>>)
  \o [i \in DOMAIN s.sequences |-> CreateSequenceSQL(s.sequences[i])]
  \o CreateTablesSQL(p, s.tables)

ToDropSql(p, s) ==
  [i \in DOMAIN s.sequences |-> DropSequenceSQL(s.sequences[i])] \o DropTablesSQL(p, s.tables)

(***************************************************************************)
(* The server: what it accepts and what it then has.                       *)
(***************************************************************************)
Resolved(n) == IF n.ns = NoNs THEN [n EXCEPT !.ns = Own] ELSE n

ServerNames      == {t.name : t \in server.tables}
ServerTable(n)   == CHOOSE t \in server.tables : t.name = Resolved(n)
Has(n)           == Resolved(n) \in ServerNames
IndexIds(tables) == UNION {t.indexes : t \in tables}
FkIds(tables)    == {fk.id : fk \in UNION {t.fks : t \in tables}}

InNamespace(n) == {t \in server.tables : t.name.ns = Resolved(n).ns}

(* The tables among which the name of an index, or of a foreign key, is    *)
(* unique.                                                                 *)
IndexScope(n) ==
  CASE platform = "postgresql"         -> InNamespace(n)
    [] platform = "sqlite"             -> server.tables
    [] platform \in {"mysql", "sqlserver"} -> {ServerTable(n)}

ForeignKeyScope(n) ==
  IF platform = "postgresql" THEN {ServerTable(n)} ELSE InNamespace(n)

Referrers(n) == {t \in server.tables : t.name # n /\ \E fk \in t.fks : fk.target = n}

Accepts(st) ==
  CASE st.op = "createSchema"   -> st.ns \notin server.namespaces
    [] st.op = "createSequence" -> /\ Resolved(st.name).ns \in server.namespaces
                                    /\ Resolved(st.name) \notin server.sequences
    [] st.op = "createTable"    -> /\ Resolved(st.name).ns \in server.namespaces
                                    /\ ~Has(st.name)
                                    /\ \A fk \in st.fks : fk.target.ns = NoNs
    [] st.op = "createIndex"    -> Has(st.name) /\ st.id \notin IndexIds(IndexScope(st.name))
    [] st.op = "addForeignKey" -> /\ Has(st.name) /\ Has(st.fk.target)
                                    /\ ForeignKeyId(st.fk) \notin FkIds(ForeignKeyScope(st.name))
    [] st.op = "dropForeignKey" -> Has(st.name) /\ st.id \in FkIds({ServerTable(st.name)})
    [] st.op = "dropTable"      -> /\ Has(st.name)
                                    /\ \/ platform = "sqlite"
                                       \/ st.cascade
                                       \/ Referrers(Resolved(st.name)) = {}
    [] st.op = "dropSequence"   -> Resolved(st.name) \in server.sequences

OnServer(fk) == [id |-> ForeignKeyId(fk), target |-> Resolved(fk.target)]

Changed(n, t) == [server EXCEPT !.tables = (@ \ {ServerTable(n)}) \cup {t}]

(* With CASCADE a table goes along with the foreign keys that refer to it. *)
WithoutTable(n, cascade) ==
  {IF cascade THEN [t EXCEPT !.fks = {fk \in @ : fk.target # n}] ELSE t :
     t \in {t \in server.tables : t.name # n}}

After(st) ==
  CASE st.op = "createSchema"   -> [server EXCEPT !.namespaces = @ \cup {st.ns}]
    [] st.op = "createSequence" -> [server EXCEPT !.sequences = @ \cup {Resolved(st.name)}]
    [] st.op = "createTable"    ->
         [server EXCEPT !.tables = @ \cup {[name    |-> Resolved(st.name),
                                           indexes |-> st.indexes,
                                           fks     |-> {OnServer(fk) : fk \in st.fks}]}]
    [] st.op = "createIndex"    ->
         Changed(st.name, [ServerTable(st.name) EXCEPT !.indexes = @ \cup {st.id}])
    [] st.op = "addForeignKey" ->
         Changed(st.name, [ServerTable(st.name) EXCEPT !.fks = @ \cup {OnServer(st.fk)}])
    [] st.op = "dropForeignKey" ->
         Changed(st.name, [ServerTable(st.name) EXCEPT !.fks = {fk \in @ : fk.id # st.id}])
    [] st.op = "dropTable"      ->
         [server EXCEPT !.tables = WithoutTable(Resolved(st.name), st.cascade)]
    [] st.op = "dropSequence"   -> [server EXCEPT !.sequences = @ \ {Resolved(st.name)}]

(***************************************************************************)
(* The schema manager.                                                     *)
(***************************************************************************)
EmptyServer == [namespaces |-> {Own}, tables |-> {}, sequences |-> {}]

(* What a call finds: an empty server, one with what creating this schema  *)
(* has made, or some other.                                                *)
Base ==
  IF server = EmptyServer THEN "empty"
  ELSE IF call.kind = "create" /\ call.base = "empty" /\ call.status = "done" THEN "whole"
  ELSE "other"

Calling == calls < MaxCalls /\ script = <<>>

Start(kind, supported, statements) ==
  /\ Calling
  /\ calls' = calls + 1
  /\ script' = IF supported THEN statements ELSE <<>>
  /\ call' = [kind   |-> kind,
              base   |-> Base,
              status |-> IF ~supported THEN "unsupported"
                         ELSE IF statements = <<>> THEN "done" ELSE "running"]
  /\ UNCHANGED <<platform, schema, server, edits>>

(* Both lists are complete before the first statement is executed: when a  *)
(* sequence cannot be written, nothing is.                                 *)
CreateSchemaObjects ==
  Start("create", schema.sequences = <<>> \/ CreatesSequences(platform), ToSql(platform, schema))

DropSchemaObjects ==
  Start("drop", schema.sequences = <<>> \/ SupportsSequences(platform), ToDropSql(platform, schema))

ExecuteStatement ==
  /\ script # <<>>
  /\ IF Accepts(Head(script))
     THEN /\ server' = After(Head(script))
          /\ script' = Tail(script)
          /\ call' = IF Tail(script) = <<>> THEN [call EXCEPT !.status = "done"] ELSE call
     ELSE /\ script' = <<>>
          /\ call' = [call EXCEPT !.status = "failed"]
          /\ UNCHANGED server
  /\ UNCHANGED <<platform, schema, edits, calls>>

(* The connection is lost between two statements. *)
LoseConnection ==
  /\ script # <<>>
  /\ script' = <<>>
  /\ call' = [call EXCEPT !.status = "failed", !.base = "other"]
  /\ UNCHANGED <<platform, schema, server, edits, calls>>

(***************************************************************************)
(* Other sessions, by single statements of the schema manager.             *)
(***************************************************************************)
Elsewhere(st) ==
  /\ calls < MaxCalls
  /\ Accepts(st)
  /\ server' = After(st)
  /\ calls' = calls + 1
  /\ call' = [call EXCEPT !.base = "other"]
  /\ UNCHANGED <<platform, schema, script, edits>>

CreateElsewhere(to) ==
  /\ [ns |-> Own, base |-> to.base] \in ServerNames
  /\ ~Has(Foreign)
  /\ Elsewhere([op |-> "createTable", name |-> Foreign, indexes |-> {},
                fks |-> {ForeignKey(Foreign, [to EXCEPT !.ns = NoNs])}])

DropElsewhere(n) == Elsewhere(DropTableSQL(n))

(***************************************************************************)
(* What the manager reads: the tables, unqualified when they are in the    *)
(* namespace that such names are resolved in, of that namespace only on    *)
(* MySQL and SQLite.  No sequence, and no namespace but those of tables.   *)
(***************************************************************************)
PortableName(n) == IF n.ns = Own THEN [n EXCEPT !.ns = NoNs] ELSE n

Listed == {t \in server.tables : SupportsSchemas(platform) \/ t.name.ns = Own}

PortableForeignKey(t, fk) == [of |-> t.name, target |-> PortableName(fk.target)]

PortableTable(t) ==
  [name |-> PortableName(t.name), fks |-> {PortableForeignKey(t, fk) : fk \in t.fks}]

IntrospectSchema ==
  [name       |-> NoNs,
   namespaces |-> {PortableName(t.name).ns : t \in Listed} \ {NoNs},
   tables     |-> SetToSeq({PortableTable(t) : t \in Listed}),
   sequences  |-> <<>>]

(***************************************************************************)
(* compareSchemas().                                                       *)
(***************************************************************************)
ShortestName(n, default) == IF n.ns = default THEN [n EXCEPT !.ns = NoNs] ELSE n

(* The tables by their shortest names: of two with the same, the last. *)
ByShortestName(s) ==
  [k \in {ShortestName(n, s.name) : n \in NamesOf(s.tables)} |->
     s.tables[CHOOSE i \in DOMAIN s.tables :
                /\ ShortestName(s.tables[i].name, s.name) = k
                /\ \A j \in i + 1 .. Len(s.tables) : ShortestName(s.tables[j].name, s.name) # k]]

SequencesByShortestName(s) == {ShortestName(n, s.name) : n \in ToSet(s.sequences)}

IsDefaultNamespaceAlias(ns, old, new) == ns \in {old.name, new.name}

IsAutoIncrementsFor(n, t) ==
  /\ t.name.base \in DOMAIN AutoIncrementOf
  /\ ShortestName(n, t.name.ns) = [ns |-> NoNs, base |-> AutoIncrementOf[t.name.base]]

IsAutoIncrementSequence(s, n) == \E t \in ToSet(s.tables) : IsAutoIncrementsFor(n, t)

(* Foreign keys are compared without their names, and by the name of the   *)
(* table they refer to without its namespace.                              *)
TablesDiffer(t, u) == {fk.target.base : fk \in t.fks} # {fk.target.base : fk \in u.fks}

CompareSchemas(old, new) ==
  LET oldTables == ByShortestName(old)
      newTables == ByShortestName(new)
      Created(ns, others) == {n \in ns \ others : ~IsDefaultNamespaceAlias(n, old, new)}
  IN [createdSchemas   |-> Created(new.namespaces, old.namespaces),
      droppedSchemas   |-> Created(old.namespaces, new.namespaces),
      createdTables    |-> DOMAIN newTables \ DOMAIN oldTables,
      alteredTables    |-> {k \in DOMAIN newTables \cap DOMAIN oldTables :
                              TablesDiffer(oldTables[k], newTables[k])},
      droppedTables    |-> DOMAIN oldTables \ DOMAIN newTables,
      createdSequences |-> {n \in SequencesByShortestName(new) \ SequencesByShortestName(old) :
                              ~IsAutoIncrementSequence(old, n)},
      droppedSequences |-> {n \in SequencesByShortestName(old) \ SequencesByShortestName(new) :
                              ~IsAutoIncrementSequence(new, n)}]

(* SchemaDiff.isEmpty() *)
IsEmpty(diff) == \A k \in DOMAIN diff : diff[k] = {}

-----------------------------------------------------------------------------
Init ==
  /\ platform \in Platforms
  /\ schema \in [name : {NoNs, Own}, namespaces : {{}}, tables : {<<>>}, sequences : {<<>>}]
  /\ server = EmptyServer
  /\ script = <<>>
  /\ call = [kind |-> "none", base |-> "other", status |-> "idle"]
  /\ edits = 0 /\ calls = 0

Next ==
  \/ \E ns \in Namespaces : CreateNamespace(ns)
  \/ \E n \in TableNames, to \in TableNames : AddTable(n, {to}) \/ AddForeignKey(n, to)
  \/ \E n \in TableNames : AddTable(n, {}) \/ DropTable(n)
  \/ \E old \in TableNames, new \in TableNames : RenameTable(old, new)
  \/ \E n \in SequenceNames : AddSequence(n) \/ DropSequence(n)
  \/ CreateSchemaObjects \/ DropSchemaObjects \/ ExecuteStatement \/ LoseConnection
  \/ \E n \in TableNames : CreateElsewhere(n) \/ DropElsewhere(n)

Spec == Init /\ [][Next]_vars

-----------------------------------------------------------------------------
(* What a schema must be for an empty server to accept all of it: nothing  *)
(* that depends on the order of its objects, so that tables may refer to   *)
(* each other in a circle.  It is the reference of the run, written from   *)
(* the rules of the servers; the schema objects accept more than that.     *)
GeneratedNamesDiffer(p, t, u) ==
  \A fk \in t.fks, gk \in u.fks :
     ForeignKeyId(fk) = ForeignKeyId(gk) => p # "sqlite" /\ Resolved(t.name).ns # Resolved(u.name).ns

Creatable(p, s) ==
  LET names == {Resolved(n) : n \in NamesOf(s.tables)}
      objects == NamesOf(s.tables) \cup ToSet(s.sequences)
  IN /\ s.sequences = <<>> \/ CreatesSequences(p)
     /\ SupportsSchemas(p) => Own \notin s.namespaces
     /\ \A n \in objects :
          n.ns \in {NoNs, Own} \/ (SupportsSchemas(p) /\ n.ns \in s.namespaces)
     /\ Cardinality({Resolved(n) : n \in objects}) = Cardinality(objects)
     /\ \A t \in ToSet(s.tables), fk \in UNION {t.fks : t \in ToSet(s.tables)} :
          IF p = "sqlite" THEN fk.target.ns = NoNs ELSE Resolved(fk.target) \in names
     /\ \A t, u \in ToSet(s.tables) : t # u => GeneratedNamesDiffer(p, t, u)

(* createSchemaObjects() on an empty server, undisturbed, goes through     *)
(* exactly when the schema can be created at all: the order of its         *)
(* statements never is the reason for a failure, and what is refused is    *)
(* what a caller could have told from the schema: a namespace that the     *)
(* server has of its own or that a rename left undeclared, a foreign key   *)
(* to a table that was dropped or renamed, two tables whose generated      *)
(* names were made under one name.                                         *)
CreatedIfPossible ==
  call.kind = "create" /\ call.base = "empty" =>
    /\ call.status = "done" => Creatable(platform, schema)
    /\ call.status \in {"failed", "unsupported"} => ~Creatable(platform, schema)

(* After createSchemaObjects() the comparator finds nothing to do but what *)
(* introspection never shows: sequences, and namespaces without a table.   *)
(* Tables that name the namespace of the server's own settle when the      *)
(* schema is configured with its name.                                     *)
Settles ==
  call.kind = "create" /\ call.base = "empty" /\ call.status = "done" =>
    LET diff == CompareSchemas(IntrospectSchema, schema)
        sequences == {n \in SequencesByShortestName(schema) :
                        ~IsAutoIncrementSequence(IntrospectSchema, n)}
    IN /\ diff.createdSchemas =
            schema.namespaces \ (IntrospectSchema.namespaces \cup {schema.name})
       /\ diff.createdSequences = sequences
       /\ (schema.name = NoNs /\ \E n \in NamesOf(schema.tables) : n.ns = Own)
          \/ IsEmpty([diff EXCEPT !.createdSchemas = {}, !.createdSequences = {}])

(* What a schema asks for is what the server has afterwards, and what the  *)
(* comparator then sees.                                                   *)
CreatesSchema == CreatedIfPossible /\ Settles

(* dropSchemaObjects() takes away whole what createSchemaObjects() has     *)
(* made of the same schema, whatever refers to what in it.  Namespaces     *)
(* stay, so that creating the schema again may fail.                       *)
DropsWhatItCreated ==
  call.kind = "drop" /\ call.base = "whole" =>
    /\ call.status \in {"running", "done"}
    /\ call.status = "done" => server.tables = {} /\ server.sequences = {}

(* No call on the schema takes a table of another application with it, nor *)
(* its foreign keys to the tables of the schema: dropping those fails.     *)
OthersKept == [][\A t \in server.tables : t.name = Foreign => t \in server'.tables]_vars
=============================================================================
