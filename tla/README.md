# datazen-ts in TLA+

TLA+ models of datazen-ts, the TypeScript port of Doctrine DBAL (paths below are
relative to the repository), the TLC runs that check them and the proofs TLAPS
checks.

## 1. The system and what can go wrong in it

| Component | State it keeps | Operations | Interacts with | What is hard, and what makes it correct |
| --- | --- | --- | --- | --- |
| `Connection` (`src/connection.ts`) | driver connection, nesting level, rollback-only mark, auto-commit flag, platform (or the promise of one), isolation level | `connect`, `executeQuery/Statement`, `beginTransaction`, `commit`, `rollBack`, `transactional`, `setAutoCommit`, `setRollbackOnly`, `close`, savepoints | awaits the adapter; asks the platform for SQL; lets the exception converter decide when it resets itself | every await may fail, and `finally` blocks and resets run in between: level, mark, adapter and server session must keep telling the same story |
| Driver adapters (`src/driver/{sqlite3,pg,mysql2,mssql}`) | whether a transaction is active, the client borrowed from a pool, mssql's queue | `beginTransaction`, `commit`, `rollBack`, `exec`, `executePrepared`, `close` | the database client, pools | which failures end the transaction, who gives a borrowed client back, who waits for whom |
| `PrimaryReadReplicaConnection` (`src/connections`) | one cached driver connection per role | the above, plus switching to the primary | `Connection`'s protected accessors | never write to a replica, never leave the primary in a transaction, stale cached connections |
| Exception converters (`src/driver/api`) | none | `convert` | vendor errors to exception classes | a class decides whether the Connection resets, and so whether a live transaction is forgotten |
| `Statement` (`src/statement.ts`, `src/driver/*/statement.ts`) | bound values, the adapter it was prepared on | `bindValue`, `execute` | Connection | rebinding while an execution waits, outliving the adapter |
| `Result` (`src/result.ts`, `src/driver/*/result.ts`) | rows, cursor | `fetch*`, `iterate*`, `free` | adapters' results, portability | readers that share the cursor, the end of the rows against NULL |
| Parameter handling (`src/sql/parser.ts`, `src/expand-array-parameters.ts`) | none (passes over the SQL) | `parse`, `expand` | Connection's compile step, the adapters | placeholders inside strings, positions after an array is expanded, passes that disagree |
| Query builder (`src/query`, `src/sql/builder`) | the parts of a query, the SQL it caches, the parameters | builder methods, `getSQL` | Connection, platforms' SQL builders | a cached SQL that no longer is what the parts say, predicates regrouped, joins lost |
| Schema objects and editors (`src/schema`) | tables, columns, indexes, constraints, the names they are stored under | `add*`, `drop*`, `rename*`, editors' `create` | each other: dropping a column changes indexes and keys | names and objects that no longer match, half done changes |
| Comparator and diffs (`src/schema/comparator.ts`) | none | `compareSchemas`, `compareTables` | platforms | applying the diff of A and B to A must give B |
| Platforms (`src/platforms`) and types (`src/types`) | type mappings | declarations and DDL, DDL order for a diff | Connection, Comparator | order of statements, what a dialect supports, what it keeps of a declaration |
| Schema managers and metadata providers (`src/schema`, `src/platforms/*`) | the platform | introspection, DDL execution | Connection | partial DDL, catalogues that another session changes meanwhile, two readers of one catalogue |
| Portability (`src/portability`) | flags | conversions of fetched rows | driver middlewares | order of conversions |
| Logging, middlewares, `DriverManager`, DSN parser, configuration | parameters | wrapping, `getConnection` | all of the above | order of wrapping |

The behaviours that make this code hard are listed, line by line, under "hazards"
in `PROJECT.json`. The properties below come from that list.

## 2. The modules

| Module | Part of the code | Built on |
| --- | --- | --- |
| `DriverConnection` | the adapters and the session they reach | |
| `Connection` | `src/connection.ts` and its callers | extends `DriverConnection`, instantiates `NestedTransaction` |
| `NestedTransaction` | abstract: what nested transactions promise | |
| `Pool` | several Connections on one pool: borrowing, returning, mssql's queue | |
| `PrimaryReadReplica` | `src/connections/primary-read-replica-connection.ts` | |
| `Failures` | the exception converters and the errors they get | |
| `Statements` | prepared and direct statements of two tasks, with errors | `Failures` |
| `Parameters` | normalising, parsing, expanding, renaming, binding | |
| `QueryBuilder` | `src/query/query-builder.ts` and the SQL builders | `OrderedMap` |
| `Results` | `Result`, the adapters' results, portability | `OrderedMap` |
| `OrderedMap` | the string-keyed objects and Maps | |
| `Table` | `src/schema/table.ts` | `OrderedMap` |
| `TableEditor` | `src/schema/table-editor.ts` | `Table` |
| `Comparator` | `compareTables` of `src/schema/comparator.ts` | `Table` |
| `AlterTable` | a migration: `getAlterTableSQL` of PostgreSQL, `alterTable` of the schema manager | `Comparator`, `TableEditor` |
| `ColumnTypes`, `ColumnCatalogue` | declarations of every type on five servers, and how they are read back | one on the other |
| `ColumnMigration` | one column changed from one declaration to another | `ColumnCatalogue` |
| `Constraints` | indexes and foreign keys: comparison, statements, introspection | |
| `ConstraintMigration` | two instances of an application that migrate a table | `Constraints` |
| `Schemas` | `Schema`, the statements that create and drop it, `compareSchemas` | |
| `MC*` | constants for TLC | |
| `ConnectionProofs`, `PoolProofs`, `PrimaryReadReplicaProofs`, `StatementsProofs`, `ResultsProofs`, `ColumnMigrationProofs`, `SchemasProofs` | proofs about the module of that name | |
| `TableProofs` | proofs about `Table` and `TableEditor`, as `AlterTable` composes them | |

### Connection and adapters

`DriverConnection` is the state of one Connection object together with its adapter
and the session its statements reach, and the adapters' operations on it.
`Connection` extends it with the methods of `Connection` and the callers.

An operation is an operator from a state to the set of its outcomes: a state and
the way the promise settles. A method that awaits others composes their outcome
sets in the order of the code, so that every combination of failing awaits,
`catch` and `finally` blocks is there. An action of `Connection` is one call of a
public method, from the call to the settled promise.

| TLA+ | code |
| --- | --- |
| `c.connected`, `c.platform` | `driverConnection`, `databasePlatform` being set |
| `c.level`, `c.rollbackOnly`, `c.autoCommit` | the fields `transactionNestingLevel`, `rollbackOnly`, `autoCommit` |
| `c.inTx` | the adapter's `inTransaction` (sqlite3, pg), `transactionConnection`, `transaction` being set (mysql2, mssql) |
| `c.tx`, `c.durable`, `c.aborted`, `c.alive` | the server: savepoint frames with the writes in them, durable writes, PostgreSQL's aborted state, whether the client still works |
| `Convert`, `Reset` | `convertException` and `resetConnectionState` |
| `calling` | the loop of `commitAll` between two commits |
| `scopes`, `rejected`, `doomed` | nothing: they remember what the callers were promised |

What is abstracted: a write is a model value and is executed at most once; SQL text
is left out; a statement whose answer is lost is not executed, except `COMMIT` and
`ROLLBACK`, which may have been; one session is reachable at a time (a pool hands
out the session that is idle; one that a reset orphaned disappears together with
its transaction); clients belong to the application, except the database that
sqlite3 opens from a path, as the drivers do unless `ownsClient` is passed.
`params.serverVersion` and `params.platform`, user-named savepoints and platforms
without savepoints (Db2) are not modelled. Calls do not overlap: one is settled
before the next begins.

### Pool

Several adapters of one driver borrow clients from one pool. A call is split where
it awaits: it is asked for, waits for a client (`acquiring`) or for its turn in
mssql's queue (`lined`), runs on a client, is answered. `free` and `queue` are the
pool; `session` is, for each client, the adapter whose transaction is open on it and
who wrote in it, a server-side truth no adapter sees; `adapter` holds the fields
`transactionClient`, `transactionConnection` or `transaction`; `line` is
`serialQueue`. With mssql two tasks may use an adapter at once, with the others one
at a time. The pool serves in the order of the requests. A client that breaks inside
the pool and the option `ownsClient` are left out.

Two behaviours of the code are excluded from the run by constants, and named here: a
`BEGIN` that fails leaves pg's and mysql2's adapter with a client (`Faults` of the
instance lacks them; with mysql2's, `NoneLost` fails, with pg's and one client,
`Answered`); mysql2's `close()` returns a client with its transaction open
(`Abandoning`; with it, `Isolated` fails).

### PrimaryReadReplica

Here calls overlap. A call is a sequence of steps, each the code between two awaits
(`Program`); a step may put others in front of the rest, as `connect()` does.
`conns` are the driver connections opened so far, `current` is the field
`driverConnection`, `cache` the field `connections`, `level` the nesting level. Of
the server a connection knows its role, whether it lives and is in a transaction.
What `Connection` models in detail is reduced to what routing depends on. `last`
and `stuck` remember the last statement a server executed and whether reads have to
stay on the primary; `crossed` that a call changed the connection or the level in
the middle of another call, after which nothing is promised and the behaviours are
followed no further.

| TLA+ | code |
| --- | --- |
| `Program`, `CallStarts` | the overridden methods: `ensureConnectedToPrimary()`, then the inherited method |
| `EnsureConnected`, `PerformConnect` | `ensureConnectedTo*()`, `performConnect()` |
| `Open`, `CacheWith` | `connectTo()` and the assignments after its await |
| `Connect`, `Adopt`, `Connected` | `Connection.connect()` before, after its await, and after the transaction that auto-commit off begins |
| `BeginTransaction`, `Commit`, `Left`, `RollBack`, `LeftNested` | the transaction methods, `Left` being the `finally` block of `commit()` |
| `Close` | `close()`; it waits for the other tasks, as an application must |

### Failures and Statements

`Failures` is each converter as a list of rules, the first that matches naming the
class, and for each package the errors its servers and sockets produce (external:
the fields that may hold the number or code). `Statements` puts two tasks on one
Connection, one with a prepared statement, with answers that are those errors.
`call[t]` is what task t awaits, with what it asked for and what the server used;
`client` is what each adapter has of the pool: none, a transaction (`open`), or a
client whose session is lost (`dead`). A session is lost while it answers. `Differs`
names where the converters of different servers give one failure different classes,
`Mistaken` the failures that are taken for a lost connection while the session lives.

### Parameters and QueryBuilder

`Parameters` follows one call from the application to the server. SQL is a sequence
of the characters the parser distinguishes; `Intended` is the reference: what an
application that knows its own server's literals means. `Received` is what the
server reads, after each pass has rewritten the statement. Two passes may disagree
on where a literal ends: `ReadWrong` and `Unresolved` name those cases.

`QueryBuilder` has two builders, one of which may embed the other, and lets `getSQL()`
be called between any two calls. SQL is the record of its clauses; a placeholder
carries the value it was created for. `meaning` remembers what the calls of
`where`, `andWhere`, `orWhere` mean as truth functions.

### Results

The rows each adapter makes of an answer, the driver's result with its cursor, the
portability middleware between, and `Result` with its fetches and generators.
`delivered` is what the application got, in order; `ended` that it was told there is
no more; `cut` that it freed the result or left a generator that was reading.

### Table, TableEditor, Comparator, AlterTable

A method of `Table` is an operator from a table to its outcome: the table it leaves
and whether it threw. Operations that throw half-way leave what the code leaves.
Names are sequences of strings, so that a generated name (a hash in the code) is
the sequence of what it is generated from and two differ when their sources differ.
A column is its type. Maps remember the order of insertion, because the comparator
and the SQL follow it. `history` and `origin` remember what the properties need: a
call that threw half-way, an index that the application dropped, columns that are
gone, and the column of the original table that each column came from.

`TableEditor` takes a table apart (`EditTable`), changes the parts by the editor's
calls and puts them together again (`Create`), through the same constructor as every
other table. Renames are forgotten by `create()`, which the code does as well. Names
are given; the primary key is added as a constraint; a foreign key that only the
primary key served gains an index of its own.

`Comparator` is `compareTables` with every `ComparatorConfig`: columns by name,
then the renames the table remembers, then the detected ones; indexes by name, with
primary keys matched to each other, then detected renames; foreign keys matched
greedily in their order. Its results are the records a `TableDiff` holds.

`AlterTable` puts a database beside the table. Its phases are `editing` (the calls
above), `altering` (the statements of the diff are executed one by one, outside of
a transaction), `interrupted` (after any statement; the migration starts again from
the table as it is read back), `failed` and `done`. What PostgreSQL does with a
statement is external: `Fails` and `Executed`. A column in the database carries the
name of the column its data came from. `Introspected` is the table read back; it
passes through the constructor of `Table`, which indexes foreign keys.

What the migration properties leave aside, each of which TLC finds when the condition
is dropped:

- `DropsIndexedColumn`: `getAlterTableSQL` drops columns before the indexes and
  foreign keys on them, PostgreSQL drops these along, and the `DROP` fails.
- `InventsIndex`: interrupted after the `DROP` of an index that a foreign key needs,
  the table read back has an index that the database does not have.
- `ReusesName`: a foreign key that was matched under another name, or an index that
  is renamed, takes a name which is dropped only later.
- `Whole`: the table is one a database can hold: its references resolve, its foreign
  keys are indexed, its primary key has no name of its own (PostgreSQL chooses it).
- `Tracked`: a swap or a chain of renames through names that existed before cannot be
  told from unchanged columns.

Left out: index options and flags, targets and options of foreign keys, column
properties other than the type, comments, the comparison of unique constraints
(the code does not compare them either, only their indexes).

### ColumnTypes, ColumnCatalogue, ColumnMigration

The composition of types, platforms, managers and metadata for one column on MySQL,
MariaDB, PostgreSQL, SQLite and SQL Server. `AbstractDeclaration` is what
`getSQLDeclaration()` and the platforms' `get*TypeDeclarationSQL()` produce, a record
instead of text; `Catalogue` is what a server keeps of it (external); `Read` is
`_getPortableTableColumnDefinition()` and `createColumnFromMetadataRow` the metadata
providers' reading. `ColumnMigration` compares, builds the list of statements of
`getAlterTableSQL()` and executes it one by one; it may be interrupted between two
and starts again from what it then reads. `Unfaithful`, `ProviderDiffers` and the
operators under `NoOtherRefusal` are the exceptions: the properties say that no other
column is read differently or refused. Four changes may be refused: on PostgreSQL one
that ends an identity together with another change (`IdentityEndsLast`); on SQL Server
one of a column whose `DEFAULT NULL` was bound by `ADD` (`NullDefaultBound`), or of an
ascii string with a default that becomes a string, since `VARCHAR` is read as the type
that is wanted and its constraint is not dropped (`AsciiIsString`); on SQLite, adding a
column whose default is the time without a rebuild (`TimeAdded`).

### Constraints and ConstraintMigration

The same for indexes and foreign keys, for two instances that run at once: each reads
columns, indexes and foreign keys by separate queries, compares, and executes its
statements one by one. One may stop anywhere, and the table they find may be half
created. `overlapped` remembers that they ran at the same time. Servers are external
(`Refuses`, `After`).

### Schemas

A `Schema` is built by its calls, then created and dropped on a server, statement by
statement, while other sessions create and drop tables and the connection may be lost,
and then read and compared. `Creatable` is the reference: what any order of statements
could create on an empty server. Assumed: the schema is complete before its first
call on the server; introspection is one step here (`ConstraintMigration` splits it);
names that differ by case or quotes are one name; no namespace is ever dropped by the
code; alterSchema is refused where the manager does.

## 3. The runs

| Run | Bounds | What it asks and shows |
| --- | --- | --- |
| `pg_failures` | 2 writes, 2 levels, 3 frames; failing and lost statements, COMMIT and ROLLBACK that end the transaction and fail; auto-commit changed at any time | `CleanOutside`: nothing of a lost connection's transaction survives it; `DoomedNeverDurable`: a rollback-only transaction is never committed; `ReadyToBegin`: an adapter at level 0 accepts a new transaction; `TypeOK` |
| `mssql_nesting` | 2 writes, 3 levels, 4 frames, no faults, savepoints never released | `LevelsAgree`: Connection, adapter, server and savepoints agree, and `transactional()` is all or nothing; `KeepsPromise`: the refinement of `NestedTransaction`; `CommitAllEnds` |
| `prr_routing` | two tasks: one makes every call, one reads and writes; both options on and off; 3 driver connections, 2 levels; refused connects, lost connections | `Routed`: writes go to the primary, reads after them too, without `keepReplica` there is no way back; `Pinned`: a transaction stays on the connection it was begun on |
| `shared_pool` | two Connections, one of them with two tasks; one client (mssql: two, since a request may need one beside a transaction's); 3 calls of each task; every fault but the two named under Pool | `Isolated`, `NoneLost`; `Answered`: every call is answered while others hold the clients and requests before it fail |
| `statements` | two tasks, one prepared statement, two values, six kinds of failure, the four drivers | `Classified`: one failure has one class on every server, but for `Differs`; `ValuesOfCall`, `InsideTransaction`: what an execution sends and where; `LiveTransactionKept`: an open transaction is forgotten only over errors in `Mistaken`; `Recovers`: the Connection gets away from a lost session |
| `parameters` | every statement of up to five characters; scalar, converted and array parameters; executed and prepared; the four adapters | `BoundAsMeant`: every placeholder gets its own value and type, literals stay; `Accepted`: nothing well-formed is refused |
| `query_builder` | up to four calls on each of six topics, `getSQL()` between any two | `SQLOfItsParts`: a cached SQL is that of the parts, no join is lost; `PredicatesMean`: predicates keep their grouping; `NamedBound`: named placeholders have their values |
| `results` | answers of up to three rows and two columns, with the cells and labels that conversions tell apart; two generators that share the cursor; portability on and off | `AsSent`: every row once, whole, in order; `NoneLost`: who hears of the end has missed nothing |
| `schema_migration` | 3 column names, 2 types, 4 column lists, 1 given name, 3 calls on each of 2 tables, 1 interruption, every comparator configuration | `TableConsistent`: the maps of a table agree; `RebuildKeeps`: an editor gives back what it was given, and no index more than a foreign key gains; `MigrationReaches`; `DataKept`: renamed columns keep their data |
| `column_migration` | a column of every type and every option that its servers tell apart, five servers, 2 migrations, 1 interruption | `ReadBack`: what is declared is read back; `Settles`; `NoOtherRefusal`: the order of the statements; `RowsKept`; `ProvidersAgree`: managers and metadata providers read the same |
| `constraint_migration` | 19 versions of a table, pairwise; two instances; one may stop; five servers | `ReadBack`, `Migrated`, `NoOtherRefusal`; `Protected`: what both versions enforce is enforced throughout |
| `schemas` | 3 edits, 3 calls; 4 tables in 3 namespaces, 2 sequences; foreign sessions; the connection may be lost; four servers | `CreatesSchema`: what can be created is created and then compares equal; `DropsWhatItCreated`; `OthersKept` |

Why the bounds are enough. Levels matter as "outermost", "nested" and "nested in
nested", so three levels show every case of the code's `level === 1` tests; four
frames leave room for one savepoint name that exists twice; two writes tell a write
that is undone from one that stays. Three driver connections are one for each role
and one that replaces a lost or closed one. On a pool, two Connections show every
theft of a client and a third changes nothing but the waiting; `PoolProofs` removes
the bound for all but `Answered`. A statement knows its adapter and the one that
replaced it: five names of adapters are enough for all that are referred to at once,
and one more to open, which `StatementsAssumption` states. Five characters hold a
literal with a placeholder in it, an escape, and a placeholder beside. Four calls on
a builder are two clauses, the SQL that is cached between, and a change. Three rows
are the first, one in the middle and the last. Three calls on a table are a chain of
two renames and another change, or an index, its rename and the drop of what it is
over; a third column name is the free one that a rename needs; the list over two
columns is what tells an index over a column from one that starts with it. One
interruption leaves the database in every state between two statements, and a second
would leave it in one of the same shape.

Deadlock checking is off everywhere: a caller may stop calling, a migration may have
failed or be done, and the bounds stop the rest.

Fairness. `CommitAllEnds` has weak fairness on the action `CommitAll`: the loop
awaits each commit and then continues by itself. `Answered` has it on what pool,
server and event loop do (`Grant`, `CreateRequest`, `Answer`), because promises are
settled and the pool serves in order, and on `End`, because an application that never
ends its transactions keeps its clients. `Recovers` has it on the steady task, which
goes on calling and is answered. No call is assumed to succeed.

## 4. The proofs

Each theorem holds for every value of the constants that the module's assumptions
admit: any number of tasks, Connections, clients, levels, writes and faults.

| Theorem | Says of every behaviour | Supposes |
| --- | --- | --- |
| `TypeCorrect`, `AlwaysCleanOutside` | `TypeOK`, `CleanOutside` | |
| `AlwaysReadyToBegin` | `ReadyToBegin` | (states it for pg and mysql2) |
| `AlwaysDoomedNeverDurable` | `DoomedNeverDurable` | `NoneLeftBehind` |
| `AlwaysLevelsAgree` | `LevelsAgree` | `NoFailures` |
| `Implements` | `KeepsPromise`: `Connection` implements `NestedTransaction` | `NoFailures` |
| `OneAtATime`, `ClientsConserved`, `Isolation` | mssql's requests one at a time; `NoneLost`; `Isolated` | for the last two: mysql2's `BEGIN` does not fail; its `close()` is not called in a transaction |
| `AlwaysRouted`, `AlwaysPinned` | `Routed`, `Pinned` | |
| `AlwaysValuesOfCall`, `AlwaysInsideTransaction`, `AlwaysLiveTransactionKept` | `ValuesOfCall`, `InsideTransaction`, `LiveTransactionKept` | |
| `AlwaysNoneLost`, `AlwaysAsSent` | `NoneLost`, `AsSent` of `Results` | |
| `AlwaysRowsKept`, `AlwaysNoOtherRefusal` | `RowsKept`, `NoOtherRefusal` of `ColumnMigration` | for the second: `ColumnsAssumption` |
| `AlwaysOthersKept`, `AlwaysDropsWhatItCreated` | `OthersKept`, `DropsWhatItCreated` | |
| `AlwaysTableConsistent`, `AlwaysRebuildKeeps` | `TableConsistent`, `RebuildKeeps` | |

**`ConnectionProofs`** has the invariant `IInv`: `TypeOK` and, of the state of the
Connection, `Good`: a disconnected Connection is at level 0 without adapter
transaction, the mark implies a level, and (pg, mysql2) level 0 implies that the
adapter is out of its transaction. `CleanOutside` alone would not be inductive for the
adapters that must release: a `commit()` relies on what the adapter's finally block
left. The lemmas follow the code, bottom up: what a statement may do to the session
(`Served`), what an adapter's transaction call may do (`Driven`), then one lemma per
method of Connection saying that from a `Good` state all its outcomes are `Good`; the
step from one state to the next is one case per action.

Its second part proves `DoomedNeverDurable` from `MarkInv`: without the mark no
doomed write is pending on the server, and unused writes are nowhere. It needs that a
session in a transaction belongs to a Connection that knows it (`Sound`), so the same
bottom-up lemmas are stated once more, for what a call may make durable (`Keeps`). The
hypothesis `NoneLeftBehind` names where the code does not have the property, and TLC
finds the counterexample in each: mysql2 and sqlite3, whose adapters can be out of step
with a transaction that is still open; a database that refuses to end a transaction and
leaves it open (`"open"` in `EndFailure`); and a pg client of the application after an
error that is taken for a lost connection (`"denied"`, not pooled).

Its third part is the refinement. The abstract state is a
stack of levels with the writes of each; the concrete one is the sequence of savepoint
frames on the server, where names are reused and may exist twice (SQL Server releases
none, and a rollback to a savepoint keeps it). `Splits(tx, st, p)` relates the two: `p`
gives for each level the latest frame of its savepoint's name, these frames are in
order, and the writes of a level are those from its frame up to the next level's.
First comes what a savepoint, a write, a release and a rollback do to a
split, with frames of any names between. The inductive invariant `NestInv` is that some
stack agrees with Connection, adapter and server (`Agrees`), and that the callers of
`transactional()` own the writes that they may still have undone (`Owned`). Each call
either leaves the stack and what is durable or does a step of `NestedTransaction`
(`Moves`), one lemma per method of the code. `LevelsSplit` says that the stack is the one
the refinement mapping computes, so both theorems follow. They suppose `NoFailures`:
with failures the code does not have the property (section 5), and mysql2's `close()`
hands a pooled session back with its transaction open, which the next user of that
session commits.

**`PoolProofs`** proves from `PoolAssumption` (one task of each Connection begins
transactions; names that differ). Its `IInv` says who may hold a client. `Waiting` and
`Lined`: who waits for a client waits once, and in a line only the first is under way.
`Turns`: but for mssql a Connection has one task at a time, and transactions are their
owner's. `Held`: where each call has its client from - the adapter's, or one that it
keeps for itself, which is a statement outside a transaction or a begin that is not
answered yet. `Apart`: no client is in the pool and held, or held twice. `Held` and
`Apart` need each other: that a released client had one holder is `Apart`, that the
adapter's client is the one released is `Held`. `Isolated` then takes one fact more
about the servers, `Owned`: a session in a transaction is the client of the adapter that
began it. There is one lemma per action; the calls that begin on a client, that wait for
one, and the answers that leave the adapter as it is share one each.

**`PrimaryReadReplicaProofs`** proves both properties for any number of tasks that make
any calls. A call is the sequence of steps it has left, so the invariant speaks of what
is still to come: `Demands(todo)` says that a sequence ends in a statement that needs the
primary without a step before it that switches there, and `Holds` that whoever is past
the switch holds a connection to the primary, and the one of the transaction when one
is open. `Sound` is what the Connection has in common: the current connection is one of
those opened, a cached connection has the role it is cached under, a transaction is on
the primary. All of it until `crossed`.

**`StatementsProofs`** has `IInv`: a Connection in a transaction has an adapter with a
client (`ConnInv`), the driver's statement has bound what the `Statement` remembers
(`BoundInv`), and an execution in flight keeps the client of its transaction and the
value it was called with until someone binds again (`CallInv`). New adapters get names
that nobody uses; that there is one is a counting lemma over `StatementsAssumption`. For
`LiveTransactionKept` the rules of the four converters are evaluated inside the proof, one
by one: each reset of the Connection is traced to the rule that fired and so to
`Mistaken`.

**`ResultsProofs`** proves both properties from an `IInv` that counts: while nobody took
the rest of the rows as one object and nobody freed the result, what was delivered and
what is left in front of the cursor are together the rows of the answer (`CountOf`); a
result that was freed by a reader that leaves has no rows (`cut`); and the row behind
the k-th thing delivered is the k-th row (`FaithfulOf`, `KeptOf` for objects by key).
`NoneLost` alone would not be inductive: that a reader who finds nothing left has missed
nothing is a sum of what all readers took. The first part is about the data, so that
the rows are known at all: an object made of entries is a fold, of which `OneByOne` gives
the intermediate objects, and from them it follows which keys and values a row has in
each adapter, what the converter makes of it, and what an object by keys keeps. That
the portability middleware may merge columns whose names differ by case, and a package
those of the same name, is in the properties (`Merged`, `Ambiguous`).

**`ColumnMigrationProofs`** first proves `RowsKept`. Its `IInv` relates the statements that are
left to where the rows are: a script in progress is `Harmless`, with no statement that
moves rows, or it is what is left of SQLite's rebuild before its k-th step (`RestOf`),
and then the rows are where the steps before have put them (`Place`). That every script
is one of the two is a lemma for each platform's `getAlterTableSQL()`, for any two
declarations of a column.

Its second part proves `NoOtherRefusal`. `OrderInv` says of a migration in progress that
what is left of it (`Remaining`) is in the order of its platform (`InOrder`:
each statement has a rank, and the ranks grow) and fits what the server holds by then
(`PostgreSQLScript`, `SQLServerScript`, `SQLiteScript`): PostgreSQL's identity is dropped
after all else, SQL Server's constraint is dropped before what it stands in the way of,
a column is added only where there is none. For each server there is a lemma that the
statements of any creation or change are such a script (`CreatedIn...`, `AlteredIn...`),
one that executing the first leaves such a script (`LeftIn...`), and one that a
statement of such a script is refused for a named reason only (`RefusedBy...`). Of the
columns that are stored it needs what the servers guarantee (`PostgreSQLColumn`: an
identity has no default; `SQLServerColumn`; `SQLiteTable`, which also says that a column
added to rows has a value for them), and of those that are declared `ColumnsAssumption`:
an autoincremented column is an integer without default, and a default that is declared
is not the empty text. Whether SQL Server's type changes is decided on what the manager
reads (`ReadAsDeclared`: a type that is read as `c`'s is declared as it was, ascii strings
apart); the attempt to prove this without the exception is how `AsciiIsString` was found,
and `TimeAdded` came to include the column whose default is the text of the time.
MySQL and MariaDB refuse none of the statements in the model.

**`SchemasProofs`** proves the action property `OthersKept`: `TypeInv` says that the script
in progress consists of statements about the tables of the schema (`Statements`), none of
them a `DROP TABLE` with what depends on it. Each edit of a schema keeps its type, and
`toSql()` and `toDropSql()` of any schema of that type give such scripts. A statement
then changes no table but the one it names, and none of the foreign ones is named.

`DropsWhatItCreated` needs to know what a server has half-way through a script. `IInv`
adds to `TypeInv` what the schema object guarantees (`Declared`: no two tables and no two
sequences of one name, no two foreign keys of a table with one identifier), and for the
two calls: while an empty server is created upon, the statements that were executed and
those that are left are together `toSql()`, and the server has what the executed ones
make and nothing else (`Creating`, `Made`); while such a server is dropped, what is left
of `toDropSql()` takes away exactly what the server still has, each thing once, and
tables after what refers to them (`Dropping`, `Undoes`). The property alone says only how
it ends. One lemma says what each kind of statement adds to what was made
(`StatementMakes`), one that the statements of a drop are accepted in their order and
leave what the rest undoes (`StatementUndoes`), and one that `toDropSql()` undoes what
`toSql()` makes, for any schema (`MadeIsUndone`): the same pass over tables, foreign keys
and sequences, in the order of the platform. Two tables whose names the server resolves
to one never get that far: the second is refused, and the call is no longer `whole`.

**`TableProofs`** proves `TableConsistent` and `RebuildKeeps` for any columns, names and
lists of columns, over the calls of a table and of its editor. `IInv` adds what the
property rests on but does not say. Of the table: no name is given twice, an index holds
no column twice (which is why the index of a foreign key is found by its distinct
columns), only the index that is named as primary is primary, and it is unique
(`WellMade`), and the primary key that is named exists (`KeyHeld`). Of the editor: it
has set the primary indexes apart, and all it holds is over columns it has
(`EditorHolds`), so that what `create()` adds can be added; a column that it drops is
remembered in `gone`. `TableConsistent` alone would not be inductive: a constraint is
satisfied with an index over its very columns, which are the distinct ones only because
every index's are, and `renameIndex` drops an index and builds it anew from its columns.
That a rename keeps the index of a constraint is a lemma about the folds: replacing a
column and dropping repetitions may change places. There is one lemma for each method of
`Table`, which says what it leaves when it returns and what when it throws half-way
(`Kept`, `Sound`, `SoundAndIndexed`), one for each kind of call of the editor, and one
for `create()`. The methods and `create()` are folds: `FoldExists` gives the values a
fold goes through, one by one, and each fold has a lemma that says what holds of all of
them. `RebuildKeeps` follows from the same `IInv` by going through `create()` once more:
`Rebuilt` says what has been given back after each index, foreign key, primary key and
unique constraint. An index that a foreign key gains is told by its name, which is
generated from the columns, so it can be refused only when that name was given before.
It supposes of the constants that names are strings (`TableAssumption`) and that the
tables an application starts with were built whole by the class (`OldTablesAssumption`).

Model-checked only:

- `CommitAllEnds`, `Answered`, `Recovers`: liveness under fairness is out of the
  prover's reach.
- `Classified` has no variables but the driver: TLC evaluates it for every driver and
  failure there is, and a proof would be the same table again.
- `MigrationReaches`, `DataKept`, `CreatesSchema`, the properties of
  `ConstraintMigration`, and the others of `ColumnMigration`: what they rest on is
  computed by folds, filters and choices over sequences (`Comparator`, `Introspected`,
  `CompareSchemas`). There is no induction over data here, as the library's theorems take
  an operator as a parameter, which the installed provers cannot instantiate. A single
  fold can be followed step by step over a set of numbers (`UpTo`, `OneByOne`,
  `FlattenOneByOne`, `FoldExists`); for the filters (`SelectSeq`) there is no such way,
  and of the others each would need its own.
- `SQLOfItsParts`, `PredicatesMean`, `NamedBound`, `BoundAsMeant`, `Accepted`: the modules
  have recursive operators, as the code has recursive functions.

## 5. Known disagreements

Where the code differs from what its documentation says, the models have the
behaviour of the code, and the runs above leave the case out by a constant or name it
in the property. Each was found by TLC and comes back when the condition is dropped.

| Code | Documentation | Seen with |
| --- | --- | --- |
| a failed `COMMIT` leaves the level (`src/connection.ts:645`) while SQLite keeps the transaction, so `transactional()` (`:510`) does not roll back | "guarantees rollback on failure" (`docs/transactions.md:31`) | `TransactionalAtomic`, `Adapter = "sqlite3"`, `EndFailure = {"open"}` |
| a savepoint that cannot be created leaves the level raised (`src/connection.ts:379`), a later commit takes it for a nested one | the same | `TransactionalAtomic`, `Adapter = "mssql"`, `Faults = {"fail"}` |
| an access error of MySQL is a ConnectionException and makes the Connection forget its live transaction (`src/connection.ts:1026`) | the same | `TransactionalAtomic`, `Adapter = "mysql2"`, `Faults = {"denied"}` |
| a read that opens its connection while a write does makes the replica current (`src/connections/primary-read-replica-connection.ts:213`) | "writes and transactions are routed to primary" (`docs/configuration.md:273`) | `Routed` and `Next` without `crossed` |
| with auto-commit off, switching to the primary connects without beginning a transaction (`src/connections/primary-read-replica-connection.ts:201`) | "connecting opens a transaction immediately" (`docs/configuration.md:225`) | `Open` puts no `Begin` before the statement that follows |
| a statement without parameters keeps `??` as it is, one with parameters sends `?` (`src/connection.ts:671`, `src/expand-array-parameters.ts:48`) | | `BoundAsMeant` without `Unresolved` |

## 6. What could follow

`Protected` of `ConstraintMigration`, as a theorem. `ConnectionAsync`: the methods of one Connection
split at their awaits, for two callers of `commit()`; the documentation asks for one
transaction at a time and the code has no guard. The metadata processors over names
and schemas, with the catalogues of `Schemas`.

## 7. What is not modelled

Listed with a reason under "components" in `PROJECT.json`: the text of SQL apart from
what the properties tell apart, keyword lists, name parsers, the conversions of single
types' values, `DriverManager`, the DSN parser, configuration, logging and the
middleware stack (the portability middleware is modelled), caching of results, and
Oracle and Db2, for which the repository has platforms but no adapters.
