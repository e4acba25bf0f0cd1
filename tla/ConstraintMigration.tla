------------------------ MODULE ConstraintMigration ------------------------
(***************************************************************************)
(* The indexes and foreign keys of a table are brought from one version of *)
(* the application to the next by several instances of it: each reads the  *)
(* table (introspectTable(): columns, then indexes, then foreign keys),    *)
(* compares it with the one it wants and executes the statements of        *)
(* getAlterTableSQL() one by one.  Any instance may stop anywhere; the     *)
(* table it finds may be one whose creation was interrupted.  Servers are  *)
(* external: Refuses and After say what they do.                           *)
(***************************************************************************)
EXTENDS Constraints, FiniteSets

CONSTANTS
  UsedPlatforms,
  Tables,          \* the tables that versions of the application want
  Admissible(_, _),\* whether a platform has what a table asks for
  Instances,
  MaxStops         \* bound: instances that stop

ASSUME ConstraintMigrationAssumption ==
  UsedPlatforms \subseteq Platforms /\ IsFiniteSet(Instances) /\ MaxStops \in Nat

VARIABLES
  platform,
  base,     \* the table of the version before
  wanted,   \* the table of this version
  created,  \* whether base was created to its end
  stored,   \* the table in the catalogue
  exists,   \* it exists
  rows,     \* it has its rows
  phase,    \* per instance: start, columns, indexes, running, done, refused, stopped
  read,     \* per instance: what it read so far
  pending,  \* per instance: statements not yet executed
  copy,     \* per instance: its temporary copy of the rows: none, empty, full
  overlapped, \* whether one began while another one was at work (history)
  latest       \* the one that began last (history)

catalogue == <<stored, exists, rows>>
choice == <<platform, base, wanted, created>>
history == <<overlapped, latest>>
vars == <<choice, catalogue, phase, read, pending, copy, history>>

NoTable == Table("none", <<>>, <<>>)
Active(p) == phase[p] \in {"columns", "indexes", "running"}

---------------------------------------------------------------------------
(* The server. *)

HasPrimaryKey(t) == OfKind(t.indexes, "primary") # <<>>
NotOfName(seq, name) == SelectSeq(seq, LAMBDA e : e.name # name)

(* What DROP INDEX finds.  MySQL's has to name the table; SQL Server's     *)
(* finds no index that is a primary key.                                   *)
Dropped(t, name) ==
  LET found(i) ==
        CASE platform = "pg" /\ name = "primary" -> i.kind = "primary"
          [] platform = "sqlserver" -> i.name = name /\ i.kind # "primary"
          [] OTHER -> i.name = name
  IN  [t EXCEPT !.indexes = SelectSeq(@, LAMBDA i : ~found(i))]

Refuses(t, there, p, s) ==
  \/ s.op \in {"copy back", "drop copy"} /\ copy[p] = "none"
  \/ s.op \notin {"create table", "drop copy"} /\ ~there
  \/ CASE s.op = "create table"      -> there
       [] s.op = "create index"      -> Named(t.indexes, s.arg.name)
       [] s.op = "add primary key"   -> HasPrimaryKey(t)
       [] s.op = "alter table"       -> IF s.arg.drops THEN ~HasPrimaryKey(t)
                                        ELSE s.arg.adds # <<>> /\ HasPrimaryKey(t)
       [] s.op = "drop index"        -> platform \in MySQL \/ Dropped(t, s.arg) = t
       [] s.op = "add foreign key"   -> Named(t.keys, s.arg.name)
       [] s.op = "drop foreign key"  -> ~Named(t.keys, s.arg)
       [] OTHER -> FALSE

Stored(t) ==
  [t EXCEPT !.indexes = Each(@, LAMBDA i : StoredIndex(platform, i)),
            !.keys = Each(@, LAMBDA k : StoredForeignKey(platform, k))]

After(t, s) ==
  CASE s.op = "create table" -> Stored(s.arg)
    [] s.op = "drop table"   -> NoTable
    [] s.op = "alter column" -> [t EXCEPT !.type = s.arg]
    [] s.op \in {"create index", "add primary key"} ->
         [t EXCEPT !.indexes = Append(@, StoredIndex(platform, s.arg))]
    [] s.op = "alter table"  ->
         [t EXCEPT !.type = s.arg.type,
                   !.indexes = Each(s.arg.adds, LAMBDA i : StoredIndex(platform, i))
                               \o (IF s.arg.drops THEN WithoutPrimary(@) ELSE @)]
    [] s.op = "drop index"       -> Dropped(t, s.arg)
    [] s.op = "add foreign key"  -> [t EXCEPT !.keys = Append(@, StoredForeignKey(platform, s.arg))]
    [] s.op = "drop foreign key" -> [t EXCEPT !.keys = NotOfName(@, s.arg)]
    [] OTHER -> t

Created(t) == FoldLeft(After, NoTable, getCreateTableSQL(platform, t))

---------------------------------------------------------------------------
(* The instances. *)

Init ==
  /\ platform \in UsedPlatforms
  /\ base \in {t \in Tables : Admissible(platform, t)}
  /\ wanted \in {t \in Tables : Admissible(platform, t)}
  /\ \E n \in DOMAIN getCreateTableSQL(platform, base) :
       /\ stored = FoldLeft(After, NoTable, SubSeq(getCreateTableSQL(platform, base), 1, n))
       /\ created = (n = Len(getCreateTableSQL(platform, base)))
  /\ exists = TRUE /\ rows = TRUE
  /\ phase = [p \in Instances |-> "start"] /\ read = [p \in Instances |-> NoTable]
  /\ pending = [p \in Instances |-> <<>>] /\ copy = [p \in Instances |-> "none"]
  /\ overlapped = FALSE /\ latest = CHOOSE p \in Instances : TRUE

(* Without its columns, introspectTable() finds no table. *)
ReadColumns(p) ==
  /\ phase[p] = "start"
  /\ phase' = [phase EXCEPT ![p] = IF exists THEN "columns" ELSE "refused"]
  /\ read' = [read EXCEPT ![p].type = stored.type]
  /\ overlapped' = (overlapped \/ \E q \in Instances : Active(q)) /\ latest' = p
  /\ UNCHANGED <<choice, catalogue, pending, copy>>

ReadIndexes(p) ==
  /\ phase[p] = "columns"
  /\ phase' = [phase EXCEPT ![p] = "indexes"]
  /\ read' = [read EXCEPT ![p].indexes = listTableIndexes(platform, stored)]
  /\ UNCHANGED <<choice, catalogue, pending, copy, history>>

(* The last of the queries, after which nothing awaits until the first of  *)
(* the statements.                                                         *)
ReadForeignKeysAndCompare(p) ==
  /\ phase[p] = "indexes"
  /\ LET old  == Constructed([read[p] EXCEPT !.keys = listTableForeignKeys(platform, stored)])
         diff == compareTables(old, wanted)
         sql  == getAlterTableSQL(platform, diff, wanted)
     IN  /\ read' = [read EXCEPT ![p] = old]
         /\ pending' = [pending EXCEPT ![p] = IF Supported(platform, diff) THEN sql ELSE <<>>]
         /\ phase' = [phase EXCEPT ![p] = CASE ~Supported(platform, diff) -> "refused"
                                            [] sql = <<>> -> "done"
                                            [] OTHER -> "running"]
  /\ UNCHANGED <<choice, catalogue, copy, history>>

Execute(p) ==
  /\ phase[p] = "running"
  /\ LET s == Head(pending[p]) IN
     /\ ~Refuses(stored, exists, p, s)
     /\ stored' = After(stored, s)
     /\ exists' = (s.op # "drop table" /\ (exists \/ s.op = "create table"))
     /\ rows' = CASE s.op \in {"drop table", "create table"} -> FALSE
                  [] s.op = "copy back" -> rows \/ copy[p] = "full"
                  [] OTHER -> rows
     /\ copy' = CASE s.op = "copy rows" -> [copy EXCEPT ![p] = IF rows THEN "full" ELSE "empty"]
                  [] s.op = "drop copy" -> [copy EXCEPT ![p] = "none"]
                  [] OTHER -> copy
  /\ pending' = [pending EXCEPT ![p] = Tail(@)]
  /\ phase' = [phase EXCEPT ![p] = IF Len(pending[p]) = 1 THEN "done" ELSE @]
  /\ UNCHANGED <<choice, read, history>>

Fail(p) ==
  /\ phase[p] = "running" /\ Refuses(stored, exists, p, Head(pending[p]))
  /\ phase' = [phase EXCEPT ![p] = "refused"]
  /\ UNCHANGED <<choice, catalogue, read, pending, copy, history>>

(* The temporary table goes with the connection. *)
Stop(p) ==
  /\ phase[p] = "running"
  /\ Cardinality({q \in Instances : phase[q] = "stopped"}) < MaxStops
  /\ phase' = [phase EXCEPT ![p] = "stopped"]
  /\ copy' = [copy EXCEPT ![p] = "none"]
  /\ UNCHANGED <<choice, catalogue, read, pending, history>>

Next ==
  \E p \in Instances :
    \/ ReadColumns(p) \/ ReadIndexes(p) \/ ReadForeignKeysAndCompare(p)
    \/ Execute(p) \/ Fail(p) \/ Stop(p)

Spec == Init /\ [][Next]_vars

---------------------------------------------------------------------------
(* Properties. *)

Introspected ==
  Constructed(Table(stored.type, listTableIndexes(platform, stored), listTableForeignKeys(platform, stored)))

(* A unique index of SQLite is read back as no index, a predicate only     *)
(* where the server keeps one, and there as the server writes it.          *)
Unfaithful(t) ==
  \E n \in DOMAIN t.indexes :
    LET i == t.indexes[n] IN
    \/ platform = "sqlite" /\ i.kind = "unique"
    \/ i.where # "" /\ ~(platform = "pg" /\ i.where = "in parentheses")

(* A table that was just created compares equal to the one it was created  *)
(* from, unless it is one of those that are known not to.                  *)
RoundTrips ==
  created /\ (\A p \in Instances : phase[p] = "start") =>
    (hasChanges(compareTables(Introspected, base)) <=> Unfaithful(base))

(* What the constraints of a table mean, their names and what the          *)
(* comparator ignores left out: the flags of indexes, the deferrability of *)
(* foreign keys, RESTRICT against NO ACTION.                               *)
IndexMeaning(i) == [cols |-> i.cols, kind |-> i.kind, where |-> i.where, lengths |-> i.lengths]
KeyMeaning(k) ==
  [cols |-> k.cols, to |-> k.to, onUpdate |-> normalizeReferentialActionString(k.onUpdate),
   onDelete |-> normalizeReferentialActionString(k.onDelete)]
Meaning(t) ==
  [type |-> t.type, indexes |-> {IndexMeaning(i) : i \in ToSet(t.indexes)},
   keys |-> {KeyMeaning(k) : k \in ToSet(t.keys)}]

(* A unique index of SQLite that only the old version has is never seen.   *)
Unseen ==
  /\ platform = "sqlite"
  /\ \E i \in ToSet(stored.indexes) :
       i.kind = "unique" /\ i \notin ToSet(Created(wanted).indexes) /\ i \in ToSet(Created(base).indexes)

(* The index that a foreign key implies is never missed in what was read.  *)
Interrupted == ~created \/ (\E p \in Instances : phase[p] = "stopped")
AsCreated ==
  \/ Meaning(IF Interrupted THEN Constructed(stored) ELSE stored) = Meaning(Created(wanted))
  \/ Unseen

(* An instance that reads and executes to its end alone leaves the table   *)
(* that createTable() would, from whatever was there: another version, a   *)
(* table half created or half migrated.                                    *)
MigratedAsCreated ==
  ~overlapped /\ phase[latest] = "done" => AsCreated

(* So do instances that ran at the same time, when none was refused and    *)
(* none stopped.                                                           *)
TogetherAsCreated ==
  (\A p \in Instances : phase[p] = "done") => AsCreated

(* Alone or together, after whatever came before: a migration that ends    *)
(* has made the table that is wanted.                                      *)
Migrated == MigratedAsCreated /\ TogetherAsCreated

(* Servers accept the statements of an instance that runs alone, but for   *)
(* what is known: no index can be dropped on MySQL, no primary key on SQL  *)
(* Server, where columns and constraints do not change together either;    *)
(* and a name of a key that stays under another one.                       *)
DropsNoIndex(p) == platform \in MySQL /\ Head(pending[p]).op = "drop index"
PrimaryKeyDropped(p) ==
  platform = "sqlserver" /\ LET d == compareTables(read[p], wanted).indexes IN
    OfKind(d.dropped \o d.modified, "primary") # <<>>
NotSupported(p) == platform = "sqlserver" /\ pending[p] = <<>>
NameTaken(p) ==
  /\ pending[p] # <<>> /\ Head(pending[p]).op = "add foreign key"
  /\ \E k \in ToSet(stored.keys), l \in ToSet(wanted.keys) :
       k.name = Head(pending[p]).arg.name /\ ~diffForeignKey(k, l)

NoOtherRefusal ==
  \A p \in Instances : (phase[p] = "refused" /\ ~overlapped) =>
    \/ platform = "sqlite" /\ ~exists /\ (\E q \in Instances : phase[q] = "stopped")
    \/ NotSupported(p) \/ DropsNoIndex(p) \/ PrimaryKeyDropped(p) \/ NameTaken(p)

(* A constraint that both versions have, under one name, is enforced all   *)
(* the time that the table is there, whoever migrates it.                  *)
Enforced(t) == {i \in ToSet(t.indexes) : i.kind # "regular"}
ConstraintsHeld ==
  created /\ exists =>
    /\ \A i \in Enforced(base) \cap Enforced(wanted) :
         IndexMeaning(Declared(platform, i)) \in Meaning(Created(base)).indexes
           => IndexMeaning(StoredIndex(platform, Declared(platform, i))) \in Meaning(stored).indexes
    /\ \A k \in ToSet(base.keys) \cap ToSet(wanted.keys) : KeyMeaning(k) \in Meaning(stored).keys

(* Rows survive migrations, except in SQLite, where an instance that stops *)
(* or that copies the table while another one rebuilds it loses them.      *)
RowsKept ==
  /\ rows \/ platform = "sqlite"
  /\ ~rows /\ (\A p \in Instances : phase[p] # "running") =>
       overlapped \/ (\E p \in Instances : phase[p] = "stopped")

(* Where the providers read something else than the managers: the unique   *)
(* indexes of SQLite, its foreign keys' names and deferrability; lengths   *)
(* that do not begin with the first column.                                *)
ProviderDiffers ==
  \/ platform = "sqlite" /\ (OfKind(stored.indexes, "unique") # <<>> \/ stored.keys # <<>>)
  \/ \E i \in ToSet(stored.indexes) : \E n \in 2..Len(i.lengths) : i.lengths[n] # 0 /\ i.lengths[n - 1] = 0

ProvidersAgree ==
  LET read1 == Table("", listTableIndexes(platform, stored), listTableForeignKeys(platform, stored))
      read2 == Table("", ProvidedIndexes(platform, stored), ProvidedForeignKeys(platform, stored))
      named(t) == {[KeyMeaning(k) EXCEPT !.to = <<k.to, k.name, k.deferral>>] : k \in ToSet(t.keys)}
  IN  (~hasChanges(compareTables(read1, read2)) /\ named(read1) = named(read2)) <=> ~ProviderDiffers

(* The constraints that were declared are read as such, by both readers.   *)
ReadBack == RoundTrips /\ ProvidersAgree

(* While versions and instances migrate, the data stays, and stays under   *)
(* the constraints that no version gives up.                               *)
Protected == ConstraintsHeld /\ RowsKept
=============================================================================
