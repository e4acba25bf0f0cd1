---------------------------- MODULE Constraints ----------------------------
(***************************************************************************)
(* Indexes and foreign keys of a table: how two tables are compared        *)
(* (src/src/schema/comparator.ts, index.ts, foreign-key-constraint.ts),    *)
(* the statements that create and alter them on each platform              *)
(* (src/src/platforms), and how they are read back by the schema managers  *)
(* and by the metadata providers.  Names and predicates are compared as    *)
(* they are written; a column is a name, and the table has one type, that  *)
(* of a column outside of its constraints.                                 *)
(***************************************************************************)
EXTENDS Naturals, Sequences, SequencesExt

MySQL == {"mysql", "mariadb"}
Platforms == MySQL \cup {"pg", "sqlite", "sqlserver"}

(* An index: kind is regular, unique or primary; lengths has a 0 for a     *)
(* column that is indexed whole.                                           *)
Index(name, cols, kind) ==
  [name |-> name, cols |-> cols, kind |-> kind, flag |-> "", where |-> "",
   lengths |-> [i \in DOMAIN cols |-> 0]]

ForeignKey(name, cols, to) ==
  [name |-> name, cols |-> cols, to |-> to, onUpdate |-> "", onDelete |-> "", deferral |-> ""]

Table(type, indexes, keys) == [type |-> type, indexes |-> indexes, keys |-> keys]

Named(seq, name) == \E i \in DOMAIN seq : seq[i].name = name
OfKind(seq, kind) == SelectSeq(seq, LAMBDA i : i.kind = kind)
Each(seq, Op(_)) == [i \in DOMAIN seq |-> Op(seq[i])]
Only(condition, seq) == IF condition THEN seq ELSE <<>>

---------------------------------------------------------------------------
(* The Comparator. *)

LengthsByIndex(i) == {<<n, i.lengths[n]>> : n \in {n \in DOMAIN i.lengths : i.lengths[n] # 0}}

isFulfilledBy(i, j) ==
  /\ i.cols = j.cols /\ i.where = j.where /\ LengthsByIndex(i) = LengthsByIndex(j)
  /\ i.kind # "regular" => j.kind # "regular"
  /\ i.kind = "primary" => j.kind = "primary"

diffIndex(i, j) == ~(isFulfilledBy(i, j) /\ isFulfilledBy(j, i))

(* What a foreign key does without the words for it. *)
NoActionAlone(a) == IF a = "RESTRICT" THEN "" ELSE a  \* a mutant of the next
normalizeReferentialActionString(a) == IF a \in {"NO ACTION", "RESTRICT"} THEN "" ELSE a

ActionsAside(k, l) == k.cols # l.cols \/ k.to # l.to  \* a mutant of diffForeignKey
diffForeignKey(k, l) ==
  \/ k.cols # l.cols \/ k.to # l.to
  \/ normalizeReferentialActionString(k.onUpdate) # normalizeReferentialActionString(l.onUpdate)
  \/ normalizeReferentialActionString(k.onDelete) # normalizeReferentialActionString(l.onDelete)

(* A table indexes its foreign keys, when no index of theirs is there.     *)
addImplicitForeignKeyIndex(t, k) ==
  LET candidate == Index("idx of " \o k.cols[1], k.cols, "regular") IN
  IF \E i \in DOMAIN t.indexes : isFulfilledBy(candidate, t.indexes[i]) THEN t
  ELSE [t EXCEPT !.indexes = Append(@, candidate)]

Constructed(t) == FoldLeft(addImplicitForeignKeyIndex, t, t.keys)

(* Primary keys are compared with each other, whatever their names.        *)
ByNameAlone(i, indexes) == SelectSeq(indexes, LAMBDA j : i.name = j.name)  \* a mutant of Counterparts
Counterparts(i, indexes) ==
  SelectSeq(indexes, LAMBDA j : IF i.kind = "primary" THEN j.kind = "primary" ELSE i.name = j.name)

detectRenamedIndexes(added, dropped) ==
  LET like(i)     == SelectSeq(dropped, LAMBDA j : ~diffIndex(i, j))
      take(acc, i) == IF Len(like(i)) = 1 /\ ~\E n \in DOMAIN acc : acc[n].old = like(i)[1]
                      THEN Append(acc, [old |-> like(i)[1], new |-> i]) ELSE acc
  IN  FoldLeft(take, <<>>, added)

IndexesDiff(old, new) ==
  LET added    == SelectSeq(new, LAMBDA i : Counterparts(i, old) = <<>>)
      dropped  == SelectSeq(old, LAMBDA i : Counterparts(i, new) = <<>>)
      renamed  == detectRenamedIndexes(added, dropped)
      differs(i) == Counterparts(i, new) # <<>> /\ diffIndex(i, Counterparts(i, new)[1])
  IN  [renamed  |-> renamed,
       added    |-> SelectSeq(added, LAMBDA i : ~\E n \in DOMAIN renamed : renamed[n].new = i),
       dropped  |-> SelectSeq(dropped, LAMBDA i : ~\E n \in DOMAIN renamed : renamed[n].old = i),
       modified |-> Each(SelectSeq(old, differs), LAMBDA i : Counterparts(i, new)[1])]

(* An old key is matched with the first new one that is equal or has its   *)
(* name.                                                                   *)
ForeignKeysDiff(old, new) ==
  LET match(acc, k) ==
        LET n == SelectInSeq(acc.new, LAMBDA l : ~diffForeignKey(k, l) \/ k.name = l.name) IN
        CASE n = 0 -> [acc EXCEPT !.left = Append(@, k)]
          [] n # 0 /\ ~diffForeignKey(k, acc.new[n]) -> [acc EXCEPT !.new = RemoveAt(@, n)]
          [] OTHER -> [acc EXCEPT !.new = RemoveAt(@, n), !.dropped = Append(@, k),
                                  !.added = Append(@, acc.new[n])]
      matched == FoldLeft(match, [new |-> new, left |-> <<>>, dropped |-> <<>>, added |-> <<>>], old)
  IN  [dropped |-> matched.dropped \o matched.left, added |-> matched.added \o matched.new]

compareTables(old, new) ==
  [type |-> [old |-> old.type, new |-> new.type],
   indexes |-> IndexesDiff(old.indexes, new.indexes), keys |-> ForeignKeysDiff(old.keys, new.keys)]

TypeChanges(diff) == diff.type.old # diff.type.new
ConstraintsChange(diff) ==
  \/ diff.keys.dropped \o diff.keys.added # <<>>
  \/ diff.indexes.renamed # <<>>
  \/ diff.indexes.added \o diff.indexes.dropped \o diff.indexes.modified # <<>>
hasChanges(diff) == TypeChanges(diff) \/ ConstraintsChange(diff)

---------------------------------------------------------------------------
(* Statements. *)

Statement(op, arg) == [op |-> op, arg |-> arg]

(* Only MySQL has flags, and only PostgreSQL predicates.                   *)
Declared(p, i) ==
  [i EXCEPT !.where = IF p = "pg" THEN @ ELSE "",
            !.flag = IF p \in MySQL THEN @ ELSE "",
            !.kind = IF p \in MySQL /\ i.flag # "" THEN "regular" ELSE @]

getCreateIndexSQL(p, i) ==
  IF i.kind = "primary" THEN Statement("add primary key", i)
  ELSE Statement("create index", Declared(p, i))

(* Foreign keys are added when the table is there; in SQLite they are part *)
(* of it, and unique indexes are constraints without a name to be read.    *)
getCreateTableSQL(p, t) ==
  LET apart    == OfKind(t.indexes, "regular") \o OfKind(t.indexes, "unique")
      indexes  == Each(apart, LAMBDA i : getCreateIndexSQL(p, i))
      inside   == OfKind(t.indexes, "primary")
      keys     == Each(t.keys, LAMBDA k : Statement("add foreign key", k))
      unique   == Each(OfKind(t.indexes, "unique"),
                       LAMBDA i : [Declared(p, i) EXCEPT !.name = "autoindex of " \o i.name])
      create(contents) == <<Statement("create table", contents)>>
  IN  CASE p \in MySQL  -> create(Table(t.type, inside \o Each(apart, LAMBDA i : Declared(p, i)), <<>>)) \o keys
        [] p = "sqlite" -> create(Table(t.type, inside \o unique, t.keys))
                           \o Each(OfKind(t.indexes, "regular"), LAMBDA i : getCreateIndexSQL(p, i))
        [] OTHER        -> create(Table(t.type, inside, <<>>)) \o indexes \o keys

DropIndex(i) == Statement("drop index", i.name)
Replaced(p, old, new) == <<DropIndex(old), getCreateIndexSQL(p, new)>>
AddForeignKeys(keys) == Each(keys, LAMBDA k : Statement("add foreign key", k))

AddedFirst(p, diff) ==  \* a mutant of AlterConstraints
  LET d == diff.indexes IN
  AddForeignKeys(diff.keys.added)
  \o Each(diff.keys.dropped, LAMBDA k : Statement("drop foreign key", k.name))
  \o FlattenSeq(Each(d.renamed, LAMBDA r : Replaced(p, r.old, r.new)))
  \o Each(d.dropped, DropIndex) \o FlattenSeq(Each(d.modified, LAMBDA i : Replaced(p, i, i)))
  \o Each(d.added, LAMBDA i : getCreateIndexSQL(p, i))

AlterConstraints(p, diff) ==
  LET d == diff.indexes IN
  Each(diff.keys.dropped, LAMBDA k : Statement("drop foreign key", k.name))
  \o FlattenSeq(Each(d.renamed, LAMBDA r : Replaced(p, r.old, r.new)))
  \o Each(d.dropped, DropIndex)
  \o FlattenSeq(Each(d.modified, LAMBDA i : Replaced(p, i, i)))
  \o Each(d.added, LAMBDA i : getCreateIndexSQL(p, i))
  \o AddForeignKeys(diff.keys.added)

AlterType(diff) == Only(TypeChanges(diff), <<Statement("alter column", diff.type.new)>>)

(* MySQL changes the primary key together with the columns. *)
WithoutPrimary(seq) == SelectSeq(seq, LAMBDA i : i.kind # "primary")
AlterMySQL(p, diff) ==
  LET d     == diff.indexes
      drops == OfKind(d.dropped \o d.modified, "primary") # <<>>
      adds  == OfKind(d.added \o d.modified, "primary")
      rest  == [d EXCEPT !.dropped = WithoutPrimary(@), !.modified = WithoutPrimary(@),
                         !.added = WithoutPrimary(@)]
  IN  Only(TypeChanges(diff) \/ drops \/ adds # <<>>,
           <<Statement("alter table", [type |-> diff.type.new, drops |-> drops, adds |-> adds])>>)
      \o AlterConstraints(p, [diff EXCEPT !.indexes = rest])

DropTable == Statement("drop table", "")
Rebuild(p, new) ==
  <<Statement("copy rows", ""), DropTable>> \o getCreateTableSQL(p, new)
  \o <<Statement("copy back", ""), Statement("drop copy", "")>>

Supported(p, diff) == ~(p = "sqlserver" /\ TypeChanges(diff) /\ ConstraintsChange(diff))

getAlterTableSQL(p, diff, new) ==
  IF ~hasChanges(diff) THEN <<>> ELSE
  CASE p \in MySQL       -> AlterMySQL(p, diff)
    [] p = "sqlite"      -> Rebuild(p, new)
    [] OTHER             -> AlterType(diff) \o AlterConstraints(p, diff)

---------------------------------------------------------------------------
(* Catalogues, which are external, and what is read of them.               *)

PrimaryName(p) ==
  CASE p \in MySQL -> "PRIMARY" [] p = "pg" -> "t_pkey" [] p = "sqlite" -> "primary"
    [] OTHER -> "PK__t"

StoredIndex(p, i) ==
  [i EXCEPT !.name = IF i.kind = "primary" THEN PrimaryName(p) ELSE @,
            !.where = IF @ = "" THEN @ ELSE "in parentheses",
            !.flag = IF p # "sqlserver" THEN @
                     ELSE IF i.kind = "primary" THEN "clustered" ELSE "nonclustered"]

StoredForeignKey(p, k) ==
  LET action(a) == IF a # "" THEN a ELSE IF p = "mariadb" THEN "RESTRICT" ELSE "NO ACTION" IN
  [k EXCEPT !.onUpdate = action(@), !.onDelete = action(@),
            !.deferral = IF @ = "" THEN "not deferrable" ELSE @]

Whole(i) == [n \in DOMAIN i.cols |-> 0]
WithActions(k, Read(_), deferral) ==
  [k EXCEPT !.onUpdate = Read(@), !.onDelete = Read(@), !.deferral = deferral]

(* The schema managers: what their queries of indexes leave out is not in  *)
(* what they return.  Names that SQLite makes up are left out.             *)
MySQLIndexes(s) ==
  Each(s.indexes, LAMBDA i : [i EXCEPT !.where = "", !.lengths = IF i.flag = "spatial" THEN Whole(i) ELSE @])

PostgreSQLIndexes(s) == Each(s.indexes, LAMBDA i : [i EXCEPT !.flag = "", !.lengths = Whole(i)])

SQLiteIndexes(s) ==
  Each(OfKind(s.indexes, "primary") \o OfKind(s.indexes, "regular"),
       LAMBDA i : [i EXCEPT !.flag = "", !.where = "", !.lengths = Whole(i)])

SQLServerIndexes(s) == Each(s.indexes, LAMBDA i : [i EXCEPT !.where = "", !.lengths = Whole(i)])

listTableIndexes(p, s) ==
  CASE p \in MySQL -> MySQLIndexes(s) [] p = "pg" -> PostgreSQLIndexes(s)
    [] p = "sqlite" -> SQLiteIndexes(s) [] OTHER -> SQLServerIndexes(s)

Unrestricted(a) == IF a = "RESTRICT" THEN "" ELSE a
AsStored(a) == a  \* its mutant, and SQL Server's

MySQLForeignKey(k) == WithActions(k, Unrestricted, "")
(* PostgreSQL does not write NO ACTION. *)
PostgreSQLForeignKey(k) == WithActions(k, LAMBDA a : IF a = "NO ACTION" THEN "" ELSE a, k.deferral)
(* Names and deferrability are found in the text of CREATE TABLE. *)
SQLiteForeignKey(k) == WithActions(k, Unrestricted, k.deferral)
SQLServerForeignKey(k) == WithActions(k, AsStored, "")

listTableForeignKeys(p, s) ==
  Each(s.keys, LAMBDA k :
    CASE p \in MySQL -> MySQLForeignKey(k) [] p = "pg" -> PostgreSQLForeignKey(k)
      [] p = "sqlite" -> SQLiteForeignKey(k) [] OTHER -> SQLServerForeignKey(k))

(* The metadata providers, through the editors: addColumn() keeps only     *)
(* lengths that are there, next to each other.                             *)
addColumn(i) == [i EXCEPT !.lengths = SelectSeq(@, LAMBDA n : n # 0)]

mapIndexType(i) == [i EXCEPT !.flag = IF @ \in {"fulltext", "spatial"} THEN @ ELSE ""]

MySQLProvidedIndex(i) == addColumn([mapIndexType(i) EXCEPT !.where = ""])
PostgreSQLProvidedIndex(i) == addColumn([mapIndexType(i) EXCEPT !.lengths = Whole(i)])
SQLiteProvidedIndex(i) ==
  [i EXCEPT !.flag = "", !.lengths = <<>>, !.where = IF @ = "" THEN "" ELSE "<partial>"]
SQLServerProvidedIndex(i) == addColumn([mapIndexType(i) EXCEPT !.lengths = Whole(i)])

ProvidedPrimaryKey(i) == [i EXCEPT !.flag = "", !.where = "", !.lengths = <<>>]

ProvidedIndexes(p, s) ==
  Each(s.indexes, LAMBDA i :
    IF i.kind = "primary" THEN ProvidedPrimaryKey(i) ELSE
    CASE p \in MySQL -> MySQLProvidedIndex(i) [] p = "pg" -> PostgreSQLProvidedIndex(i)
      [] p = "sqlite" -> SQLiteProvidedIndex(i) [] OTHER -> SQLServerProvidedIndex(i))

mapReferentialAction(a) ==
  IF a \in {"CASCADE", "SET NULL", "SET DEFAULT", "RESTRICT"} THEN a ELSE "NO ACTION"

MySQLProvidedForeignKey(k) == WithActions(k, mapReferentialAction, "")
PostgreSQLProvidedForeignKey(k) == WithActions(k, mapReferentialAction, k.deferral)
SQLiteProvidedForeignKey(k) == WithActions([k EXCEPT !.name = ""], mapReferentialAction, "")
SQLServerProvidedForeignKey(k) == WithActions(k, mapReferentialAction, "")

ProvidedForeignKeys(p, s) ==
  Each(s.keys, LAMBDA k :
    CASE p \in MySQL -> MySQLProvidedForeignKey(k) [] p = "pg" -> PostgreSQLProvidedForeignKey(k)
      [] p = "sqlite" -> SQLiteProvidedForeignKey(k) [] OTHER -> SQLServerProvidedForeignKey(k))
=============================================================================
