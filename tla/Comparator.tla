----------------------------- MODULE Comparator -----------------------------
(***************************************************************************)
(* compareTables of src/src/schema/comparator.ts: the changes that lead    *)
(* from one table to another.  Columns are compared by type; a diff is the *)
(* record that TableDiff holds.                                            *)
(***************************************************************************)
EXTENDS Table, FiniteSets

(* ComparatorConfig. *)
Configs == [detectColumnRenames : BOOLEAN, detectIndexRenames : BOOLEAN,
            reportModifiedIndexes : BOOLEAN]
Defaults == [detectColumnRenames |-> TRUE, detectIndexRenames |-> TRUE,
             reportModifiedIndexes |-> TRUE]

-----------------------------------------------------------------------------
(* Columns.  A changed column is kept under its old name.                  *)
Change(oldType, to, type) == [from |-> oldType, to |-> to, type |-> type]

ColumnsByName(o, n) ==
  LET both == SelectSeq(n.columns, LAMBDA e : /\ e.key \in Keys(o.columns)
                                              /\ e.value # Get(o.columns, e.key))
  IN  [ added   |-> DeleteAll(n.columns, Keys(o.columns)),
        dropped |-> DeleteAll(o.columns, Keys(n.columns)),
        changed |-> [i \in DOMAIN both |->
                      Entry(both[i].key,
                            Change(Get(o.columns, both[i].key), both[i].key, both[i].value))] ]

AsRenamed(d, c, to) ==
  [ added   |-> Delete(d.added, to),
    dropped |-> Delete(d.dropped, c),
    changed |-> Put(d.changed, c, Change(Get(d.dropped, c), to, Get(d.added, to))) ]

(* Mutant: the renames that the table remembers are not looked at.         *)
IgnoreRenames(d, renamed) == d

ExplicitRenames(d, renamed) ==
  FoldLeft(LAMBDA acc, e : IF e.key \in Keys(acc.added) /\ e.value \in Keys(acc.dropped)
                           THEN AsRenamed(acc, e.value, e.key) ELSE acc,
           d, renamed)

(* An added column is a renamed one when exactly one dropped column is     *)
(* like it, and no added column before it took that one.                   *)
DetectRenamedColumns(d) ==
  LET candidates(e) == {c \in Keys(d.dropped) : Get(d.dropped, c) = e.value}
      take(acc, e)  == LET c == CHOOSE c \in candidates(e) : TRUE
                       IN  IF Cardinality(candidates(e)) = 1 /\ c \notin Keys(acc.changed)
                           THEN AsRenamed(acc, c, e.key) ELSE acc
  IN  FoldLeft(take, d, d.added)

ColumnsDiff(o, n, config) ==
  LET explicit == ExplicitRenames(ColumnsByName(o, n), n.renamed)
  IN  IF config.detectColumnRenames THEN DetectRenamedColumns(explicit) ELSE explicit

-----------------------------------------------------------------------------
(* Indexes. *)
DiffIndex(i, j) == ~ (IsFulfilledBy(i, j) /\ IsFulfilledBy(j, i))

(* The name of the index of n that an index of o is compared with: primary *)
(* keys with each other, whatever their names.                             *)
Counterpart(e, n) ==
  IF e.value.primary THEN IF HasPrimaryKey(n) THEN n.primaryKeyName ELSE NoName
  ELSE IF e.key \in Keys(n.indexes) THEN e.key ELSE NoName

IndexesByName(o, n, config) ==
  LET new(e)      == Entry(Counterpart(e, n), Get(n.indexes, Counterpart(e, n)))
      differs(e)  == Counterpart(e, n) # NoName /\ DiffIndex(e.value, new(e).value)
      differing   == SelectSeq(o.indexes, differs)
      replacement == [i \in DOMAIN differing |-> new(differing[i])]
      absent      == SelectSeq(n.indexes, LAMBDA e : /\ ~ (e.value.primary /\ HasPrimaryKey(o))
                                                     /\ e.key \notin Keys(o.indexes))
      report      == config.reportModifiedIndexes
  IN  [ added    |-> IF report THEN absent
                     ELSE FoldLeft(LAMBDA acc, e : Put(acc, e.key, e.value), absent, replacement),
        dropped  |-> SelectSeq(o.indexes, LAMBDA e : \/ Counterpart(e, n) = NoName
                                                     \/ ~ report /\ differs(e)),
        modified |-> IF report THEN replacement ELSE <<>>,
        renamed  |-> <<>> ]

DetectRenamedIndexes(d) ==
  LET candidates(e) == {e1 \in Range(d.dropped) : ~ DiffIndex(e.value, e1.value)}
      take(acc, e)  == LET c == (CHOOSE c \in candidates(e) : TRUE).key
                       IN  IF Cardinality(candidates(e)) = 1 /\ c \notin Keys(acc.renamed)
                           THEN [acc EXCEPT !.renamed = Put(@, c, e),
                                            !.added = Delete(@, e.key),
                                            !.dropped = Delete(@, c)]
                           ELSE acc
  IN  FoldLeft(take, d, d.added)

IndexesDiff(o, n, config) ==
  LET d == IndexesByName(o, n, config)
  IN  IF config.detectIndexRenames THEN DetectRenamedIndexes(d) ELSE d

-----------------------------------------------------------------------------
(* Foreign keys: each old one is matched with the first new one that is    *)
(* equal but for its name, or has the same name.                           *)
ForeignKeysDiff(o, n) ==
  LET match(acc, e) ==
        LET i   == SelectInSeq(acc.new, LAMBDA e1 : e1.value = e.value \/ e1.key = e.key)
            new == acc.new[i]
        IN  CASE i = 0 -> [acc EXCEPT !.old = Append(@, e)]
              [] i # 0 /\ new.value = e.value -> [acc EXCEPT !.new = RemoveAt(@, i)]
              [] OTHER -> [acc EXCEPT !.new = RemoveAt(@, i), !.dropped = Append(@, e),
                                      !.added = Append(@, new)]
      matched == FoldLeft(match, [new |-> n.foreignKeys, old |-> <<>>, dropped |-> <<>>,
                                  added |-> <<>>], o.foreignKeys)
  IN  [dropped |-> matched.dropped \o matched.old, added |-> matched.added \o matched.new]

-----------------------------------------------------------------------------
(* Unique constraints are not compared, only their indexes.                *)
CompareTables(o, n, config) ==
  [ columns     |-> ColumnsDiff(o, n, config),
    indexes     |-> IndexesDiff(o, n, config),
    foreignKeys |-> ForeignKeysDiff(o, n) ]

IsEmpty(diff) ==
  /\ Range(diff.columns) = {<<>>}
  /\ Range(diff.indexes) = {<<>>}
  /\ Range(diff.foreignKeys) = {<<>>}
=============================================================================
