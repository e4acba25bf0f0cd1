------------------------------- MODULE Table --------------------------------
(***************************************************************************)
(* src/src/schema/table.ts: the definition of a table, kept in maps from   *)
(* names to columns, indexes and constraints that refer to each other by   *)
(* name, and the calls by which an application changes it.                 *)
(*                                                                         *)
(* A method is an operator from a table to its outcome: the table it       *)
(* leaves, and whether it threw.  A name stands for its normalised form    *)
(* (getAssetKey); it is a sequence of strings, so that a generated name is *)
(* the sequence of what it is the hash of.  Of a column only the type is   *)
(* kept; indexes have no options and flags, foreign keys no target.        *)
(***************************************************************************)
EXTENDS OrderedMap

CONSTANTS
  Columns,      \* the names of columns
  Types,        \* the types of columns
  ColumnLists,  \* the sequences of columns that indexes and constraints are made over
  GivenNames,   \* the names that the application gives them
  OldTables,    \* the tables it starts from
  MaxCalls      \* bound: calls made

(* The names of columns and the words of generated names are strings.      *)
ASSUME TableAssumption ==
  /\ Columns \cup {"idx", "uniq", "fk", "table", "primary"} \subseteq STRING
  /\ ColumnLists \subseteq Seq(Columns)
  /\ GivenNames \subseteq Seq(STRING) \ {<<>>}
  /\ MaxCalls \in Nat

VARIABLES
  old,      \* the table before the first call
  table,    \* the table that the application changes
  calls,    \* the number of calls made
  origin,   \* history: the column of old that a column was
  history   \* history: what else the properties remember of the calls

tableVars == <<old, table, calls, origin, history>>

-----------------------------------------------------------------------------
NoName  == <<>>
NoColumn == "none"
Primary == <<"primary">>
Named(given, generated) == IF given = NoName THEN generated ELSE given

Returns(t) == [table |-> t, threw |-> FALSE]
Throws(t)  == [table |-> t, threw |-> TRUE]

(* Columns. *)
AddColumn(t, c, type) ==
  IF c \in Keys(t.columns) THEN Throws(t)
  ELSE Returns([t EXCEPT !.columns = Put(@, c, type)])

ModifyColumn(t, c, type) == Returns([t EXCEPT !.columns = Put(@, c, type)])

(* What refers to the column stays. *)
DropColumn(t, c) == Returns([t EXCEPT !.columns = Delete(@, c)])

(* An index does not hold a column twice. *)
Distinct(cols) ==
  FoldLeft(LAMBDA seen, c : IF Contains(seen, c) THEN seen ELSE Append(seen, c), <<>>, cols)

(* Mutant: the columns of indexes keep their names. *)
IndexesUntouched(indexes, c, d) == indexes

RenamedInIndexes(indexes, c, d) ==
  MapValues(indexes, LAMBDA index : [index EXCEPT !.cols = Distinct(ReplaceAll(@, c, d))])

RenamedInConstraints(constraints, c, d) ==
  MapValues(constraints, LAMBDA cols : ReplaceAll(cols, c, d))

(* renamedColumns maps a new name to the first one, along a chain of       *)
(* renames.                                                                *)
TrackRename(renamed, c, d) ==
  LET first == Get(renamed, c)
  IN  CASE c \notin Keys(renamed) -> Put(renamed, d, c)
        [] c \in Keys(renamed) /\ first = d -> Delete(renamed, c)
        [] OTHER -> Put(Delete(renamed, c), d, first)

(* The column is removed before the new name is found to be taken. *)
RenameColumn(t, c, d) ==
  LET removed == [t EXCEPT !.columns = Delete(@, c)]
  IN  IF d \in Keys(removed.columns) THEN Throws(removed)
      ELSE Returns([removed EXCEPT
             !.columns = Put(@, d, Get(t.columns, c)),
             !.indexes = RenamedInIndexes(@, c, d),
             !.foreignKeys = RenamedInConstraints(@, c, d),
             !.uniqueConstraints = RenamedInConstraints(@, c, d),
             !.renamed = TrackRename(@, c, d)])

-----------------------------------------------------------------------------
(* Indexes and the primary key. *)
Index(cols, unique, primary) ==
  [cols |-> Distinct(cols), unique |-> unique, primary |-> primary]

IsFulfilledBy(i, j) ==
  /\ i.cols = j.cols
  /\ i.unique => j.unique
  /\ i.primary => j.primary

AddIndexObject(t, name, index) ==
  IF name \in Keys(t.indexes) THEN Throws(t)
  ELSE Returns([t EXCEPT !.indexes = Put(@, name, index),
                         !.primaryKeyName = IF index.primary THEN name ELSE @])

AddIndex(t, cols, given) ==
  AddIndexObject(t, Named(given, <<"idx", "table">> \o cols), Index(cols, FALSE, FALSE))

AddUniqueIndex(t, cols, given) ==
  AddIndexObject(t, Named(given, <<"uniq", "table">> \o cols), Index(cols, TRUE, FALSE))

HasPrimaryKey(t) == t.primaryKeyName \in Keys(t.indexes)

(* The name is set before the index is found to exist already. *)
SetPrimaryKey(t, cols, given) ==
  LET name == Named(given, Primary)
  IN  IF HasPrimaryKey(t) THEN Throws(t)
      ELSE AddIndexObject([t EXCEPT !.primaryKeyName = name], name, Index(cols, TRUE, TRUE))

DropIndex(t, name) ==
  Returns([t EXCEPT !.indexes = Delete(@, name),
                    !.primaryKeyName = IF @ = name THEN NoName ELSE @])

DropPrimaryKey(t) ==
  IF t.primaryKeyName = NoName THEN Returns(t)
  ELSE IF ~ HasPrimaryKey(t) THEN Throws(t)
  ELSE DropIndex(t, t.primaryKeyName)

(* The index is gone before it is added again under the other name, which  *)
(* may be generated and taken.                                             *)
RenameIndex(t, name, given) ==
  LET index   == Get(t.indexes, name)
      removed == [t EXCEPT !.indexes = Delete(@, name),
                           !.primaryKeyName = IF index.primary /\ @ = name THEN NoName ELSE @]
  IN  CASE given = name -> Returns(t)
        [] given # name /\ given \in Keys(t.indexes) -> Throws(t)
        [] OTHER -> IF index.primary THEN SetPrimaryKey(removed, index.cols, given)
                    ELSE IF index.unique THEN AddUniqueIndex(removed, index.cols, given)
                    ELSE AddIndex(removed, index.cols, given)

-----------------------------------------------------------------------------
(* Constraints. *)
AddImplicitForeignKeyIndex(t, cols) ==
  IF \E index \in Values(t.indexes) : IsFulfilledBy(Index(cols, FALSE, FALSE), index)
  THEN Returns(t)
  ELSE AddIndex(t, cols, NoName)

(* A foreign key of the same name is replaced. *)
AddForeignKeyConstraint(t, cols, given) ==
  LET name == Named(given, <<"fk", "table">> \o cols)
  IN  AddImplicitForeignKeyIndex([t EXCEPT !.foreignKeys = Put(@, name, cols)], cols)

RemoveForeignKey(t, name) == Returns([t EXCEPT !.foreignKeys = Delete(@, name)])

IsBacked(t, cols) == \E index \in Values(t.indexes) : index.unique /\ index.cols = cols

AddUniqueConstraint(t, cols, given) ==
  LET name  == Named(given, <<"uniq">> \o cols)
      added == [t EXCEPT !.uniqueConstraints = Put(@, name, cols)]
  IN  CASE name \in Keys(t.uniqueConstraints) -> Throws(t)
        [] name \notin Keys(t.uniqueConstraints) /\ IsBacked(t, cols) -> Returns(added)
        [] OTHER -> AddUniqueIndex(added, cols, name)

(* Its index stays. *)
DropUniqueConstraint(t, name) == Returns([t EXCEPT !.uniqueConstraints = Delete(@, name)])

-----------------------------------------------------------------------------
(* What a table is, and what makes it a sound one.                         *)
MapOf(K, V)   == Seq([key : K, value : V])
Name          == Seq(STRING)
IndexType     == [cols : Seq(Columns), unique : BOOLEAN, primary : BOOLEAN]
ConstraintMap == MapOf(Name, Seq(Columns))

TableType ==
  [ columns : MapOf(Columns, Types), indexes : MapOf(Name, IndexType),
    foreignKeys : ConstraintMap, uniqueConstraints : ConstraintMap,
    renamed : MapOf(Columns, Columns), primaryKeyName : Name ]

HasKeys(map) == /\ \A i, j \in DOMAIN map : map[i].key = map[j].key => i = j
                /\ NoName \notin Keys(map)

(* What the methods leave of every table, those that throw included: an    *)
(* index holds no column twice, and only the one named is primary, which   *)
(* is unique.                                                              *)
WellMade(t) ==
  /\ HasKeys(t.indexes) /\ HasKeys(t.foreignKeys) /\ HasKeys(t.uniqueConstraints)
  /\ \A e \in Range(t.indexes) : /\ Distinct(e.value.cols) = e.value.cols
                                 /\ e.value.primary => /\ e.key = t.primaryKeyName
                                                       /\ e.value.unique

Refers(t, columns) ==
  \A cols \in {index.cols : index \in Values(t.indexes)}
              \cup Values(t.foreignKeys) \cup Values(t.uniqueConstraints) :
    Range(cols) \subseteq columns

IsIndexed(t) ==
  /\ \A cols \in Values(t.foreignKeys) :
       \E index \in Values(t.indexes) : index.cols = Distinct(cols)
  /\ \A cols \in Values(t.uniqueConstraints) :
       \E index \in Values(t.indexes) : index.unique /\ index.cols = Distinct(cols)

KeyAgrees(t) ==
  {name \in Keys(t.indexes) : Get(t.indexes, name).primary} = {t.primaryKeyName} \ {NoName}

(* The application starts from a table that the class has built whole.     *)
ASSUME OldTablesAssumption ==
  \A t \in OldTables : /\ t \in TableType /\ WellMade(t)
                       /\ Refers(t, Keys(t.columns)) /\ IsIndexed(t) /\ KeyAgrees(t)

-----------------------------------------------------------------------------
(* The calls of the application.  One that throws may leave its work half  *)
(* done.                                                                   *)
Call(outcome, origins, dropsIndex) ==
  LET columns == Keys(outcome.table.columns)
  IN  /\ calls < MaxCalls
      /\ calls' = calls + 1
      /\ table' = outcome.table
      /\ origin' = [c \in Columns |-> IF c \in columns THEN origins[c] ELSE NoColumn]
      /\ history' = [ halfDone  |-> history.halfDone \/ (outcome.threw /\ outcome.table # table),
                      unindexed |-> history.unindexed \/ dropsIndex,
                      gone      |-> IF Len(outcome.table.columns) < Len(table.columns)
                                    THEN history.gone \cup (Keys(table.columns) \ columns)
                                    ELSE history.gone ]
      /\ UNCHANGED old

Lists == {cols \in ColumnLists : Range(cols) \subseteq Keys(table.columns)}
MaybeNamed == GivenNames \cup {NoName}

NewColumn ==
  \E c \in Columns, type \in Types : Call(AddColumn(table, c, type), origin, FALSE)

ChangedColumn ==
  \E c \in Keys(table.columns), type \in Types :
    Call(ModifyColumn(table, c, type), origin, FALSE)

DroppedColumn ==
  \E c \in Keys(table.columns) : Call(DropColumn(table, c), origin, FALSE)

RenamedColumn ==
  \E c \in Keys(table.columns), d \in Columns :
    LET outcome == RenameColumn(table, c, d)
    IN  c # d /\ Call(outcome, IF outcome.threw THEN origin ELSE [origin EXCEPT ![d] = origin[c]], FALSE)

NewIndex ==
  \E cols \in Lists, given \in MaybeNamed :
    \/ Call(AddIndex(table, cols, given), origin, FALSE)
    \/ Call(AddUniqueIndex(table, cols, given), origin, FALSE)
    \/ Call(SetPrimaryKey(table, cols, given), origin, FALSE)

DroppedIndex ==
  \/ \E name \in Keys(table.indexes) : Call(DropIndex(table, name), origin, TRUE)
  \/ Call(DropPrimaryKey(table), origin, TRUE)

RenamedIndex ==
  \E name \in Keys(table.indexes), given \in MaybeNamed :
    Call(RenameIndex(table, name, given), origin, FALSE)

NewConstraint ==
  \E cols \in Lists, given \in MaybeNamed :
    \/ Call(AddForeignKeyConstraint(table, cols, given), origin, FALSE)
    \/ Call(AddUniqueConstraint(table, cols, given), origin, FALSE)

DroppedConstraint ==
  \/ \E name \in Keys(table.foreignKeys) : Call(RemoveForeignKey(table, name), origin, FALSE)
  \/ \E name \in Keys(table.uniqueConstraints) :
       Call(DropUniqueConstraint(table, name), origin, FALSE)

TableInit ==
  /\ old \in OldTables
  /\ table = old
  /\ calls = 0
  /\ origin = [c \in Columns |-> IF c \in Keys(old.columns) THEN c ELSE NoColumn]
  /\ history = [halfDone |-> FALSE, unindexed |-> FALSE, gone |-> {}]

TableNext ==
  \/ NewColumn
  \/ ChangedColumn
  \/ DroppedColumn
  \/ RenamedColumn
  \/ NewIndex
  \/ DroppedIndex
  \/ RenamedIndex
  \/ NewConstraint
  \/ DroppedConstraint

-----------------------------------------------------------------------------
(* What an index or a constraint refers to is a column of the table,       *)
(* unless the application dropped that column or lost it in a rename that  *)
(* threw: a rename takes along everything that refers to the column.       *)
ReferencesResolve == Refers(table, Keys(table.columns) \cup history.gone)

(* Every foreign key is indexed and every unique constraint has a unique   *)
(* index, whatever is renamed, until the application drops an index or a   *)
(* call throws half-way.                                                   *)
ConstraintsIndexed == ~ history.halfDone /\ ~ history.unindexed => IsIndexed(table)

(* The primary key that is named is the only primary index there is, until *)
(* a call throws half-way.                                                 *)
PrimaryKeyAgrees == ~ history.halfDone => KeyAgrees(table)

(* The parts of a table, which are kept apart and found by name, stay in   *)
(* step through every sequence of calls.                                   *)
TableConsistent == ReferencesResolve /\ ConstraintsIndexed /\ PrimaryKeyAgrees
=============================================================================
