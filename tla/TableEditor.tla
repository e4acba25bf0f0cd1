---------------------------- MODULE TableEditor -----------------------------
(***************************************************************************)
(* src/src/schema/table-editor.ts: a table taken apart by edit(), changed  *)
(* through an editor and put together again by create(), which returns a   *)
(* new table.  The application works on the new table from then on.        *)
(*                                                                         *)
(* The editor holds what the table holds, but for the primary key, which   *)
(* it keeps apart from the indexes.  A call that the editor refuses leaves *)
(* it as it is: the actions have what it asks for as their guards.  Names  *)
(* are given to the indexes and foreign keys that are added, and a primary *)
(* key is added as a constraint.                                           *)
(***************************************************************************)
EXTENDS Table

VARIABLE editor

NoEditor == [ open |-> FALSE, columns |-> <<>>, indexes |-> <<>>, primaryKey |-> <<>>,
              foreignKeys |-> <<>>, uniqueConstraints |-> <<>>,
              origin |-> [c \in Columns |-> NoColumn], gone |-> {} ]

-----------------------------------------------------------------------------
Ordinary(indexes) ==
  FoldLeft(LAMBDA kept, e : IF e.value.primary THEN kept ELSE Append(kept, e), <<>>, indexes)

(* Mutant: the primary key is left out. *)
EditWithoutPrimaryKey(t) ==
  [ NoEditor EXCEPT !.open = TRUE, !.columns = t.columns, !.indexes = Ordinary(t.indexes),
      !.foreignKeys = t.foreignKeys, !.uniqueConstraints = t.uniqueConstraints ]

(* Table.edit().  setPrimaryKeyConstraint takes the primary indexes out.   *)
EditTable(t) ==
  [ NoEditor EXCEPT !.open = TRUE, !.columns = t.columns,
      !.indexes = IF HasPrimaryKey(t) THEN Ordinary(t.indexes) ELSE t.indexes,
      !.primaryKey = IF HasPrimaryKey(t)
                     THEN <<Entry(t.primaryKeyName, Get(t.indexes, t.primaryKeyName).cols)>>
                     ELSE <<>>,
      !.foreignKeys = t.foreignKeys,
      !.uniqueConstraints = t.uniqueConstraints ]

(* What refers to a column follows it when its name changes.               *)
RenamedInEditor(e, c, d) ==
  [e EXCEPT !.indexes = RenamedInIndexes(@, c, d),
            !.primaryKey = RenamedInConstraints(@, c, d),
            !.foreignKeys = RenamedInConstraints(@, c, d),
            !.uniqueConstraints = RenamedInConstraints(@, c, d),
            !.origin = [@ EXCEPT ![d] = e.origin[c], ![c] = NoColumn]]

(* The column keeps its place. *)
ModifyColumnInEditor(e, c, d, type) ==
  LET modified == [e EXCEPT !.columns = [i \in DOMAIN @ |-> IF @[i].key = c THEN Entry(d, type)
                                                             ELSE @[i]]]
  IN  IF c = d THEN modified ELSE RenamedInEditor(modified, c, d)

RenameIndexInEditor(e, name, to) ==
  [e EXCEPT !.indexes = [i \in DOMAIN @ |-> IF @[i].key = name THEN Entry(to, @[i].value)
                                            ELSE @[i]]]

(* What create() adds to the bare table, in this order: the constructor of *)
(* Table adds the indexes and then the foreign keys; the primary key and   *)
(* the unique constraints follow.  The first that throws is the last.      *)
Parts(kind, map) == [i \in DOMAIN map |-> [kind |-> kind, name |-> map[i].key, value |-> map[i].value]]

PartsOf(e) == Parts("index", e.indexes) \o Parts("foreignKey", e.foreignKeys)
              \o Parts("primaryKey", e.primaryKey) \o Parts("unique", e.uniqueConstraints)

AddPart(t, part) ==
  CASE part.kind = "index"      -> AddIndexObject(t, part.name, part.value)
    [] part.kind = "foreignKey" -> AddForeignKeyConstraint(t, part.value, part.name)
    [] part.kind = "primaryKey" -> SetPrimaryKey(t, part.value, part.name)
    [] part.kind = "unique"     -> AddUniqueConstraint(t, part.value, part.name)

(* What the table knew of renamed columns is not handed on.                *)
Bare(columns) ==
  [ columns |-> columns, indexes |-> <<>>, foreignKeys |-> <<>>,
    uniqueConstraints |-> <<>>, renamed |-> <<>>, primaryKeyName |-> NoName ]

CreateTable(e) ==
  IF e.columns = <<>> THEN Throws(Bare(e.columns))
  ELSE FoldLeft(LAMBDA made, part : IF made.threw THEN made ELSE AddPart(made.table, part),
                Returns(Bare(e.columns)), PartsOf(e))

-----------------------------------------------------------------------------
OpenEditor ==
  /\ ~ editor.open
  /\ calls < MaxCalls
  /\ calls' = calls + 1
  /\ editor' = [EditTable(table) EXCEPT !.origin = origin]
  /\ UNCHANGED <<old, table, origin, history>>

(* A call that the editor accepts. *)
CallEditor(changed) ==
  /\ editor.open
  /\ calls < MaxCalls
  /\ calls' = calls + 1
  /\ editor' = changed
  /\ UNCHANGED <<old, table, origin, history>>

EditColumn ==
  \/ \E c \in Columns \ Keys(editor.columns), type \in Types :
       CallEditor([editor EXCEPT !.columns = Append(@, Entry(c, type))])
  \/ \E c \in Keys(editor.columns), d \in Columns, type \in Types :
       /\ d = c \/ d \notin Keys(editor.columns)
       /\ CallEditor(ModifyColumnInEditor(editor, c, d, type))
  \/ \E c \in Keys(editor.columns) :
       CallEditor([editor EXCEPT !.columns = Delete(@, c),
                                 !.origin = [@ EXCEPT ![c] = NoColumn],
                                 !.gone = @ \cup {c}])

EditorLists == {cols \in ColumnLists : Range(cols) \subseteq Keys(editor.columns)}

EditIndex ==
  \/ \E cols \in EditorLists, given \in GivenNames \ Keys(editor.indexes), unique \in BOOLEAN :
       CallEditor([editor EXCEPT !.indexes = Append(@, Entry(given, Index(cols, unique, FALSE)))])
  \/ \E name \in Keys(editor.indexes), to \in GivenNames :
       /\ to = name \/ to \notin Keys(editor.indexes)
       /\ CallEditor(RenameIndexInEditor(editor, name, to))
  \/ \E name \in Keys(editor.indexes) :
       CallEditor([editor EXCEPT !.indexes = Delete(@, name)])

EditPrimaryKey ==
  \/ /\ editor.primaryKey = <<>>
     /\ \E cols \in EditorLists, given \in GivenNames \cup {Primary} :
          CallEditor([editor EXCEPT !.indexes = Ordinary(@),
                                    !.primaryKey = <<Entry(given, cols)>>])
  \/ /\ editor.primaryKey # <<>>
     /\ CallEditor([editor EXCEPT !.indexes = Ordinary(@), !.primaryKey = <<>>])

(* A unique constraint may be added without a name. *)
EditConstraint ==
  \/ \E cols \in EditorLists, given \in GivenNames \ Keys(editor.foreignKeys) :
       CallEditor([editor EXCEPT !.foreignKeys = Append(@, Entry(given, cols))])
  \/ \E name \in Keys(editor.foreignKeys) :
       CallEditor([editor EXCEPT !.foreignKeys = Delete(@, name)])
  \/ \E cols \in EditorLists, given \in {NoName} \cup (GivenNames \ Keys(editor.uniqueConstraints)) :
       CallEditor([editor EXCEPT !.uniqueConstraints = Append(@, Entry(given, cols))])
  \/ \E name \in Keys(editor.uniqueConstraints) \ {NoName} :
       CallEditor([editor EXCEPT !.uniqueConstraints = Delete(@, name)])

(* A table that create() puts together has nothing half done or left       *)
(* without its index, whatever was done to the one it was taken from.      *)
CreateFromEditor ==
  LET made == CreateTable(editor)
  IN  /\ editor.open
      /\ editor' = NoEditor
      /\ IF made.threw THEN UNCHANGED <<table, origin, history>>
         ELSE /\ table' = made.table
              /\ origin' = [c \in Columns |-> IF editor.origin[c] = c THEN c ELSE NoColumn]
              /\ history' = [ halfDone |-> FALSE, unindexed |-> FALSE,
                              gone |-> history.gone \cup editor.gone ]
      /\ UNCHANGED <<old, calls>>

EditorNext ==
  \/ OpenEditor
  \/ EditColumn
  \/ EditIndex
  \/ EditPrimaryKey
  \/ EditConstraint
  \/ CreateFromEditor

-----------------------------------------------------------------------------
(* The index that a foreign key gains when only the primary key serves it, *)
(* since the foreign keys are added before the primary key is.             *)
ServedByPrimaryKey(t, cols) ==
  LET serving == {index \in Values(t.indexes) : IsFulfilledBy(Index(cols, FALSE, FALSE), index)}
  IN  serving # {} /\ \A index \in serving : index.primary

GainedIndex(cols) == Entry(<<"idx", "table">> \o cols, Index(cols, FALSE, FALSE))

GainedIndexes(t) ==
  {GainedIndex(cols) : cols \in {c \in Values(t.foreignKeys) : ServedByPrimaryKey(t, c)}}

(* The table comes back with what it gains, or the name of that is taken.  *)
IsGivenBack(t) ==
  LET made == CreateTable(EditTable(t))
  IN  \/ /\ ~ made.threw
         /\ made.table.columns = t.columns
         /\ made.table.foreignKeys = t.foreignKeys
         /\ made.table.uniqueConstraints = t.uniqueConstraints
         /\ made.table.primaryKeyName = t.primaryKeyName
         /\ Range(made.table.indexes) = Range(t.indexes) \cup GainedIndexes(t)
      \/ made.threw /\ \E e \in GainedIndexes(t) : e.key \in Keys(t.indexes)

ColumnsOnce(t) ==
  \A cols \in Values(t.foreignKeys) \cup Values(t.uniqueConstraints) : Distinct(cols) = cols

(* edit().create() gives the table back: no column, index or constraint is *)
(* lost or changed, and none is gained but the indexes above.  It holds    *)
(* until a call throws half-way or an index is dropped, and as long as no  *)
(* constraint names a column twice, which a rename to a dropped column can *)
(* cause.                                                                  *)
RebuildKeeps ==
  /\ ~ editor.open /\ table.columns # <<>>
  /\ ~ history.halfDone /\ ~ history.unindexed /\ ColumnsOnce(table)
  => IsGivenBack(table)
=============================================================================
