------------------------------ MODULE Results ------------------------------
(***************************************************************************)
(* The result of a query: the rows the adapters make of a server's answer  *)
(* (toDriverResult() of each), driver/<name>/result.ts with its cursor,    *)
(* result.ts, whose fetches and generators share that cursor, and between  *)
(* the two, when it is configured, portability/result.ts with its          *)
(* converter of values and column names.                                   *)
(*                                                                         *)
(* A cell is <<>> for NULL or <<text>>, and a text that is of no interest  *)
(* to the converter stands for itself.  A row object is an OrderedMap     *)
(* from column names to cells, like the packages of the drivers make it.   *)
(***************************************************************************)
EXTENDS Integers, OrderedMap

CONSTANTS
  Drivers,   \* some of sqlite3, pg, mysql2, mssql
  Modes,     \* flags of the portability middleware: sets of empty, trim, case
  Answers,   \* what servers may answer: [verb, columns, rows, affected]
  Readers,   \* consumers that may hold a generator
  KindsOf    \* the generators each of them may ask for

Kinds == {"numeric", "associative", "one", "keyValue", "indexed"}

ASSUME ResultsAssumption ==
  /\ Drivers \subseteq {"sqlite3", "pg", "mysql2", "mssql"}
  /\ \A a \in Answers :
       /\ a.columns \in Seq(STRING) /\ a.rows \in Seq(Seq(Seq(STRING)))
       /\ \A i \in DOMAIN a.rows : Len(a.rows[i]) = Len(a.columns)
       /\ a.rows # <<>> => a.affected = Len(a.rows)
  /\ KindsOf \in [Readers -> SUBSET Kinds]

VARIABLES
  driver, mode, answer,  \* chosen at the start
  result,    \* the driver's result: [rows, columns, affected, cursor]
  reader,    \* each consumer's generator: [as, at]
  delivered, \* what the application got, in the order in which it got it
  ended,     \* a fetch or a generator has told the application there is no more
  cut,       \* the result was freed by the application, or with a generator it left
  refused    \* NoKeyValue was thrown

vars == <<driver, mode, answer, result, reader, delivered, ended, cut, refused>>

NULL    == <<>>
Empty   == <<"empty">>    \* cells that the converter tells apart: ''
Blanks  == <<"blanks">>   \* '  '
Padded  == <<"padded">>   \* 'x '
Trimmed == <<"trimmed">>  \* 'x'

NoResult == [rows |-> <<>>, columns |-> <<>>, affected |-> -1, cursor |-> 0]
Names(map) == [i \in DOMAIN map |-> map[i].key]

-----------------------------------------------------------------------------
(* An object from entries.  Of two with the same key the later one stays,  *)
(* in the place of the first, or their values are gathered.                *)
FromEntries(entries, gathers) ==
  FoldLeft(LAMBDA obj, e :
             Put(obj, e.key, IF gathers /\ e.key \in Keys(obj)
                             THEN Get(obj, e.key) \o e.value ELSE e.value),
           <<>>, entries)

(* What a package makes of a row: an object by column name.  mssql gathers *)
(* the values of columns with the same name.                               *)
ObjectOf(columns, row) ==
  FromEntries([i \in DOMAIN columns |-> Entry(columns[i], row[i])], driver = "mssql")

Distinct(columns) == Names(ObjectOf(columns, columns))

(* sqlite3 reads rows only for some statements (isResultSetSql()). *)
RowsRead == driver # "sqlite3" \/ answer.verb = "select"

ToRows == IF RowsRead THEN [i \in DOMAIN answer.rows |-> ObjectOf(answer.columns, answer.rows[i])]
          ELSE <<>>

(* The columns that the server describes, else the keys of the first row.  *)
ToColumns(rows) ==
  CASE driver \in {"pg", "mysql2"} -> answer.columns
    [] driver = "mssql" -> Distinct(answer.columns)
    [] OTHER -> IF rows = <<>> THEN <<>> ELSE Names(rows[1])

ToDriverResult ==
  [ rows |-> ToRows, columns |-> ToColumns(ToRows), cursor |-> 1,
    affected |-> IF ToRows # <<>> THEN Len(ToRows) ELSE answer.affected ]

-----------------------------------------------------------------------------
(* driver/<name>/result.ts *)
ColumnsFromRow(obj) == IF result.columns # <<>> THEN result.columns ELSE Names(obj)

HasRow  == result.cursor <= Len(result.rows)
Row     == result.rows[result.cursor]
Numeric(obj) == [i \in DOMAIN ColumnsFromRow(obj) |-> Get(obj, ColumnsFromRow(obj)[i])]
Rest    == SubSeq(result.rows, result.cursor, Len(result.rows))

ColumnCount ==
  IF result.rows = <<>> THEN Len(result.columns) ELSE Len(ColumnsFromRow(result.rows[1]))

Freed(r) == [r EXCEPT !.rows = <<>>, !.cursor = 1]

-----------------------------------------------------------------------------
(* portability/converter.ts *)
EmptyToNull(cell) == IF cell = Empty THEN NULL ELSE cell
RightTrim(cell) ==
  CASE cell = Blanks -> Empty [] cell = Padded -> Trimmed [] OTHER -> cell

(* createConvertValue(): the functions in their order. *)
ConvertValue(cell) ==
  LET first == IF "empty" \in mode THEN EmptyToNull(cell) ELSE cell
  IN  IF "trim" \in mode THEN RightTrim(first) ELSE first

ConvertColumnName(name) == IF "case" \in mode /\ name = "ID" THEN "id" ELSE name

ConvertRow(obj) ==
  FromEntries([i \in DOMAIN obj |-> Entry(ConvertColumnName(obj[i].key), ConvertValue(obj[i].value))],
              FALSE)

(* Mutant: numeric rows pass the middleware as they are. *)
ConvertNumericNot(cells) == cells

ConvertNumeric(cells) == [i \in DOMAIN cells |-> ConvertValue(cells[i])]

ColumnName(i) ==
  ConvertColumnName(IF result.rows = <<>> THEN result.columns[i]
                    ELSE ColumnsFromRow(result.rows[1])[i])

-----------------------------------------------------------------------------
(* result.ts *)
Text(cell) == IF cell = NULL THEN "null" ELSE cell[1]

Item(as, value) == [as |-> as, value |-> value]

(* What a row is to the one who fetches it in a certain way. *)
Fetched(as, obj) ==
  LET cells == ConvertNumeric(Numeric(obj))
  IN  Item(as, CASE as = "numeric"     -> cells
                 [] as = "associative" -> ConvertRow(obj)
                 [] as = "one"         -> SubSeq(cells, 1, 1)
                 [] as = "keyValue"    -> <<<<Text(cells[1])>>, cells[2]>>
                 [] as = "indexed"     -> <<<<Text(Get(ConvertRow(obj), ColumnName(1)))>>,
                                            Delete(ConvertRow(obj), ColumnName(1))>>)

(* Mutant: a value of NULL ends the column. *)
UndefinedOrNull(as, obj) == as = "one" /\ (Numeric(obj) = <<>> \/ Numeric(obj)[1] = NULL)
(* A row without a first column is undefined to fetchOne(). *)
Undefined(as, obj) == as = "one" /\ Numeric(obj) = <<>>

NeedsKey(as) == as = "keyValue" /\ ColumnCount < 2
Named(as)    == as # "indexed" \/ ColumnCount > 0

Same == UNCHANGED <<driver, mode, answer>>

Init ==
  /\ driver \in Drivers /\ mode \in Modes /\ answer \in Answers
  /\ answer.verb = "select" /\ answer.columns = <<>> => driver = "pg"
  /\ result = NoResult
  /\ reader = [r \in Readers |-> [as |-> "none", at |-> "none"]]
  /\ delivered = <<>>
  /\ ended = FALSE /\ cut = FALSE /\ refused = FALSE

(* executeQuery(): the rows are all there before the result is. *)
Execute ==
  /\ result = NoResult
  /\ result' = ToDriverResult
  /\ Same /\ UNCHANGED <<reader, delivered, ended, cut, refused>>

(* fetchNumeric(), fetchAssociative(), fetchOne() *)
Fetch(as) ==
  /\ result # NoResult /\ as \in {"numeric", "associative", "one"}
  /\ IF HasRow
     THEN /\ delivered' = IF Undefined(as, Row) THEN delivered ELSE Append(delivered, Fetched(as, Row))
          /\ result' = [result EXCEPT !.cursor = @ + 1]
          /\ UNCHANGED ended
     ELSE ended' = TRUE /\ UNCHANGED <<delivered, result>>
  /\ Same /\ UNCHANGED <<reader, cut, refused>>

(* fetchAllNumeric(), fetchAllAssociative(), fetchFirstColumn(): to the    *)
(* first undefined.                                                        *)
FetchAll(as) ==
  LET ends == SelectInSeq(Rest, LAMBDA obj : Undefined(as, obj))
      read == IF ends = 0 THEN Rest ELSE SubSeq(Rest, 1, ends - 1)
  IN  /\ result # NoResult /\ as \in {"numeric", "associative", "one"}
      /\ delivered' = delivered \o [i \in DOMAIN read |-> Fetched(as, read[i])]
      /\ result' = [result EXCEPT !.cursor = @ + Len(read) + IF ends = 0 THEN 0 ELSE 1]
      /\ ended' = TRUE
      /\ Same /\ UNCHANGED <<reader, cut, refused>>

(* data[String(key)] = ... *)
LastOfKeys(entries) ==
  FromEntries([i \in DOMAIN entries |-> Entry(entries[i][1][1], entries[i][2])], FALSE)

WholeOf == [keyValue |-> "byKey", indexed |-> "byIndex"]

(* fetchAllKeyValue(), fetchAllAssociativeIndexed(): an object by keys.    *)
FetchByKey(as) ==
  LET byKey == LastOfKeys([i \in DOMAIN Rest |-> Fetched(as, Rest[i]).value])
      readAll == result' = [result EXCEPT !.cursor = Len(result.rows) + 1]
  IN  /\ result # NoResult /\ as \in {"keyValue", "indexed"}
      /\ CASE NeedsKey(as) -> refused' = TRUE /\ UNCHANGED <<delivered, result, ended>>
           [] ~ NeedsKey(as) /\ ~ Named(as) /\ Rest # <<>> ->
                refused' = TRUE /\ readAll /\ UNCHANGED <<delivered, ended>>
           [] OTHER ->
                /\ delivered' = IF byKey = <<>> THEN delivered ELSE Append(delivered, Item(WholeOf[as], byKey))
                /\ readAll /\ ended' = TRUE /\ UNCHANGED refused
      /\ Same /\ UNCHANGED <<reader, cut>>

(* iterateNumeric() and its like: nothing runs before the first next().    *)
Iterate(r, as) ==
  /\ result # NoResult
  /\ reader[r].at = "none"
  /\ reader' = [reader EXCEPT ![r] = [as |-> as, at |-> "created"]]
  /\ Same /\ UNCHANGED <<result, delivered, ended, cut, refused>>

(* next(): ensureHasKeyValue() stands before the try, so that its error    *)
(* frees nothing.  iterateColumn() passes over rows without a column.      *)
NextOf(r) ==
  LET as == reader[r].as
      seen == SelectInSeq(Rest, LAMBDA obj : ~ (as = "one" /\ Numeric(obj) = <<>>))
      refuses == reader[r].at = "created" /\ NeedsKey(as)
      finish == reader' = [reader EXCEPT ![r].at = "done"]
  IN  /\ reader[r].at \in {"created", "suspended"}
      /\ CASE refuses ->
                finish /\ refused' = TRUE /\ UNCHANGED <<result, delivered, ended>>
           [] ~ refuses /\ seen = 0 ->
                finish /\ result' = Freed(result) /\ ended' = TRUE /\ UNCHANGED <<delivered, refused>>
           [] ~ refuses /\ seen # 0 /\ ~ Named(as) ->
                finish /\ result' = Freed(result) /\ refused' = TRUE /\ UNCHANGED <<delivered, ended>>
           [] OTHER ->
                /\ reader' = [reader EXCEPT ![r].at = "suspended"]
                /\ delivered' = Append(delivered, Fetched(as, Rest[seen]))
                /\ result' = [result EXCEPT !.cursor = @ + seen]
                /\ UNCHANGED <<ended, refused>>
      /\ Same /\ UNCHANGED cut

(* return(), when the application leaves its loop. *)
Leave(r) ==
  /\ reader[r].at \in {"created", "suspended"}
  /\ reader' = [reader EXCEPT ![r].at = "done"]
  /\ IF reader[r].at = "suspended"
     THEN result' = Freed(result) /\ cut' = TRUE
     ELSE UNCHANGED <<result, cut>>
  /\ Same /\ UNCHANGED <<delivered, ended, refused>>

Free ==
  /\ result # NoResult
  /\ result' = Freed(result)
  /\ cut' = TRUE
  /\ Same /\ UNCHANGED <<reader, delivered, ended, refused>>

Next ==
  \/ Execute \/ Free
  \/ \E as \in {"numeric", "associative", "one"} : Fetch(as) \/ FetchAll(as)
  \/ \E as \in {"keyValue", "indexed"} : FetchByKey(as)
  \/ \E r \in Readers : NextOf(r) \/ Leave(r) \/ \E as \in KindsOf[r] : Iterate(r, as)

Spec == Init /\ [][Next]_vars

-----------------------------------------------------------------------------
(* Answers whose rows an object cannot hold: labels that are the same, or  *)
(* that FIX_CASE makes the same.                                           *)
Repeats(names) == \E i, j \in DOMAIN names : i # j /\ names[i] = names[j]
WantedNames == [i \in DOMAIN answer.columns |-> ConvertColumnName(answer.columns[i])]
Ambiguous == Repeats(answer.columns)
Merged    == Repeats(WantedNames)

(* What docs/portability.md promises of a value.  A value of blanks alone  *)
(* is trimmed after empty values became NULL, and stays empty.             *)
Promised(cell) ==
  CASE cell = Empty /\ "empty" \in mode -> NULL
    [] cell = Padded /\ "trim" \in mode -> Trimmed
    [] cell = Blanks /\ "trim" \in mode -> Empty
    [] OTHER -> cell

Wanted(i) == [j \in DOMAIN answer.columns |-> Promised(answer.rows[i][j])]
Pairs(map) == {<<e.key, e.value>> : e \in Range(map)}
WantedPairs(i, from) == {<<WantedNames[j], Wanted(i)[j]>> : j \in from..Len(WantedNames)}

(* What the application gets is what the server sent, row by row, each row *)
(* once, whichever way and by whomever it is fetched.                      *)
IsRow(item, i) ==
  i \in DOMAIN answer.rows
  /\ CASE item.as = "numeric" -> Ambiguous \/ item.value = Wanted(i)
       [] item.as = "associative" -> Merged \/ Pairs(item.value) = WantedPairs(i, 1)
       [] item.as = "one" -> Ambiguous \/ item.value = <<Wanted(i)[1]>>
       [] item.as = "keyValue" ->
            Ambiguous \/ item.value = <<<<Text(Wanted(i)[1])>>, Wanted(i)[2]>>
       [] item.as = "indexed" ->
            Merged \/ (item.value[1] = <<Text(Wanted(i)[1])>> /\ Pairs(item.value[2]) = WantedPairs(i, 2))
       [] OTHER -> TRUE

ByKey(item) == item.as \in {"byKey", "byIndex"}

Faithful ==
  \A k \in DOMAIN delivered :
    (\A j \in 1..k : ~ ByKey(delivered[j])) => answer.columns = <<>> \/ IsRow(delivered[k], k)

(* The object that fetchAllKeyValue() or fetchAllAssociativeIndexed() makes *)
(* of the rest has the last row of every key; NULL is the key "null".      *)
KeysKept ==
  \A k \in DOMAIN delivered :
    /\ ByKey(delivered[k]) /\ ~ Merged /\ ~ cut /\ RowsRead /\ answer.columns # <<>>
    /\ \A j \in 1..(k - 1) : ~ ByKey(delivered[j])
    => \A i \in k..Len(answer.rows) :
         (\A j \in (i + 1)..Len(answer.rows) : Text(Wanted(j)[1]) # Text(Wanted(i)[1])) =>
           \E e \in Range(delivered[k].value) :
             /\ e.key = Text(Wanted(i)[1])
             /\ IF delivered[k].as = "byKey" THEN e.value = Wanted(i)[2]
                ELSE Pairs(e.value) = WantedPairs(i, 2)

(* When the application is told that there is no more, it has had all the  *)
(* rows, unless it freed the result or left a generator that was reading.  *)
(* Rows without columns have nothing that fetchOne() could give.           *)
NoneLost ==
  /\ ended /\ ~ cut /\ answer.columns # <<>> /\ RowsRead
  /\ \A k \in DOMAIN delivered : ~ ByKey(delivered[k])
  => Len(delivered) = Len(answer.rows)

(* The result describes the answer, however many rows it has and however   *)
(* much of it was read or freed: the number of columns, by which keys are  *)
(* refused, and the number of rows.  sqlite3 knows no columns without rows.*)
Described ==
  result # NoResult =>
    /\ ~ RowsRead \/ Ambiguous \/ (driver = "sqlite3" /\ answer.rows = <<>>) \/ ColumnCount = Len(answer.columns)
    /\ refused => ~ RowsRead \/ Ambiguous \/ Len(answer.columns) < 2
                    \/ (driver = "sqlite3" /\ answer.rows = <<>>)
    /\ result.affected = answer.affected

(* The answer reaches the application unchanged: row by row, by keys, and  *)
(* in what the result says of it.                                          *)
AsSent == Faithful /\ KeysKept /\ Described
=============================================================================
