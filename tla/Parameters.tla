----------------------------- MODULE Parameters -----------------------------
(***************************************************************************)
(* The way of a statement with parameters from the application to the      *)
(* server: Connection.executeQuery() and executeStatement() normalise the  *)
(* parameters, expand arrays (ExpandArrayParameters), name the             *)
(* placeholders for mssql, and bind; Connection.prepare() leaves all of    *)
(* that to the driver's statement; the pg and mssql adapters then rewrite  *)
(* the placeholders once more.  Every rewriting runs sql/parser.ts again.  *)
(*                                                                         *)
(* SQL is a sequence of characters: ? : ' \ and n, which stands for all    *)
(* that a name is made of.  A name is its length.  Rewriting adds "," and  *)
(* "NULL" and numbered and named placeholders as characters of their own.  *)
(***************************************************************************)
EXTENDS Integers, SequencesExt

CONSTANTS
  Drivers,     \* some of sqlite3, pg, mysql2, mssql
  MaxLength    \* bound: characters of a statement

VARIABLES
  call,        \* what the application asks for
  stage,       \* how far the call has come
  sql,         \* the SQL so far
  params,      \* the parameters so far, in order: [key, value, type]
  bound        \* the parameters that the driver's statement has

vars == <<call, stage, sql, params, bound>>

Characters == {"?", ":", "n", "'", "\\"}
Dollar     == <<"$1", "$2", "$3", "$4", "$5", "$6">>
At         == <<"@p1", "@p2", "@p3", "@p4", "@p5", "@p6">>
AtName     == <<"@n", "@nn", "@nnn", "@nnnn", "@nnnnn">>

At0(s, i) == IF i \in DOMAIN s THEN s[i] ELSE ""

-----------------------------------------------------------------------------
(* sql/parser.ts.  Backslash: MySQL's escaping, Parser(true). *)

(* Where the literal that starts at i ends, 0 if it does not. *)
RECURSIVE Close(_, _, _)
Close(s, j, backslash) ==
  IF j > Len(s) THEN 0 ELSE
  CASE s[j] = "'" -> j
    [] s[j] = "\\" /\ backslash -> IF j = Len(s) THEN 0 ELSE Close(s, j + 2, backslash)
    [] OTHER -> Close(s, j + 1, backslash)

(* The last of the characters c from i on. *)
RECURSIVE RunEnd(_, _, _)
RunEnd(s, i, c) == IF At0(s, i + 1) = c THEN RunEnd(s, i + 1, c) ELSE i

(* The token at i: the alternatives of tokenExpression, in their order.    *)
TokenAt(s, i, backslash) ==
  LET close == Close(s, i + 1, backslash)
  IN  CASE s[i] = ":" /\ At0(s, i + 1) = "n" -> [kind |-> "named", last |-> RunEnd(s, i + 1, "n")]
        [] s[i] = "?" /\ At0(s, i - 1) # "?" /\ At0(s, i + 1) # "?" ->
             [kind |-> "positional", last |-> i]
        [] s[i] = "'" /\ close # 0 -> [kind |-> "other", last |-> close]
        [] s[i] = ":" /\ At0(s, i + 1) = ":" -> [kind |-> "other", last |-> RunEnd(s, i, ":")]
        [] s[i] = "?" /\ At0(s, i + 1) = "?" -> [kind |-> "escaped", last |-> i + 1]
        [] OTHER -> [kind |-> "other", last |-> i]

RECURSIVE TokensFrom(_, _, _)
TokensFrom(s, i, backslash) ==
  IF i > Len(s) THEN <<>>
  ELSE LET t == TokenAt(s, i, backslash)
       IN  <<[kind |-> t.kind, text |-> SubSeq(s, i, t.last)]>> \o TokensFrom(s, t.last + 1, backslash)

Parse(s, backslash) == TokensFrom(s, 1, backslash)

-----------------------------------------------------------------------------
(* The visitors: what each token becomes.  acc: SQL, parameters taken.     *)
(* Mutant: the first position is 0. *)
StartAtZero == [sql |-> <<>>, params |-> <<>>, next |-> 0, failed |-> FALSE]

Missing == [sql |-> <<>>, params |-> <<>>, next |-> 0, failed |-> TRUE]
Start   == [sql |-> <<>>, params |-> <<>>, next |-> 1, failed |-> FALSE]

Find(ps, key) == SelectSeq(ps, LAMBDA p : p.key = key)

(* One placeholder per value of an array, NULL for none. *)
Placeholders(values) ==
  IF values = <<>> THEN <<"NULL">>
  ELSE FoldLeft(LAMBDA acc, v : acc \o IF acc = <<>> THEN <<"?">> ELSE <<",", "?">>, <<>>, values)

AcceptParameter(acc, p, next) ==
  LET isArray == p.type = "array"
      values  == IF isArray THEN p.value ELSE <<p.value>>
      taken   == [i \in DOMAIN values |->
                    [key |-> 0, value |-> values[i], type |-> IF isArray THEN "element" ELSE p.type]]
  IN  [acc EXCEPT !.sql = @ \o Placeholders(values), !.params = @ \o taken, !.next = next]

(* Mutant: the escape is resolved in the first pass.                       *)
ExpandTokenUnescaping(acc, t, ps) ==
  LET key == IF t.kind = "named" THEN Len(t.text) - 1 ELSE -acc.next
      p   == Find(ps, key)
  IN  IF acc.failed THEN acc ELSE
      CASE t.kind \in {"named", "positional"} ->
             IF p = <<>> THEN Missing
             ELSE AcceptParameter(acc, p[1], IF t.kind = "named" THEN acc.next ELSE acc.next + 1)
        [] t.kind = "escaped" -> [acc EXCEPT !.sql = Append(@, "?")]
        [] OTHER -> [acc EXCEPT !.sql = @ \o t.text]

(* ExpandArrayParameters.  The key of a positional parameter is minus its  *)
(* position, that of a named one the length of its name.                   *)
ExpandToken(acc, t, ps) ==
  LET key == IF t.kind = "named" THEN Len(t.text) - 1 ELSE -acc.next
      p   == Find(ps, key)
  IN  IF acc.failed THEN acc ELSE
      CASE t.kind \in {"named", "positional"} ->
             IF p = <<>> THEN Missing
             ELSE AcceptParameter(acc, p[1], IF t.kind = "named" THEN acc.next ELSE acc.next + 1)
        [] OTHER -> [acc EXCEPT !.sql = @ \o t.text]

(* convertPositionalToNamedBindings(): mssql's first pass over placeholders. *)
NameToken(acc, t, ps) ==
  IF acc.failed THEN acc ELSE
  CASE t.kind \in {"named", "positional"} ->
         IF acc.next > Len(ps) THEN Missing
         ELSE [acc EXCEPT !.sql = Append(@, At[acc.next]), !.next = @ + 1,
                          !.params = Append(@, [ps[acc.next] EXCEPT !.key = acc.next])]
    [] t.kind = "escaped" -> [acc EXCEPT !.sql = Append(@, "?")]
    [] OTHER -> [acc EXCEPT !.sql = @ \o t.text]

(* pg's convertPositionalPlaceholders() and mssql's convertPlaceholders(). *)
DriverToken(acc, t, driver) ==
  IF acc.failed THEN acc ELSE
  CASE t.kind = "named" /\ driver = "pg" -> Missing
    [] t.kind = "named" /\ driver # "pg" -> [acc EXCEPT !.sql = Append(@, AtName[Len(t.text) - 1])]
    [] t.kind = "positional" ->
         [acc EXCEPT !.sql = Append(@, IF driver = "pg" THEN Dollar[acc.next] ELSE At[acc.next]),
                     !.next = @ + 1]
    [] t.kind = "escaped" -> [acc EXCEPT !.sql = Append(@, "?")]
    [] OTHER -> [acc EXCEPT !.sql = @ \o t.text]

-----------------------------------------------------------------------------
(* What SQL means to a server, and what the application means by it.       *)
Backslashes(driver) == driver = "mysql2"

(* How many characters from the start each literal has been open for.      *)
Quoting(s, backslash) ==
  FoldLeft(LAMBDA acc, c :
             LET inside == acc.open
             IN  [ open  |-> IF c = "'" /\ ~ acc.escape THEN ~ acc.open ELSE acc.open,
                   escape |-> inside /\ backslash /\ c = "\\" /\ ~ acc.escape,
                   marks |-> Append(acc.marks, inside \/ c = "'") ],
           [open |-> FALSE, escape |-> FALSE, marks |-> <<>>], s)

InLiteral(s, driver) == Quoting(s, Backslashes(driver)).marks

(* Runs of a character outside of literals. *)
Outside(s, driver, i, c) == At0(s, i) = c /\ ~ InLiteral(s, driver)[i]

IsNamed(s, driver, i) ==
  /\ Outside(s, driver, i, ":") /\ At0(s, i + 1) = "n" /\ ~ Outside(s, driver, i - 1, ":")

IsPositional(s, driver, i) ==
  /\ Outside(s, driver, i, "?")
  /\ ~ Outside(s, driver, i - 1, "?") /\ ~ Outside(s, driver, i + 1, "?")

NamedAt(s, driver) == {i \in DOMAIN s : IsNamed(s, driver, i)}
PositionalAt(s, driver) == {i \in DOMAIN s : IsPositional(s, driver, i)}

(* Statements an application may write: closed literals, one style of      *)
(* placeholder, the escape ?? where there is an operator ?, and a blank    *)
(* between a placeholder and another or the escape.                        *)
WellFormed(s, driver) ==
  /\ ~ Quoting(s, Backslashes(driver)).open
  /\ \A i \in DOMAIN s :
       /\ Outside(s, driver, i, "?") /\ Outside(s, driver, i + 1, "?") =>
            /\ driver = "pg"
            /\ ~ Outside(s, driver, i - 1, "?") /\ ~ Outside(s, driver, i + 2, "?")
       /\ Outside(s, driver, i, ":") /\ Outside(s, driver, i + 1, ":") =>
            ~ Outside(s, driver, i - 1, ":")
  /\ NamedAt(s, driver) = {} \/ PositionalAt(s, driver) = {}
  /\ \A i \in NamedAt(s, driver) :
       /\ RunEnd(s, i + 1, "n") + 1 \notin NamedAt(s, driver)
       /\ ~ Outside(s, driver, i - 1, "?") /\ ~ Outside(s, driver, RunEnd(s, i + 1, "n") + 1, "?")

(* The keys of its placeholders. *)
NumberOf(s, driver, i) == Cardinality({j \in PositionalAt(s, driver) : j <= i})
KeyAt(s, driver, i) ==
  IF IsNamed(s, driver, i) THEN RunEnd(s, i + 1, "n") - i ELSE -NumberOf(s, driver, i)
KeysOf(s, driver) == {KeyAt(s, driver, i) : i \in NamedAt(s, driver) \cup PositionalAt(s, driver)}

Bare(c)    == [text |-> c, value |-> <<>>]
ValueOf(v) == [text |-> "", value |-> v]
Listed(values) ==
  IF values = <<>> THEN <<Bare("NULL")>>
  ELSE FoldLeft(LAMBDA acc, v : acc \o (IF acc = <<>> THEN <<>> ELSE <<Bare(",")>>) \o <<ValueOf(v)>>,
                <<>>, values)

(* What the application means: each placeholder is its value. *)
Intended ==
  LET s == call.sql
      d == call.driver
      inName(i) == \E j \in NamedAt(s, d) : i > j /\ i <= RunEnd(s, j + 1, "n")
      item(i) ==
        IF inName(i) THEN <<>> ELSE
        CASE i \in NamedAt(s, d) \cup PositionalAt(s, d) ->
               LET p == Find(call.params, KeyAt(s, d, i))[1]
               IN  IF p.type = "array" THEN Listed(p.value) ELSE <<ValueOf(p.value)>>
          [] Outside(s, d, i, "?") /\ Outside(s, d, i - 1, "?") -> <<>>
          [] OTHER -> <<Bare(s[i])>>
  IN  FlattenSeq([i \in DOMAIN s |-> item(i)])

(* What the server reads: the values that are bound to the placeholders    *)
(* that it finds outside of literals.                                      *)
Received ==
  LET d == call.driver
      marks == InLiteral(sql, d)
      by(key) == Find(bound, key)
      given(key) == IF by(key) = <<>> THEN <<Bare("unbound")>> ELSE <<ValueOf(by(key)[1].value)>>
      item(i) ==
        IF marks[i] THEN <<Bare(sql[i])>> ELSE
        CASE d \in {"sqlite3", "mysql2"} /\ sql[i] = "?" ->
               given(Cardinality({j \in 1..i : sql[j] = "?" /\ ~ marks[j]}))
          [] d = "pg" /\ Contains(Dollar, sql[i]) -> given(IndexFirstSubSeq(<<sql[i]>>, Dollar))
          [] d = "mssql" /\ Contains(At, sql[i]) -> given(IndexFirstSubSeq(<<sql[i]>>, At))
          [] d = "mssql" /\ Contains(AtName, sql[i]) -> given(-IndexFirstSubSeq(<<sql[i]>>, AtName))
          [] OTHER -> <<Bare(sql[i])>>
  IN  FlattenSeq([i \in DOMAIN sql |-> item(i)])

-----------------------------------------------------------------------------
(* Calls.  A value is named by its key and its place in an array; "raw"    *)
(* and "converted" tell whether a Datazen type has converted it.           *)
Raw(key, i)  == <<key, i, "raw">>
Converted(v) == <<v[1], v[2], "converted">>

Kinds == {"none", "scalar", "custom", "array0", "array2"}
ParameterOf(key, kind) ==
  CASE kind = "array0" -> [key |-> key, value |-> <<>>, type |-> "array"]
    [] kind = "array2" -> [key |-> key, value |-> <<Raw(key, 1), Raw(key, 2)>>, type |-> "array"]
    [] OTHER -> [key |-> key, value |-> Raw(key, 1), type |-> kind]

Statements(driver) ==
  {s \in SeqOf(Characters, MaxLength) : WellFormed(s, driver) /\ KeysOf(s, driver) # {}}

CallsOf(driver) ==
  UNION { LET keys == SetToSeq(KeysOf(s, driver))
          IN  { [ driver |-> driver, via |-> via, sql |-> s,
                  params |-> [i \in DOMAIN keys |-> ParameterOf(keys[i], kinds[i])] ] :
                via \in {"execute", "prepare"}, kinds \in [DOMAIN keys -> Kinds] } :
          s \in Statements(driver) }

(* A prepared statement binds no arrays. *)
Init ==
  /\ \E d \in Drivers : call \in CallsOf(d)
  /\ call.via = "prepare" => \A p \in Range(call.params) : p.type # "array"
  /\ stage = "called"
  /\ sql = call.sql
  /\ params = call.params
  /\ bound = <<>>

To(next) == stage' = next /\ UNCHANGED call

(* normalizeParameters(): a value with a Datazen type is converted, and    *)
(* has that type's binding type from then on.                              *)
Normalized(p) ==
  IF p.type = "custom" THEN [p EXCEPT !.value = Converted(@), !.type = "scalar"] ELSE p

Normalize ==
  /\ stage = "called" /\ call.via = "execute"
  /\ params' = [i \in DOMAIN params |-> Normalized(params[i])]
  /\ To("normalized")
  /\ UNCHANGED <<sql, bound>>

InOrder(ps) == SortSeq(ps, LAMBDA p, q : p.key > q.key)

(* expandArrayParameters(): a list without array types goes as it is.      *)
Expand ==
  LET isList == \A p \in Range(params) : p.key < 0
      expanded == FoldLeft(LAMBDA acc, t : ExpandToken(acc, t, params), Start, Parse(sql, TRUE))
  IN  /\ stage = "normalized"
      /\ IF isList /\ \A p \in Range(params) : p.type # "array"
         THEN To("expanded") /\ params' = InOrder(params) /\ UNCHANGED sql
         ELSE IF expanded.failed
         THEN To("refused") /\ UNCHANGED <<sql, params>>
         ELSE To("expanded") /\ sql' = expanded.sql /\ params' = expanded.params
      /\ UNCHANGED bound

(* compileQuery(), for the driver that binds by name. *)
NameBindings ==
  LET named == FoldLeft(LAMBDA acc, t : NameToken(acc, t, params), Start, Parse(sql, TRUE))
  IN  /\ stage = "expanded"
      /\ IF call.driver # "mssql" THEN To("compiled") /\ UNCHANGED <<sql, params>>
         ELSE IF named.failed THEN To("refused") /\ UNCHANGED <<sql, params>>
         ELSE To("compiled") /\ sql' = named.sql /\ params' = named.params
      /\ UNCHANGED bound

(* bindDriverParameters() on the driver's statement. *)
Bind ==
  /\ stage = "compiled" /\ params # <<>>
  /\ bound' = [i \in DOMAIN params |-> [params[i] EXCEPT !.key = i]]
  /\ To("bound")
  /\ UNCHANGED <<sql, params>>

(* Nothing to bind: the SQL is not prepared but goes as it is. *)
Query ==
  /\ stage = "compiled" /\ params = <<>>
  /\ To("sent")
  /\ UNCHANGED <<sql, params, bound>>

(* Statement.bindValue() for each parameter; positions start with 1.  Only *)
(* mssql's statement takes names.                                          *)
BindValue ==
  LET p == Normalized(Head(params))
  IN  /\ stage = "called" /\ call.via = "prepare" /\ params # <<>>
      /\ IF p.key > 0 /\ call.driver # "mssql"
         THEN To("refused") /\ UNCHANGED <<params, bound>>
         ELSE /\ bound' = Append(bound, [p EXCEPT !.key = -@])
              /\ params' = Tail(params)
              /\ UNCHANGED <<call, stage>>
      /\ UNCHANGED sql

Prepared ==
  /\ stage = "called" /\ call.via = "prepare" /\ params = <<>>
  /\ To("bound")
  /\ UNCHANGED <<sql, params, bound>>

(* executePrepared() of the adapter. *)
Execute ==
  LET converted == FoldLeft(LAMBDA acc, t : DriverToken(acc, t, call.driver), Start,
                            Parse(sql, FALSE))
  IN  /\ stage = "bound"
      /\ IF call.driver \in {"sqlite3", "mysql2"} THEN To("sent") /\ UNCHANGED sql
         ELSE IF converted.failed THEN To("refused") /\ UNCHANGED sql
         ELSE To("sent") /\ sql' = converted.sql
      /\ UNCHANGED <<params, bound>>

Next == Normalize \/ Expand \/ NameBindings \/ Bind \/ Query \/ BindValue \/ Prepared \/ Execute

Spec == Init /\ [][Next]_vars

-----------------------------------------------------------------------------
(* The parser that expands and names always escapes with backslashes: a    *)
(* literal with one is read wrong for the other servers.                   *)
ReadWrong == ~ Backslashes(call.driver) /\ Contains(call.sql, "\\") /\ call.via = "execute"

(* Without anything to bind, no adapter resolves the escape ??. *)
Unresolved ==
  bound = <<>> /\ \E i \in DOMAIN sql : /\ Outside(sql, call.driver, i, "?")
                                        /\ Outside(sql, call.driver, i + 1, "?")

(* The server reads what the application means: the same text, literals    *)
(* untouched, and in the place of each placeholder the value of its        *)
(* parameter, or of all elements of its array.                             *)
WithoutCustom(items) == [i \in DOMAIN items |->
  IF items[i].value = <<>> THEN items[i] ELSE [items[i] EXCEPT !.value = <<@[1], @[2]>>]]

MeaningKept ==
  stage = "sent" /\ ~ ReadWrong /\ ~ Unresolved => WithoutCustom(Received) = WithoutCustom(Intended)

(* Each value is bound with its own type, and is converted just if that is *)
(* a Datazen type, however much arrays before it move it.                  *)
TypesKept ==
  stage = "sent" =>
    \A b \in Range(bound) :
      LET p == Find(call.params, b.value[1])[1]
      IN  /\ b.type = CASE p.type = "array" -> "element" [] p.type = "custom" -> "scalar" [] OTHER -> p.type
          /\ (b.value[3] = "converted") = (p.type = "custom")

(* A parameter takes its value and its type along, through all the passes  *)
(* over the statement.                                                     *)
BoundAsMeant == MeaningKept /\ TypesKept

(* A well-formed statement with all its parameters is never refused.       *)
Accepted ==
  stage = "refused" => call.via = "prepare" \/ ReadWrong
=============================================================================
