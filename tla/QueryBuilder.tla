---------------------------- MODULE QueryBuilder ----------------------------
(***************************************************************************)
(* src/src/query/query-builder.ts: builders that collect the parts of a    *)
(* query and its parameters, and cache the SQL they are rendered to.  One  *)
(* builder, "outer", may embed the other, "inner", in a UNION or a WITH.   *)
(*                                                                         *)
(* SQL is the record of its clauses.  A fragment of SQL that the           *)
(* application writes is a text or a placeholder; the value a placeholder  *)
(* was created for is carried along (value) for the properties to compare. *)
(***************************************************************************)
EXTENDS Integers, OrderedMap

CONSTANTS
  Programs,  \* sets of methods: an application uses those of one of them
  Locking,   \* the platform has FOR UPDATE (all but SQLite)
  Texts,     \* atomic predicates
  Aliases,   \* table aliases
  Fields,    \* columns of INSERT and UPDATE
  MaxCalls   \* bound: calls made, not counting getSQL

VARIABLES
  builders,  \* the two builders
  methods,   \* the methods that the application uses
  calls,     \* the number of calls made
  meaning    \* history: the valuations that where() and the like ask for

vars == <<builders, methods, calls, meaning>>

Names == {"outer", "inner"}
NoSQL == [type |-> "none"]
Null  == [type |-> "null", parts |-> <<>>, atom |-> <<>>]

Key(base, n)   == [base |-> base, n |-> n]
Atom(kind, key, value) ==
  [type |-> "atom", parts |-> <<>>, atom |-> [kind |-> kind, key |-> key, value |-> value]]
Text(t)        == Atom("text", Key(t, 0), 0)

New == [ type |-> "SELECT", table |-> "", select |-> 0, distinct |-> FALSE, from |-> <<>>,
         joins |-> <<>>, set |-> <<>>, where |-> Null, groupBy |-> 0, having |-> Null,
         orderBy |-> 0, limit |-> 0, forUpdate |-> FALSE, values |-> <<>>, unions |-> <<>>,
         ctes |-> <<>>, style |-> "positional", params |-> <<>>, counter |-> 0, sql |-> NoSQL,
         dated |-> FALSE, clash |-> FALSE ]   \* history: see SetValue, SetParameter

-----------------------------------------------------------------------------
(* Parameters. *)

(* The first positional parameter forgets the named ones, and the other    *)
(* way round.  Clash remembers that a parameter was lost or overwritten.   *)
SetParameter(b, key, value) ==
  LET style == IF key.base = "" THEN "positional" ELSE "named"
      kept  == IF b.style = style THEN b.params ELSE <<>>
  IN  [b EXCEPT !.style = style, !.params = Put(kept, key, value),
                !.clash = @ \/ (b.style # style /\ b.params # <<>>)
                            \/ (key.base \in Fields /\ key \in Keys(kept))]

(* Mutant: the placeholder is named before it is counted.                  *)
NameThenCount(b, value) ==
  LET key == Key("dcValue", b.counter)
  IN  [ b  |-> SetParameter([b EXCEPT !.counter = IF @ = 0 THEN 1 ELSE @], key, value),
        ph |-> Atom("named", key, value) ]

CreateNamedParameter(b, value) ==
  LET key == Key("dcValue", b.counter + 1)
  IN  [ b  |-> SetParameter([b EXCEPT !.counter = @ + 1], key, value),
        ph |-> Atom("named", key, value) ]

NamedAfter(b, field, value) ==
  [b |-> SetParameter(b, Key(field, 0), value), ph |-> Atom("named", Key(field, 0), value)]

CreatePositionalParameter(b, value) ==
  [ b  |-> SetParameter([b EXCEPT !.counter = @ + 1], Key("", b.counter), value),
    ph |-> Atom("positional", Key("", 0), value) ]

-----------------------------------------------------------------------------
(* Predicates. *)
Composite(type, parts) == [type |-> type, parts |-> parts, atom |-> <<>>]

CreatePredicate(ps) == IF Len(ps) = 1 THEN ps[1] ELSE Composite("AND", ps)

(* Mutant: the predicate is added to whatever composite there is.          *)
AppendToAny(current, type, ps) ==
  IF current.type \in {"AND", "OR"} THEN Composite(current.type, current.parts \o ps)
  ELSE IF current # Null THEN Composite(type, <<current>> \o ps)
  ELSE IF Len(ps) = 1 THEN ps[1] ELSE Composite(type, ps)

AppendToPredicate(current, type, ps) ==
  IF current.type = type THEN Composite(type, current.parts \o ps)
  ELSE IF current # Null THEN Composite(type, <<current>> \o ps)
  ELSE IF Len(ps) = 1 THEN ps[1] ELSE Composite(type, ps)

-----------------------------------------------------------------------------
(* Rendering. *)

(* The clauses of getFromClauses(): each table with the joins from it and, *)
(* after them, the joins from these.                                       *)
Ref(from) == IF from.alias = "" THEN from.table ELSE from.alias

RECURSIVE JoinsFrom(_, _)
JoinsFrom(joins, acc) ==   \* acc: joins rendered, aliases to visit, aliases known
  IF acc.todo = <<>> \/ acc.clash THEN acc
  ELSE LET own   == IF Head(acc.todo) \in Keys(joins) THEN Get(joins, Head(acc.todo)) ELSE <<>>
           clash == \E i \in DOMAIN own : \/ own[i] \in acc.known
                                          \/ \E j \in 1..(i - 1) : own[j] = own[i]
       IN  JoinsFrom(joins, [ sql   |-> acc.sql \o own,
                              todo  |-> own \o Tail(acc.todo),
                              known |-> acc.known \cup Range(own),
                              clash |-> clash ])

RenderedFrom(b) ==
  LET acc == FoldLeft(LAMBDA a, from :
                        IF a.clash THEN a
                        ELSE JoinsFrom(b.joins, [a EXCEPT !.todo = <<Ref(from)>>,
                                                          !.known = @ \cup {Ref(from)}]),
                      [sql |-> <<>>, todo |-> <<>>, known |-> {}, clash |-> FALSE], b.from)
  IN  [acc EXCEPT !.clash = @ \/ ~ Keys(b.joins) \subseteq acc.known]

(* Nothing is rendered, not even the embedded builder. *)
Incomplete(b) ==
  \/ b.type = "SELECT" /\ b.select = 0
  \/ b.type = "UNION" /\ Len(b.unions) < 2

(* FOR UPDATE on a platform that has none. *)
LockingFails(b) == b.forUpdate /\ ~ Locking

(* Only a SELECT has a WITH, and only a UNION its parts. *)
Embedded(b) ==
  CASE b.type = "SELECT" -> b.ctes
    [] b.type = "UNION"  -> b.unions
    [] OTHER -> <<>>

Embeds(b) == Contains(Embedded(b), "inner")

(* SQL, given the SQL of the embedded builder. *)
PartsSQL(b, inner) ==
  [i \in DOMAIN Embedded(b) |-> IF Embedded(b)[i] = "inner" THEN inner ELSE NoSQL]

SQLForSelect(b, inner) ==
  [ type |-> "SELECT", with |-> PartsSQL(b, inner), distinct |-> b.distinct, select |-> b.select,
    from |-> b.from, joins |-> RenderedFrom(b).sql, where |-> b.where, groupBy |-> b.groupBy,
    having |-> b.having, orderBy |-> b.orderBy, limit |-> b.limit, forUpdate |-> b.forUpdate ]

SQLForUnion(b, inner) ==
  [type |-> "UNION", parts |-> PartsSQL(b, inner), orderBy |-> b.orderBy, limit |-> b.limit]

SQLForInsert(b) == [type |-> "INSERT", table |-> b.table, values |-> b.values]
SQLForUpdate(b) == [type |-> "UPDATE", table |-> b.table, set |-> b.set, where |-> b.where]
SQLForDelete(b) == [type |-> "DELETE", table |-> b.table, where |-> b.where]

Rendered(b, inner) ==
  CASE b.type = "SELECT" -> SQLForSelect(b, inner)
    [] b.type = "UNION"  -> SQLForUnion(b, inner)
    [] b.type = "INSERT" -> SQLForInsert(b)
    [] b.type = "UPDATE" -> SQLForUpdate(b)
    [] b.type = "DELETE" -> SQLForDelete(b)

Fails(b) ==
  Incomplete(b) \/ (b.type = "SELECT" /\ (RenderedFrom(b).clash \/ LockingFails(b)))

Cached(b, inner) == IF b.sql # NoSQL THEN b ELSE [b EXCEPT !.sql = Rendered(b, inner)]

(* The embedded builder caches its own SQL on the way, also when the outer *)
(* one fails after it.                                                     *)
GetSQL(n) ==
  LET b     == builders[n]
      inner == builders["inner"]
      cachedInner == Cached(inner, NoSQL)
  IN  /\ b.sql = NoSQL /\ ~ Incomplete(b)
      /\ IF Embeds(b)
         THEN /\ inner.sql # NoSQL \/ ~ Fails(inner)
              /\ builders' = [builders EXCEPT !["inner"] = cachedInner,
                   ![n] = IF Fails(b) THEN b ELSE Cached(b, cachedInner.sql)]
         ELSE ~ Fails(b) /\ builders' = [builders EXCEPT ![n] = Cached(b, NoSQL)]
      /\ UNCHANGED <<methods, calls, meaning>>

-----------------------------------------------------------------------------
(* The methods.  Call makes b the new state of builder n.                  *)
Fresh(b) == [b EXCEPT !.sql = NoSQL, !.dated = FALSE]

Call(n, method, b) ==
  /\ method \in methods
  /\ calls < MaxCalls
  /\ calls' = calls + 1
  /\ builders' = [builders EXCEPT ![n] = b]
  /\ UNCHANGED methods

(* Mutant: the cached SQL survives. *)
OrderByKept(b) == [b EXCEPT !.orderBy = 1]

OrderBy(b) == Fresh([b EXCEPT !.orderBy = 1])

Select(n) ==
  LET b == builders[n]
  IN  /\ \/ Call(n, "select", Fresh([b EXCEPT !.type = "SELECT", !.select = 1]))
         \/ Call(n, "addSelect", Fresh([b EXCEPT !.type = "SELECT", !.select = @ + 1]))
         \/ Call(n, "distinct", Fresh([b EXCEPT !.distinct = ~ @]))
      /\ UNCHANGED meaning

Limit(n) ==
  LET b == builders[n]
  IN  /\ \/ \E k \in 0..2 : Call(n, "limit", Fresh([b EXCEPT !.limit = k]))
         \/ Call(n, "forUpdate", Fresh([b EXCEPT !.forUpdate = TRUE]))
      /\ UNCHANGED meaning

Group(n) ==
  LET b == builders[n]
  IN  /\ \/ Call(n, "groupBy", Fresh([b EXCEPT !.groupBy = 1]))
         \/ Call(n, "addGroupBy", Fresh([b EXCEPT !.groupBy = @ + 1]))
      /\ UNCHANGED meaning

Order(n) ==
  LET b == builders[n]
  IN  /\ \/ Call(n, "orderBy", OrderBy(b))
         \/ Call(n, "addOrderBy", Fresh([b EXCEPT !.orderBy = @ + 1]))
      /\ UNCHANGED meaning

Reset(n) ==
  LET b == builders[n]
  IN  /\ \/ Call(n, "resetGroupBy", Fresh([b EXCEPT !.groupBy = 0]))
         \/ Call(n, "resetOrderBy", Fresh([b EXCEPT !.orderBy = 0]))
      /\ UNCHANGED meaning

Modify(n) ==
  /\ \E type \in {"INSERT", "UPDATE", "DELETE"} :
       Call(n, "modify", Fresh([builders[n] EXCEPT !.type = type, !.table = "t"]))
  /\ UNCHANGED meaning

From(n) ==
  /\ \E t \in Aliases, a \in Aliases \cup {""} :
       Call(n, "from", Fresh([builders[n] EXCEPT !.from = Append(@, [table |-> t, alias |-> a])]))
  /\ UNCHANGED meaning

(* innerJoin(), leftJoin() and rightJoin(); a join is its alias. *)
Join(n) ==
  LET b == builders[n]
      own(f) == IF f \in Keys(b.joins) THEN Get(b.joins, f) ELSE <<>>
  IN  /\ \E f \in Aliases, a \in Aliases :
           Call(n, "join", Fresh([b EXCEPT !.joins = Put(@, f, Append(own(f), a))]))
      /\ UNCHANGED meaning

(* Truth of predicates, for meaning. *)
Valuations == SUBSET Texts
RECURSIVE Truth(_)
Truth(p) ==
  CASE p.type = "AND" -> {v \in Valuations : \A i \in DOMAIN p.parts : v \in Truth(p.parts[i])}
    [] p.type = "OR"  -> {v \in Valuations : \E i \in DOMAIN p.parts : v \in Truth(p.parts[i])}
    [] p.type = "atom" -> {v \in Valuations : p.atom.kind # "text" \/ p.atom.key.base \in v}
    [] OTHER -> Valuations

All(ps)  == {v \in Valuations : \A p \in Range(ps) : v \in Truth(p)}
Some(ps) == {v \in Valuations : \E p \in Range(ps) : v \in Truth(p)}

(* Field f, where or having, is set, added to and reset. *)
Predicate(n, f) ==
  LET b == builders[n]
      some == {<<Text(t)>> : t \in Texts} \cup {<<Text(t), Text(u)>> : t, u \in Texts}
      asks(value) == meaning' = [meaning EXCEPT ![n][f] = value]
  IN  \/ \E ps \in some :
           \/ Call(n, f, Fresh([b EXCEPT ![f] = CreatePredicate(ps)])) /\ asks(All(ps))
           \/ /\ Call(n, f, Fresh([b EXCEPT ![f] = AppendToPredicate(@, "AND", ps)]))
              /\ asks(meaning[n][f] \cap All(ps))
           \/ /\ Call(n, f, Fresh([b EXCEPT ![f] = AppendToPredicate(@, "OR", ps)]))
              /\ asks(Some(ps) \cup IF b[f] = Null THEN {} ELSE meaning[n][f])
      \/ Call(n, f, Fresh([b EXCEPT ![f] = Null])) /\ asks(Valuations)

Where(n)  == Predicate(n, "where")
Having(n) == Predicate(n, "having")

(* setValue() leaves the cached SQL; dated remembers that it is out of date. *)
SetValue(b, field, ph) ==
  [b EXCEPT !.values = Put(@, field, ph), !.dated = @ \/ b.sql.type = "INSERT"]

SetValues(n) ==
  LET b == builders[n]
  IN  /\ \E field \in Fields :
           \/ Call(n, "setValue", SetValue(b, field, Text("text")))
           \/ Call(n, "values", Fresh([b EXCEPT !.values = <<Entry(field, Text("text"))>>]))
           \/ Call(n, "set", Fresh([b EXCEPT !.set = Append(@, Text("text"))]))
      /\ UNCHANGED meaning

(* insertWith() and updateWith(): the parameters of an object's properties. *)
CreateParameter(b, style, field, value) ==
  IF style = "named" THEN NamedAfter(b, field, value) ELSE CreatePositionalParameter(b, value)

InsertWith(b, style, fields, value) ==
  FoldLeft(LAMBDA acc, f : LET c == CreateParameter(acc, style, f, value)
                           IN  SetValue(c.b, f, c.ph),
           Fresh([b EXCEPT !.type = "INSERT", !.table = "t"]), fields)

UpdateWith(b, style, fields, value) ==
  FoldLeft(LAMBDA acc, f : LET c == CreateParameter(acc, style, f, value)
                           IN  Fresh([c.b EXCEPT !.set = Append(@, c.ph)]),
           Fresh([b EXCEPT !.type = "UPDATE", !.table = "t"]), fields)

(* A placeholder is created for a value and put into a clause. *)
Bind(n) ==
  LET b     == builders[n]
      value == calls + 1
      used(method, c) ==
        \/ Call(n, method, Fresh([c.b EXCEPT !.where = AppendToPredicate(@, "AND", <<c.ph>>)]))
        \/ Call(n, method, Fresh([c.b EXCEPT !.where = c.ph]))
        \/ Call(n, method, Fresh([c.b EXCEPT !.set = Append(@, c.ph)]))
  IN  /\ \/ used("named", CreateNamedParameter(b, value))
         \/ used("positional", CreatePositionalParameter(b, value))
         \/ \E style \in {"named", "positional"}, fields \in SetToAllKPermutations(Fields) \ {<<>>} :
              \/ Call(n, "with data", InsertWith(b, style, fields, value))
              \/ Call(n, "with data", UpdateWith(b, style, fields, value))
      /\ UNCHANGED meaning

(* Parts that are text or the inner builder. *)
Embedding ==
  LET b == builders["outer"]
  IN  \E part \in {"text", "inner"} :
        /\ \/ Call("outer", "union", Fresh([b EXCEPT !.type = "UNION", !.unions = <<part>>]))
           \/ /\ b.unions # <<>>
              /\ Call("outer", "addUnion", Fresh([b EXCEPT !.type = "UNION",
                                                           !.unions = Append(@, part)]))
           \/ Call("outer", "with", Fresh([b EXCEPT !.ctes = Append(@, part)]))
        /\ UNCHANGED meaning

(* The type changes before addUnion() throws; the cached SQL stays. *)
AddUnionThrows ==
  /\ builders["outer"].unions = <<>>
  /\ Call("outer", "addUnion", [builders["outer"] EXCEPT !.type = "UNION", !.dated = TRUE])
  /\ UNCHANGED meaning

Init ==
  /\ builders = [n \in Names |-> New]
  /\ methods \in Programs
  /\ calls = 0
  /\ meaning = [n \in Names |-> [where |-> Valuations, having |-> Valuations]]

Next ==
  \/ Embedding
  \/ AddUnionThrows
  \/ \E n \in {m \in Names : m = "outer" \/ methods \cap {"union", "with"} # {}} :
       \/ GetSQL(n)
       \/ Select(n)
       \/ Limit(n)
       \/ Group(n)
       \/ Order(n)
       \/ Reset(n)
       \/ Modify(n)
       \/ From(n)
       \/ Join(n)
       \/ Where(n)
       \/ Having(n)
       \/ SetValues(n)
       \/ Bind(n)

Spec == Init /\ [][Next]_vars

-----------------------------------------------------------------------------
(* The SQL that a builder has cached is the SQL of its parts, whichever    *)
(* were changed and in whichever order: but for what setValue() and a      *)
(* failed addUnion() leave behind, and as far as an embedded builder goes, *)
(* for the SQL that one had.                                               *)
CachedIsCurrent ==
  \A n \in Names :
    LET b == builders[n]
    IN  b.sql # NoSQL /\ ~ b.dated =>
          \E inner \in {NoSQL} \cup Range(CASE b.sql.type = "UNION"  -> b.sql.parts
                                            [] b.sql.type = "SELECT" -> b.sql.with
                                            [] OTHER -> <<>>) :
            b.sql = Rendered(b, inner)

(* and...() and or...() combine with everything there was, whatever the    *)
(* grouping of the composite expressions they are kept in.                 *)
PredicatesMean ==
  \A n \in Names : \A f \in {"where", "having"} :
    (\A c \in {"named", "positional", "with data"} : c \notin methods)
      => Truth(builders[n][f]) = meaning[n][f]

(* No join is lost: a SELECT that is rendered has every join that was      *)
(* added, once, below an alias that is there (UnknownAlias, NonUniqueAlias).*)
JoinsRendered ==
  \A n \in Names :
    LET b == builders[n]
    IN  b.sql.type = "SELECT" /\ ~ b.dated =>
          /\ \A f \in Keys(b.joins) : \A a \in Range(Get(b.joins, f)) : Contains(b.sql.joins, a)
          /\ IsInjective(b.sql.joins)

RECURSIVE Placeholders(_)
Placeholders(p) ==
  IF p.type = "atom" THEN {p.atom} ELSE UNION {Placeholders(p.parts[i]) : i \in DOMAIN p.parts}

(* A placeholder that the builder named gets the value it was created for, *)
(* wherever and however often clauses are added or replaced, unless an     *)
(* application mixes the styles or names two parameters after one column.  *)
NamedBound ==
  \A n \in Names :
    LET b == builders[n]
        all == Placeholders(b.where) \cup {p.atom : p \in Range(b.set) \cup Values(b.values)}
    IN  ~ b.clash =>
          \A p \in all : p # <<>> /\ p.kind = "named" =>
            p.key \in Keys(b.params) /\ Get(b.params, p.key) = p.value

(* The SQL that a builder hands out is that of its parts as they are.      *)
SQLOfItsParts == CachedIsCurrent /\ JoinsRendered
=============================================================================
