------------------------- MODULE MCColumnMigration -------------------------
(* Columns of every type on every platform, in families of types whose     *)
(* values convert to one another.                                          *)
EXTENDS ColumnMigration

Families ==
  {{"integer", "bigint", "smallint", "decimal"}, {"float", "smallfloat", "number"},
   {"string", "ascii_string", "text", "simple_array", "enum", "dateinterval"}, {"guid"},
   {"binary", "blob"}, {"boolean"}, {"json", "jsonb"}, {"datetime", "datetimetz"}, {"date"}, {"time"}}

MCConvertible(a, b) == \E F \in Families : {a, b} \subseteq F

With(c, defaults) ==
  {[c EXCEPT !.notnull = n, !.default = d] : n \in BOOLEAN, d \in defaults \cup {NoValue}}
Lengths(types, lengths) == {[Column(t) EXCEPT !.length = l] : t \in types, l \in lengths}
All(columns, defaults) == UNION {With(c, defaults) : c \in columns}
Noted(c) == {c, [c EXCEPT !.comment = "note"]}

One == Value("number", "1")
True == Value("boolean", "true")

Numbers ==
  All({Column("integer"), Column("decimal"), [Column("bigint") EXCEPT !.unsigned = TRUE]}, {One})
  \cup Noted(Column("smallint"))
  \cup {[Column(t) EXCEPT !.autoincrement = TRUE] : t \in Integral}
  \cup {[Column("decimal") EXCEPT !.precision = {8}, !.scale = 2]}
Reals == All({Column("float"), Column("smallfloat"), Column("number")}, {String("1")})
Texts ==
  All({[Column("string") EXCEPT !.length = {40}], [Column("string") EXCEPT !.length = {8}, !.fixed = TRUE]},
      {String("x")})
  \cup All({Column("ascii_string")}, {String("x")})
  \cup UNION {Noted(c) : c \in {Column("text"), [Column("string") EXCEPT !.length = {40}, !.notnull = FALSE]}}
  \cup {[Column("string") EXCEPT !.length = l, !.fixed = f] : l \in {{}, {8}}, f \in BOOLEAN}
  \cup Lengths({"text"}, {{200}, {70000}})
  \cup {Column("simple_array"), Column("dateinterval"), Column("enum")}
  \cup {[Column("enum") EXCEPT !.longest = 5, !.length = l] : l \in {{}, {3}, {9}}}
Binaries ==
  {[Column("binary") EXCEPT !.length = l, !.fixed = f] : l \in {{}, {8}}, f \in BOOLEAN}
  \cup Lengths({"blob"}, {{}, {200}, {20000000}})
Others ==
  All({Column("boolean")}, {True}) \cup All({Column("datetime"), Column("datetimetz")}, {Now, String(NowText)})
  \cup {Column(t) : t \in {"date", "time", "guid", "json", "jsonb"}}

MCColumns == Numbers \cup Reals \cup Texts \cup Binaries \cup Others
=============================================================================
