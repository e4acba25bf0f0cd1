---------------------------- MODULE ColumnTypes ----------------------------
(***************************************************************************)
(* Columns between the program and the database: what each platform        *)
(* declares for a column (types/*.ts ask the platform, which writes SQL),  *)
(* what the server keeps of it (external), and what the schema managers    *)
(* and the metadata providers read back.                                   *)
(*                                                                         *)
(* SQL is a record: a type is a name in lower case with its arguments, a   *)
(* default is bare or quoted text.  A missing number is {}, a present one  *)
(* a singleton.  Immutable variants declare what the mutable ones do.      *)
(* Not modelled: charset and collation, names, quoting, versions.          *)
(***************************************************************************)
EXTENDS Integers, Sequences, TLC

MySQL     == {"mysql", "mariadb"}
Platforms == MySQL \cup {"pg", "sqlite", "sqlserver"}
Integral  == {"integer", "bigint", "smallint"}

The(option)           == CHOOSE n \in option : TRUE
OrElse(option, other) == IF option = {} THEN other ELSE The(option)

(* Defaults of a Column: null, a number, boolean or string, CurrentTimestamp. *)
Value(kind, text) == [kind |-> kind, text |-> text]
NoValue == Value("null", "NULL")
Now     == Value("expression", "current_timestamp")
NowText == "current_timestamp"

Column(type) ==
  [type |-> type, length |-> {}, precision |-> {}, scale |-> 0, unsigned |-> FALSE,
   fixed |-> FALSE, notnull |-> TRUE, default |-> NoValue, autoincrement |-> FALSE,
   comment |-> "", jsonb |-> FALSE, longest |-> 0]

ColumnRecords ==
  [type : STRING, length : SUBSET Nat, precision : SUBSET Nat, scale : Nat, unsigned : BOOLEAN,
   fixed : BOOLEAN, notnull : BOOLEAN, default : [kind : STRING, text : STRING],
   autoincrement : BOOLEAN, comment : STRING, jsonb : BOOLEAN, longest : Nat]

(* A number of an enum's longest value stands for its values.                *)
Type(name)        == [name |-> name, args |-> <<>>, flags |-> {}]
Sized(name, n)    == [Type(name) EXCEPT !.args = <<n>>]
Flagged(t, flags) == [t EXCEPT !.flags = flags]
Refused == Type("exception")

---------------------------------------------------------------------------
(* Type declarations. *)

IntegerFlags(platform, c) ==
  CASE platform = "sqlite" -> IF c.autoincrement THEN {"auto"} ELSE {f \in {"unsigned"} : c.unsigned}
    [] platform \in MySQL  -> {f \in {"unsigned"} : c.unsigned} \cup {f \in {"auto"} : c.autoincrement}
    [] OTHER               -> {f \in {"auto"} : c.autoincrement}

IntegerDeclaration(platform, c) ==
  Flagged(Type(CASE c.type = "integer" \/ (platform = "sqlite" /\ c.autoincrement) ->
                      IF platform = "sqlite" THEN "integer" ELSE "int"
                 [] OTHER -> c.type),
          IntegerFlags(platform, c))

CharDeclaration(platform, length) ==
  IF platform # "sqlserver" THEN Sized("char", OrElse(length, 1))
  ELSE IF length = {} THEN Type("nchar") ELSE Sized("nchar", The(length))

VarcharDeclaration(platform, length) ==
  IF platform # "sqlserver" THEN Sized("varchar", OrElse(length, 255))
  ELSE IF length = {} THEN Refused ELSE Sized("nvarchar", The(length))

StringDeclaration(platform, c) ==
  IF c.fixed THEN CharDeclaration(platform, c.length) ELSE VarcharDeclaration(platform, c.length)

AsciiStringDeclaration(platform, c) ==
  IF platform # "sqlserver" THEN StringDeclaration(platform, c)
  ELSE IF c.fixed THEN Sized("char", OrElse(c.length, 1)) ELSE Sized("varchar", OrElse(c.length, 255))

GuidDeclaration(platform, c) ==
  CASE platform = "pg"        -> Type("uuid")
    [] platform = "sqlserver" -> Type("uniqueidentifier")
    [] OTHER -> StringDeclaration(platform, [c EXCEPT !.fixed = TRUE, !.length = {OrElse(c.length, 36)}])

BinaryDeclaration(platform, c) ==
  IF platform = "pg" THEN Type("bytea")
  ELSE IF ~c.fixed THEN Sized("varbinary", OrElse(c.length, 255))
  ELSE IF c.length = {} THEN Type("binary") ELSE Sized("binary", The(c.length))

(* The MySQL types of texts and blobs by what they hold. *)
Tiny == 255
Medium == 65535
Long == 16777215
BySize(length, kind) ==
  IF OrElse(length, 0) <= 0 \/ The(length) > Long THEN "long" \o kind
  ELSE IF The(length) <= Tiny THEN "tiny" \o kind
  ELSE IF The(length) <= Medium THEN kind
  ELSE "medium" \o kind

ClobDeclaration(platform, c) ==
  CASE platform \in MySQL     -> Type(BySize(c.length, "text"))
    [] platform = "pg"        -> Type("text")
    [] platform = "sqlserver" -> Type("varchar max")
    [] OTHER -> IF c.length # {} /\ OrElse(c.length, 0) <= 65535 THEN Sized("varchar", The(c.length)) ELSE Type("text")

BlobDeclaration(platform, c) ==
  CASE platform \in MySQL     -> Type(BySize(c.length, "blob"))
    [] platform = "pg"        -> Type("bytea")
    [] platform = "sqlserver" -> Type("varbinary max")
    [] OTHER -> IF c.length # {} /\ OrElse(c.length, 0) <= 65535 THEN Sized("varbinary", The(c.length)) ELSE Type("blob")

JsonDeclaration(platform, c) ==
  CASE platform \in MySQL -> Type("json")
    [] platform = "pg"    -> Type(IF c.jsonb \/ c.type = "jsonb" THEN "jsonb" ELSE "json")
    [] OTHER -> ClobDeclaration(platform, c)

EnumDeclaration(platform, c) ==
  IF c.longest = 0 THEN Refused
  ELSE IF platform \in MySQL THEN Sized("enum", c.longest)
  ELSE IF OrElse(c.length, c.longest) < c.longest THEN Refused
  ELSE VarcharDeclaration(platform, {OrElse(c.length, c.longest)})

DateTimeDeclaration(platform, type) ==
  CASE platform = "sqlserver" /\ type = "datetime"   -> Type("datetime2")
    [] platform = "sqlserver" /\ type = "datetimetz" -> Type("datetimeoffset")
    [] platform = "pg" /\ type = "datetime"   -> Type("timestamp without time zone")
    [] platform = "pg" /\ type = "datetimetz" -> Type("timestamp with time zone")
    [] platform \notin {"sqlserver", "pg"} /\ type = "datetimetz" -> Type("datetime")
    [] OTHER -> Type(type)

BooleanDeclaration(platform) ==
  Type(CASE platform \in MySQL -> "tinyint" [] platform = "sqlserver" -> "bit" [] OTHER -> "boolean")

DecimalDeclaration(c) == [Type("numeric") EXCEPT !.args = <<OrElse(c.precision, 10), c.scale>>]

getSQLDeclaration(platform, c) ==
  CASE c.type \in Integral                    -> IntegerDeclaration(platform, c)
    [] c.type = "boolean"                     -> BooleanDeclaration(platform)
    [] c.type = "string"                      -> StringDeclaration(platform, c)
    [] c.type = "ascii_string"                -> AsciiStringDeclaration(platform, c)
    [] c.type = "dateinterval"                -> StringDeclaration(platform, [c EXCEPT !.length = {255}])
    [] c.type = "guid"                        -> GuidDeclaration(platform, c)
    [] c.type = "binary"                      -> BinaryDeclaration(platform, c)
    [] c.type \in {"text", "simple_array"}    -> ClobDeclaration(platform, c)
    [] c.type = "blob"                        -> BlobDeclaration(platform, c)
    [] c.type \in {"json", "jsonb"}           -> JsonDeclaration(platform, c)
    [] c.type = "enum"                        -> EnumDeclaration(platform, c)
    [] c.type \in {"decimal", "number"}       -> DecimalDeclaration(c)
    [] c.type = "float"                       -> Type("double precision")
    [] c.type = "smallfloat"                  -> Type("real")
    [] OTHER                                  -> DateTimeDeclaration(platform, c.type)

---------------------------------------------------------------------------
(* Defaults and the declaration of the column. *)

Bare(text)   == [quoted |-> FALSE, text |-> text]
Quoted(text) == [quoted |-> TRUE, text |-> text]
NoDefault    == Bare("")

convertBooleans(platform, value) ==
  IF value.kind # "boolean" \/ platform = "pg" THEN value.text
  ELSE IF value.text = "true" THEN "1" ELSE "0"

getDefaultValueDeclarationSQL(platform, c) ==
  IF platform = "pg" /\ c.autoincrement THEN NoDefault
  ELSE IF c.default = NoValue THEN IF c.notnull THEN NoDefault ELSE Bare("NULL")
  ELSE IF c.type = "boolean" /\ c.default.kind # "expression" THEN Bare(convertBooleans(platform, c.default))
  ELSE IF \/ c.default.kind \in {"expression", "number"}
          \/ c.type \in Integral
          \/ c.type \in {"datetime", "datetimetz"} /\ c.default.text = NowText
       THEN Bare(c.default.text)
  ELSE Quoted(c.default.text)

InlineComments(platform) == platform \in MySQL

(* SQL Server's has no default: it is a constraint of its own. *)
AbstractDeclaration(platform, c) ==
  [type    |-> getSQLDeclaration(platform, c),
   default |-> getDefaultValueDeclarationSQL(platform, c),
   notnull |-> c.notnull,
   comment |-> IF InlineComments(platform) THEN c.comment ELSE ""]

getColumnDeclarationSQL(platform, c) ==
  IF platform = "sqlserver" THEN [AbstractDeclaration(platform, c) EXCEPT !.default = NoDefault]
  ELSE AbstractDeclaration(platform, c)

Declarable(platform, c) == getSQLDeclaration(platform, c) # Refused

columnsEqual(platform, c, d) ==
  IF ~(Declarable(platform, c) /\ Declarable(platform, d)) THEN c = d
  ELSE /\ getColumnDeclarationSQL(platform, c) = getColumnDeclarationSQL(platform, d)
       /\ InlineComments(platform) \/ c.comment = d.comment
       /\ platform = "sqlserver" =>
            getDefaultValueDeclarationSQL(platform, c) = getDefaultValueDeclarationSQL(platform, d)
=============================================================================
