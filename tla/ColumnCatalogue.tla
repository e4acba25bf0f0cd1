-------------------------- MODULE ColumnCatalogue --------------------------
(***************************************************************************)
(* A column in the database's catalogue (external: what the servers keep   *)
(* of a declaration), and the two ways the program reads it: the schema    *)
(* managers' _getPortableTableColumnDefinition(), and the metadata         *)
(* providers with createColumnFromMetadataRow().                           *)
(***************************************************************************)
EXTENDS ColumnTypes

---------------------------------------------------------------------------
(* The catalogue.  length counts characters, -1 is "max"; numeric sizes    *)
(* that no declaration asks for are left out.                              *)

PostgreSQLName(name) ==
  CASE name = "int"      -> "int4"
    [] name = "bigint"   -> "int8"
    [] name = "smallint" -> "int2"
    [] name = "boolean"  -> "bool"
    [] name = "char"     -> "bpchar"
    [] name = "double precision" -> "float8"
    [] name = "real"     -> "float4"
    [] name = "timestamp without time zone" -> "timestamp"
    [] name = "timestamp with time zone"    -> "timestamptz"
    [] OTHER -> name

CatalogueName(platform, name) ==
  CASE platform = "pg" -> PostgreSQLName(name)
    [] platform \in MySQL /\ name = "numeric" -> "decimal"
    [] platform \in MySQL /\ name \in {"double precision", "real"} -> "double"
    [] platform = "sqlserver" /\ name = "double precision" -> "float"
    [] platform = "sqlserver" /\ name = "varchar max"      -> "varchar"
    [] platform = "sqlserver" /\ name = "varbinary max"    -> "varbinary"
    [] OTHER -> name

CatalogueLength(platform, t) ==
  CASE t.name \in {"varchar max", "varbinary max"} -> {-1}
    [] Len(t.args) = 1 -> {t.args[1]}
    [] t.args = <<>> /\ t.name \in {"binary", "nchar"} /\ platform # "sqlite" -> {1}
    [] OTHER -> {}

(* MySQL shows text without its quotes, MariaDB no default as NULL. *)
CatalogueDefault(platform, d, nullable) ==
  CASE platform = "mysql" -> IF d = Bare("NULL") THEN NoDefault ELSE Bare(d.text)
    [] platform = "mariadb" -> IF d = Bare(NowText) THEN Bare("current_timestamp()")
                               ELSE IF d = NoDefault /\ nullable THEN Bare("NULL") ELSE d
    [] platform = "pg"        -> IF d = Bare("NULL") THEN NoDefault ELSE d
    [] platform = "sqlserver" -> IF d = Bare(NowText) THEN Bare("getdate()") ELSE d
    [] OTHER -> d

Catalogue(platform, keyed, d) ==
  [name      |-> CatalogueName(platform, d.type.name),
   length    |-> CatalogueLength(platform, d.type),
   precision |-> IF Len(d.type.args) = 2 THEN {d.type.args[1]} ELSE {},
   scale     |-> IF Len(d.type.args) = 2 THEN d.type.args[2] ELSE 0,
   unsigned  |-> "unsigned" \in d.type.flags,
   auto      |-> "auto" \in d.type.flags,
   notnull   |-> d.notnull,
   default   |-> CatalogueDefault(platform, d.default, ~d.notnull),
   comment   |-> d.comment,
   keyed     |-> keyed]

---------------------------------------------------------------------------
(* Type mappings. *)

MySQLMapping ==
  [bigint |-> "bigint", binary |-> "binary", blob |-> "blob", char |-> "string", date |-> "date",
   datetime |-> "datetime", decimal |-> "decimal", double |-> "float", enum |-> "enum",
   float |-> "smallfloat", int |-> "integer", json |-> "json", longblob |-> "blob",
   longtext |-> "text", mediumblob |-> "blob", mediumtext |-> "text", smallint |-> "smallint",
   text |-> "text", time |-> "time", tinyblob |-> "blob", tinyint |-> "boolean",
   tinytext |-> "text", varbinary |-> "binary", varchar |-> "string"]

PostgreSQLMapping ==
  [bool |-> "boolean", bpchar |-> "string", bytea |-> "blob", date |-> "date",
   float4 |-> "smallfloat", float8 |-> "float", int2 |-> "smallint", int4 |-> "integer",
   int8 |-> "bigint", json |-> "json", jsonb |-> "json", numeric |-> "decimal", text |-> "text",
   time |-> "time", timestamp |-> "datetime", timestamptz |-> "datetimetz", uuid |-> "guid",
   varchar |-> "string"]

SQLiteMapping ==
  [bigint |-> "bigint", blob |-> "blob", boolean |-> "boolean", char |-> "string",
   date |-> "date", datetime |-> "datetime", decimal |-> "decimal", double |-> "float",
   float |-> "float", int |-> "integer", integer |-> "integer", numeric |-> "decimal",
   real |-> "float", text |-> "text", time |-> "time", timestamp |-> "datetime",
   varchar |-> "string"]

SQLServerMapping ==
  [bigint |-> "bigint", binary |-> "binary", bit |-> "boolean", blob |-> "blob",
   char |-> "string", date |-> "date", datetime2 |-> "datetime",
   datetimeoffset |-> "datetimetz", float |-> "float", int |-> "integer", nchar |-> "string",
   numeric |-> "decimal", nvarchar |-> "string", real |-> "smallfloat",
   smallint |-> "smallint", text |-> "text", time |-> "time", uniqueidentifier |-> "guid",
   varbinary |-> "binary", varchar |-> "string"]

Mapping(platform) ==
  CASE platform \in MySQL    -> MySQLMapping
    [] platform = "pg"       -> PostgreSQLMapping
    [] platform = "sqlite"   -> SQLiteMapping
    [] OTHER                 -> SQLServerMapping

(* getDatazenTypeMapping() throws for a name that is not in it. *)
hasDatazenTypeMappingFor(platform, name) == name \in DOMAIN Mapping(platform)

Readable(platform, s) == hasDatazenTypeMappingFor(platform, s.name)

---------------------------------------------------------------------------
(* The schema managers. *)

String(text) == Value("string", text)
Digits == {"0", "1"}

AsNumber(type, value) ==
  IF type \in Integral /\ value.kind = "string" /\ value.text \in Digits
  THEN Value("number", value.text) ELSE value
AsBoolean(type, value) ==
  IF type # "boolean" \/ value.kind # "string" THEN value
  ELSE CASE value.text \in {"1", "true"}  -> Value("boolean", "true")
         [] value.text \in {"0", "false"} -> Value("boolean", "false")
         [] OTHER -> value

parseMySQLColumnDefault(name, d) ==
  IF name = "datetime" /\ d.text = NowText THEN Now ELSE String(d.text)
parseMariaDBColumnDefault(d) ==
  IF d = Bare("current_timestamp()") THEN Now ELSE String(d.text)
parsePostgreSQLDefault(d) ==
  IF d \in {Bare("true"), Bare("false")} THEN Value("boolean", d.text) ELSE String(d.text)
parseSQLServerDefault(d) ==
  IF d.text = "getdate()" THEN Now ELSE String(d.text)

ReadDefault(platform, type, s) ==
  LET d == s.default IN
  IF d \in {NoDefault, Bare("NULL")} THEN NoValue ELSE
  CASE platform = "mysql"     -> parseMySQLColumnDefault(s.name, d)
    [] platform = "mariadb"   -> parseMariaDBColumnDefault(d)
    [] platform = "pg"        -> AsNumber(type, parsePostgreSQLDefault(d))
    [] platform = "sqlserver" -> parseSQLServerDefault(d)
    [] OTHER                  -> AsBoolean(type, AsNumber(type, String(d.text)))

(* What the managers have in common; the scale is 0 unless it is read.     *)
Portable(platform, type, s) ==
  [Column(type) EXCEPT !.notnull = s.notnull, !.autoincrement = s.auto, !.comment = s.comment,
                       !.default = ReadDefault(platform, type, s)]

ReadMySQL(platform, s) ==
  [Portable(platform, Mapping(platform)[s.name], s) EXCEPT
     !.length = CASE s.name \in {"char", "varchar", "binary", "varbinary"} -> s.length
                  [] s.name \in {"tinytext", "tinyblob"}     -> {Tiny}
                  [] s.name \in {"text", "blob"}             -> {Medium}
                  [] s.name \in {"mediumtext", "mediumblob"} -> {Long}
                  [] OTHER -> {},
     !.precision = s.precision, !.scale = s.scale,
     !.fixed = s.name \in {"char", "binary"},
     !.unsigned = s.unsigned,
     !.longest = IF s.name = "enum" THEN The(s.length) ELSE 0]

ReadPostgreSQL(s) ==
  [Portable("pg", Mapping("pg")[s.name], s) EXCEPT
     !.length = IF s.name \in {"bpchar", "varchar"} THEN s.length ELSE {},
     !.precision = s.precision, !.scale = s.scale,
     !.fixed = s.name = "bpchar",
     !.jsonb = s.name = "jsonb"]

(* A primary key of one INTEGER column is taken to be autoincremented; SQLite keeps no comments. *)
SoleIntegerKey(s) == s.keyed /\ s.name = "integer"
ReadSQLite(s) ==
  [Portable("sqlite", Mapping("sqlite")[s.name], s) EXCEPT
     !.length = s.length, !.precision = s.precision, !.scale = s.scale,
     !.fixed = s.name = "char", !.unsigned = s.unsigned,
     !.autoincrement = SoleIntegerKey(s)]

MaxLength(s) == IF s.name \in {"nchar", "nvarchar"} /\ s.length # {-1} THEN {2 * The(s.length)} ELSE s.length
Whole(name, length) == length  \* a mutant of Halved
Halved(name, length) ==
  IF name \in {"nchar", "nvarchar"} /\ length # {-1} THEN {The(length) \div 2} ELSE length
ReadSQLServer(s) ==
  LET name == CASE s.name = "varchar" /\ s.length = {-1}   -> "text"
                [] s.name = "varbinary" /\ s.length = {-1} -> "blob"
                [] OTHER -> s.name
      type == Mapping("sqlserver")[name] IN
  [Portable("sqlserver", type, s) EXCEPT
     !.length = IF type \in {"text", "string", "binary"} THEN Halved(name, MaxLength(s)) ELSE {},
     !.precision = s.precision, !.scale = s.scale,
     !.fixed = name \in {"char", "nchar", "binary"}]

Read(platform, s) ==
  CASE platform \in MySQL    -> ReadMySQL(platform, s)
    [] platform = "pg"       -> ReadPostgreSQL(s)
    [] platform = "sqlite"   -> ReadSQLite(s)
    [] OTHER                 -> ReadSQLServer(s)

---------------------------------------------------------------------------
(* The metadata providers. *)

resolveTypeName(platform, name) ==
  IF hasDatazenTypeMappingFor(platform, name) THEN Mapping(platform)[name] ELSE
  CASE name \in {"varbinary", "binary"} -> "blob"
    [] name = "smallint"                -> "integer"
    [] name = "double precision"        -> "float"

(* The length the providers ask for: MySQL's of texts and blobs is what    *)
(* they hold (of the largest: more than MEDIUMTEXT).                       *)
ProviderLength(platform, s) ==
  CASE platform \in MySQL /\ s.name \in {"tinytext", "tinyblob"}     -> {Tiny}
    [] platform \in MySQL /\ s.name \in {"text", "blob"}             -> {Medium}
    [] platform \in MySQL /\ s.name \in {"mediumtext", "mediumblob"} -> {Long}
    [] platform \in MySQL /\ s.name \in {"longtext", "longblob"}     -> {Long + 1}
    [] platform \in MySQL /\ s.name = "enum"                         -> {}
    [] platform = "sqlite" /\ s.precision # {}                       -> s.precision
    [] OTHER -> s.length

normalizeDefaultValue(platform, d) ==
  IF d = NoDefault \/ (d = Bare("NULL") /\ platform # "mysql") THEN NoValue ELSE String(d.text)

normalizeColumnDefaultForType(type, value) == AsBoolean(type, AsNumber(type, value))

OnlyChar(name) == name = "char"  \* a mutant of isFixedLengthType
isFixedLengthType(name) == name \in {"char", "nchar"}

isAutoincrementRow(platform, s) ==
  CASE platform = "sqlserver" -> FALSE
    [] platform = "sqlite"    -> s.keyed /\ s.name \in {"integer", "bigint", "smallint"}
    [] OTHER -> s.auto

createColumnFromMetadataRow(platform, s) ==
  LET type == resolveTypeName(platform, s.name) IN
  [Column(type) EXCEPT
     !.length = ProviderLength(platform, s), !.precision = s.precision, !.scale = s.scale,
     !.notnull = s.notnull, !.unsigned = s.unsigned,
     !.default = normalizeColumnDefaultForType(type, normalizeDefaultValue(platform, s.default)),
     !.comment = IF platform \in MySQL THEN s.comment ELSE "",
     !.fixed = isFixedLengthType(s.name),
     !.autoincrement = isAutoincrementRow(platform, s),
     !.longest = IF type = "enum" THEN The(s.length) ELSE 0,
     !.jsonb = s.name = "jsonb"]
=============================================================================
