------------------------------ MODULE Failures ------------------------------
(***************************************************************************)
(* driver/api/<server>/exception-converter.ts: the errors of the packages  *)
(* mysql2, pg, mssql and sqlite3, and the class of exception that the      *)
(* application gets instead.  An error is what the converters look at: the *)
(* fields that may hold its number or code, or Missing, and the phrases    *)
(* that its message has (words joined by _).  Each converter is a list of  *)
(* rules; the first that matches names the class.                          *)
(***************************************************************************)
EXTENDS Integers, SequencesExt

Missing == "missing"

Rule(class, codes, phrases) == [class |-> class, codes |-> codes, phrases |-> phrases]

(* Mutant: a code that may have a number is taken for the code. *)
FirstNonEmptyCode(driver, e) == IF e.code # Missing THEN e.code ELSE e.number

(* extractCode() of each converter. *)
ExtractCode(driver, e) ==
  IF driver \in {"mysql2", "mssql"}
  THEN IF e.number # Missing THEN e.number ELSE e.code
  ELSE IF e.code # Missing THEN e.code ELSE e.number

MySQLRules == <<
  Rule("DatabaseDoesNotExist", {"1008"}, {}),
  Rule("Deadlock", {"1213"}, {}),
  Rule("LockWaitTimeout", {"1205"}, {}),
  Rule("TableExists", {"1050"}, {}),
  Rule("TableNotFound", {"1051", "1146"}, {}),
  Rule("ForeignKey", {"1216", "1217", "1451", "1452", "1701"}, {}),
  Rule("Unique", {"1062", "1557", "1569", "1586"}, {}),
  Rule("InvalidFieldName", {"1054", "1166", "1611"}, {}),
  Rule("NonUniqueFieldName", {"1052", "1060", "1110"}, {}),
  Rule("NotNull", {"1048", "1121", "1138", "1171", "1252", "1263", "1364", "1566"}, {}),
  Rule("Syntax", {"1064", "1149", "1287", "1341", "1342", "1343", "1344", "1382", "1479", "1541",
                  "1554", "1626"}, {}),
  Rule("ConnectionLost", {"2006", "2013", "4031"}, {}),
  Rule("ConnectionLost", {"ECONNRESET", "EPIPE", "PROTOCOL_CONNECTION_LOST",
         "PROTOCOL_ENQUEUE_AFTER_FATAL_ERROR", "PROTOCOL_ENQUEUE_AFTER_QUIT"},
       {"socket_has_been_ended_by_the_other_party", "server_has_gone_away",
        "lost_connection_to_mysql_server", "closed_state"}),
  Rule("Connection", {"1044", "1045", "1046", "1049", "1095", "1142", "1143", "1227", "1370",
                      "1429", "2002", "2005", "2054"}, {}),
  Rule("Connection", {"ECONNREFUSED", "ER_ACCESS_DENIED_ERROR", "ER_BAD_DB_ERROR", "ETIMEDOUT"}, {}) >>

(* 0A000 is about a referenced table that was to be truncated. *)
PostgreSQLRules == <<
  Rule("Deadlock", {"40001", "40P01"}, {}),
  Rule("ForeignKey", {"0A000"}, {}),
  Rule("Unique", {"23505"}, {}),
  Rule("ForeignKey", {"23503"}, {}),
  Rule("NotNull", {"23502"}, {}),
  Rule("Syntax", {"42601"}, {}),
  Rule("NonUniqueFieldName", {"42702"}, {}),
  Rule("InvalidFieldName", {"42703"}, {}),
  Rule("TableNotFound", {"42P01"}, {}),
  Rule("TableExists", {"42P07"}, {}),
  Rule("DatabaseDoesNotExist", {"3D000"}, {}),
  Rule("SchemaDoesNotExist", {"3F000"}, {}),
  Rule("Connection", {"08006"}, {}),
  Rule("ConnectionLost", {}, {"terminating_connection", "not_queryable",
       "connection_terminated_unexpectedly", "server_closed_the_connection_unexpectedly"}),
  Rule("Connection", {"08000", "08001", "08003", "08004", "08007", "57P01", "57P02", "57P03"}, {}),
  Rule("Connection", {"ECONNREFUSED", "ECONNRESET", "ECONNABORTED", "ETIMEDOUT"}, {}) >>

SQLServerRules == <<
  Rule("Deadlock", {"1205"}, {}),
  Rule("NotNull", {"515"}, {}),
  Rule("InvalidFieldName", {"207"}, {}),
  Rule("TableNotFound", {"208"}, {}),
  Rule("NonUniqueFieldName", {"209"}, {}),
  Rule("ForeignKey", {"547", "4712"}, {}),
  Rule("Unique", {"2601", "2627"}, {}),
  Rule("TableExists", {"2714"}, {}),
  Rule("DatabaseObjectNotFound", {"3701", "15151"}, {}),
  Rule("Syntax", {"102", "156"}, {}),
  Rule("Connection", {"11001", "18456", "EALREADYBEGUN", "EALREADYCONNECTED", "ECANCEL", "ECONNCLOSED",
                      "ECONNRESET", "EINSTLOOKUP", "ELOGIN", "ESOCKET", "ETIMEOUT"}, {}) >>

(* Phrases stand before codes. *)
SQLiteRules == <<
  Rule("LockWaitTimeout", {}, {"database_is_locked"}),
  Rule("Unique", {}, {"must_be_unique", "is_not_unique", "are_not_unique", "unique_constraint_failed"}),
  Rule("NotNull", {}, {"may_not_be_null", "not_null_constraint_failed"}),
  Rule("TableNotFound", {}, {"no_such_table:"}),
  Rule("TableExists", {}, {"already_exists"}),
  Rule("InvalidFieldName", {}, {"has_no_column_named"}),
  Rule("NonUniqueFieldName", {}, {"ambiguous_column_name"}),
  Rule("Syntax", {}, {"syntax_error"}),
  Rule("ReadOnly", {}, {"attempt_to_write_a_readonly_database"}),
  Rule("Connection", {}, {"unable_to_open_database_file"}),
  Rule("ForeignKey", {}, {"foreign_key_constraint_failed"}),
  Rule("LockWaitTimeout", {"SQLITE_BUSY", "SQLITE_LOCKED"}, {}),
  Rule("Connection", {"SQLITE_CANTOPEN"}, {}),
  Rule("ForeignKey", {"SQLITE_CONSTRAINT_FOREIGNKEY"}, {}),
  Rule("NotNull", {"SQLITE_CONSTRAINT_NOTNULL"}, {}),
  Rule("Unique", {"SQLITE_CONSTRAINT_UNIQUE", "SQLITE_CONSTRAINT_PRIMARYKEY"}, {}) >>

Rules(driver) ==
  CASE driver = "mysql2" -> MySQLRules
    [] driver = "pg"     -> PostgreSQLRules
    [] driver = "mssql"  -> SQLServerRules
    [] OTHER             -> SQLiteRules

Matches(rule, code, e) == code \in rule.codes \/ e.phrases \cap rule.phrases # {}

(* A numeric code of mysql2 is not looked for in messages. *)
Looked(driver, e) == IF driver = "mysql2" /\ e.number # Missing THEN [e EXCEPT !.phrases = {}] ELSE e

Convert(driver, e) ==
  LET rules == Rules(driver)
      first == SelectInSeq(rules, LAMBDA r : Matches(r, ExtractCode(driver, e), Looked(driver, e)))
  IN  IF first = 0 THEN "Driver" ELSE rules[first].class

(* converted instanceof ConnectionException *)
ConnectionClasses == {"Connection", "ConnectionLost"}

-----------------------------------------------------------------------------
(* What the packages report, by what has happened.  lost: the session is.  *)
Failed(kind, number, code, phrases, lost) ==
  [kind |-> kind, number |-> number, code |-> code, phrases |-> phrases, lost |-> lost]

MySQLFailures == {
  Failed("unique", "1062", "ER_DUP_ENTRY", {}, FALSE),
  Failed("foreignKey", "1451", "ER_ROW_IS_REFERENCED_2", {}, FALSE),
  Failed("foreignKey", "1452", "ER_NO_REFERENCED_ROW_2", {}, FALSE),
  Failed("notNull", "1048", "ER_BAD_NULL_ERROR", {}, FALSE),
  Failed("notNull", "1364", "ER_NO_DEFAULT_FOR_FIELD", {}, FALSE),
  Failed("deadlock", "1213", "ER_LOCK_DEADLOCK", {}, FALSE),
  Failed("lockTimeout", "1205", "ER_LOCK_WAIT_TIMEOUT", {}, FALSE),
  Failed("syntax", "1064", "ER_PARSE_ERROR", {}, FALSE),
  Failed("noTable", "1146", "ER_NO_SUCH_TABLE", {}, FALSE),
  Failed("noTable", "1051", "ER_BAD_TABLE_ERROR", {}, FALSE),
  Failed("tableExists", "1050", "ER_TABLE_EXISTS_ERROR", {}, FALSE),
  Failed("noColumn", "1054", "ER_BAD_FIELD_ERROR", {}, FALSE),
  Failed("ambiguous", "1052", "ER_NON_UNIQ_ERROR", {}, FALSE),
  Failed("noDatabase", "1049", "ER_BAD_DB_ERROR", {}, FALSE),
  Failed("denied", "1142", "ER_TABLEACCESS_DENIED_ERROR", {}, FALSE),
  Failed("login", "1045", "ER_ACCESS_DENIED_ERROR", {}, TRUE),
  Failed("lost", Missing, "PROTOCOL_CONNECTION_LOST", {}, TRUE),
  Failed("lost", "4031", "ER_CLIENT_INTERACTION_TIMEOUT", {}, TRUE),
  Failed("reset", "-104", "ECONNRESET", {}, TRUE),
  Failed("usedAfterLoss", Missing, "PROTOCOL_ENQUEUE_AFTER_FATAL_ERROR", {"closed_state"}, TRUE) }

PostgreSQLFailures == {
  Failed("unique", Missing, "23505", {}, FALSE),
  Failed("foreignKey", Missing, "23503", {}, FALSE),
  Failed("truncated", Missing, "0A000", {}, FALSE),
  Failed("notNull", Missing, "23502", {}, FALSE),
  Failed("deadlock", Missing, "40P01", {}, FALSE),
  Failed("lockTimeout", Missing, "55P03", {}, FALSE),
  Failed("syntax", Missing, "42601", {}, FALSE),
  Failed("noTable", Missing, "42P01", {}, FALSE),
  Failed("tableExists", Missing, "42P07", {}, FALSE),
  Failed("noColumn", Missing, "42703", {}, FALSE),
  Failed("ambiguous", Missing, "42702", {}, FALSE),
  Failed("noDatabase", Missing, "3D000", {}, TRUE),
  Failed("denied", Missing, "42501", {}, FALSE),
  Failed("login", Missing, "28P01", {}, TRUE),
  Failed("readOnly", Missing, "25006", {}, FALSE),
  Failed("lost", Missing, "57P01", {"terminating_connection"}, TRUE),
  Failed("lost", Missing, Missing, {"connection_terminated_unexpectedly"}, TRUE),
  Failed("reset", "-104", "ECONNRESET", {}, TRUE),
  Failed("brokenPipe", "-32", "EPIPE", {}, TRUE),
  Failed("usedAfterLoss", Missing, Missing, {"not_queryable"}, TRUE) }

SQLServerFailures == {
  Failed("unique", "2627", "EREQUEST", {}, FALSE),
  Failed("unique", "2601", "EREQUEST", {}, FALSE),
  Failed("foreignKey", "547", "EREQUEST", {}, FALSE),
  Failed("notNull", "515", "EREQUEST", {}, FALSE),
  Failed("deadlock", "1205", "EREQUEST", {}, FALSE),
  Failed("lockTimeout", "1222", "EREQUEST", {}, FALSE),
  Failed("syntax", "102", "EREQUEST", {}, FALSE),
  Failed("noTable", "208", "EREQUEST", {}, FALSE),
  Failed("noTable", "3701", "EREQUEST", {}, FALSE),
  Failed("tableExists", "2714", "EREQUEST", {}, FALSE),
  Failed("noColumn", "207", "EREQUEST", {}, FALSE),
  Failed("ambiguous", "209", "EREQUEST", {}, FALSE),
  Failed("denied", "229", "EREQUEST", {}, FALSE),
  Failed("login", Missing, "ELOGIN", {}, TRUE),
  Failed("requestTimeout", Missing, "ETIMEOUT", {}, FALSE),
  Failed("cancelled", Missing, "ECANCEL", {}, FALSE),
  Failed("lost", Missing, "ECONNCLOSED", {}, TRUE),
  Failed("reset", Missing, "ESOCKET", {}, TRUE),
  Failed("usedAfterLoss", Missing, "EINVALIDSTATE", {}, TRUE) }

SQLiteFailures == {
  Failed("unique", "19", "SQLITE_CONSTRAINT", {"unique_constraint_failed"}, FALSE),
  Failed("foreignKey", "19", "SQLITE_CONSTRAINT", {"foreign_key_constraint_failed"}, FALSE),
  Failed("notNull", "19", "SQLITE_CONSTRAINT", {"not_null_constraint_failed"}, FALSE),
  Failed("lockTimeout", "5", "SQLITE_BUSY", {"database_is_locked"}, FALSE),
  Failed("lockTimeout", "6", "SQLITE_LOCKED", {"database_table_is_locked"}, FALSE),
  Failed("syntax", "1", "SQLITE_ERROR", {"syntax_error"}, FALSE),
  Failed("noTable", "1", "SQLITE_ERROR", {"no_such_table:"}, FALSE),
  Failed("tableExists", "1", "SQLITE_ERROR", {"already_exists"}, FALSE),
  Failed("noColumn", "1", "SQLITE_ERROR", {"has_no_column_named"}, FALSE),
  Failed("noColumnSelected", "1", "SQLITE_ERROR", {"no_such_column:"}, FALSE),
  Failed("ambiguous", "1", "SQLITE_ERROR", {"ambiguous_column_name"}, FALSE),
  Failed("readOnly", "8", "SQLITE_READONLY", {"attempt_to_write_a_readonly_database"}, FALSE),
  Failed("cannotOpen", "14", "SQLITE_CANTOPEN", {"unable_to_open_database_file"}, FALSE) }

FailuresOf(driver) ==
  CASE driver = "mysql2" -> MySQLFailures
    [] driver = "pg"     -> PostgreSQLFailures
    [] driver = "mssql"  -> SQLServerFailures
    [] OTHER             -> SQLiteFailures

(* What a client answers whose session is lost. *)
AfterLoss(driver) == {e \in FailuresOf(driver) : e.kind = "usedAfterLoss"}

-----------------------------------------------------------------------------
(* The classes that an application that runs on all of them counts on.     *)
ClassesFor(kind) ==
  CASE kind = "unique"      -> {"Unique"}
    [] kind = "foreignKey"  -> {"ForeignKey"}
    [] kind = "truncated"   -> {"ForeignKey"}
    [] kind = "notNull"     -> {"NotNull"}
    [] kind = "deadlock"    -> {"Deadlock"}
    [] kind = "lockTimeout" -> {"LockWaitTimeout"}
    [] kind = "syntax"      -> {"Syntax"}
    [] kind = "noTable"     -> {"TableNotFound"}
    [] kind = "tableExists" -> {"TableExists"}
    [] kind \in {"noColumn", "noColumnSelected"} -> {"InvalidFieldName"}
    [] kind = "ambiguous"   -> {"NonUniqueFieldName"}
    [] kind = "noDatabase"  -> {"DatabaseDoesNotExist"}
    [] kind = "readOnly"    -> {"ReadOnly"}
    [] kind \in {"lost", "reset", "brokenPipe", "usedAfterLoss", "login", "cannotOpen"} -> ConnectionClasses
    [] OTHER -> {"Driver"}

(* Where the converters differ from that.  A system error of the socket    *)
(* has a number that hides its code from mysql2's converter; mysql2 and    *)
(* mssql take what they refuse to do for a lost connection.                *)
Differs ==
  {<<"mysql2", "reset">>, <<"mysql2", "noDatabase">>, <<"mysql2", "denied">>,
   <<"pg", "lockTimeout">>, <<"pg", "login">>, <<"pg", "readOnly">>, <<"pg", "brokenPipe">>,
   <<"mssql", "lockTimeout">>, <<"mssql", "noTable">>, <<"mssql", "requestTimeout">>,
   <<"mssql", "cancelled">>, <<"mssql", "usedAfterLoss">>, <<"sqlite3", "noColumnSelected">>}

(* Errors of a session that goes on, which the converters take for the    *)
(* loss of it.                                                             *)
Mistaken ==
  {<<"mysql2", "noDatabase">>, <<"mysql2", "denied">>, <<"mssql", "requestTimeout">>,
   <<"mssql", "cancelled">>, <<"sqlite3", "cannotOpen">>}
=============================================================================
