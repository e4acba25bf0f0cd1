-------------------------- MODULE DriverConnection --------------------------
(***************************************************************************)
(* The four driver adapters (src/src/driver/{sqlite3,pg,mysql2,mssql}) and *)
(* the database session their statements reach.                            *)
(*                                                                         *)
(* An operation is an operator that takes the state s of one Connection    *)
(* object, its adapter and its session, and returns the SET of outcomes    *)
(* the call may have: a record with the state it leaves and the way it     *)
(* ends ("none" when its promise resolves, otherwise the kind of error).   *)
(* Connection.tla composes these operators; it does it one call at a time, *)
(* as a caller that awaits every call does.                                *)
(*                                                                         *)
(* The server is external: it is modelled as the adapters use it, that is, *)
(* as a stack of savepoint frames holding the writes that are not durable  *)
(* yet.  A write is a member of Writes, and is executed at most once.      *)
(***************************************************************************)
EXTENDS Naturals, Sequences

CONSTANTS
  Writes,      \* the writing statements a caller may execute
  Adapter,     \* which adapter: "sqlite3", "pg", "mysql2" or "mssql"
  Pooled,      \* the adapter was given a pool: it borrows a session per transaction
  Faults,      \* the ways the environment may make a statement fail
  EndFailure   \* the ways a COMMIT or ROLLBACK may fail: the transaction stays open or is ended

FaultKinds == {"fail", "deadlock", "denied", "lost"}

ASSUME DriverAssumption ==
  /\ Adapter \in {"sqlite3", "pg", "mysql2", "mssql"}
  /\ Pooled \in BOOLEAN
  /\ (Adapter = "mssql") => Pooled
  /\ (Adapter = "sqlite3") => ~ Pooled
  /\ Faults \subseteq FaultKinds
  /\ EndFailure \subseteq {"open", "ended"}

-----------------------------------------------------------------------------
(* A frame holds the writes executed since its savepoint.  The frame of    *)
(* BEGIN has savepoint number 1, that of DATAZEN_n has number n.           *)
Frame == [sp : Nat, writes : SUBSET Writes]

State ==
  [ autoCommit   : BOOLEAN,     \* Connection.autoCommit
    connected    : BOOLEAN,     \* Connection.driverConnection # null
    platform     : BOOLEAN,     \* Connection.databasePlatform # null
    level        : Nat,         \* Connection.transactionNestingLevel
    rollbackOnly : BOOLEAN,     \* Connection.rollbackOnly
    inTx         : BOOLEAN,     \* the adapter's inTransaction, or its transaction # null
    alive        : BOOLEAN,     \* the client given to the adapter can still be used
    aborted      : BOOLEAN,     \* the session's transaction only accepts a rollback
    tx           : Seq(Frame),  \* the session's open transaction, <<>> when there is none
    durable      : SUBSET Writes ]

(* How a call ends: "fail" and the faults that are converted to it leave   *)
(* the Connection as it is; "denied" and "lost" are converted to a         *)
(* ConnectionException, with the session still there ("denied": a mysql2   *)
(* access error, an mssql request timeout) or gone ("lost").               *)
Ends == {"none", "fail", "denied", "lost"}
Outcome == [s : State, err : Ends]

Returns(s) == {[s |-> s, err |-> "none"]}
Throws(s)  == {[s |-> s, err |-> "fail"]}

NoTx(s) == [s EXCEPT !.tx = <<>>, !.aborted = FALSE]

Pending(tx) == UNION {tx[i].writes : i \in DOMAIN tx}

(* A single client is lost for good; a pool replaces the session. *)
Lose(s) == [NoTx(s) EXCEPT !.alive = Pooled]

(* PostgreSQL aborts the transaction a failing statement is part of. *)
Abort(s) == [s EXCEPT !.aborted = (Adapter = "pg" /\ s.tx # <<>>)]

(* The ways a statement the session executes may fail.  A deadlock         *)
(* victim's transaction is rolled back as a whole.                         *)
Losses(s) == { [s |-> Lose(s), err |-> "lost"] : f \in Faults \cap {"lost"} }

Failures(s) ==
  { [s |-> Abort(s), err |-> "fail"] : f \in Faults \cap {"fail"} } \cup
  { [s |-> NoTx(s),  err |-> "fail"] : f \in Faults \cap {"deadlock"} } \cup
  Losses(s)

(* An mssql Transaction object whose transaction the server has ended      *)
(* rejects every request made through it.                                  *)
Stale(s) == Adapter = "mssql" /\ s.inTx /\ s.tx = <<>>

(* A statement that leaves t when it succeeds; one the server rejects. *)
Exec(s, t) ==
  IF ~ s.alive THEN {[s |-> s, err |-> "lost"]}
  ELSE IF s.aborted \/ Stale(s) THEN Throws(s)
  ELSE Returns(t) \cup Failures(s)

Reject(s) == IF s.alive THEN Throws(Abort(s)) ELSE {[s |-> s, err |-> "lost"]}

-----------------------------------------------------------------------------
(* The writing statements. *)

Written(s, w) ==
  IF s.tx = <<>>
  THEN [s EXCEPT !.durable = @ \cup {w}]
  ELSE [s EXCEPT !.tx[Len(s.tx)].writes = @ \cup {w}]

(* A statement the server refuses with a code that is taken for a          *)
(* connection error fails as "denied"; the session and its transaction     *)
(* are not affected.                                                       *)
DriverExec(s, w) ==
  Exec(s, Written(s, w)) \cup
  { [s |-> s, err |-> "denied"] : f \in IF s.alive THEN Faults \cap {"denied"} ELSE {} }

-----------------------------------------------------------------------------
(* Savepoints on the server.  The latest savepoint of a name counts, and   *)
(* it survives a rollback to it.                                           *)

Last(tx, n) ==
  { i \in DOMAIN tx : tx[i].sp = n /\ \A j \in DOMAIN tx : tx[j].sp = n => j <= i }

Mark(n) == [sp |-> n, writes |-> {}]

(* Outside a transaction sqlite3 opens one with it, mysql2 ignores it. *)
ExecSavepoint(s, n) ==
  IF s.tx # <<>> \/ Adapter = "sqlite3"
  THEN Exec(s, [s EXCEPT !.tx = Append(@, Mark(n))])
  ELSE IF Adapter = "mysql2" THEN Exec(s, s) ELSE Reject(s)

RolledBackTo(s, i, n) ==
  [s EXCEPT !.tx = Append(SubSeq(@, 1, i - 1), Mark(n)), !.aborted = FALSE]

(* Only a missing savepoint or a lost session makes it fail. *)
ExecRollbackTo(s, n) ==
  IF s.alive /\ Last(s.tx, n) # {}
  THEN { [s |-> RolledBackTo(s, i, n), err |-> "none"] : i \in Last(s.tx, n) } \cup Losses(s)
  ELSE Reject(s)

(* Releasing the savepoint that opened the transaction commits it. *)
Released(s, i) ==
  IF i = 1
  THEN [NoTx(s) EXCEPT !.durable = @ \cup Pending(s.tx)]
  ELSE LET below == s.tx[i - 1]
           kept  == below.writes \cup Pending(SubSeq(s.tx, i, Len(s.tx)))
       IN  [s EXCEPT !.tx = Append(SubSeq(@, 1, i - 2), [sp |-> below.sp, writes |-> kept])]

ExecRelease(s, n) ==
  IF Last(s.tx, n) = {} THEN Reject(s)
  ELSE UNION { Exec(s, Released(s, i)) : i \in Last(s.tx, n) }

-----------------------------------------------------------------------------
(* BEGIN.  Only a mysql2 client handed back with its transaction open, or  *)
(* a Connection that forgot its adapter, finds one open: sqlite3 rejects   *)
(* the statement, mysql2 commits the open transaction, pg joins it.        *)

Begun(s) == [s EXCEPT !.tx = <<Mark(1)>>, !.inTx = TRUE]

SQLite3Begin(s) ==
  IF s.inTx THEN Throws(s)
  ELSE IF s.tx # <<>> THEN Reject(s)
  ELSE Exec(s, Begun(s))

(* The client borrowed for a BEGIN that fails stays with the adapter, which *)
(* uses it for what follows: for the caller it is the same session.        *)
PgBegin(s) ==
  IF s.inTx THEN Throws(s)
  ELSE IF s.tx # <<>> THEN Exec(s, [s EXCEPT !.inTx = TRUE])
  ELSE Exec(s, Begun(s))

(* A pooled connection whose BEGIN fails is never handed back. *)
MySQL2Begin(s) ==
  IF s.inTx THEN Throws(s)
  ELSE { [o EXCEPT !.s = IF Pooled /\ o.err # "none" THEN NoTx(@) ELSE @]
           : o \in Exec(s, [Begun(s) EXCEPT !.durable = @ \cup Pending(s.tx)]) }

MSSQLBegin(s) == IF s.inTx THEN Throws(s) ELSE Exec(s, Begun(s))

DriverBegin(s) ==
  CASE Adapter = "sqlite3" -> SQLite3Begin(s)
    [] Adapter = "pg"      -> PgBegin(s)
    [] Adapter = "mysql2"  -> MySQL2Begin(s)
    [] Adapter = "mssql"   -> MSSQLBegin(s)

-----------------------------------------------------------------------------
(* COMMIT and ROLLBACK.  sqlite3 and mssql forget the transaction only     *)
(* when the statement succeeds, pg and mysql2 in a finally block.          *)

Committed(s) ==
  [NoTx(s) EXCEPT !.durable = IF s.aborted THEN @ ELSE @ \cup Pending(s.tx)]

(* What the session may be left with by a COMMIT or ROLLBACK that fails;   *)
(* done is what it would leave if it succeeded.  When the answer is lost,  *)
(* the server may have executed it or not.                                 *)
EndFailures(s, done) ==
  { [s |-> s,       err |-> "fail"]   : f \in EndFailure \cap {"open"} } \cup
  { [s |-> NoTx(s), err |-> "fail"]   : f \in EndFailure \cap {"ended"} } \cup
  { [s |-> Lose(t), err |-> "lost"]   : t \in IF "lost" \in Faults THEN {s, done} ELSE {} }

(* sqlite3 and mssql reject both statements outside a transaction. *)
ExecEnd(s, done) ==
  IF ~ s.alive THEN {[s |-> s, err |-> "lost"]}
  ELSE IF s.tx = <<>> /\ Adapter \in {"sqlite3", "mssql"} THEN Throws(s)
  ELSE Returns(done) \cup EndFailures(s, done)

ForgetOnSuccess(os) == { [o EXCEPT !.s.inTx = (o.err # "none")] : o \in os }
ForgetAlways(os)    == { [o EXCEPT !.s.inTx = FALSE] : o \in os }

SQLite3Commit(s) == IF s.inTx THEN ForgetOnSuccess(ExecEnd(s, Committed(s))) ELSE Throws(s)
PgCommit(s)      == IF s.inTx THEN ForgetAlways(ExecEnd(s, Committed(s)))    ELSE Throws(s)
MySQL2Commit(s)  == IF s.inTx THEN ForgetAlways(ExecEnd(s, Committed(s)))    ELSE Throws(s)
MSSQLCommit(s)   == IF s.inTx THEN ForgetOnSuccess(ExecEnd(s, Committed(s))) ELSE Throws(s)

DriverCommit(s) ==
  CASE Adapter = "sqlite3" -> SQLite3Commit(s)
    [] Adapter = "pg"      -> PgCommit(s)
    [] Adapter = "mysql2"  -> MySQL2Commit(s)
    [] Adapter = "mssql"   -> MSSQLCommit(s)

SQLite3RollBack(s) == IF s.inTx THEN ForgetOnSuccess(ExecEnd(s, NoTx(s))) ELSE Throws(s)
PgRollBack(s)      == IF s.inTx THEN ForgetAlways(ExecEnd(s, NoTx(s)))    ELSE Throws(s)
MySQL2RollBack(s)  == IF s.inTx THEN ForgetAlways(ExecEnd(s, NoTx(s)))    ELSE Throws(s)
MSSQLRollBack(s)   == IF s.inTx THEN ForgetOnSuccess(ExecEnd(s, NoTx(s))) ELSE Throws(s)

DriverRollBack(s) ==
  CASE Adapter = "sqlite3" -> SQLite3RollBack(s)
    [] Adapter = "pg"      -> PgRollBack(s)
    [] Adapter = "mysql2"  -> MySQL2RollBack(s)
    [] Adapter = "mssql"   -> MSSQLRollBack(s)

-----------------------------------------------------------------------------
(* close().  The client of pg, mysql2 and mssql is the caller's and stays  *)
(* open (ownsClient is false); sqlite3 closes the database it opened.      *)

SQLite3Close(s) ==
  LET rolledBack == IF s.inTx THEN { o.s : o \in ExecEnd(s, NoTx(s)) } ELSE {s}
  IN  Returns([NoTx(s) EXCEPT !.inTx = FALSE]) \cup
      { [s |-> [t EXCEPT !.inTx = FALSE], err |-> "fail"]
          : t \in IF "fail" \in Faults THEN rolledBack ELSE {} }

(* The rollback is best effort: whatever it answers, close() succeeds. *)
PgClose(s) ==
  IF s.inTx
  THEN { [s |-> [o.s EXCEPT !.inTx = FALSE], err |-> "none"] : o \in ExecEnd(s, NoTx(s)) }
  ELSE Returns(s)

(* The borrowed connection is handed back as it is, without a rollback. *)
MySQL2Close(s) == Returns([s EXCEPT !.inTx = FALSE])

MSSQLClose(s) == IF s.inTx THEN ForgetOnSuccess(ExecEnd(s, NoTx(s))) ELSE Returns(s)

DriverClose(s) ==
  CASE Adapter = "sqlite3" -> SQLite3Close(s)
    [] Adapter = "pg"      -> PgClose(s)
    [] Adapter = "mysql2"  -> MySQL2Close(s)
    [] Adapter = "mssql"   -> MSSQLClose(s)
=============================================================================
