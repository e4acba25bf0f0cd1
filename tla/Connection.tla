----------------------------- MODULE Connection -----------------------------
(***************************************************************************)
(* src/src/connection.ts: the transaction side of Connection, on top of    *)
(* one of the driver adapters.  Every call is one step, the whole method   *)
(* with the calls it makes; its awaits may fail in each way Faults allows. *)
(* Callers await every call.                                               *)
(*                                                                         *)
(* History variables remember what callers were promised:                  *)
(*   scopes    the begin...commit/rollBack pairs and transactional() calls *)
(*             the caller is in, each with the writes made inside it;      *)
(*   rejected  the writes of transactional() calls that threw;             *)
(*   doomed    the writes of transactions marked rollback-only.            *)
(***************************************************************************)
EXTENDS DriverConnection

CONSTANTS
  AutoCommit,  \* the auto-commit modes the application uses
  MaxLevel,    \* bound: no begin above this nesting level
  MaxFrames    \* bound: no begin above this number of savepoints

ASSUME ConnectionAssumption ==
  AutoCommit \subseteq BOOLEAN /\ MaxLevel \in Nat /\ MaxFrames \in Nat

VARIABLES
  c,          \* the Connection, its adapter and its session: a State
  calling,    \* "none", or the call whose loop is running: "commitAll"
  unused,     \* the writes no caller has executed yet
  scopes,
  rejected,
  doomed

vars == <<c, calling, unused, scopes, rejected, doomed>>

-----------------------------------------------------------------------------
(* convertException and resetConnectionState.  The driver connection is    *)
(* dropped, not closed: a pooled session is lost with its transaction, and *)
(* so is an sqlite3 handle (the next connect() opens another); a single    *)
(* client keeps the transaction, and the next adapter finds it there.      *)

(* Mutant: the rollback-only mark survives the reset. *)
ResetKeepingMark(s) ==
  [ (IF Adapter = "sqlite3" \/ (Pooled /\ s.inTx) THEN NoTx(s) ELSE s)
    EXCEPT !.connected = FALSE, !.level = 0, !.inTx = FALSE ]

Reset(s) ==
  [ (IF Adapter = "sqlite3" \/ (Pooled /\ s.inTx) THEN NoTx(s) ELSE s)
    EXCEPT !.connected = FALSE, !.level = 0, !.rollbackOnly = FALSE, !.inTx = FALSE ]

Convert(os) ==
  { IF o.err \in {"denied", "lost"} THEN [s |-> Reset(o.s), err |-> "fail"] ELSE o : o \in os }

(* Run one call and then another with the state it leaves, when it returns. *)
Thrown(os)   == { o \in os : o.err # "none" }
Resolved(os) == { o.s : o \in { r \in os : r.err = "none" } }

-----------------------------------------------------------------------------
(* connect() and the platform.  pg and mysql2 ask the server its version;  *)
(* sqlite3 and mssql know their platform, but opening sqlite3 may fail.    *)

SupportsReleaseSavepoints == Adapter # "mssql"

PerformConnect(s) ==
  Returns([s EXCEPT !.connected = TRUE]) \cup
  (IF Adapter = "sqlite3" /\ "fail" \in Faults THEN Throws(s) ELSE {})

ResolveDatabasePlatform(s) ==
  LET resolved == [s EXCEPT !.platform = TRUE]
  IN  IF s.platform \/ Adapter \in {"sqlite3", "mssql"} THEN Returns(resolved)
      ELSE Exec(s, resolved)

(* getDatabasePlatform() before the platform is resolved throws, and leaves *)
(* the resolution it has started to succeed or not.                        *)
PlatformUnresolved(s) == Throws(s) \cup Throws([s EXCEPT !.platform = TRUE])

Known(s) == s.platform \/ Adapter \in {"sqlite3", "mssql"}

(* Mutant: the savepoint is named after the level that is left, not the    *)
(* one that is entered.                                                    *)
CreateSavepointBelow(s) ==
  IF Known(s) THEN Convert(ExecSavepoint(s, s.level - 1)) ELSE PlatformUnresolved(s)

CreateSavepoint(s) ==
  IF Known(s) THEN Convert(ExecSavepoint(s, s.level)) ELSE PlatformUnresolved(s)

ReleaseSavepoint(s) ==
  IF ~ Known(s) THEN PlatformUnresolved(s)
  ELSE IF SupportsReleaseSavepoints THEN Convert(ExecRelease(s, s.level))
  ELSE Returns(s)

RollbackSavepoint(s) ==
  IF Known(s) THEN Convert(ExecRollbackTo(s, s.level)) ELSE PlatformUnresolved(s)

(* beginTransaction() on a Connection that is connected. *)
BeginConnected(s) ==
  LET up == [s EXCEPT !.level = @ + 1]
  IN  Convert(IF up.level = 1 THEN DriverBegin(up) ELSE CreateSavepoint(up))

(* A failing step after performConnect() leaves the Connection connected. *)
Connect(s) ==
  IF s.connected THEN Returns(s)
  ELSE LET opened   == PerformConnect(s)
           resolved == UNION { ResolveDatabasePlatform(t) : t \in Resolved(opened) }
           begun    == UNION { BeginConnected(t) : t \in Resolved(resolved) }
       IN  Convert(Thrown(opened) \cup
                   (IF s.autoCommit THEN resolved ELSE Thrown(resolved) \cup begun))

BeginTransaction(s) ==
  Thrown(Connect(s)) \cup UNION { BeginConnected(t) : t \in Resolved(Connect(s)) }

(* A finally block that begins the next transaction: what it throws        *)
(* replaces the outcome it was entered with.                               *)
FinallyBegin(s, err) ==
  { IF b.err = "none" THEN [b EXCEPT !.err = err] ELSE b
      : b \in BeginTransaction([s EXCEPT !.rollbackOnly = FALSE]) }

(* Mutant: the level is decremented even when a lost connection has reset it. *)
AfterCommitUnguarded(s, err) ==
  LET down == [s EXCEPT !.level = @ - 1]
  IN  IF down.autoCommit \/ down.level # 0
      THEN {[s |-> down, err |-> err]}
      ELSE FinallyBegin(down, err)

(* updateTransactionStateAfterCommit(), for a commit that ended with err. *)
AfterCommit(s, err) ==
  LET down == [s EXCEPT !.level = IF @ = 0 THEN 0 ELSE @ - 1]
  IN  IF down.autoCommit \/ down.level # 0
      THEN {[s |-> down, err |-> err]}
      ELSE FinallyBegin(down, err)

(* Mutant: commit() does not look at the rollback-only mark. *)
CommitUnchecked(s) ==
  IF s.level = 0 THEN Throws(s)
  ELSE UNION { AfterCommit(o.s, o.err)
                 : o \in Convert(IF s.level = 1 THEN DriverCommit(s) ELSE ReleaseSavepoint(s)) }

Commit(s) ==
  IF s.level = 0 \/ s.rollbackOnly THEN Throws(s)
  ELSE UNION { AfterCommit(o.s, o.err)
                 : o \in Convert(IF s.level = 1 THEN DriverCommit(s) ELSE ReleaseSavepoint(s)) }

(* The outermost level is left before the driver is called, a nested one   *)
(* only when its savepoint was rolled back.                                *)
RollBackOutermost(s) ==
  UNION { IF s.autoCommit
          THEN {[o EXCEPT !.s.rollbackOnly = FALSE]}
          ELSE FinallyBegin(o.s, o.err)
            : o \in DriverRollBack([s EXCEPT !.level = 0]) }

(* Mutant: the level of a rolled back savepoint is not left. *)
RollBackNestedStaying(s) == RollbackSavepoint(s)

RollBackNested(s) ==
  { IF o.err = "none" THEN [o EXCEPT !.s.level = @ - 1] ELSE o : o \in RollbackSavepoint(s) }

RollBack(s) ==
  IF s.level = 0 THEN Throws(s)
  ELSE Convert(IF s.level = 1 THEN RollBackOutermost(s) ELSE RollBackNested(s))

(* The catch block of transactional(). *)
RollBackIfActive(s) == IF s.level = 0 THEN Throws(s) ELSE RollBack(s)

ExecuteStatement(s, w) ==
  Thrown(Connect(s)) \cup UNION { Convert(DriverExec(t, w)) : t \in Resolved(Connect(s)) }

Close(s) ==
  IF ~ s.connected THEN Returns(s)
  ELSE { IF o.err = "none" THEN [o EXCEPT !.s = Reset(@)] ELSE o : o \in Convert(DriverClose(s)) }

-----------------------------------------------------------------------------
(* Callers are disciplined: they end what they began, innermost first; a   *)
(* commit() that throws because of the rollback-only mark is followed by   *)
(* rollBack(); a transactional() callback neither ends its own transaction, *)
(* nor closes the Connection, nor changes its auto-commit mode.            *)

Scope == [kind : {"manual", "transactional"}, writes : SUBSET Writes]

Top == scopes[Len(scopes)]
Inside(kind) == scopes # <<>> /\ Top.kind = kind
InNoCallback == \A i \in DOMAIN scopes : scopes[i].kind = "manual"

Noted(ss, ws) ==
  IF ss = <<>> THEN ss ELSE [ss EXCEPT ![Len(ss)].writes = @ \cup ws]

(* Leave the innermost scope; its writes are its enclosing scope's too. *)
Left ==
  IF scopes = <<>> THEN scopes
  ELSE Noted(SubSeq(scopes, 1, Len(scopes) - 1), Top.writes)

Room == c.level < MaxLevel /\ Len(scopes) < MaxLevel /\ Len(c.tx) < MaxFrames

-----------------------------------------------------------------------------
Init ==
  /\ c \in { [ autoCommit |-> a, connected |-> FALSE, platform |-> FALSE, level |-> 0,
               rollbackOnly |-> FALSE, inTx |-> FALSE, alive |-> TRUE, aborted |-> FALSE,
               tx |-> <<>>, durable |-> {} ] : a \in AutoCommit }
  /\ calling = "none"
  /\ unused = Writes
  /\ scopes = <<>>
  /\ rejected = {}
  /\ doomed = {}

CallConnect ==
  /\ calling = "none" /\ ~ c.connected
  /\ \E o \in Connect(c) : c' = o.s
  /\ UNCHANGED <<calling, unused, scopes, rejected, doomed>>

CallExecuteStatement(w) ==
  /\ calling = "none" /\ w \in unused
  /\ \E o \in ExecuteStatement(c, w) :
       /\ c' = o.s
       /\ IF o.err = "none"
          THEN /\ unused' = unused \ {w}
               /\ scopes' = Noted(scopes, {w})
               /\ doomed' = IF o.s.rollbackOnly /\ o.s.tx # <<>> THEN doomed \cup {w} ELSE doomed
          ELSE UNCHANGED <<unused, scopes, doomed>>
  /\ UNCHANGED <<calling, rejected>>

(* beginTransaction(), called for itself or by transactional(). *)
CallBeginTransaction(kind) ==
  /\ calling = "none" /\ Room
  /\ \E o \in BeginTransaction(c) :
       /\ c' = o.s
       /\ scopes' = IF o.err = "none" THEN Append(scopes, [kind |-> kind, writes |-> {}])
                    ELSE scopes
  /\ UNCHANGED <<calling, unused, rejected, doomed>>

CallCommit ==
  /\ calling = "none" /\ ~ Inside("transactional")
  /\ scopes # <<>> \/ ~ c.autoCommit
  /\ \E o \in Commit(c) :
       /\ c' = o.s
       /\ scopes' = IF o.err = "none" \/ ~ c.rollbackOnly THEN Left ELSE scopes
  /\ UNCHANGED <<calling, unused, rejected, doomed>>

CallRollBack ==
  /\ calling = "none" /\ ~ Inside("transactional")
  /\ \E o \in RollBack(c) :
       /\ c' = o.s
       /\ scopes' = IF o.err = "none" \/ c.level < 2 \/ ~ o.s.connected THEN Left ELSE scopes
  /\ UNCHANGED <<calling, unused, rejected, doomed>>

CallSetRollbackOnly ==
  /\ calling = "none" /\ c.level # 0
  /\ c' = [c EXCEPT !.rollbackOnly = TRUE]
  /\ doomed' = doomed \cup Pending(c.tx)
  /\ UNCHANGED <<calling, unused, scopes, rejected>>

(* The callback of transactional() returned: commit, or roll back. *)
TransactionalReturns ==
  /\ calling = "none" /\ Inside("transactional")
  /\ \E o \in Commit(c) :
       IF o.err = "none"
       THEN c' = o.s /\ UNCHANGED rejected
       ELSE /\ \E r \in RollBackIfActive(o.s) : c' = r.s
            /\ rejected' = rejected \cup Top.writes
  /\ scopes' = Left
  /\ UNCHANGED <<calling, unused, doomed>>

(* The callback of transactional() threw. *)
TransactionalThrows ==
  /\ calling = "none" /\ Inside("transactional")
  /\ \E r \in RollBackIfActive(c) : c' = r.s
  /\ rejected' = rejected \cup Top.writes
  /\ scopes' = Left
  /\ UNCHANGED <<calling, unused, doomed>>

(* setAutoCommit() changes the flag, then commitAll() commits level by     *)
(* level: one step each.                                                   *)
CallSetAutoCommit ==
  /\ calling = "none" /\ InNoCallback /\ (~ c.autoCommit) \in AutoCommit
  /\ c' = [c EXCEPT !.autoCommit = ~ @]
  /\ calling' = IF c.connected /\ c.level # 0 THEN "commitAll" ELSE "none"
  /\ scopes' = <<>>
  /\ UNCHANGED <<unused, rejected, doomed>>

(* Mutant: the loop does not stop at the transaction its own commit began. *)
CommitAllOverrun ==
  /\ calling = "commitAll"
  /\ \E o \in Commit(c) :
       /\ c' = o.s
       /\ calling' = IF o.err # "none" \/ o.s.level = 0 THEN "none" ELSE "commitAll"
  /\ UNCHANGED <<unused, scopes, rejected, doomed>>

CommitAll ==
  /\ calling = "commitAll"
  /\ \E o \in Commit(c) :
       /\ c' = o.s
       /\ calling' = IF o.err # "none" \/ (~ c.autoCommit /\ c.level = 1) \/ o.s.level = 0
                     THEN "none" ELSE "commitAll"
  /\ UNCHANGED <<unused, scopes, rejected, doomed>>

CallClose ==
  /\ calling = "none" /\ c.connected /\ InNoCallback
  /\ \E o \in Close(c) : c' = o.s
  /\ scopes' = <<>>
  /\ UNCHANGED <<calling, unused, rejected, doomed>>

Next ==
  \/ CallConnect
  \/ \E w \in Writes : CallExecuteStatement(w)
  \/ \E kind \in {"manual", "transactional"} : CallBeginTransaction(kind)
  \/ CallCommit
  \/ CallRollBack
  \/ CallSetRollbackOnly
  \/ TransactionalReturns
  \/ TransactionalThrows
  \/ CallSetAutoCommit
  \/ CommitAll
  \/ CallClose

Spec == Init /\ [][Next]_vars

(* The loop of commitAll() runs by itself, its caller only awaits it. *)
FairSpec == Spec /\ WF_vars(CommitAll)

-----------------------------------------------------------------------------
(* The variables have the types of the fields they stand for. *)
TypeOK ==
  /\ c \in State
  /\ calling \in {"none", "commitAll"}
  /\ unused \subseteq Writes
  /\ scopes \in Seq(Scope)
  /\ rejected \subseteq Writes
  /\ doomed \subseteq Writes

(* Nothing of a transaction outlives the connection it was on: a           *)
(* Connection without a driver connection is at level 0, without a         *)
(* rollback-only mark, and a mark is only ever there inside a transaction. *)
(* (connection.ts resets and decrements these in seven places.)            *)
CleanOutside ==
  /\ ~ c.connected => c.level = 0 /\ ~ c.inTx
  /\ c.rollbackOnly => c.level # 0

(* No write of a transaction that was marked rollback-only ever becomes    *)
(* durable (docs/transactions.md, "Rollback-only State").                  *)
DoomedNeverDurable == doomed \cap c.durable = {}

(* transactional() that throws leaves none of its writes behind, now or    *)
(* later (docs/transactions.md: it "guarantees rollback on failure").      *)
TransactionalAtomic ==
  /\ rejected \cap c.durable = {}
  /\ ~ c.aborted => rejected \cap Pending(c.tx) = {}

(* Without failures, the adapter has a transaction exactly when the        *)
(* Connection counts a level, the server has one too, and the savepoint    *)
(* that each nested level would roll back to is there, in level order.     *)
InStep ==
  /\ (c.level # 0) <=> c.inTx
  /\ c.inTx <=> (c.tx # <<>>)
  /\ \A n \in 1 .. c.level : Last(c.tx, n) # {}
  /\ \A n \in 2 .. c.level : \A i \in Last(c.tx, n - 1), j \in Last(c.tx, n) : i < j

(* Without failures, what the three keep apart agrees after every sequence *)
(* of calls, and so what transactional() undoes is what it was given.      *)
LevelsAgree == InStep /\ TransactionalAtomic

(* pg and mysql2 forget their transaction whatever COMMIT or ROLLBACK      *)
(* answered: at level 0 the adapter never believes that one is active,     *)
(* which would make it refuse every later beginTransaction().              *)
ReadyToBegin == c.level = 0 => ~ c.inTx

(* setAutoCommit() ends: its loop commits until no level is left, or, with *)
(* auto-commit off, until the transaction that the last commit began.      *)
CommitAllEnds == calling = "commitAll" ~> calling = "none"

(* The level each savepoint frame belongs to, and what NestedTransaction   *)
(* calls the stack: the frames from a level's savepoint to the next one's. *)
LevelOf(i) ==
  CHOOSE n \in 1 .. c.level :
    /\ \E k \in Last(c.tx, n) : k <= i
    /\ n < c.level => \A k \in Last(c.tx, n + 1) : i < k

Levels ==
  [ n \in 1 .. c.level |-> UNION { c.tx[i].writes : i \in { j \in DOMAIN c.tx : LevelOf(j) = n } } ]

Promise == INSTANCE NestedTransaction WITH stack <- Levels, durable <- c.durable

(* Without failures, Connection keeps the promise of nested transactions:  *)
(* savepoints that survive a rollback, or that are never released, do not  *)
(* change which writes a level undoes.                                     *)
KeepsPromise == Promise!NTSpec
=============================================================================
