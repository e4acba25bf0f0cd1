----------------------------- MODULE Statements -----------------------------
(***************************************************************************)
(* Prepared statements (statement.ts, driver/<name>/statement.ts) and      *)
(* Connection.executeStatement() on one Connection that two tasks use,     *)
(* with answers that are errors: Connection.convertException() names their *)
(* class (Failures) and, when that is a ConnectionException, forgets the   *)
(* adapter and its transaction (resetConnectionState()).  A Statement      *)
(* keeps the adapter it was prepared on, and its driver's statement one    *)
(* list of parameters for all executions.                                  *)
(*                                                                         *)
(* An adapter is on a pool: only in a transaction has it a client of its   *)
(* own, which a lost session leaves it with.  The packages take the list   *)
(* when they come to the execution; sqlite3 copies it at once.             *)
(***************************************************************************)
EXTENDS Failures, FiniteSets

CONSTANTS
  Drivers,   \* some of sqlite3, pg, mysql2, mssql
  Tasks,
  Steady,    \* a task that executes statements of its own, again and again
  Prepared,  \* names of prepared statements
  Values,    \* what may be bound
  Adapters,  \* names of adapters, 0 is none
  Kinds      \* bound: the failures that servers answer with

ASSUME StatementsAssumption ==
  /\ Drivers \subseteq {"sqlite3", "pg", "mysql2", "mssql"}
  /\ Steady \in Tasks
  /\ "none" \notin Prepared
  /\ 0 \notin Adapters
  /\ IsFiniteSet(Tasks) /\ IsFiniteSet(Prepared) /\ IsFiniteSet(Adapters)
  /\ Cardinality(Adapters) > 1 + Cardinality(Prepared) + Cardinality(Tasks)

VARIABLES
  driver,
  conn,      \* the Connection: driverConnection and transactionNestingLevel
  client,    \* the client that each adapter has for its transaction
  stmt,      \* each Statement: its adapter, its params, the parameters of the driver's
  call       \* each task's execution

vars == <<driver, conn, client, stmt, call>>

None == "none"
Idle == [at |-> "idle", of |-> None, adapter |-> 0, begun |-> FALSE, stale |-> FALSE, asked |-> None,
         rebound |-> FALSE, used |-> None, inside |-> FALSE, kind |-> None, reported |-> None]

InFlight(t) == call[t].at \in {"called", "taken"}
Quiet == \A t \in Tasks : ~ InFlight(t)

Init ==
  /\ driver \in Drivers
  /\ conn = [adapter |-> 0, level |-> 0]
  /\ client = [a \in Adapters |-> None]
  /\ stmt = [s \in Prepared |-> [adapter |-> 0, params |-> None, parameters |-> None]]
  /\ call = [t \in Tasks |-> Idle]

-----------------------------------------------------------------------------
(* connect(): the adapter there is, or a new one. *)
Unused == CHOOSE a \in Adapters :
            /\ a # conn.adapter
            /\ \A s \in Prepared : stmt[s].adapter # a
            /\ \A t \in Tasks : InFlight(t) => call[t].adapter # a

Adapter == IF conn.adapter # 0 THEN conn.adapter ELSE Unused

Connect ==
  /\ conn' = [conn EXCEPT !.adapter = Adapter]
  /\ client' = IF conn.adapter # 0 THEN client ELSE [client EXCEPT ![Adapter] = None]

(* Connection.prepare(). The adapters ask the server nothing.              *)
Prepare(s) ==
  /\ Connect
  /\ stmt' = [stmt EXCEPT ![s] = [adapter |-> Adapter, params |-> None, parameters |-> None]]
  /\ \A t \in Tasks : ~ (InFlight(t) /\ call[t].of = s)
  /\ UNCHANGED <<driver, call>>

(* Mutant: a parameter that is bound stays bound. *)
BoundOnce(before, v) == IF before = None THEN v ELSE before

(* bindValue() of the driver's statements *)
Bound(before, v) == v

(* Statement.bindValue() *)
BindValue(s, v) ==
  /\ stmt[s].adapter # 0 /\ stmt[s].params # v
  /\ stmt' = [stmt EXCEPT ![s].params = v, ![s].parameters = Bound(@, v)]
  /\ call' = [t \in Tasks |-> IF InFlight(t) /\ call[t].of = s
                              THEN [call[t] EXCEPT !.rebound = TRUE] ELSE call[t]]
  /\ UNCHANGED <<driver, conn, client>>

(* Mutant: prepared statements go to the pool. *)
OutsideTransaction(a) == FALSE

(* getQueryable(), executeRaw(), createRequest(): in the adapter's         *)
(* transaction if it has one.                                              *)
InTransaction(a) == client[a] = "open"

Taken(c, value) == [c EXCEPT !.at = "taken", !.used = value, !.inside = InTransaction(c.adapter)]

Called(s, a, value) ==
  [Idle EXCEPT !.at = "called", !.of = s, !.adapter = a, !.begun = conn.level > 0,
               !.stale = a # conn.adapter, !.asked = value]

(* Statement.execute() *)
Execute(t, s) ==
  LET c == Called(s, stmt[s].adapter, stmt[s].params)
  IN  /\ ~ InFlight(t) /\ t # Steady
      /\ stmt[s].adapter # 0 /\ stmt[s].params # None
      /\ call' = [call EXCEPT ![t] = IF driver = "sqlite3" THEN Taken(c, stmt[s].parameters) ELSE c]
      /\ UNCHANGED <<driver, conn, client, stmt>>

(* Connection.executeQuery(), executeStatement(): with a driver's          *)
(* statement of their own.                                                 *)
ExecuteDirectly(t) ==
  LET c == [Called(None, Adapter, "own") EXCEPT !.stale = FALSE]
  IN  /\ ~ InFlight(t)
      /\ Connect
      /\ call' = [call EXCEPT ![t] = c]
      /\ UNCHANGED <<driver, stmt>>

Take(t) ==
  /\ call[t].at = "called"
  /\ call' = [call EXCEPT ![t] = Taken(@, IF @.of = None THEN @.asked ELSE stmt[@.of].parameters)]
  /\ UNCHANGED <<driver, conn, client, stmt>>

(* Mutants: every error resets, or none does. *)
ResetsAlways(class) == TRUE
ResetsNever(class)  == FALSE

Resets(class) == class \in ConnectionClasses

(* convertException() *)
ConvertException(class) ==
  conn' = IF Resets(class) THEN [adapter |-> 0, level |-> 0] ELSE conn

(* What is left of an execution that failed. *)
Told(c, kind, reported) ==
  [Idle EXCEPT !.at = "told", !.used = c.used, !.rebound = c.rebound, !.kind = kind,
               !.reported = reported]

Success(t) ==
  /\ call[t].at = "taken" /\ client[call[t].adapter] # "dead"
  /\ call' = [call EXCEPT ![t] = Idle]
  /\ UNCHANGED <<driver, conn, client, stmt>>

(* What an error may be: a client whose session is lost has only one.      *)
(* Sessions are lost while they answer.                                    *)
Errors(a) ==
  IF client[a] = "dead" THEN AfterLoss(driver)
  ELSE {e \in FailuresOf(driver) : e.kind \in Kinds} \ AfterLoss(driver)

(* Statement.getBoundParameters(): what is bound when the error comes.     *)
Reported(c) == IF c.of = None THEN c.asked ELSE stmt[c.of].params

Failure(t) ==
  /\ call[t].at = "taken"
  /\ \E e \in Errors(call[t].adapter) :
       LET class == Convert(driver, e)
           a == call[t].adapter
       IN  /\ client' = IF e.lost /\ client[a] = "open" THEN [client EXCEPT ![a] = "dead"] ELSE client
           /\ ConvertException(class)
           /\ call' = [call EXCEPT ![t] = Told(call[t], e.kind, Reported(call[t]))]
  /\ UNCHANGED <<driver, stmt>>

(* beginTransaction(); the application awaits its executions first.        *)
Begin ==
  /\ Quiet /\ conn.level = 0
  /\ conn.adapter # 0 => client[conn.adapter] = None
  /\ conn' = [adapter |-> Adapter, level |-> 1]
  /\ client' = [client EXCEPT ![Adapter] = "open"]
  /\ UNCHANGED <<driver, stmt, call>>

(* commit(), rollBack(): on a lost session they fail.  mssql's adapter     *)
(* keeps a transaction that it could not end.                              *)
End ==
  LET a == conn.adapter
      ended == [conn EXCEPT !.level = 0]
  IN  /\ Quiet /\ conn.level = 1
      /\ conn' = IF client[a] = "dead" /\ \E e \in AfterLoss(driver) : Resets(Convert(driver, e))
                 THEN [adapter |-> 0, level |-> 0] ELSE ended
      /\ client' = IF client[a] = "dead" /\ driver = "mssql" THEN client ELSE [client EXCEPT ![a] = None]
      /\ UNCHANGED <<driver, stmt, call>>

(* The steady task's calls, and their answers. *)
Steadily ==
  \/ ExecuteDirectly(Steady)
  \/ Take(Steady) \/ Success(Steady) \/ Failure(Steady)

Next ==
  \/ \E s \in Prepared : Prepare(s) \/ \E v \in Values : BindValue(s, v)
  \/ \E t \in Tasks : \/ \E s \in Prepared : Execute(t, s)
                      \/ ExecuteDirectly(t) \/ Take(t) \/ Success(t) \/ Failure(t)
  \/ Begin \/ End

Spec == Init /\ [][Next]_vars

(* A call is answered, and the steady task calls again. *)
FairSpec == Spec /\ WF_vars(Steadily)

-----------------------------------------------------------------------------
(* The application is told the same class for the same failure on every    *)
(* server, but where the converters differ.                                *)
Classified ==
  \A e \in FailuresOf(driver) :
    Convert(driver, e) \in ClassesFor(e.kind) \/ <<driver, e.kind>> \in Differs

(* An execution sends the value that was bound when it was called, and the *)
(* exception names that value, unless the statement was bound again before *)
(* the answer: then sqlite3 still sends what it was called with.           *)
ValuesOfCall ==
  \A t \in Tasks :
    /\ call[t].at = "taken" /\ (~ call[t].rebound \/ driver = "sqlite3") => call[t].used = call[t].asked
    /\ call[t].at = "told" /\ ~ call[t].rebound => call[t].reported = call[t].used

(* An execution called in a transaction runs in it, unless its statement   *)
(* was prepared on an adapter that the Connection has forgotten, or the    *)
(* session is lost.                                                        *)
InsideTransaction ==
  \A t \in Tasks :
    call[t].at = "taken" /\ call[t].begun /\ ~ call[t].stale /\ client[call[t].adapter] # "dead" => call[t].inside

(* A transaction that its server still holds open is forgotten only over   *)
(* an error that is mistaken for a lost connection, or one of an execution *)
(* on a forgotten adapter.                                                 *)
Dropped == conn.level = 1 /\ client[conn.adapter] = "open" /\ conn'.adapter = 0

LiveTransactionKept ==
  [][ Dropped => \/ client'[conn.adapter] = "dead"
                 \/ \E t \in Tasks :
                      /\ call[t].at = "taken" /\ call'[t].at = "told"
                      /\ \/ call[t].adapter # conn.adapter
                         \/ <<driver, call'[t].kind>> \in Mistaken
    ]_vars

(* However a session is lost, the Connection does not stay on it while the *)
(* application goes on calling: one of the next errors gets it a new one.  *)
Recovers == []<>(conn.adapter = 0 \/ client[conn.adapter] # "dead")
=============================================================================
