------------------------- MODULE PrimaryReadReplica -------------------------
(***************************************************************************)
(* src/src/connections/primary-read-replica-connection.ts: a Connection    *)
(* that keeps one driver connection to the primary and one to a replica    *)
(* and switches between them.                                              *)
(*                                                                         *)
(* A call is a task: a sequence of steps, each the code between two        *)
(* awaits, so that tasks sharing the Connection interleave at awaits.      *)
(* The methods inherited from Connection are the ones Connection.tla       *)
(* models, reduced to what routing depends on: the level, the driver       *)
(* connection and, of the server, whether it is in a transaction.          *)
(***************************************************************************)
EXTENDS Integers, Sequences

CONSTANTS
  Tasks,           \* the concurrent users of the Connection
  Calls,           \* the calls that each of them makes
  AutoCommits,     \* the auto-commit modes
  KeepReplicas,    \* the values of the keepReplica option
  Faults,          \* "connect": connecting fails; "lost": a statement loses its connection
  MaxConnections,  \* bound: driver connections opened
  MaxLevel         \* bound: no begin above this level

ASSUME PRRAssumption ==
  /\ Calls \in [Tasks -> SUBSET {"read", "write", "begin", "commit", "rollBack",
                                  "toPrimary", "toReplica", "close"}]
  /\ AutoCommits \subseteq BOOLEAN /\ KeepReplicas \subseteq BOOLEAN
  /\ Faults \subseteq {"connect", "lost"}
  /\ MaxConnections \in Nat /\ MaxLevel \in Nat

VARIABLES
  options,  \* the auto-commit mode and the keepReplica option: neither changes
  conns,    \* the driver connections opened so far
  current,  \* Connection.driverConnection: an index of conns, or 0
  cache,    \* the field connections
  level,    \* Connection.transactionNestingLevel
  tasks,    \* what each task has still to do, and the driver connection it holds
  last,     \* history: the last statement a server executed
  stuck,    \* history: a write or a transaction happened since reads may use a replica
  crossed   \* history: a call changed the connection or the level in the middle of another

vars == <<options, conns, current, cache, level, tasks, last, stuck, crossed>>

Roles == {"primary", "replica"}

-----------------------------------------------------------------------------
(* The calls.  Each overridden method switches to the primary and then     *)
(* runs the inherited one, which asks connect() for the driver connection. *)

(* Mutant: a read asks for a replica by name. *)
ReadFromReplica == <<"toReplica", "connect", "read">>

Read      == <<"connect", "connect", "read">>
Write     == <<"toPrimary", "connect", "connect", "write">>
Begin     == <<"toPrimary", "connect", "begin">>
Savepoint == <<"toPrimary", "connect">> \o Write

Program(call) ==
  CASE call = "read"  -> Read
    [] call = "write" -> Write
    [] call = "begin" -> Begin
    [] call = "commit"   -> <<"toPrimary", "connectActive", "commit", "left">>
    [] call = "rollBack" -> <<"toPrimary", "connectActive", "rollBack">>
    [] OTHER -> <<call>>

Idle(t) == tasks[t].todo = <<>>
Next2Do(t, step) == ~ Idle(t) /\ Head(tasks[t].todo) = step
Rest(t) == Tail(tasks[t].todo)

(* Task t goes on with todo; k is the driver connection it holds. *)
Goes(t, todo, k) == tasks' = [tasks EXCEPT ![t] = [todo |-> todo, conn |-> k]]

(* A call that fails ends there, but for commit()'s finally block, "left",  *)
(* once its try block is entered.                                          *)
Ahead(t) == {tasks[t].todo[i] : i \in 2..Len(tasks[t].todo)}
Fails(t) ==
  Goes(t, IF "left" \in Ahead(t) /\ "commit" \notin Ahead(t) THEN <<"left">> ELSE <<>>, 0)

CallStarts(t, call) ==
  /\ Idle(t) /\ call \in Calls[t]
  /\ call = "begin" => level < MaxLevel
  /\ call = "close" => \A u \in Tasks : Idle(u)
  /\ Goes(t, Program(call), 0)
  /\ stuck' = (stuck /\ call # "toReplica")
  /\ UNCHANGED <<options, conns, current, cache, level, last>>

-----------------------------------------------------------------------------
(* performConnect() and connect(). *)

(* Mutant: a replica that is asked for is taken, even in a transaction. *)
SelectedByName(name) == name

Selected(name) == IF level > 0 THEN "primary" ELSE name

PerformConnect(t, name, todo) ==
  LET role == Selected(name)
      k    == cache[role]
  IN  IF k # 0
      THEN /\ current' = k
           /\ cache' = IF level > 0 /\ ~ options.keepReplica THEN [cache EXCEPT !.replica = k] ELSE cache
           /\ Goes(t, todo, k)
      ELSE /\ Goes(t, <<IF role = "primary" THEN "openPrimary" ELSE "openReplica">> \o todo, 0)
           /\ UNCHANGED <<current, cache>>

EnsureConnected(t) ==
  /\ \/ Next2Do(t, "toPrimary") /\ PerformConnect(t, "primary", Rest(t))
     \/ Next2Do(t, "toReplica") /\ PerformConnect(t, "replica", Rest(t))
  /\ UNCHANGED <<options, conns, level, last, stuck>>

(* Without keepReplica the primary replaces the replica. *)
CacheWith(role, k) ==
  IF role = "primary" /\ ~ options.keepReplica THEN [primary |-> k, replica |-> k]
  ELSE [cache EXCEPT ![role] = k]

Opened(t, role) ==
  LET k == Len(conns) + 1
  IN  /\ conns' = Append(conns, [role |-> role, inTx |-> FALSE, alive |-> TRUE, open |-> TRUE])
      /\ current' = k
      /\ cache' = CacheWith(role, k)
      /\ Goes(t, Rest(t), k)
      /\ UNCHANGED level

Reset == current' = 0 /\ level' = 0

(* A server that refuses to connect is a connection error or another. *)
OpenFails(t) ==
  /\ "connect" \in Faults
  /\ Fails(t)
  /\ Reset \/ UNCHANGED <<current, level>>
  /\ UNCHANGED <<conns, cache>>

Open(t) ==
  /\ \E role \in Roles :
       /\ Next2Do(t, IF role = "primary" THEN "openPrimary" ELSE "openReplica")
       /\ Len(conns) < MaxConnections
       /\ Opened(t, role) \/ OpenFails(t)
  /\ UNCHANGED <<options, last, stuck>>

(* connect(): the driver connection that is there, or a new one, which     *)
(* becomes the Connection's once more after the await ("adopt").           *)
Connect(t) ==
  /\ \/ Next2Do(t, "connect")
     \/ Next2Do(t, "connectActive") /\ level # 0
  /\ IF current # 0
     THEN Goes(t, Rest(t), current) /\ UNCHANGED <<current, cache>>
     ELSE PerformConnect(t, "replica", <<"adopt">> \o Rest(t))
  /\ UNCHANGED <<options, conns, level, last, stuck>>

NoActiveTransaction(t) ==
  /\ Next2Do(t, "connectActive") /\ level = 0
  /\ Fails(t)
  /\ UNCHANGED <<options, conns, current, cache, level, last, stuck>>

(* With auto-commit off, connecting begins a transaction. *)
Adopt(t) ==
  /\ Next2Do(t, "adopt")
  /\ current' = tasks[t].conn
  /\ Goes(t, (IF options.autoCommit THEN <<>> ELSE Begin) \o <<"connected">> \o Rest(t), 0)
  /\ UNCHANGED <<options, conns, cache, level, last, stuck>>

Connected(t) ==
  /\ Next2Do(t, "connected")
  /\ Goes(t, Rest(t), current)
  /\ UNCHANGED <<options, conns, current, cache, level, last, stuck>>

-----------------------------------------------------------------------------
(* Statements and transactions, on the driver connection the task holds.   *)

Lost(t) ==
  LET k == tasks[t].conn
  IN  /\ ~ conns[k].alive \/ "lost" \in Faults
      /\ conns' = [conns EXCEPT ![k].alive = FALSE, ![k].inTx = FALSE]
      /\ Reset
      /\ Fails(t)
      /\ stuck' = FALSE
      /\ UNCHANGED <<cache, last>>

(* History: a call of ensureConnectedToReplica() is under way; a write that *)
(* overlaps it counts as made before it.                                   *)
LeavingPrimary == \E u \in Tasks : Next2Do(u, "toReplica") \/ Next2Do(u, "openReplica")

(* History: a transaction is counted that is not just being left.          *)
WithinTransaction == level > 0 /\ \A u \in Tasks : ~ Next2Do(u, "left")

Statement(t) ==
  /\ \E stmt \in {"read", "write"} :
       /\ Next2Do(t, stmt)
       /\ \/ Lost(t)
          \/ LET k == tasks[t].conn
             IN  /\ conns[k].alive
                 /\ last' = [ stmt |-> stmt, conn |-> k, within |-> WithinTransaction,
                              inTx |-> conns[k].inTx, stuck |-> stuck ]
                 /\ stuck' = (stuck \/ (stmt = "write" /\ ~ LeavingPrimary))
                 /\ Goes(t, Rest(t), k)
                 /\ UNCHANGED <<conns, current, cache, level>>
  /\ UNCHANGED options

BeginTransaction(t) ==
  /\ Next2Do(t, "begin")
  /\ LET k == tasks[t].conn
     IN  IF level = 0
         THEN \/ Lost(t)
              \/ /\ conns[k].alive
                 /\ level' = 1
                 /\ conns' = [conns EXCEPT ![k].inTx = TRUE]
                 /\ stuck' = TRUE
                 /\ Goes(t, Rest(t), k)
                 /\ UNCHANGED <<current, cache, last>>
         ELSE /\ level' = level + 1
              /\ Goes(t, Savepoint \o Rest(t), 0)
              /\ UNCHANGED <<conns, current, cache, last, stuck>>
  /\ UNCHANGED options

(* COMMIT is sent with the level still up; "left", which runs after a      *)
(* failure as well, takes it down.                                         *)
Commit(t) ==
  /\ Next2Do(t, "commit")
  /\ IF level = 1
     THEN \/ Lost(t)
          \/ LET k == tasks[t].conn
             IN  /\ conns[k].alive
                 /\ conns' = [conns EXCEPT ![k].inTx = FALSE]
                 /\ Goes(t, Rest(t), k)
                 /\ UNCHANGED <<current, cache, level, last, stuck>>
     ELSE /\ Goes(t, Savepoint \o Rest(t), 0)
          /\ UNCHANGED <<conns, current, cache, level, last, stuck>>
  /\ UNCHANGED options

(* The transaction that follows the outermost one with auto-commit off. *)
Following == IF ~ options.autoCommit /\ level' = 0 THEN Begin ELSE <<>>

Left(t) ==
  /\ Next2Do(t, "left")
  /\ level' = IF level = 0 THEN 0 ELSE level - 1
  /\ Goes(t, Following \o Rest(t), 0)
  /\ UNCHANGED <<options, conns, current, cache, last, stuck>>

RollBack(t) ==
  /\ Next2Do(t, "rollBack")
  /\ IF level = 1
     THEN \/ Lost(t)
          \/ LET k == tasks[t].conn
             IN  /\ conns[k].alive
                 /\ level' = 0
                 /\ conns' = [conns EXCEPT ![k].inTx = FALSE]
                 /\ Goes(t, Following \o Rest(t), k)
                 /\ UNCHANGED <<current, cache, last, stuck>>
     ELSE /\ Goes(t, Savepoint \o <<"leftNested">> \o Rest(t), 0)
          /\ UNCHANGED <<conns, current, cache, level, last, stuck>>
  /\ UNCHANGED options

LeftNested(t) ==
  /\ Next2Do(t, "leftNested")
  /\ level' = level - 1
  /\ Goes(t, Rest(t), 0)
  /\ UNCHANGED <<options, conns, current, cache, last, stuck>>

(* close() closes the current connection and the cached ones. *)
Close(t) ==
  /\ Next2Do(t, "close")
  /\ conns' = [ k \in DOMAIN conns |->
                  IF k \in {current, cache.primary, cache.replica}
                  THEN [conns[k] EXCEPT !.open = FALSE, !.inTx = FALSE] ELSE conns[k] ]
  /\ cache' = [primary |-> 0, replica |-> 0]
  /\ Reset
  /\ stuck' = FALSE
  /\ Fails(t)
  /\ UNCHANGED <<options, last>>

-----------------------------------------------------------------------------
Init ==
  /\ options \in [autoCommit : AutoCommits, keepReplica : KeepReplicas]
  /\ conns = <<>>
  /\ current = 0
  /\ cache = [primary |-> 0, replica |-> 0]
  /\ level = 0
  /\ tasks = [t \in Tasks |-> [todo |-> <<>>, conn |-> 0]]
  /\ last = [stmt |-> "none", conn |-> 0, within |-> FALSE, inTx |-> FALSE, stuck |-> FALSE]
  /\ stuck = FALSE
  /\ crossed = FALSE

Step(t) ==
    \/ \E call \in Calls[t] : CallStarts(t, call)
    \/ EnsureConnected(t)
    \/ Open(t)
    \/ Connect(t)
    \/ NoActiveTransaction(t)
    \/ Adopt(t)
    \/ Connected(t)
    \/ Statement(t)
    \/ BeginTransaction(t)
    \/ Commit(t)
    \/ Left(t)
    \/ RollBack(t)
    \/ LeftNested(t)
    \/ Close(t)

(* The fields are changed for all calls that are under way.  A call that   *)
(* changes the connection or the level in the middle of another one leaves *)
(* that one with an answer that no longer holds: nothing is promised then, *)
(* and the behaviours are followed up to there.                            *)
Crosses(t) == <<current, level>>' # <<current, level>> /\ \E u \in Tasks \ {t} : ~ Idle(u)

Next == ~ crossed /\ \E t \in Tasks : Step(t) /\ crossed' = Crosses(t)

Spec == Init /\ [][Next]_vars

-----------------------------------------------------------------------------
(* Writes are routed to the primary (docs/configuration.md). *)
WritesRouted == last.stmt = "write" => conns[last.conn].role = "primary"

(* After a write or a begin, reads stick to the primary until              *)
(* ensureConnectedToReplica() is called (docs/configuration.md) or the     *)
(* connection is lost or closed.                                           *)
ReadsStick == last.stmt = "read" /\ last.stuck => conns[last.conn].role = "primary"

(* Without keepReplica there is no way back: the primary that is connected *)
(* also serves the reads, so that they see the writes.                     *)
ReplicaFollowsPrimary ==
  ~ options.keepReplica /\ cache.primary # 0 => cache.replica = cache.primary

(* Statements go where docs/configuration.md routes them: writes to the    *)
(* primary, and reads after them too, whatever was cached before and       *)
(* whichever calls overlap, unless one changes the connection under        *)
(* another one.  Without that exception TLC finds a write on a replica.    *)
Routed == ~ crossed => WritesRouted /\ ReadsStick /\ ReplicaFollowsPrimary

(* A transaction is on the primary and every statement made inside it, a   *)
(* read as well, of whichever task, goes to the driver connection it was   *)
(* begun on, with the same exception.                                      *)
Pinned ==
  ~ crossed =>
    /\ last.within => last.inTx
    /\ (\A t \in Tasks : Idle(t)) /\ level > 0
         => current # 0 /\ conns[current].role = "primary" /\ conns[current].inTx
=============================================================================
