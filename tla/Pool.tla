-------------------------------- MODULE Pool --------------------------------
(***************************************************************************)
(* Several Connections on one pool of clients: the adapters for pg, mysql2 *)
(* and mssql borrow a client for a transaction (beginTransaction(),        *)
(* commit(), rollBack(), close()) and return it; statements outside of     *)
(* transactions borrow one for themselves.  Calls are split where they     *)
(* await.  mssql's requests queue per adapter (runSerial()), so that two   *)
(* tasks may use an adapter at once; the others have one task at a time.   *)
(*                                                                         *)
(* The pool and the servers are external: a pool serves in the order of    *)
(* the requests, a session keeps its transaction until COMMIT or ROLLBACK. *)
(***************************************************************************)
EXTENDS Integers, Sequences

CONSTANTS
  Drivers,    \* some of pg, mysql2, mssql
  Tasks,
  Owners,     \* the tasks that begin transactions, one for each adapter
  AdapterOf,  \* the adapter of each task
  Pools,      \* the clients of the pool for each driver
  Faults,     \* what may fail: begin, write or end, with which driver
  MaxCalls,   \* bound: calls of a task, not counting the end of a transaction
  Abandoning  \* close() is called in a transaction also with mysql2

ASSUME PoolAssumption ==
  /\ Drivers \subseteq {"pg", "mysql2", "mssql"}
  /\ Owners \subseteq Tasks
  /\ \A t, u \in Owners : AdapterOf[t] = AdapterOf[u] => t = u
  /\ "none" \notin UNION {Pools[d] : d \in Drivers}
  /\ "none" \notin {AdapterOf[t] : t \in Tasks}

VARIABLES
  driver,   \* the adapters' driver
  free,     \* clients in the pool
  queue,    \* tasks that wait for a client
  session,  \* of each client: the adapter that began its transaction, who wrote in it
  adapter,  \* transactionClient, transactionConnection or transaction
  line,     \* serialQueue of each adapter
  task      \* what each task awaits

vars == <<driver, free, queue, session, adapter, line, task>>

None     == "none"
Adapters == {AdapterOf[t] : t \in Tasks}
Mine(t)  == adapter[AdapterOf[t]]
Clients  == UNION {Pools[d] : d \in Drivers}
Closed   == [by |-> None, writers |-> {}]

(* client: in use for the call; pooled: to be released after it. *)
Idle(t) == [task[t] EXCEPT !.at = "idle", !.client = None, !.pooled = FALSE]

Alone(t) ==
  driver = "mssql" \/ \A u \in Tasks \ {t} : AdapterOf[u] = AdapterOf[t] => task[u].at = "idle"

Calling(t, job) ==
  /\ task[t].at = "idle" /\ Alone(t)
  /\ job \in {"commit", "rollback"} \/ task[t].calls < MaxCalls
  /\ UNCHANGED driver

Counted(t, job) == IF job \in {"commit", "rollback"} THEN task[t].calls ELSE task[t].calls + 1

(* A client of the adapter's, or one of the pool. *)
OnClient(t, job) ==
  task' = [task EXCEPT ![t] = [@ EXCEPT !.at = "running", !.job = job, !.client = Mine(t).client,
                                        !.calls = Counted(t, job)]]

FromPool(t, job) ==
  /\ queue' = Append(queue, t)
  /\ task' = [task EXCEPT ![t] = [@ EXCEPT !.at = "acquiring", !.job = job,
                                           !.calls = Counted(t, job)]]

-----------------------------------------------------------------------------
(* Calls up to their first await. *)

(* getQueryable(), executeRaw() and runSerial(). *)
Write(t) ==
  /\ Calling(t, "write")
  /\ IF driver = "mssql"
     THEN /\ line' = [line EXCEPT ![AdapterOf[t]] = Append(@, t)]
          /\ task' = [task EXCEPT ![t] = [@ EXCEPT !.at = "lined", !.job = "write",
                                                   !.calls = Counted(t, "write")]]
          /\ UNCHANGED queue
     ELSE /\ UNCHANGED line
          /\ IF Mine(t).client # None THEN OnClient(t, "write") /\ UNCHANGED queue
             ELSE FromPool(t, "write")
  /\ UNCHANGED <<free, session, adapter>>

(* serialQueue: what was asked for before has been answered. *)
First(t) == Head(line[AdapterOf[t]]) = t

(* The work at the head of the line: createRequest() looks at the          *)
(* transaction only now.  One whose transaction is over fails at once.     *)
CreateRequest(t) ==
  LET a == AdapterOf[t]
  IN  /\ task[t].at = "lined" /\ First(t)
      /\ UNCHANGED <<driver, free, session, adapter>>
      /\ IF Mine(t).stale
         THEN /\ task' = [task EXCEPT ![t] = Idle(t)]
              /\ line' = [line EXCEPT ![a] = Tail(@)]
              /\ UNCHANGED queue
         ELSE /\ UNCHANGED line
              /\ IF Mine(t).client # None
                 THEN /\ task' = [task EXCEPT ![t] = [@ EXCEPT !.at = "running",
                                                               !.client = Mine(t).client]]
                      /\ UNCHANGED queue
                 ELSE /\ task' = [task EXCEPT ![t] = [@ EXCEPT !.at = "acquiring"]]
                      /\ queue' = Append(queue, t)

(* pg begins on the client that a failed begin has left. *)
BeginTransaction(t) ==
  /\ t \in Owners
  /\ Calling(t, "begin")
  /\ ~ Mine(t).inTransaction /\ ~ Mine(t).stale
  /\ IF Mine(t).client # None THEN OnClient(t, "begin") /\ UNCHANGED queue
     ELSE FromPool(t, "begin")
  /\ UNCHANGED <<free, session, adapter, line>>

End(t) ==
  /\ t \in Owners
  /\ \E how \in {"commit", "rollback"} :
       Calling(t, how) /\ Mine(t).inTransaction /\ OnClient(t, how)
  /\ UNCHANGED <<free, queue, session, adapter, line>>

(* Mutant: close() releases without ROLLBACK. *)
NeverEnds == FALSE

(* close() rolls back first; mysql2's returns the client as it is. *)
EndsFirst == driver # "mysql2"

Close(t) ==
  /\ t \in Owners
  /\ Calling(t, "close")
  /\ Mine(t).client # None
  /\ driver = "mysql2" => Abandoning
  /\ IF ~ EndsFirst
     THEN /\ free' = free \cup {Mine(t).client}
          /\ adapter' = [adapter EXCEPT ![AdapterOf[t]].client = None,
                                        ![AdapterOf[t]].inTransaction = FALSE]
          /\ UNCHANGED task
     ELSE OnClient(t, "close") /\ UNCHANGED <<free, adapter>>
  /\ UNCHANGED <<queue, session, line>>

-----------------------------------------------------------------------------
(* The pool gives the first that waits a client.  pg's beginTransaction()  *)
(* keeps it from then on.                                                  *)
Grant ==
  /\ queue # <<>>
  /\ \E c \in free :
       LET t == Head(queue)
       IN  /\ free' = free \ {c}
           /\ queue' = Tail(queue)
           /\ task' = [task EXCEPT ![t] = [@ EXCEPT !.at = "running", !.client = c,
                                                    !.pooled = (task[t].job = "write")]]
           /\ adapter' = IF driver = "pg" /\ task[t].job = "begin"
                         THEN [adapter EXCEPT ![AdapterOf[t]].client = c] ELSE adapter
  /\ UNCHANGED <<driver, session, line>>

(* The rest of calls, after the server has answered. *)
WriteAnswered(t, ok) ==
  LET a == AdapterOf[t]
      c == task[t].client
  IN  /\ task[t].job = "write"
      /\ session' = [session EXCEPT ![c].writers = IF ok /\ session[c].by # None THEN @ \cup {a}
                                                   ELSE @]
      /\ free' = IF task[t].pooled THEN free \cup {c} ELSE free
      /\ UNCHANGED adapter

(* A begin that fails: pg's adapter keeps the client, mysql2's forgets it, *)
(* mssql's has the library return it.                                      *)
BeginAnswered(t, ok) ==
  LET a == AdapterOf[t]
      c == task[t].client
  IN  /\ task[t].job = "begin"
      /\ IF ok
         THEN /\ session' = [session EXCEPT ![c] = [by |-> a, writers |-> {}]]
              /\ adapter' = [adapter EXCEPT ![a].client = c, ![a].inTransaction = TRUE]
              /\ UNCHANGED free
         ELSE /\ free' = IF driver = "mssql" THEN free \cup {c} ELSE free
              /\ UNCHANGED <<adapter, session>>

(* Mutant: the client is returned only when COMMIT or ROLLBACK succeed.    *)
ReleasedOnSuccess(t, ok) ==
  [ free    |-> IF ok THEN free \cup {task[t].client} ELSE free,
    adapter |-> [Mine(t) EXCEPT !.client = None, !.inTransaction = FALSE,
                                !.stale = driver = "mssql" /\ ~ ok] ]

(* The finally of commit() and rollBack(); mssql's keep the transaction    *)
(* when it fails, whose client the library returns.                        *)
Released(t, ok) ==
  [ free    |-> free \cup {task[t].client},
    adapter |-> [Mine(t) EXCEPT !.client = None, !.inTransaction = FALSE,
                                !.stale = driver = "mssql" /\ ~ ok] ]

EndAnswered(t, ok) ==
  LET c == task[t].client
  IN  /\ task[t].job \in {"commit", "rollback", "close"}
      /\ session' = [session EXCEPT ![c] = Closed]
      /\ free' = Released(t, ok).free
      /\ adapter' = [adapter EXCEPT ![AdapterOf[t]] = Released(t, ok).adapter]

(* A transaction with a request in progress refuses COMMIT and ROLLBACK. *)
InProgress(t) ==
  driver = "mssql" /\ \E u \in Tasks \ {t} : task[u].at = "running" /\ task[u].client = task[t].client

EndRefused(t) ==
  /\ task[t].job \in {"commit", "rollback", "close"} /\ InProgress(t)
  /\ UNCHANGED <<free, session, adapter>>

CanFail(job) ==
  <<driver, IF job \in {"commit", "rollback", "close"} THEN "end" ELSE job>> \in Faults

(* Mutant: a failed request stops the line. *)
LineStops(t, ok) ==
  [line EXCEPT ![AdapterOf[t]] = IF @ # <<>> /\ Head(@) = t /\ ok THEN Tail(@) ELSE @]

(* serialQueue goes on whether the work succeeded or failed. *)
LineGoesOn(t, ok) ==
  [line EXCEPT ![AdapterOf[t]] = IF @ # <<>> /\ Head(@) = t THEN Tail(@) ELSE @]

Answer(t) ==
  /\ task[t].at = "running"
  /\ \E ok \in IF CanFail(task[t].job) THEN BOOLEAN ELSE {TRUE} :
       /\ \/ WriteAnswered(t, ok)
          \/ BeginAnswered(t, ok)
          \/ ~ InProgress(t) /\ EndAnswered(t, ok)
          \/ EndRefused(t)
       /\ line' = LineGoesOn(t, ok)
  /\ task' = [task EXCEPT ![t] = Idle(t)]
  /\ UNCHANGED <<driver, queue>>

Init ==
  /\ driver \in Drivers
  /\ free = Pools[driver]
  /\ queue = <<>>
  /\ session = [c \in Clients |-> Closed]
  /\ adapter = [a \in Adapters |-> [client |-> None, inTransaction |-> FALSE, stale |-> FALSE]]
  /\ line = [a \in Adapters |-> <<>>]
  /\ task = [t \in Tasks |-> [at |-> "idle", job |-> "write", client |-> None,
                              pooled |-> FALSE, calls |-> 0]]

Next ==
  \/ Grant
  \/ \E t \in Tasks :
       Write(t) \/ CreateRequest(t) \/ BeginTransaction(t) \/ End(t) \/ Close(t) \/ Answer(t)

(* Promises are resolved, servers answer, and transactions are ended. *)
Fairness ==
  /\ WF_vars(Grant)
  /\ \A t \in Tasks : WF_vars(CreateRequest(t)) /\ WF_vars(Answer(t)) /\ WF_vars(End(t))

Spec == Init /\ [][Next]_vars /\ Fairness

-----------------------------------------------------------------------------
(* A transaction is that of one Connection: whatever is begun, ended,      *)
(* refused and closed around it, no statement of another lands in it, and  *)
(* none is still open on a client that the pool gives away.                *)
OwnTransaction ==
  /\ \A c \in Clients : session[c].writers \subseteq {session[c].by}
  /\ \A c \in free : session[c].by = None

(* No client is lost: each is in the pool, an adapter's or in use.         *)
NoneLost ==
  \A c \in Pools[driver] :
    \/ c \in free
    \/ \E a \in Adapters : adapter[a].client = c
    \/ \E t \in Tasks : task[t].client = c

(* mssql's requests are made one at a time on each adapter.                *)
SingleFlight ==
  driver = "mssql" =>
    \A t, u \in Tasks :
      /\ AdapterOf[t] = AdapterOf[u] /\ task[t].job = "write" /\ task[u].job = "write"
      /\ {task[t].at, task[u].at} \subseteq {"acquiring", "running"}
      => t = u

(* Neither Connections on one pool nor tasks on one Connection get into    *)
(* each other's sessions.                                                  *)
Isolated == OwnTransaction /\ SingleFlight

(* Every call is answered, also while others hold the clients and requests *)
(* before it fail.                                                         *)
Answered == \A t \in Tasks : task[t].at # "idle" ~> task[t].at = "idle"
=============================================================================
