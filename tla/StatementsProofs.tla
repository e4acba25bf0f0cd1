-------------------------- MODULE StatementsProofs --------------------------
(***************************************************************************)
(* Proofs about Statements, for any number of tasks, prepared statements   *)
(* and values: which value an execution sends and reports, in which        *)
(* transaction it runs, and what an error makes the Connection forget.     *)
(***************************************************************************)
EXTENDS Statements, FiniteSetTheorems, WellFoundedInduction, TLAPS

Clients  == {None, "open", "dead"}
Bindable == Values \cup {None, "own"}
AnyKind  == Kinds \cup {None, "usedAfterLoss"}

Connections == [adapter : Adapters \cup {0}, level : {0, 1}]

Statement ==
  [adapter    : Adapters \cup {0},
   params     : Values \cup {None},
   parameters : Values \cup {None}]

Execution ==
  [at : {"idle", "called", "taken", "told"}, of : Prepared \cup {None},
   adapter : Adapters \cup {0}, begun : BOOLEAN, stale : BOOLEAN, asked : Bindable,
   rebound : BOOLEAN, used : Bindable, inside : BOOLEAN, kind : AnyKind, reported : Bindable]

TypeInv ==
  /\ driver \in Drivers
  /\ conn \in Connections
  /\ client \in [Adapters -> Clients]
  /\ stmt \in [Prepared -> Statement]
  /\ call \in [Tasks -> Execution]

(* A Connection in a transaction has an adapter, and that has a client.    *)
ConnInv == conn.level = 1 => conn.adapter \in Adapters /\ client[conn.adapter] # None

(* The driver's statement has the value that the Statement remembers.      *)
BoundInv == \A s \in Prepared : stmt[s].params = stmt[s].parameters

(* An execution in flight keeps the client of its transaction, and what    *)
(* its statement has bound, until someone binds again.                     *)
CallInv(t) ==
  /\ InFlight(t) =>
       /\ call[t].adapter \in Adapters
       /\ call[t].begun /\ ~ call[t].stale => client[call[t].adapter] # None
       /\ call[t].of = None => call[t].asked = "own"
       /\ call[t].of # None /\ ~ call[t].rebound => stmt[call[t].of].params = call[t].asked
  /\ call[t].at = "called" /\ call[t].of # None => driver # "sqlite3"
  /\ call[t].at = "taken" =>
       /\ call[t].begun /\ ~ call[t].stale /\ ~ call[t].inside => client[call[t].adapter] = "dead"
       /\ ~ call[t].rebound \/ driver = "sqlite3" => call[t].used = call[t].asked
  /\ call[t].at = "told" /\ ~ call[t].rebound => call[t].reported = call[t].used

IInv == TypeInv /\ ConnInv /\ BoundInv /\ \A t \in Tasks : CallInv(t)

-----------------------------------------------------------------------------
(* There is always an adapter that nobody holds. *)

(* A function has no more values than arguments. *)
LEMMA FewValues ==
  ASSUME NEW S, IsFiniteSet(S), NEW T, NEW f \in [S -> T]
  PROVE  /\ IsFiniteSet({f[x] : x \in S})
         /\ Cardinality({f[x] : x \in S}) <= Cardinality(S)
<1> DEFINE R == {f[x] : x \in S}
           g == [x \in S |-> f[x]]
<1>1. g \in Surjection(S, R)
  BY DEF Surjection
<1> QED BY <1>1, FS_Surjection

LEMMA UnusedIsNew ==
  ASSUME TypeInv
  PROVE  /\ Unused \in Adapters
         /\ Unused # conn.adapter
         /\ \A s \in Prepared : stmt[s].adapter # Unused
         /\ \A t \in Tasks : InFlight(t) => call[t].adapter # Unused
<1> DEFINE f == [s \in Prepared |-> stmt[s].adapter]
           g == [t \in Tasks |-> call[t].adapter]
           F == {f[s] : s \in Prepared}
           G == {g[t] : t \in Tasks}
           C == {conn.adapter}
           U == (F \cup G) \cup C
<1>1. /\ IsFiniteSet(Tasks) /\ IsFiniteSet(Prepared) /\ IsFiniteSet(Adapters)
      /\ Cardinality(Adapters) > 1 + Cardinality(Prepared) + Cardinality(Tasks)
  BY StatementsAssumption
<1>2. f \in [Prepared -> F] /\ g \in [Tasks -> G]
  OBVIOUS
<1>3. /\ IsFiniteSet(F) /\ Cardinality(F) <= Cardinality(Prepared)
      /\ IsFiniteSet(G) /\ Cardinality(G) <= Cardinality(Tasks)
  <2> HIDE DEF f, g
  <2>1. IsFiniteSet(F) /\ Cardinality(F) <= Cardinality(Prepared)
    BY <1>1, <1>2, FewValues
  <2>2. IsFiniteSet(G) /\ Cardinality(G) <= Cardinality(Tasks)
    BY <1>1, <1>2, FewValues
  <2> QED BY <2>1, <2>2
<1>4. IsFiniteSet(C) /\ Cardinality(C) = 1
  BY FS_Singleton
<1>5. IsFiniteSet(U) /\ Cardinality(U) <= 1 + Cardinality(Prepared) + Cardinality(Tasks)
  <2> HIDE DEF F, G, C
  <2>1. /\ Cardinality(F) \in Nat /\ Cardinality(G) \in Nat
        /\ Cardinality(Prepared) \in Nat /\ Cardinality(Tasks) \in Nat
    BY <1>1, <1>3, FS_CardinalityType
  <2>2. /\ IsFiniteSet(F \cup G)
        /\ Cardinality(F \cup G) = Cardinality(F) + Cardinality(G) - Cardinality(F \cap G)
    BY <1>3, FS_Union
  <2>3. IsFiniteSet(F \cap G) /\ Cardinality(F \cap G) \in Nat
    BY <1>3, FS_Subset, FS_CardinalityType
  <2>4. /\ IsFiniteSet(U)
        /\ Cardinality(U) = Cardinality(F \cup G) + Cardinality(C) - Cardinality((F \cup G) \cap C)
    BY <1>4, <2>2, FS_Union
  <2>5. IsFiniteSet((F \cup G) \cap C) /\ Cardinality((F \cup G) \cap C) \in Nat
    BY <1>4, FS_Subset, FS_CardinalityType
  <2>6. Cardinality(F \cup G) \in Nat
    BY <2>2, FS_CardinalityType
  <2> QED BY <1>3, <1>4, <2>1, <2>2, <2>3, <2>4, <2>5, <2>6
<1>6. \E a \in Adapters : a \notin U
  <2> HIDE DEF U
  <2> SUFFICES ASSUME Adapters \subseteq U PROVE FALSE
    OBVIOUS
  <2>1. Cardinality(Adapters) <= Cardinality(U)
    BY <1>5, FS_Subset
  <2>2. Cardinality(Adapters) \in Nat /\ Cardinality(U) \in Nat
        /\ Cardinality(Prepared) \in Nat /\ Cardinality(Tasks) \in Nat
    BY <1>1, <1>5, FS_CardinalityType
  <2> QED BY <1>1, <1>5, <2>1, <2>2
<1>7. PICK a \in Adapters : a \notin U
  BY <1>6
<1>8. /\ a # conn.adapter
      /\ \A s \in Prepared : stmt[s].adapter # a
      /\ \A t \in Tasks : call[t].adapter # a
  BY <1>7
<1> QED BY <1>8 DEF Unused

-----------------------------------------------------------------------------
(* connect() gives the Connection an adapter; no execution in flight loses *)
(* the client that its transaction is on.                                  *)
LEMMA ConnectKeeps ==
  ASSUME TypeInv, ConnInv, Connect
  PROVE  /\ Adapter \in Adapters
         /\ conn' \in Connections /\ conn'.adapter = Adapter /\ conn'.level = conn.level
         /\ conn.level = 1 => Adapter = conn.adapter
         /\ client' \in [Adapters -> Clients]
         /\ \A t \in Tasks : InFlight(t) => client'[call[t].adapter] = client[call[t].adapter]
         /\ conn.level = 1 => client'[conn.adapter] = client[conn.adapter]
<1>1. conn.adapter # 0 => conn.adapter \in Adapters
  BY DEF TypeInv, Connections
<1>2. Adapter \in Adapters /\ (conn.level = 1 => Adapter = conn.adapter)
  BY <1>1, UnusedIsNew, StatementsAssumption DEF Adapter, ConnInv
<1>3. conn' \in Connections /\ conn'.adapter = Adapter /\ conn'.level = conn.level
  BY <1>2 DEF Connect, TypeInv, Connections
<1>4. CASE conn.adapter # 0
  BY <1>2, <1>3, <1>4 DEF Connect, TypeInv
<1>5. CASE conn.adapter = 0
  <2>1. Adapter = Unused /\ client' = [client EXCEPT ![Adapter] = None]
    BY <1>5 DEF Connect, Adapter
  <2>2. client' \in [Adapters -> Clients]
    BY <2>1 DEF TypeInv, Clients
  <2>3. ASSUME NEW t \in Tasks, InFlight(t) PROVE client'[call[t].adapter] = client[call[t].adapter]
    BY <2>1, <2>3, UnusedIsNew DEF TypeInv
  <2>4. conn.level # 1
    BY <1>5, StatementsAssumption DEF ConnInv
  <2> QED BY <1>2, <1>3, <2>2, <2>3, <2>4
<1> QED BY <1>4, <1>5

-----------------------------------------------------------------------------
(* Which value and which transaction an execution has: Init, then each     *)
(* action.                                                                 *)
LEMMA InitIInv == Init => IInv
<1> SUFFICES ASSUME Init PROVE IInv
  OBVIOUS
<1>1. Idle \in Execution
  BY StatementsAssumption DEF Idle, Execution, Bindable, AnyKind, None
<1>2. TypeInv
  BY <1>1 DEF Init, TypeInv, Connections, Clients, Statement
<1>3. ConnInv /\ BoundInv
  BY DEF Init, ConnInv, BoundInv
<1>4. \A t \in Tasks : CallInv(t)
  BY DEF Init, CallInv, InFlight, Idle
<1> QED BY <1>2, <1>3, <1>4 DEF IInv

LEMMA PrepareKeeps ==
  ASSUME IInv, NEW s \in Prepared, Prepare(s)
  PROVE  IInv'
<1> DEFINE new == [adapter |-> Adapter, params |-> None, parameters |-> None]
<1>1. TypeInv /\ ConnInv /\ Connect
  BY DEF IInv, Prepare
<1>2. new \in Statement
  BY <1>1, ConnectKeeps DEF Statement
<1>3. stmt' = [stmt EXCEPT ![s] = new] /\ UNCHANGED <<driver, call>>
  BY DEF Prepare
<1>4. TypeInv'
  <2> HIDE DEF new
  <2> QED BY <1>1, <1>2, <1>3, ConnectKeeps DEF TypeInv
<1>5. ConnInv'
  BY <1>1, ConnectKeeps DEF ConnInv
<1>6. BoundInv'
  BY <1>1, <1>3 DEF IInv, BoundInv, TypeInv
<1>7. ASSUME NEW t \in Tasks PROVE CallInv(t)'
  <2>1. CallInv(t) /\ ~ (InFlight(t) /\ call[t].of = s) /\ call[t] \in Execution
    BY DEF IInv, Prepare, TypeInv
  <2>2. InFlight(t) => client'[call[t].adapter] = client[call[t].adapter]
    BY <1>1, ConnectKeeps
  <2>3. \A r \in Prepared \ {s} : stmt'[r] = stmt[r]
    BY <1>1, <1>3 DEF TypeInv
  <2>4. call[t].of # None => call[t].of \in Prepared
    BY <2>1 DEF Execution
  <2> QED BY <1>3, <2>1, <2>2, <2>3, <2>4 DEF CallInv, InFlight
<1> QED BY <1>4, <1>5, <1>6, <1>7 DEF IInv

LEMMA BindValueKeeps ==
  ASSUME IInv, NEW s \in Prepared, NEW v \in Values, BindValue(s, v)
  PROVE  IInv'
<1> DEFINE rebound(c) == [c EXCEPT !.rebound = TRUE]
           new == [stmt[s] EXCEPT !.params = v, !.parameters = v]
<1>1. TypeInv
  BY DEF IInv
<1>2. /\ stmt' = [stmt EXCEPT ![s] = new]
      /\ UNCHANGED <<driver, conn, client>>
  BY DEF BindValue, Bound
<1>3. new \in Statement /\ new.params = v /\ new.parameters = v
  BY <1>1 DEF TypeInv, Statement
<1>4. \A t \in Tasks : call'[t] = IF InFlight(t) /\ call[t].of = s THEN rebound(call[t]) ELSE call[t]
  BY DEF BindValue
<1>5. ASSUME NEW c \in Execution PROVE rebound(c) \in Execution
  BY <1>5 DEF Execution
<1>6. \A t \in Tasks : call'[t] \in Execution
  <2> HIDE DEF rebound
  <2> QED BY <1>1, <1>4, <1>5 DEF TypeInv
<1>7. TypeInv'
  <2>1. call' \in [Tasks -> Execution]
    BY <1>6 DEF BindValue
  <2> HIDE DEF new
  <2> QED BY <1>1, <1>2, <1>3, <2>1 DEF TypeInv
<1>8. ConnInv'
  BY <1>2 DEF IInv, ConnInv
<1>9. BoundInv'
  <2> HIDE DEF new
  <2> QED BY <1>1, <1>2, <1>3 DEF IInv, BoundInv, TypeInv
<1>10. ASSUME NEW t \in Tasks PROVE CallInv(t)'
  <2>1. CallInv(t) /\ call[t] \in Execution
    BY DEF IInv, TypeInv
  <2>2. \A r \in Prepared \ {s} : stmt'[r] = stmt[r]
    BY <1>1, <1>2 DEF TypeInv
  <2>3. call[t].of # None => call[t].of \in Prepared
    BY <2>1 DEF Execution
  <2>4. CASE InFlight(t) /\ call[t].of = s
    <3>1. call'[t] = rebound(call[t])
      BY <1>4, <2>4
    <3>2. /\ call'[t].rebound = TRUE /\ call'[t].at = call[t].at /\ call'[t].adapter = call[t].adapter
          /\ call'[t].begun = call[t].begun /\ call'[t].stale = call[t].stale
          /\ call'[t].of = call[t].of /\ call'[t].asked = call[t].asked
          /\ call'[t].inside = call[t].inside /\ call'[t].used = call[t].used
      BY <2>1, <3>1 DEF Execution
    <3> QED BY <1>2, <2>1, <2>4, <3>2 DEF CallInv, InFlight
  <2>5. CASE ~ (InFlight(t) /\ call[t].of = s)
    <3>1. call'[t] = call[t]
      BY <1>4, <2>5
    <3> QED BY <1>2, <2>1, <2>2, <2>3, <2>5, <3>1 DEF CallInv, InFlight
  <2> QED BY <2>4, <2>5
<1> QED BY <1>7, <1>8, <1>9, <1>10 DEF IInv

(* An execution that is called, and one that is taken, field by field.     *)
LEMMA CalledIs ==
  ASSUME TypeInv, NEW s \in Prepared \cup {None}, NEW a \in Adapters \cup {0}, NEW v \in Bindable
  PROVE  \E c \in Execution :
           /\ c = Called(s, a, v)
           /\ c.at = "called" /\ c.of = s /\ c.adapter = a /\ c.asked = v
           /\ (c.begun <=> conn.level = 1) /\ (c.stale <=> a # conn.adapter)
<1> DEFINE c == Called(s, a, v)
<1>1. (conn.level > 0) \in BOOLEAN /\ (a # conn.adapter) \in BOOLEAN
  OBVIOUS
<1> DEFINE begun == conn.level > 0
           stale == a # conn.adapter
<1>2. c = [Idle EXCEPT !.at = "called", !.of = s, !.adapter = a, !.begun = begun,
                                     !.stale = stale, !.asked = v]
  BY DEF Called
<1> HIDE DEF begun, stale
<1>3. begun \in BOOLEAN /\ stale \in BOOLEAN
  BY <1>1 DEF begun, stale
<1>4. /\ c.at = "called" /\ c.of = s /\ c.adapter = a /\ c.asked = v
      /\ c.begun = begun /\ c.stale = stale
  BY <1>2 DEF Idle
<1>5. c \in Execution
  BY <1>2, <1>3 DEF Idle, Execution, Bindable, AnyKind, None
<1>6. begun <=> conn.level = 1
  BY DEF begun, TypeInv, Connections
<1>7. stale <=> a # conn.adapter
  BY DEF stale
<1> HIDE DEF c
<1>8. c.begun <=> conn.level = 1
  BY <1>4, <1>6
<1>9. c.stale <=> a # conn.adapter
  BY <1>4, <1>7
<1>10. c = Called(s, a, v)
  BY DEF c
<1> QED BY <1>4, <1>5, <1>8, <1>9, <1>10

LEMMA TakenIs ==
  ASSUME NEW c \in Execution, NEW v \in Bindable
  PROVE  LET d == Taken(c, v)
         IN  /\ d \in Execution
             /\ d.at = "taken" /\ d.used = v /\ (d.inside <=> client[c.adapter] = "open")
             /\ d.of = c.of /\ d.adapter = c.adapter /\ d.asked = c.asked /\ d.begun = c.begun
             /\ d.stale = c.stale /\ d.rebound = c.rebound
<1> DEFINE inside == client[c.adapter] = "open"
<1>1. inside \in BOOLEAN
  OBVIOUS
<1>2. Taken(c, v) = [c EXCEPT !.at = "taken", !.used = v, !.inside = inside]
  BY DEF Taken, InTransaction
<1>3. (client[c.adapter] = "open") = inside
  OBVIOUS
<1> HIDE DEF inside
<1>4. Taken(c, v) \in Execution
  BY <1>1, <1>2 DEF Execution
<1>5. LET d == Taken(c, v)
      IN  /\ d.at = "taken" /\ d.used = v /\ d.inside = inside
          /\ d.of = c.of /\ d.adapter = c.adapter /\ d.asked = c.asked /\ d.begun = c.begun
          /\ d.stale = c.stale /\ d.rebound = c.rebound
  BY <1>2 DEF Execution
<1> QED BY <1>3, <1>4, <1>5

(* A call of one task that leaves the Statements and the clients alone.    *)
LEMMA OneCallKeeps ==
  ASSUME IInv, NEW t \in Tasks, NEW c \in Execution,
         call' = [call EXCEPT ![t] = c], UNCHANGED <<driver, stmt>>,
         conn' \in Connections, client' \in [Adapters -> Clients], ConnInv',
         \A u \in Tasks \ {t} : InFlight(u) =>
           \/ client'[call[u].adapter] = client[call[u].adapter]
           \/ client'[call[u].adapter] = "dead",
         CallInv(t)'
  PROVE  IInv'
<1>1. TypeInv'
  BY DEF IInv, TypeInv
<1>2. BoundInv'
  BY DEF IInv, BoundInv
<1>3. ASSUME NEW u \in Tasks \ {t} PROVE CallInv(u)'
  <2>1. CallInv(u) /\ call'[u] = call[u]
    BY DEF IInv, TypeInv
  <2>2. "dead" # None
    BY DEF None
  <2> QED BY <2>1, <2>2 DEF CallInv, InFlight
<1> QED BY <1>1, <1>2, <1>3 DEF IInv

LEMMA ExecuteKeeps ==
  ASSUME IInv, NEW t \in Tasks, NEW s \in Prepared, Execute(t, s)
  PROVE  IInv'
<1>1. TypeInv /\ ConnInv /\ BoundInv
  BY DEF IInv
<1>2. PICK a : a = stmt[s].adapter
  OBVIOUS
<1>3. PICK v : v = stmt[s].params
  OBVIOUS
<1>4. a \in Adapters /\ v \in Bindable /\ stmt[s].parameters = v /\ stmt[s].params = v
  BY <1>1, <1>2, <1>3 DEF Execute, TypeInv, Statement, BoundInv, Bindable
<1>5. PICK c \in Execution :
        /\ c = Called(s, a, v)
        /\ c.at = "called" /\ c.of = s /\ c.adapter = a /\ c.asked = v
        /\ (c.begun <=> conn.level = 1) /\ (c.stale <=> a # conn.adapter)
  <2>1. s \in Prepared \cup {None} /\ a \in Adapters \cup {0} /\ v \in Bindable
    BY <1>4
  <2> QED BY <1>1, <2>1, CalledIs
<1>7. PICK d \in Execution : d = Taken(c, v)
  BY <1>4, TakenIs
<1>8. /\ d.at = "taken" /\ d.used = v /\ (d.inside <=> client[a] = "open")
      /\ d.of = s /\ d.adapter = a /\ d.asked = v /\ d.begun = c.begun
      /\ d.stale = c.stale
  BY <1>4, <1>5, <1>7, TakenIs
<1>9. call' = [call EXCEPT ![t] = IF driver = "sqlite3" THEN d ELSE c]
      /\ UNCHANGED <<driver, conn, client, stmt>>
  BY <1>2, <1>3, <1>4, <1>5, <1>7 DEF Execute
<1>10. conn.level = 1 /\ a = conn.adapter => client[a] # None
  BY <1>1 DEF ConnInv, TypeInv, Connections
<1>11. client[a] \in Clients
  BY <1>1, <1>4 DEF TypeInv
<1>12. /\ conn' \in Connections /\ client' \in [Adapters -> Clients] /\ ConnInv'
       /\ \A u \in Tasks : client'[call[u].adapter] = client[call[u].adapter]
  BY <1>1, <1>9 DEF TypeInv, ConnInv
<1>13. s # None
  BY StatementsAssumption DEF None
<1>14. CASE driver = "sqlite3"
  <2>1. call'[t] = d /\ call' = [call EXCEPT ![t] = d]
    BY <1>1, <1>9, <1>14 DEF TypeInv
  <2>2. CallInv(t)'
    BY <1>4, <1>5, <1>8, <1>9, <1>10, <1>11, <1>13, <2>1 DEF CallInv, InFlight, Clients
  <2> QED BY <1>9, <1>12, <2>1, <2>2, OneCallKeeps
<1>15. CASE driver # "sqlite3"
  <2>1. call'[t] = c /\ call' = [call EXCEPT ![t] = c]
    BY <1>1, <1>9, <1>15 DEF TypeInv
  <2>2. CallInv(t)'
    BY <1>4, <1>5, <1>9, <1>10, <1>13, <1>15, <2>1 DEF CallInv, InFlight
  <2> QED BY <1>9, <1>12, <2>1, <2>2, OneCallKeeps
<1> QED BY <1>14, <1>15

LEMMA ExecuteDirectlyKeeps ==
  ASSUME IInv, NEW t \in Tasks, ExecuteDirectly(t)
  PROVE  IInv'
<1>1. TypeInv /\ ConnInv /\ Connect /\ ~ InFlight(t)
  BY DEF IInv, ExecuteDirectly
<1>2. PICK a \in Adapters : a = Adapter
  BY <1>1, ConnectKeeps
<1>3. PICK c \in Execution :
        /\ c = Called(None, a, "own")
        /\ c.at = "called" /\ c.of = None /\ c.adapter = a /\ c.asked = "own"
        /\ (c.begun <=> conn.level = 1)
  <2>1. None \in Prepared \cup {None} /\ a \in Adapters \cup {0} /\ "own" \in Bindable
    BY DEF Bindable
  <2> QED BY <1>1, <2>1, CalledIs
<1>5. PICK d \in Execution : d = [c EXCEPT !.stale = FALSE]
  BY DEF Execution
<1>6. d.at = "called" /\ d.of = None /\ d.adapter = a /\ d.asked = "own" /\ (d.begun <=> conn.level = 1)
  BY <1>3, <1>5 DEF Execution
<1>7. call' = [call EXCEPT ![t] = d] /\ UNCHANGED <<driver, stmt>>
  BY <1>2, <1>3, <1>5 DEF ExecuteDirectly
<1>8. /\ conn' \in Connections /\ client' \in [Adapters -> Clients]
      /\ \A u \in Tasks : InFlight(u) => client'[call[u].adapter] = client[call[u].adapter]
      /\ conn.level = 1 => client'[a] = client[a] /\ a = conn.adapter
  BY <1>1, <1>2, ConnectKeeps
<1>9. ConnInv'
  BY <1>1, ConnectKeeps DEF ConnInv
<1>10. conn.level = 1 => client'[a] # None
  BY <1>1, <1>8 DEF ConnInv, TypeInv, Connections
<1>11. call'[t] = d
  BY <1>1, <1>7 DEF TypeInv
<1>12. CallInv(t)'
  BY <1>6, <1>10, <1>11 DEF CallInv, InFlight
<1> QED BY <1>7, <1>8, <1>9, <1>12, OneCallKeeps

LEMMA TakeKeeps ==
  ASSUME IInv, NEW t \in Tasks, Take(t)
  PROVE  IInv'
<1>1. TypeInv /\ ConnInv /\ BoundInv /\ CallInv(t)
  BY DEF IInv
<1>2. PICK c \in Execution : c = call[t]
  BY <1>1 DEF TypeInv
<1>3. PICK v : v = IF c.of = None THEN c.asked ELSE stmt[c.of].parameters
  OBVIOUS
<1>4. c.of # None => c.of \in Prepared /\ v = stmt[c.of].params /\ v = stmt[c.of].parameters
  BY <1>1, <1>3 DEF BoundInv, Execution
<1>5. v \in Bindable
  BY <1>1, <1>3, <1>4 DEF Execution, TypeInv, Statement, Bindable
<1>6. PICK d \in Execution : d = Taken(c, v)
  BY <1>5, TakenIs
<1>7. /\ d.at = "taken" /\ d.used = v /\ (d.inside <=> client[c.adapter] = "open")
      /\ d.of = c.of /\ d.adapter = c.adapter /\ d.asked = c.asked /\ d.begun = c.begun
      /\ d.stale = c.stale /\ d.rebound = c.rebound
  BY <1>5, <1>6, TakenIs
<1>8. call' = [call EXCEPT ![t] = d] /\ UNCHANGED <<driver, conn, client, stmt>>
  BY <1>2, <1>3, <1>6 DEF Take
<1>9. /\ conn' \in Connections /\ client' \in [Adapters -> Clients] /\ ConnInv'
      /\ \A u \in Tasks : client'[call[u].adapter] = client[call[u].adapter]
  BY <1>1, <1>8 DEF TypeInv, ConnInv
<1>10. c.at = "called" /\ c.adapter \in Adapters /\ client[c.adapter] \in Clients
  BY <1>1, <1>2 DEF Take, CallInv, InFlight, TypeInv
<1>11. call'[t] = d
  BY <1>1, <1>8 DEF TypeInv
<1>12. CallInv(t)'
  BY <1>1, <1>2, <1>3, <1>4, <1>7, <1>8, <1>10, <1>11 DEF CallInv, InFlight, Clients
<1> QED BY <1>8, <1>9, <1>12, OneCallKeeps

LEMMA SuccessKeeps ==
  ASSUME IInv, NEW t \in Tasks, Success(t)
  PROVE  IInv'
<1>1. TypeInv /\ ConnInv
  BY DEF IInv
<1>2. Idle \in Execution
  BY StatementsAssumption DEF Idle, Execution, Bindable, AnyKind, None
<1>3. call' = [call EXCEPT ![t] = Idle] /\ UNCHANGED <<driver, conn, client, stmt>>
  BY DEF Success
<1>4. /\ conn' \in Connections /\ client' \in [Adapters -> Clients] /\ ConnInv'
      /\ \A u \in Tasks : client'[call[u].adapter] = client[call[u].adapter]
  BY <1>1, <1>3 DEF TypeInv, ConnInv
<1>5. CallInv(t)'
  BY <1>1, <1>3 DEF CallInv, InFlight, Idle, TypeInv
<1> QED BY <1>2, <1>3, <1>4, <1>5, OneCallKeeps

LEMMA FailureKeeps ==
  ASSUME IInv, NEW t \in Tasks, Failure(t)
  PROVE  IInv'
<1>1. TypeInv /\ ConnInv /\ CallInv(t) /\ call[t].at = "taken" /\ UNCHANGED <<driver, stmt>>
  BY DEF IInv, Failure
<1>2. PICK c \in Execution : c = call[t]
  BY <1>1 DEF TypeInv
<1>3. PICK e \in Errors(c.adapter) :
        /\ client' = IF e.lost /\ client[c.adapter] = "open"
                     THEN [client EXCEPT ![c.adapter] = "dead"] ELSE client
        /\ ConvertException(Convert(driver, e))
        /\ call' = [call EXCEPT ![t] = Told(c, e.kind, Reported(c))]
  BY <1>2 DEF Failure
<1>4. PICK v : v = Reported(c)
  OBVIOUS
<1>5. v \in Bindable
  <2>1. c.of # None => c.of \in Prepared
    BY DEF Execution
  <2> QED BY <1>1, <1>4, <2>1 DEF Reported, Execution, TypeInv, Statement, Bindable
<1>6. ~ c.rebound => v = c.used
  BY <1>1, <1>2, <1>4 DEF CallInv, InFlight, Reported
<1>7. e.kind \in AnyKind
  BY DEF Errors, AfterLoss, AnyKind
<1>8. PICK k \in AnyKind : k = e.kind
  BY <1>7
<1>9. PICK d \in Execution : d = Told(c, k, v)
  <2>1. Told(c, k, v) = [Idle EXCEPT !.at = "told", !.used = c.used, !.rebound = c.rebound,
                                     !.kind = k, !.reported = v]
    BY DEF Told
  <2>2. c.used \in Bindable /\ c.rebound \in BOOLEAN
    BY DEF Execution
  <2>3. Told(c, k, v) \in Execution
    BY <1>5, <2>1, <2>2, ZenonT(60) DEF Idle, Execution, Bindable, None
  <2> QED BY <2>3
<1>10. d.at = "told" /\ d.used = c.used /\ d.rebound = c.rebound /\ d.reported = v
  BY <1>9 DEF Told, Idle
<1>11. call' = [call EXCEPT ![t] = d]
  BY <1>3, <1>4, <1>8, <1>9
<1>12. c.adapter \in Adapters
  BY <1>1, <1>2 DEF CallInv, InFlight
<1>13. /\ client' \in [Adapters -> Clients]
       /\ \A a \in Adapters : client'[a] = client[a] \/ client'[a] = "dead"
  BY <1>1, <1>3 DEF TypeInv, Clients
<1>14. conn' = conn \/ conn' = [adapter |-> 0, level |-> 0]
  BY <1>3 DEF ConvertException
<1>15. conn' \in Connections
  BY <1>1, <1>14 DEF TypeInv, Connections
<1>16. ConnInv'
  BY <1>1, <1>13, <1>14 DEF ConnInv, None
<1>17. CallInv(t)'
  <2>1. call'[t] = d
    BY <1>1, <1>11 DEF TypeInv
  <2> QED BY <1>6, <1>10, <2>1 DEF CallInv, InFlight
<1>18. \A u \in Tasks \ {t} : InFlight(u) =>
         \/ client'[call[u].adapter] = client[call[u].adapter]
         \/ client'[call[u].adapter] = "dead"
  BY <1>13 DEF IInv, CallInv
<1> QED BY <1>1, <1>11, <1>13, <1>15, <1>16, <1>17, <1>18, OneCallKeeps

(* beginTransaction(), commit() and rollBack() find no call in flight.     *)
LEMMA QuietKeeps ==
  ASSUME IInv, Quiet, UNCHANGED <<driver, stmt, call>>,
         conn' \in Connections, client' \in [Adapters -> Clients], ConnInv'
  PROVE  IInv'
<1>1. TypeInv'
  BY DEF IInv, TypeInv
<1>2. BoundInv'
  BY DEF IInv, BoundInv
<1>3. \A t \in Tasks : CallInv(t)'
  BY DEF IInv, CallInv, InFlight, Quiet
<1> QED BY <1>1, <1>2, <1>3 DEF IInv

LEMMA BeginKeeps ==
  ASSUME IInv, Begin
  PROVE  IInv'
<1>1. TypeInv /\ Quiet /\ UNCHANGED <<driver, stmt, call>>
  BY DEF IInv, Begin
<1>2. PICK a \in Adapters : a = Adapter
  BY <1>1, UnusedIsNew DEF Adapter, TypeInv, Connections
<1>3. conn' = [adapter |-> a, level |-> 1] /\ client' = [client EXCEPT ![a] = "open"]
  BY <1>2 DEF Begin
<1>4. conn' \in Connections /\ client' \in [Adapters -> Clients] /\ client'[a] = "open"
  BY <1>1, <1>3 DEF TypeInv, Connections, Clients
<1>5. ConnInv'
  BY <1>3, <1>4 DEF ConnInv, None
<1> QED BY <1>1, <1>4, <1>5, QuietKeeps

LEMMA EndKeeps ==
  ASSUME IInv, End
  PROVE  IInv'
<1>1. TypeInv /\ Quiet /\ UNCHANGED <<driver, stmt, call>>
  BY DEF IInv, End
<1>2. conn' = [adapter |-> 0, level |-> 0] \/ conn' = [conn EXCEPT !.level = 0]
  BY DEF End
<1>3. conn' \in Connections /\ conn'.level = 0
  BY <1>1, <1>2 DEF TypeInv, Connections
<1>4. client' \in [Adapters -> Clients]
  BY <1>1 DEF End, TypeInv, Clients
<1>5. ConnInv'
  BY <1>3 DEF ConnInv
<1> QED BY <1>1, <1>3, <1>4, <1>5, QuietKeeps

LEMMA NextIInv == IInv /\ [Next]_vars => IInv'
<1> SUFFICES ASSUME IInv, [Next]_vars PROVE IInv'
  OBVIOUS
<1>1. ASSUME NEW s \in Prepared, Prepare(s) PROVE IInv'
  BY <1>1, PrepareKeeps
<1>2. ASSUME NEW s \in Prepared, NEW v \in Values, BindValue(s, v) PROVE IInv'
  BY <1>2, BindValueKeeps
<1>3. ASSUME NEW t \in Tasks, NEW s \in Prepared, Execute(t, s) PROVE IInv'
  BY <1>3, ExecuteKeeps
<1>4. ASSUME NEW t \in Tasks, ExecuteDirectly(t) PROVE IInv'
  BY <1>4, ExecuteDirectlyKeeps
<1>5. ASSUME NEW t \in Tasks, Take(t) PROVE IInv'
  BY <1>5, TakeKeeps
<1>6. ASSUME NEW t \in Tasks, Success(t) PROVE IInv'
  BY <1>6, SuccessKeeps
<1>7. ASSUME NEW t \in Tasks, Failure(t) PROVE IInv'
  BY <1>7, FailureKeeps
<1>8. CASE Begin
  BY <1>8, BeginKeeps
<1>9. CASE End
  BY <1>9, EndKeeps
<1>10. CASE UNCHANGED vars
  BY <1>10 DEF vars, IInv, TypeInv, ConnInv, BoundInv, CallInv, InFlight
<1> QED BY <1>1, <1>2, <1>3, <1>4, <1>5, <1>6, <1>7, <1>8, <1>9, <1>10 DEF Next

THEOREM AlwaysIInv == Spec => []IInv
BY InitIInv, NextIInv, PTL DEF Spec

(* The value that an execution sends is the one bound when it was called,  *)
(* and an exception names it, whoever binds the statement in between:      *)
(* Statement.bindValue() against the execution in flight.                  *)
THEOREM AlwaysValuesOfCall == Spec => []ValuesOfCall
<1>1. IInv => ValuesOfCall
  BY DEF IInv, CallInv, ValuesOfCall
<1> QED BY <1>1, AlwaysIInv, PTL

(* An execution called in a transaction runs in it, whatever other tasks'  *)
(* errors make the Connection forget before the packages come to it.       *)
THEOREM AlwaysInsideTransaction == Spec => []InsideTransaction
<1>1. IInv => InsideTransaction
  BY DEF IInv, CallInv, InsideTransaction
<1> QED BY <1>1, AlwaysIInv, PTL

-----------------------------------------------------------------------------
(* What makes the Connection forget a transaction. *)

(* The least of a set of numbers is one of them. *)
LEMMA MinIn ==
  ASSUME NEW S \in SUBSET Nat, S # {}
  PROVE  Min(S) \in S
<1> DEFINE R == OpToRel(<, Nat)
<1>1. IsWellFoundedOn(R, Nat)
  BY NatLessThanWellFounded, Zenon
<1>2. R = {p \in Nat \X Nat : p[1] < p[2]}
  BY DEF OpToRel
<1> HIDE DEF R
<1>3. PICK x \in S : \A y \in S : <<y, x>> \notin R
  BY <1>1, WFMin, Zenon
<1>4. \A y \in S : x <= y
  <2> SUFFICES ASSUME NEW y \in S, y < x PROVE FALSE
    OBVIOUS
  <2>1. <<y, x>> \in R
    BY <1>2
  <2> QED BY <1>3, <2>1
<1> QED BY <1>4 DEF Min

(* An error that a converter takes for a ConnectionException matches a rule*)
(* for one.                                                                *)
LEMMA MatchedRule ==
  ASSUME NEW d, NEW e, Convert(d, e) \in ConnectionClasses, Len(Rules(d)) \in Nat
  PROVE  \E i \in 1..Len(Rules(d)) : /\ Rules(d)[i].class \in ConnectionClasses
                                     /\ Matches(Rules(d)[i], ExtractCode(d, e), Looked(d, e))
<1> DEFINE T(r) == Matches(r, ExtractCode(d, e), Looked(d, e))
           I == {i \in 1..Len(Rules(d)) : T(Rules(d)[i])}
           first == SelectInSeq(Rules(d), T)
<1>1. first = IF I # {} THEN Min(I) ELSE 0
  BY DEF SelectInSeq
<1>2. Convert(d, e) = IF first = 0 THEN "Driver" ELSE Rules(d)[first].class
  BY DEF Convert
<1>3. I # {} => Min(I) \in I
  <2>1. I \in SUBSET Nat
    OBVIOUS
  <2> HIDE DEF I
  <2> QED BY <2>1, MinIn
<1> HIDE DEF T
<1> QED BY <1>1, <1>2, <1>3 DEF ConnectionClasses, T
(* The converters, one by one: an error of a session that goes on becomes  *)
(* a ConnectionException only if it is one of the Mistaken.                *)
LEMMA MySQLMistaken ==
  ASSUME NEW e \in MySQLFailures, ~ e.lost, Convert("mysql2", e) \in ConnectionClasses
  PROVE  <<"mysql2", e.kind>> \in Mistaken
<1>1. Rules("mysql2") = MySQLRules /\ Len(MySQLRules) = 15
  BY DEF Rules, MySQLRules
<1>2. PICK i \in 1..15 :
        /\ MySQLRules[i].class \in ConnectionClasses
        /\ Matches(MySQLRules[i], ExtractCode("mysql2", e), Looked("mysql2", e))
  BY <1>1, MatchedRule, SMTT(30)
<1>3. i \in 12..15
  BY <1>2 DEF MySQLRules, ConnectionClasses, Rule
<1>4. e.number # Missing /\ e.phrases = {}
  BY DEF MySQLFailures, Failed, Missing
<1>5. e.number \in MySQLRules[i].codes
  BY <1>2, <1>4 DEF Matches, ExtractCode, Looked
<1>6. \/ e.kind \in {"noDatabase", "denied"}
      \/ e.number \in {"1062", "1451", "1452", "1048", "1364", "1213", "1205", "1064", "1146", "1051",
                       "1050", "1054", "1052"}
  BY DEF MySQLFailures, Failed, Missing
<1>7. CASE i = 12
  BY <1>5, <1>6, <1>7 DEF MySQLRules, Mistaken, Rule
<1>8. CASE i = 13
  BY <1>5, <1>6, <1>8 DEF MySQLRules, Mistaken, Rule
<1>9. CASE i = 14
  BY <1>5, <1>6, <1>9 DEF MySQLRules, Mistaken, Rule
<1>10. CASE i = 15
  BY <1>5, <1>6, <1>10 DEF MySQLRules, Mistaken, Rule
<1> QED BY <1>3, <1>7, <1>8, <1>9, <1>10

LEMMA PostgreSQLMistaken ==
  ASSUME NEW e \in PostgreSQLFailures, ~ e.lost
  PROVE  Convert("pg", e) \notin ConnectionClasses
<1>1. Rules("pg") = PostgreSQLRules /\ Len(PostgreSQLRules) = 16
  BY DEF Rules, PostgreSQLRules
<1> SUFFICES ASSUME Convert("pg", e) \in ConnectionClasses PROVE FALSE
  OBVIOUS
<1>2. PICK i \in 1..16 :
        /\ PostgreSQLRules[i].class \in ConnectionClasses
        /\ Matches(PostgreSQLRules[i], ExtractCode("pg", e), Looked("pg", e))
  <2>1. Len(Rules("pg")) \in Nat
    BY <1>1
  <2>2. \E i \in 1..Len(Rules("pg")) :
          /\ Rules("pg")[i].class \in ConnectionClasses
          /\ Matches(Rules("pg")[i], ExtractCode("pg", e), Looked("pg", e))
    BY <2>1, MatchedRule
  <2> QED BY <1>1, <2>2
<1>3. i \in 13..16
  BY <1>2 DEF PostgreSQLRules, ConnectionClasses, Rule
<1>4. e.code # Missing /\ e.phrases = {}
  BY DEF PostgreSQLFailures, Failed, Missing
<1>5. e.code \in PostgreSQLRules[i].codes
  BY <1>2, <1>4 DEF Matches, ExtractCode, Looked
<1>6. e.code \in {"23505", "23503", "0A000", "23502", "40P01", "55P03", "42601", "42P01", "42P07", "42703",
                  "42702", "42501", "25006"}
  BY DEF PostgreSQLFailures, Failed, Missing
<1>7. CASE i = 13
  BY <1>5, <1>6, <1>7 DEF PostgreSQLRules, Rule
<1>8. CASE i = 14
  BY <1>5, <1>6, <1>8 DEF PostgreSQLRules, Rule
<1>9. CASE i = 15
  BY <1>5, <1>6, <1>9 DEF PostgreSQLRules, Rule
<1>10. CASE i = 16
  BY <1>5, <1>6, <1>10 DEF PostgreSQLRules, Rule
<1> QED BY <1>3, <1>7, <1>8, <1>9, <1>10

LEMMA SQLServerMistaken ==
  ASSUME NEW e \in SQLServerFailures, ~ e.lost, Convert("mssql", e) \in ConnectionClasses
  PROVE  <<"mssql", e.kind>> \in Mistaken
<1>1. Rules("mssql") = SQLServerRules /\ Len(SQLServerRules) = 11
  BY DEF Rules, SQLServerRules
<1>2. PICK i \in 1..11 :
        /\ SQLServerRules[i].class \in ConnectionClasses
        /\ Matches(SQLServerRules[i], ExtractCode("mssql", e), Looked("mssql", e))
  BY <1>1, MatchedRule
<1>3. i = 11
  BY <1>2 DEF SQLServerRules, ConnectionClasses, Rule
<1>4. \/ e.kind \in {"requestTimeout", "cancelled"}
      \/ /\ e.number \in {"2627", "2601", "547", "515", "1205", "1222", "102", "208", "3701", "2714",
                          "207", "209", "229"}
         /\ e.phrases = {}
  BY DEF SQLServerFailures, Failed, Missing
<1>5. CASE e.kind \in {"requestTimeout", "cancelled"}
  BY <1>5 DEF Mistaken
<1>6. CASE e.kind \notin {"requestTimeout", "cancelled"}
  <2>1. e.number \in SQLServerRules[i].codes
    BY <1>2, <1>4, <1>6 DEF Matches, ExtractCode, Looked, Missing
  <2> QED BY <1>3, <1>4, <1>6, <2>1 DEF SQLServerRules, Rule
<1> QED BY <1>5, <1>6

LEMMA SQLiteMistaken ==
  ASSUME NEW e \in SQLiteFailures, Convert("sqlite3", e) \in ConnectionClasses
  PROVE  <<"sqlite3", e.kind>> \in Mistaken
<1>1. Rules("sqlite3") = SQLiteRules /\ Len(SQLiteRules) = 16
  BY DEF Rules, SQLiteRules
<1>2. PICK i \in 1..16 :
        /\ SQLiteRules[i].class \in ConnectionClasses
        /\ Matches(SQLiteRules[i], ExtractCode("sqlite3", e), Looked("sqlite3", e))
  <2>1. Len(Rules("sqlite3")) \in Nat
    BY <1>1
  <2>2. \E i \in 1..Len(Rules("sqlite3")) :
          /\ Rules("sqlite3")[i].class \in ConnectionClasses
          /\ Matches(Rules("sqlite3")[i], ExtractCode("sqlite3", e), Looked("sqlite3", e))
    BY <2>1, MatchedRule
  <2> QED BY <1>1, <2>2
<1>3. i = 10 \/ i = 13
  BY <1>2 DEF SQLiteRules, ConnectionClasses, Rule
<1>4. \/ e.kind = "cannotOpen"
      \/ /\ e.code \in {"SQLITE_CONSTRAINT", "SQLITE_BUSY", "SQLITE_LOCKED", "SQLITE_ERROR", "SQLITE_READONLY"}
         /\ "unable_to_open_database_file" \notin e.phrases
  BY DEF SQLiteFailures, Failed, Missing
<1>5. CASE e.kind = "cannotOpen"
  BY <1>5 DEF Mistaken
<1>6. CASE e.kind # "cannotOpen"
  <2>1. ExtractCode("sqlite3", e) = e.code /\ Looked("sqlite3", e) = e
    BY <1>4, <1>6 DEF ExtractCode, Looked, Missing
  <2>2. CASE i = 10
    BY <1>2, <1>4, <1>6, <2>1, <2>2 DEF Matches, SQLiteRules, Rule
  <2>3. CASE i = 13
    BY <1>2, <1>4, <1>6, <2>1, <2>3 DEF Matches, SQLiteRules, Rule
  <2> QED BY <1>3, <2>2, <2>3
<1> QED BY <1>5, <1>6

LEMMA OnlyMistaken ==
  ASSUME NEW d \in {"sqlite3", "pg", "mysql2", "mssql"}, NEW e \in FailuresOf(d), ~ e.lost,
         Resets(Convert(d, e))
  PROVE  <<d, e.kind>> \in Mistaken
<1>1. Convert(d, e) \in ConnectionClasses
  BY DEF Resets
<1>2. CASE d = "mysql2"
  BY <1>1, <1>2, MySQLMistaken DEF FailuresOf
<1>3. CASE d = "pg"
  BY <1>1, <1>3, PostgreSQLMistaken DEF FailuresOf
<1>4. CASE d = "mssql"
  BY <1>1, <1>4, SQLServerMistaken DEF FailuresOf
<1>5. CASE d = "sqlite3"
  BY <1>1, <1>5, SQLiteMistaken DEF FailuresOf
<1> QED BY <1>2, <1>3, <1>4, <1>5

(* An error makes the Connection forget a transaction that its server      *)
(* still holds open: which error that was.                                 *)
LEMMA FailureDrops ==
  ASSUME IInv, NEW t \in Tasks, Failure(t), Dropped
  PROVE  \/ client'[conn.adapter] = "dead"
         \/ /\ call[t].at = "taken" /\ call'[t].at = "told"
            /\ \/ call[t].adapter # conn.adapter
               \/ <<driver, call'[t].kind>> \in Mistaken
<1>1. TypeInv /\ CallInv(t) /\ call[t].at = "taken"
  BY DEF IInv, Failure
<1>2. PICK a : a = call[t].adapter
  OBVIOUS
<1>3. PICK e \in Errors(a) :
        /\ client' = IF e.lost /\ client[a] = "open" THEN [client EXCEPT ![a] = "dead"] ELSE client
        /\ ConvertException(Convert(driver, e))
        /\ call' = [call EXCEPT ![t] = Told(call[t], e.kind, Reported(call[t]))]
  BY <1>2 DEF Failure
<1>4. call'[t].at = "told" /\ call'[t].kind = e.kind
  BY <1>1, <1>3 DEF TypeInv, Told, Idle
<1>5. CASE a # conn.adapter
  BY <1>1, <1>2, <1>4, <1>5
<1>6. CASE a = conn.adapter
  <2>1. a \in Adapters /\ a # 0 /\ client[a] = "open"
    BY <1>1, <1>2, <1>6, StatementsAssumption DEF CallInv, InFlight, Dropped
  <2>2. CASE e.lost
    BY <1>1, <1>3, <1>6, <2>1, <2>2 DEF TypeInv
  <2>3. CASE ~ e.lost
    <3>1. e \in FailuresOf(driver)
      BY <1>3, <2>1 DEF Errors
    <3>2. Resets(Convert(driver, e))
      BY <1>3, <1>6, <2>1 DEF ConvertException, Dropped
    <3>3. driver \in {"sqlite3", "pg", "mysql2", "mssql"}
      BY <1>1, StatementsAssumption DEF TypeInv
    <3> QED BY <1>1, <1>4, <2>3, <3>1, <3>2, <3>3, OnlyMistaken
  <2> QED BY <2>2, <2>3
<1> QED BY <1>5, <1>6

(* Nothing but an error drops it: connect(), beginTransaction(), commit()  *)
(* and rollBack() leave the adapter of a live transaction.                 *)
LEMMA OnlyErrorsDrop ==
  ASSUME IInv, [Next]_vars, Dropped
  PROVE  \E t \in Tasks : Failure(t)
<1>1. TypeInv /\ ConnInv /\ conn.level = 1 /\ client[conn.adapter] = "open" /\ conn'.adapter = 0
  BY DEF IInv, Dropped
<1>2. conn.adapter \in Adapters /\ conn.adapter # 0
  BY <1>1, StatementsAssumption DEF ConnInv
<1>3. ~ Connect
  BY <1>1, <1>2 DEF Connect, Adapter, TypeInv, Connections
<1>4. ASSUME NEW s \in Prepared PROVE ~ Prepare(s)
  BY <1>3 DEF Prepare
<1>5. ASSUME NEW t \in Tasks PROVE ~ ExecuteDirectly(t)
  BY <1>3 DEF ExecuteDirectly
<1>6. conn' # conn
  BY <1>1, <1>2
<1>7. ASSUME NEW s \in Prepared, NEW v \in Values PROVE ~ BindValue(s, v)
  BY <1>6 DEF BindValue
<1>8. ASSUME NEW t \in Tasks, NEW s \in Prepared PROVE ~ Execute(t, s)
  BY <1>6 DEF Execute
<1>9. ASSUME NEW t \in Tasks PROVE ~ Take(t) /\ ~ Success(t)
  BY <1>6 DEF Take, Success
<1>10. ~ Begin
  BY <1>1 DEF Begin
<1>11. ~ End
  <2> SUFFICES ASSUME End PROVE FALSE
    OBVIOUS
  <2>1. conn' = [conn EXCEPT !.level = 0]
    BY <1>1 DEF End
  <2> QED BY <1>1, <1>2, <2>1 DEF TypeInv, Connections
<1>12. ~ UNCHANGED vars
  BY <1>6 DEF vars
<1> QED BY <1>4, <1>5, <1>7, <1>8, <1>9, <1>10, <1>11, <1>12 DEF Next

(* A transaction that its server still holds open is forgotten only over   *)
(* an error that convertException() mistakes for a lost connection, or one *)
(* of an execution on an adapter that was forgotten before.                *)
THEOREM AlwaysLiveTransactionKept == Spec => LiveTransactionKept
<1>1. ASSUME IInv, [Next]_vars, Dropped
      PROVE  \/ client'[conn.adapter] = "dead"
             \/ \E t \in Tasks :
                  /\ call[t].at = "taken" /\ call'[t].at = "told"
                  /\ \/ call[t].adapter # conn.adapter
                     \/ <<driver, call'[t].kind>> \in Mistaken
  BY <1>1, OnlyErrorsDrop, FailureDrops
<1>2. IInv /\ [Next]_vars =>
        [Dropped => \/ client'[conn.adapter] = "dead"
                    \/ \E t \in Tasks :
                         /\ call[t].at = "taken" /\ call'[t].at = "told"
                         /\ \/ call[t].adapter # conn.adapter
                            \/ <<driver, call'[t].kind>> \in Mistaken]_vars
  BY <1>1
<1> QED BY <1>2, AlwaysIInv, PTL DEF Spec, LiveTransactionKept
=============================================================================
