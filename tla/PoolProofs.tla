----------------------------- MODULE PoolProofs -----------------------------
(***************************************************************************)
(* Isolation and conservation of clients for any number of Connections,    *)
(* tasks and clients.                                                      *)
(***************************************************************************)
EXTENDS Pool, TLAPS

Jobs == {"write", "begin", "commit", "rollback", "close"}
Ends == {"commit", "rollback", "close"}

Occurs(s) == {s[i] : i \in 1..Len(s)}
Once(s)   == \A i, j \in 1..Len(s) : s[i] = s[j] => i = j

-----------------------------------------------------------------------------
(* The inductive invariant. *)

TaskStates == [at : {"idle", "acquiring", "lined", "running"}, job : Jobs,
               client : Pools[driver] \cup {None}, pooled : BOOLEAN, calls : Nat]

Types ==
  /\ driver \in Drivers
  /\ free \subseteq Pools[driver]
  /\ queue \in Seq(Tasks)
  /\ session \in [Clients -> [by : Adapters \cup {None}, writers : SUBSET Adapters]]
  /\ adapter \in [Adapters -> [client : Pools[driver] \cup {None}, inTransaction : BOOLEAN,
                               stale : BOOLEAN]]
  /\ line \in [Adapters -> Seq(Tasks)]
  /\ task \in [Tasks -> TaskStates]

(* Who waits for a client waits once. *)
Waiting ==
  /\ Once(queue)
  /\ \A t \in Occurs(queue) : task[t].at = "acquiring"

(* Only mssql has a line; in it are writes, each once, and only the first  *)
(* is under way.                                                           *)
Lined ==
  /\ \A a \in Adapters :
       /\ Once(line[a])
       /\ \A t \in Occurs(line[a]) :
            driver = "mssql" /\ AdapterOf[t] = a /\ task[t].job = "write" /\ task[t].at # "idle"
  /\ \A t \in Tasks :
       /\ task[t].at = "lined" => task[t].job = "write" /\ t \in Occurs(line[AdapterOf[t]])
       /\ driver = "mssql" /\ task[t].job = "write" /\ task[t].at \in {"acquiring", "running"}
            => t \in Occurs(line[AdapterOf[t]]) /\ First(t)

(* Transactions are their owner's, and but for mssql's requests a          *)
(* Connection has one task at a time.                                      *)
Turns ==
  /\ \A t \in Tasks : task[t].at # "idle" /\ task[t].job # "write" => t \in Owners
  /\ \A t, u \in Tasks :
       t # u /\ AdapterOf[t] = AdapterOf[u] /\ driver # "mssql" =>
         task[t].at = "idle" \/ task[u].at = "idle"

(* A task that has a client of the pool to itself. *)
Keeps(t) ==
  /\ task[t].at = "running"
  /\ \/ task[t].job = "write" /\ task[t].pooled
     \/ task[t].job = "begin" /\ driver # "pg"

(* Where each call has its client from. *)
HeldBy(t) ==
  /\ task[t].at # "running" => task[t].client = None /\ ~ task[t].pooled
  /\ task[t].at = "running" => task[t].client # None
  /\ task[t].at = "running" /\ ~ Keeps(t) => task[t].client = Mine(t).client
  /\ task[t].at = "acquiring" => task[t].job \in {"write", "begin"}
  /\ task[t].at = "acquiring" /\ task[t].job = "begin" => Mine(t).client = None
  /\ Keeps(t) /\ task[t].job = "begin" => Mine(t).client = None

(* An adapter has a client while it has a transaction; only pg's has one   *)
(* without.                                                                *)
HeldByAdapter(a) ==
  /\ adapter[a].inTransaction => adapter[a].client # None
  /\ adapter[a].client # None => adapter[a].inTransaction \/ driver = "pg"

(* No client has two holders. *)
Apart ==
  /\ \A a \in Adapters : adapter[a].client \notin free
  /\ \A a, b \in Adapters : adapter[a].client = adapter[b].client /\ adapter[a].client # None => a = b
  /\ \A t \in Tasks : Keeps(t) => task[t].client \notin free
  /\ \A t \in Tasks, a \in Adapters : Keeps(t) => task[t].client # adapter[a].client
  /\ \A t, u \in Tasks : Keeps(t) /\ Keeps(u) /\ task[t].client = task[u].client => t = u

Held ==
  /\ \A t \in Tasks : HeldBy(t)
  /\ \A a \in Adapters : HeldByAdapter(a)

IInv == Types /\ Waiting /\ Lined /\ Turns /\ Held /\ Apart

(* A session in a transaction is the client of the adapter that began it,  *)
(* and of no other.                                                        *)
Owned ==
  \A c \in Clients :
    /\ session[c].by # None => adapter[session[c].by].client = c
    /\ session[c].writers \subseteq {session[c].by}
-----------------------------------------------------------------------------
(* Sequences without repetition. *)

LEMMA Appended ==
  ASSUME NEW S, NEW s \in Seq(S), NEW x \in S, Once(s), x \notin Occurs(s)
  PROVE  /\ Append(s, x) \in Seq(S)
         /\ Once(Append(s, x))
         /\ Occurs(Append(s, x)) = Occurs(s) \cup {x}
         /\ Head(Append(s, x)) = IF s = <<>> THEN x ELSE Head(s)
<1> DEFINE r == Append(s, x)
<1>1. /\ r \in Seq(S) /\ Len(r) = Len(s) + 1 /\ Len(s) \in Nat
      /\ r[Len(s) + 1] = x /\ \A i \in 1..Len(s) : r[i] = s[i]
  OBVIOUS
<1>2. Once(r)
  BY <1>1 DEF Once, Occurs
<1>3. Occurs(r) = Occurs(s) \cup {x}
  <2>1. Occurs(r) \subseteq Occurs(s) \cup {x}
    BY <1>1 DEF Occurs
  <2>2. Occurs(s) \cup {x} \subseteq Occurs(r)
    BY <1>1 DEF Occurs
  <2> QED BY <2>1, <2>2
<1>4. Head(r) = IF s = <<>> THEN x ELSE Head(s)
  BY <1>1
<1> QED BY <1>1, <1>2, <1>3, <1>4

LEMMA Rested ==
  ASSUME NEW S, NEW s \in Seq(S), s # <<>>, Once(s)
  PROVE  /\ Tail(s) \in Seq(S)
         /\ Once(Tail(s))
         /\ Occurs(Tail(s)) = Occurs(s) \ {Head(s)}
         /\ Head(s) \in Occurs(s) /\ Head(s) \in S
<1> DEFINE r == Tail(s)
<1>1. /\ r \in Seq(S) /\ Len(s) \in Nat /\ Len(s) > 0 /\ Len(r) = Len(s) - 1
      /\ \A i \in 1..Len(r) : r[i] = s[i + 1]
      /\ Head(s) = s[1]
  OBVIOUS
<1>2. Once(r)
  BY <1>1 DEF Once
<1>3. Occurs(r) \subseteq Occurs(s) \ {Head(s)}
  BY <1>1 DEF Occurs, Once
<1>4. Occurs(s) \ {Head(s)} \subseteq Occurs(r)
  <2> SUFFICES ASSUME NEW i \in 1..Len(s), s[i] # s[1] PROVE s[i] \in Occurs(r)
    BY <1>1 DEF Occurs
  <2>1. i - 1 \in 1..Len(r) /\ r[i - 1] = s[i]
    BY <1>1
  <2> QED BY <2>1 DEF Occurs
<1>5. Head(s) \in Occurs(s) /\ Head(s) \in S
  BY <1>1 DEF Occurs
<1> QED BY <1>1, <1>2, <1>3, <1>4, <1>5

LEMMA EmptyOnce == Once(<<>>) /\ Occurs(<<>>) = {}
  BY DEF Once, Occurs

-----------------------------------------------------------------------------
(* One lemma per action. *)

LEMMA GrantKeeps ==
  ASSUME IInv, Grant
  PROVE  IInv'
<1> USE DEF IInv
<1> DEFINE t == Head(queue)
<1>1. /\ Tail(queue) \in Seq(Tasks) /\ Once(Tail(queue))
      /\ Occurs(Tail(queue)) = Occurs(queue) \ {t}
      /\ t \in Occurs(queue) /\ t \in Tasks
  BY Rested DEF Grant, Types, Waiting
<1>2. PICK c \in free :
        /\ free' = free \ {c}
        /\ queue' = Tail(queue)
        /\ task' = [task EXCEPT ![t] = [@ EXCEPT !.at = "running", !.client = c,
                                                 !.pooled = (task[t].job = "write")]]
        /\ adapter' = IF driver = "pg" /\ task[t].job = "begin"
                      THEN [adapter EXCEPT ![AdapterOf[t]].client = c] ELSE adapter
        /\ UNCHANGED <<driver, session, line>>
  BY DEF Grant
<1> HIDE DEF t
<1>3. /\ task[t].at = "acquiring" /\ task[t].client = None /\ ~ task[t].pooled
      /\ task[t].job \in {"write", "begin"}
      /\ task[t].job = "begin" => adapter[AdapterOf[t]].client = None
  BY <1>1 DEF Waiting, Held, HeldBy, Mine
<1>4. c \in Pools[driver] /\ c # None /\ AdapterOf[t] \in Adapters
  BY <1>1, PoolAssumption DEF Types, None, Adapters
<1>5. /\ task'[t].at = "running" /\ task'[t].client = c /\ task'[t].job = task[t].job
      /\ task'[t].pooled <=> task[t].job = "write"
      /\ \A u \in Tasks \ {t} : task'[u] = task[u]
  BY <1>1, <1>2, <1>3 DEF Types, TaskStates
<1>6. /\ \A a \in Adapters \ {AdapterOf[t]} : adapter'[a] = adapter[a]
      /\ \A a \in Adapters : /\ adapter'[a].inTransaction = adapter[a].inTransaction
                             /\ adapter'[a].stale = adapter[a].stale
      /\ adapter'[AdapterOf[t]].client = IF driver = "pg" /\ task[t].job = "begin" THEN c
                                         ELSE adapter[AdapterOf[t]].client
  BY <1>2, <1>4 DEF Types
<1>7. Types'
  <2>1. adapter' \in [Adapters -> [client : Pools[driver] \cup {None}, inTransaction : BOOLEAN,
                                  stale : BOOLEAN]]
    BY <1>2, <1>4 DEF Types
  <2>2. (task[t].job = "write") \in BOOLEAN
    OBVIOUS
  <2>3. task[t] \in TaskStates
    BY <1>1 DEF Types
  <2>4. [task[t] EXCEPT !.at = "running", !.client = c, !.pooled = (task[t].job = "write")] \in TaskStates
    BY <1>4, <2>2, <2>3 DEF TaskStates
  <2>5. task' \in [Tasks -> TaskStates]
    BY <1>1, <1>2, <2>4 DEF Types
  <2>6. TaskStates' = TaskStates
    BY <1>2 DEF TaskStates
  <2> QED BY <1>1, <1>2, <2>1, <2>5, <2>6 DEF Types
<1>8. Waiting'
  BY <1>1, <1>2, <1>5 DEF Waiting
<1>9. Lined'
  BY <1>1, <1>2, <1>3, <1>5 DEF Lined, First, Types
<1>10. Turns'
  BY <1>1, <1>2, <1>3, <1>5 DEF Turns
<1>11. Held'
  <2>1. ASSUME NEW u \in Tasks PROVE HeldBy(u)'
    <3>1. CASE u = t
      BY <1>1, <1>2, <1>3, <1>4, <1>5, <1>6, <3>1 DEF HeldBy, Keeps, Mine, Types, Jobs
    <3>2. CASE u # t
      BY <1>1, <1>2, <1>3, <1>4, <1>5, <1>6, <3>2 DEF Held, HeldBy, Keeps, Mine, Turns, Adapters
    <3> QED BY <3>1, <3>2
  <2>2. ASSUME NEW a \in Adapters PROVE HeldByAdapter(a)'
    BY <1>2, <1>3, <1>4, <1>6 DEF Held, HeldByAdapter
  <2> QED BY <2>1, <2>2 DEF Held
<1>12. Apart'
  BY <1>1, <1>2, <1>3, <1>4, <1>5, <1>6 DEF Apart, Keeps, Types
<1> QED BY <1>7, <1>8, <1>9, <1>10, <1>11, <1>12

(* A call that is asked for now, or whose turn in the line has come.       *)
Begins(t, r) ==
  /\ t \in Tasks /\ r \in TaskStates
  /\ task[t].at \in {"idle", "lined"}
  /\ task[t].at = "lined" => r.job = "write" /\ First(t)
  /\ task[t].at = "idle" /\ driver = "mssql" => r.job # "write"
  /\ driver # "mssql" => \A u \in Tasks \ {t} : AdapterOf[u] = AdapterOf[t] => task[u].at = "idle"
  /\ r.job # "write" => t \in Owners
  /\ ~ r.pooled
  /\ task' = [task EXCEPT ![t] = r]
  /\ UNCHANGED <<driver, free, session, adapter, line>>

LEMMA WaitsForClient ==
  ASSUME IInv, NEW t, NEW r, Begins(t, r),
         r.at = "acquiring", r.client = None, r.job \in {"write", "begin"},
         r.job = "begin" => Mine(t).client = None,
         queue' = Append(queue, t)
  PROVE  IInv'
<1> USE DEF IInv, Begins
<1>1. t \notin Occurs(queue)
  BY DEF Waiting
<1>2. /\ queue' \in Seq(Tasks) /\ Once(queue')
      /\ Occurs(queue') = Occurs(queue) \cup {t}
  BY <1>1, Appended DEF Types, Waiting
<1>3. task'[t] = r /\ \A u \in Tasks \ {t} : task'[u] = task[u]
  BY DEF Types
<1>4. task[t].client = None /\ ~ Keeps(t)
  BY DEF Held, HeldBy, Keeps
<1>5. Types'
  BY <1>2 DEF Types, TaskStates
<1>6. Waiting'
  BY <1>2, <1>3 DEF Waiting
<1>7. Lined'
  BY <1>3 DEF Lined, First
<1>8. Turns'
  BY <1>3 DEF Turns
<1>9. Held'
  BY <1>3 DEF Held, HeldBy, HeldByAdapter, Keeps, Mine
<1>10. Apart'
  BY <1>3, <1>4 DEF Apart, Keeps
<1> QED BY <1>5, <1>6, <1>7, <1>8, <1>9, <1>10

LEMMA RunsOnClient ==
  ASSUME IInv, NEW t, NEW r, Begins(t, r),
         r.at = "running", r.client = Mine(t).client, Mine(t).client # None,
         r.job = "begin" => driver = "pg",
         UNCHANGED queue
  PROVE  IInv'
<1> USE DEF IInv, Begins
<1>1. t \notin Occurs(queue)
  BY DEF Waiting
<1>2. task'[t] = r /\ \A u \in Tasks \ {t} : task'[u] = task[u]
  BY DEF Types
<1>3. ~ Keeps(t)' /\ ~ Keeps(t)
  BY <1>2 DEF Keeps
<1>4. Types'
  BY DEF Types, TaskStates
<1>5. Waiting'
  BY <1>1, <1>2 DEF Waiting
<1>6. Lined'
  BY <1>2 DEF Lined, First
<1>7. Turns'
  BY <1>2 DEF Turns
<1>8. Held'
  BY <1>2 DEF Held, HeldBy, HeldByAdapter, Keeps, Mine
<1>9. Apart'
  BY <1>2, <1>3 DEF Apart, Keeps
<1> QED BY <1>4, <1>5, <1>6, <1>7, <1>8, <1>9

LEMMA TypesUsed ==
  ASSUME Types, NEW t \in Tasks
  PROVE  /\ task[t] \in TaskStates
         /\ AdapterOf[t] \in Adapters
         /\ Mine(t).client \in Pools[driver] \cup {None}
         /\ \A job : Counted(t, job) \in Nat
<1>1. task[t] \in TaskStates /\ task[t].calls \in Nat /\ AdapterOf[t] \in Adapters
  BY DEF Types, TaskStates, Adapters
<1>2. Mine(t).client \in Pools[driver] \cup {None}
  BY <1>1 DEF Types, Mine
<1> QED BY <1>1, <1>2 DEF Counted

(* Calls that begin on the adapter's client, or wait for one of the pool.  *)
LEMMA OnClientKeeps ==
  ASSUME IInv, NEW t \in Tasks, NEW job \in Jobs, Calling(t, job), OnClient(t, job),
         Mine(t).client # None,
         job # "write" => t \in Owners,
         job = "write" => driver # "mssql",
         job = "begin" => driver = "pg",
         UNCHANGED <<free, queue, session, adapter, line>>
  PROVE  IInv'
<1> DEFINE r == [task[t] EXCEPT !.at = "running", !.job = job, !.client = Mine(t).client,
                                !.calls = Counted(t, job)]
<1>1. task[t].at = "idle" /\ task[t] \in TaskStates /\ ~ task[t].pooled
  BY TypesUsed DEF IInv, Calling, Held, HeldBy
<1>2. /\ r \in TaskStates /\ r.at = "running" /\ r.job = job /\ r.client = Mine(t).client
      /\ ~ r.pooled
  BY <1>1, TypesUsed DEF TaskStates, IInv
<1>3. task' = [task EXCEPT ![t] = r]
  BY DEF OnClient
<1>4. Begins(t, r)
  BY <1>1, <1>2, <1>3 DEF Begins, Calling, Alone
<1> QED BY <1>2, <1>4, RunsOnClient

LEMMA FromPoolKeeps ==
  ASSUME IInv, NEW t \in Tasks, NEW job \in {"write", "begin"}, Calling(t, job), FromPool(t, job),
         job = "begin" => t \in Owners /\ Mine(t).client = None,
         job = "write" => driver # "mssql",
         UNCHANGED <<free, session, adapter, line>>
  PROVE  IInv'
<1> DEFINE r == [task[t] EXCEPT !.at = "acquiring", !.job = job, !.calls = Counted(t, job)]
<1>1. task[t].at = "idle" /\ task[t] \in TaskStates /\ ~ task[t].pooled /\ task[t].client = None
  BY TypesUsed DEF IInv, Calling, Held, HeldBy
<1>2. /\ r \in TaskStates /\ r.at = "acquiring" /\ r.job = job /\ r.client = None
      /\ ~ r.pooled
  BY <1>1, TypesUsed DEF TaskStates, IInv, Jobs
<1>3. task' = [task EXCEPT ![t] = r] /\ queue' = Append(queue, t)
  BY DEF FromPool
<1>4. Begins(t, r)
  BY <1>1, <1>2, <1>3 DEF Begins, Calling, Alone
<1> QED BY <1>2, <1>3, <1>4, WaitsForClient

LEMMA WriteKeeps ==
  ASSUME IInv, NEW t \in Tasks, Write(t)
  PROVE  IInv'
<1>1. CASE driver # "mssql"
  <2>1. CASE Mine(t).client # None
    BY <1>1, <2>1, OnClientKeeps DEF Write, Jobs
  <2>2. CASE Mine(t).client = None
    BY <1>1, <2>2, FromPoolKeeps DEF Write
  <2> QED BY <2>1, <2>2
<1>2. CASE driver = "mssql"
  <2> DEFINE a == AdapterOf[t]
             r == [task[t] EXCEPT !.at = "lined", !.job = "write", !.calls = Counted(t, "write")]
  <2> USE DEF IInv
  <2>1. /\ line' = [line EXCEPT ![a] = Append(@, t)] /\ task' = [task EXCEPT ![t] = r]
        /\ UNCHANGED <<driver, free, queue, session, adapter>>
        /\ task[t].at = "idle"
    BY <1>2 DEF Write, Calling
  <2>2. task[t] \in TaskStates /\ a \in Adapters /\ task[t].client = None /\ ~ task[t].pooled
    BY <2>1, TypesUsed DEF Held, HeldBy
  <2>3. r \in TaskStates /\ r.at = "lined" /\ r.job = "write" /\ r.client = None /\ ~ r.pooled
    BY <2>2, TypesUsed DEF TaskStates, Jobs
  <2> HIDE DEF r
  <2>4. task'[t] = r /\ \A u \in Tasks \ {t} : task'[u] = task[u]
    BY <2>1 DEF Types
  <2>5. line[a] \in Seq(Tasks) /\ Once(line[a]) /\ t \notin Occurs(line[a])
    BY <2>1, <2>2 DEF Types, Lined
  <2>6. /\ line'[a] \in Seq(Tasks) /\ Once(line'[a])
        /\ Occurs(line'[a]) = Occurs(line[a]) \cup {t}
        /\ line[a] # <<>> => Head(line'[a]) = Head(line[a])
        /\ \A b \in Adapters \ {a} : line'[b] = line[b]
    BY <2>1, <2>2, <2>5, Appended DEF Types
  <2>7. Types'
    BY <2>1, <2>2, <2>3, <2>6 DEF Types, TaskStates
  <2>8. Waiting'
    BY <2>1, <2>4 DEF Waiting
  <2>9. Lined'
    <3>1. ASSUME NEW b \in Adapters
          PROVE  /\ Once(line'[b])
                 /\ \A u \in Occurs(line'[b]) :
                      driver' = "mssql" /\ AdapterOf[u] = b /\ task'[u].job = "write" /\ task'[u].at # "idle"
      <4>1. CASE b = a
        BY <1>2, <2>1, <2>2, <2>3, <2>4, <2>6, <4>1 DEF Lined
      <4>2. CASE b # a
        BY <1>2, <2>1, <2>2, <2>3, <2>4, <2>6, <4>2 DEF Lined
      <4> QED BY <4>1, <4>2
    <3>2. ASSUME NEW u \in Tasks
          PROVE  /\ task'[u].at = "lined" => task'[u].job = "write" /\ u \in Occurs(line'[AdapterOf[u]])
                 /\ driver' = "mssql" /\ task'[u].job = "write" /\ task'[u].at \in {"acquiring", "running"}
                      => u \in Occurs(line'[AdapterOf[u]]) /\ First(u)'
      <4>1. CASE u = t
        BY <2>3, <2>4, <2>6, <4>1
      <4>2. CASE u # t
        <5>1. AdapterOf[u] \in Adapters
          BY DEF Adapters
        <5>2. u \in Occurs(line[AdapterOf[u]]) => line[AdapterOf[u]] # <<>>
          BY EmptyOnce
        <5> QED BY <2>1, <2>4, <2>6, <4>2, <5>1, <5>2 DEF Lined, First
      <4> QED BY <4>1, <4>2
    <3> QED BY <3>1, <3>2 DEF Lined
  <2>10. Turns'
    BY <1>2, <2>1, <2>3, <2>4 DEF Turns
  <2>11. Held'
    BY <2>1, <2>3, <2>4 DEF Held, HeldBy, HeldByAdapter, Keeps, Mine
  <2>12. Apart'
    BY <2>1, <2>3, <2>4 DEF Apart, Keeps
  <2> QED BY <2>7, <2>8, <2>9, <2>10, <2>11, <2>12
<1> QED BY <1>1, <1>2

LEMMA BeginTransactionKeeps ==
  ASSUME IInv, NEW t \in Tasks, BeginTransaction(t)
  PROVE  IInv'
<1>1. AdapterOf[t] \in Adapters /\ t \in Owners /\ Calling(t, "begin") /\ ~ Mine(t).inTransaction
  BY DEF BeginTransaction, Adapters
<1>2. CASE Mine(t).client # None
  <2>1. driver = "pg"
    BY <1>1, <1>2 DEF IInv, Held, HeldByAdapter, Mine
  <2> QED BY <1>1, <1>2, <2>1, OnClientKeeps DEF BeginTransaction, Jobs
<1>3. CASE Mine(t).client = None
  BY <1>1, <1>3, FromPoolKeeps DEF BeginTransaction
<1> QED BY <1>2, <1>3

LEMMA EndKeeps ==
  ASSUME IInv, NEW t \in Tasks, End(t)
  PROVE  IInv'
<1>1. PICK how \in {"commit", "rollback"} :
        Calling(t, how) /\ Mine(t).inTransaction /\ OnClient(t, how)
  BY DEF End
<1>2. Mine(t).client # None
  BY <1>1, TypesUsed DEF IInv, Held, HeldByAdapter, Mine
<1> QED BY <1>1, <1>2, OnClientKeeps DEF End, Jobs

LEMMA CloseKeeps ==
  ASSUME IInv, NEW t \in Tasks, Close(t)
  PROVE  IInv'
<1>1. CASE EndsFirst
  BY <1>1, OnClientKeeps DEF Close, Jobs
<1>2. CASE ~ EndsFirst
  <2> USE DEF IInv
  <2> DEFINE a == AdapterOf[t]
             c == Mine(t).client
  <2>1. /\ driver = "mysql2" /\ task[t].at = "idle" /\ Alone(t)
        /\ c # None /\ a \in Adapters /\ c \in Pools[driver]
        /\ UNCHANGED <<driver, queue, session, line, task>>
    BY <1>2, TypesUsed DEF Close, Calling, EndsFirst
  <2>2. c = adapter[a].client /\ free' = free \cup {c}
    BY <1>2 DEF Close, Mine
  <2>3. /\ adapter' \in [Adapters -> [client : Pools[driver] \cup {None}, inTransaction : BOOLEAN,
                                       stale : BOOLEAN]]
        /\ adapter'[a].client = None /\ ~ adapter'[a].inTransaction
        /\ \A b \in Adapters \ {a} : adapter'[b] = adapter[b]
    <3> DEFINE r == [adapter[a] EXCEPT !.client = None, !.inTransaction = FALSE]
    <3>1. adapter' = [adapter EXCEPT ![a] = r]
      <4>1. adapter' = [adapter EXCEPT ![a].client = None, ![a].inTransaction = FALSE]
        BY <1>2 DEF Close
      <4> QED BY <2>1, <4>1 DEF Types
    <3>2. /\ r \in [client : Pools[driver] \cup {None}, inTransaction : BOOLEAN, stale : BOOLEAN]
          /\ r.client = None /\ ~ r.inTransaction
      BY <2>1, ZenonT(60) DEF Types
    <3> HIDE DEF r
    <3> QED BY <2>1, <3>1, <3>2 DEF Types
  <2> HIDE DEF c
  <2>4. \A u \in Tasks : AdapterOf[u] = a => task[u].at = "idle"
    BY <2>1 DEF Alone
  <2>5. Types'
    BY <2>1, <2>2, <2>3 DEF Types, TaskStates
  <2>6. Waiting' /\ Turns'
    BY <2>1 DEF Waiting, Turns
  <2>7. Lined'
    BY <2>1 DEF Lined, First
  <2>8. Held'
    <3>1. ASSUME NEW u \in Tasks PROVE HeldBy(u)'
      <4>1. CASE AdapterOf[u] = a
        BY <2>1, <2>4, <4>1 DEF Held, HeldBy, Keeps
      <4>2. CASE AdapterOf[u] # a
        <5>1. Mine(u)' = Mine(u)
          BY <2>3, <4>2 DEF Mine, Adapters
        <5> QED BY <2>1, <5>1 DEF Held, HeldBy, Keeps
      <4> QED BY <4>1, <4>2
    <3>2. ASSUME NEW b \in Adapters PROVE HeldByAdapter(b)'
      BY <2>1, <2>3 DEF Held, HeldByAdapter
    <3> QED BY <3>1, <3>2 DEF Held
  <2>9. Apart'
    <3>1. \A u \in Tasks : Keeps(u)' <=> Keeps(u)
      BY <2>1 DEF Keeps
    <3>2. \A u \in Tasks : Keeps(u) => task[u].client # c /\ task[u].client # None
      BY <2>1, <2>2 DEF Apart, Held, HeldBy, Keeps
    <3>3. None \notin free'
      BY <2>1, <2>2, PoolAssumption DEF Types, None
    <3>4. /\ \A b \in Adapters : adapter'[b].client \notin free'
          /\ \A b, d \in Adapters :
               adapter'[b].client = adapter'[d].client /\ adapter'[b].client # None => b = d
      BY <2>1, <2>2, <2>3, <3>3 DEF Apart
    <3>5. /\ \A u \in Tasks : Keeps(u)' => task'[u].client \notin free'
          /\ \A u \in Tasks, b \in Adapters : Keeps(u)' => task'[u].client # adapter'[b].client
      BY <2>1, <2>2, <2>3, <3>1, <3>2 DEF Apart
    <3>6. \A u, v \in Tasks : Keeps(u)' /\ Keeps(v)' /\ task'[u].client = task'[v].client => u = v
      BY <2>1, <3>1 DEF Apart
    <3> QED BY <3>4, <3>5, <3>6 DEF Apart
  <2> QED BY <2>5, <2>6, <2>7, <2>8, <2>9
<1> QED BY <1>1, <1>2

(* The line without the call that is answered: others go on as before.     *)
Leaves(t) ==
  /\ t \in Tasks /\ task[t].at \in {"lined", "running"}
  /\ task' = [task EXCEPT ![t] = Idle(t)]
  /\ line' = [line EXCEPT ![AdapterOf[t]] = IF @ # <<>> /\ Head(@) = t THEN Tail(@) ELSE @]
  /\ task[t].at = "lined" => First(t)
  /\ UNCHANGED driver

LEMMA LeavesLine ==
  ASSUME IInv, NEW t, Leaves(t)
  PROVE  /\ task'[t].at = "idle" /\ task'[t].client = None /\ ~ task'[t].pooled
         /\ \A u \in Tasks \ {t} : task'[u] = task[u]
         /\ task' \in [Tasks -> TaskStates']
         /\ line' \in [Adapters -> Seq(Tasks)]
         /\ UNCHANGED queue => Waiting'
         /\ Lined' /\ Turns'
<1> USE DEF IInv, Leaves
<1> DEFINE a == AdapterOf[t]
<1>1. task[t] \in TaskStates /\ a \in Adapters /\ TaskStates' = TaskStates
  BY TypesUsed DEF TaskStates
<1>2. /\ Idle(t) \in TaskStates /\ Idle(t).at = "idle" /\ Idle(t).client = None /\ ~ Idle(t).pooled
      /\ Idle(t).job = task[t].job
  BY <1>1 DEF Idle, TaskStates
<1>3. /\ task'[t] = Idle(t) /\ \A u \in Tasks \ {t} : task'[u] = task[u]
      /\ task' \in [Tasks -> TaskStates']
  BY <1>1, <1>2 DEF Types
<1>4. /\ line[a] \in Seq(Tasks) /\ Once(line[a])
      /\ line'[a] = IF line[a] # <<>> /\ Head(line[a]) = t THEN Tail(line[a]) ELSE line[a]
      /\ \A b \in Adapters \ {a} : line'[b] = line[b]
  BY <1>1 DEF Types, Lined
<1>5. /\ line'[a] \in Seq(Tasks) /\ Once(line'[a])
      /\ Occurs(line'[a]) = Occurs(line[a]) \ {t}
  <2>1. CASE line[a] # <<>> /\ Head(line[a]) = t
    BY <1>4, <2>1, Rested
  <2>2. CASE line[a] = <<>>
    BY <1>4, <2>2, EmptyOnce
  <2>3. CASE line[a] # <<>> /\ Head(line[a]) # t
    <3>1. t \notin Occurs(line[a])
      BY <1>1, <2>3 DEF Lined, First
    <3> QED BY <1>4, <2>3, <3>1
  <2> QED BY <2>1, <2>2, <2>3
<1>6. line' \in [Adapters -> Seq(Tasks)]
  BY <1>1, <1>4, <1>5 DEF Types
<1>7. UNCHANGED queue => Waiting'
  <2>1. t \notin Occurs(queue)
    BY DEF Waiting
  <2> QED BY <1>3, <2>1 DEF Waiting
<1>8. Lined'
  <2>1. ASSUME NEW b \in Adapters
        PROVE  /\ Once(line'[b])
               /\ \A u \in Occurs(line'[b]) :
                    driver' = "mssql" /\ AdapterOf[u] = b /\ task'[u].job = "write" /\ task'[u].at # "idle"
    <3>1. t \notin Occurs(line'[b])
      BY <1>4, <1>5 DEF Lined
    <3>2. Occurs(line'[b]) \subseteq Tasks
      BY <1>6 DEF Occurs
    <3>3. Once(line'[b]) /\ Occurs(line'[b]) \subseteq Occurs(line[b])
      BY <1>4, <1>5 DEF Lined
    <3> QED BY <1>3, <3>1, <3>2, <3>3 DEF Lined
  <2>2. ASSUME NEW u \in Tasks
        PROVE  /\ task'[u].at = "lined" => task'[u].job = "write" /\ u \in Occurs(line'[AdapterOf[u]])
               /\ driver' = "mssql" /\ task'[u].job = "write" /\ task'[u].at \in {"acquiring", "running"}
                    => u \in Occurs(line'[AdapterOf[u]]) /\ First(u)'
    <3>1. CASE u = t
      BY <1>2, <1>3, <3>1
    <3>2. CASE u # t
      <4>1. AdapterOf[u] \in Adapters
        BY DEF Adapters
      <4>2. u \in Occurs(line[AdapterOf[u]]) => u \in Occurs(line'[AdapterOf[u]])
        BY <1>4, <1>5, <3>2, <4>1
      <4>3. u \in Occurs(line[AdapterOf[u]]) /\ First(u) => First(u)'
        <5>1. CASE AdapterOf[u] # a
          BY <1>4, <4>1, <5>1 DEF First
        <5>2. CASE AdapterOf[u] = a
          BY <1>4, <3>2, <5>2 DEF First
        <5> QED BY <5>1, <5>2
      <4> QED BY <1>3, <3>2, <4>2, <4>3 DEF Lined
    <3> QED BY <3>1, <3>2
  <2> QED BY <2>1, <2>2 DEF Lined
<1>9. Turns'
  BY <1>2, <1>3 DEF Turns
<1> QED BY <1>2, <1>3, <1>6, <1>7, <1>8, <1>9

LEMMA CreateRequestKeeps ==
  ASSUME IInv, NEW t \in Tasks, CreateRequest(t)
  PROVE  IInv'
<1>1. /\ task[t].at = "lined" /\ First(t) /\ task[t].job = "write"
      /\ task[t] \in TaskStates /\ ~ task[t].pooled /\ task[t].client = None
      /\ t \in Occurs(line[AdapterOf[t]]) /\ AdapterOf[t] \in Adapters /\ driver = "mssql"
      /\ UNCHANGED <<driver, free, session, adapter>>
  BY TypesUsed DEF CreateRequest, IInv, Lined, Held, HeldBy
<1>2. CASE Mine(t).stale
  <2>1. line[AdapterOf[t]] # <<>>
    BY <1>1, EmptyOnce
  <2>2. Leaves(t) /\ UNCHANGED queue
    <3>1. line' = [line EXCEPT ![AdapterOf[t]] = Tail(@)] /\ task' = [task EXCEPT ![t] = Idle(t)]
          /\ UNCHANGED queue
      BY <1>2 DEF CreateRequest
    <3> QED BY <1>1, <2>1, <3>1 DEF Leaves, First
  <2>3. Types'
    BY <1>1, <2>2, LeavesLine DEF IInv, Types
  <2>4. Waiting' /\ Lined' /\ Turns'
    BY <2>2, LeavesLine
  <2>5. Held'
    BY <1>1, <2>2, LeavesLine DEF IInv, Held, HeldBy, HeldByAdapter, Keeps, Mine
  <2>6. Apart'
    <3>1. task'[t].at = "idle" /\ \A u \in Tasks \ {t} : task'[u] = task[u]
      BY <2>2, LeavesLine
    <3>2. \A u \in Tasks : Keeps(u)' => u # t /\ Keeps(u) /\ task'[u] = task[u]
      BY <1>1, <3>1 DEF Keeps
    <3> QED BY <1>1, <3>2 DEF IInv, Apart
  <2> QED BY <2>3, <2>4, <2>5, <2>6 DEF IInv
<1>3. CASE ~ Mine(t).stale /\ Mine(t).client # None
  <2> DEFINE r == [task[t] EXCEPT !.at = "running", !.client = Mine(t).client]
  <2>1. r \in TaskStates /\ r.at = "running" /\ r.job = "write" /\ r.client = Mine(t).client /\ ~ r.pooled
    BY <1>1, TypesUsed DEF TaskStates, IInv
  <2>2. task' = [task EXCEPT ![t] = r] /\ UNCHANGED <<line, queue>>
    BY <1>3 DEF CreateRequest
  <2>3. Begins(t, r)
    BY <1>1, <2>1, <2>2 DEF Begins
  <2> QED BY <1>3, <2>1, <2>2, <2>3, RunsOnClient
<1>4. CASE ~ Mine(t).stale /\ Mine(t).client = None
  <2> DEFINE r == [task[t] EXCEPT !.at = "acquiring"]
  <2>1. r \in TaskStates /\ r.at = "acquiring" /\ r.job = "write" /\ r.client = None /\ ~ r.pooled
    BY <1>1 DEF TaskStates
  <2>2. task' = [task EXCEPT ![t] = r] /\ UNCHANGED line /\ queue' = Append(queue, t)
    BY <1>4 DEF CreateRequest
  <2>3. Begins(t, r)
    BY <1>1, <2>1, <2>2 DEF Begins
  <2> QED BY <2>1, <2>2, <2>3, WaitsForClient
<1> QED BY <1>2, <1>3, <1>4

Sessions == [Clients -> [by : Adapters \cup {None}, writers : SUBSET Adapters]]

(* An answer that leaves the adapter as it is. *)
LEMMA ReturnsKeeps ==
  ASSUME IInv, NEW t, Leaves(t), task[t].at = "running",
         session' \in Sessions, UNCHANGED <<adapter, queue>>,
         free' = free \/ (Keeps(t) /\ free' = free \cup {task[t].client})
  PROVE  IInv'
<1> USE DEF IInv
<1>1. /\ t \in Tasks /\ UNCHANGED driver
      /\ task'[t].at = "idle" /\ task'[t].client = None /\ ~ task'[t].pooled
      /\ \A u \in Tasks \ {t} : task'[u] = task[u]
      /\ Waiting' /\ Lined' /\ Turns'
  BY LeavesLine DEF Leaves
<1>2. task[t].client \in Pools[driver] /\ task[t].client # None
  BY <1>1, TypesUsed DEF TaskStates, Held, HeldBy
<1>3. Types'
  BY <1>1, <1>2, LeavesLine DEF Types, Sessions
<1>4. \A u \in Tasks : Keeps(u)' => u # t /\ Keeps(u) /\ task'[u] = task[u]
  BY <1>1 DEF Keeps
<1>5. Held'
  <2>1. ASSUME NEW u \in Tasks PROVE HeldBy(u)'
    <3>1. CASE u = t
      BY <1>1, <3>1 DEF HeldBy, Keeps
    <3>2. CASE u # t
      BY <1>1, <3>2 DEF Held, HeldBy, Keeps, Mine
    <3> QED BY <3>1, <3>2
  <2>2. ASSUME NEW b \in Adapters PROVE HeldByAdapter(b)'
    BY <1>1 DEF Held, HeldByAdapter
  <2> QED BY <2>1, <2>2 DEF Held
<1>6. Apart'
  <2>1. CASE free' = free
    BY <1>4, <2>1 DEF Apart
  <2>2. CASE Keeps(t) /\ free' = free \cup {task[t].client}
    BY <1>1, <1>2, <1>4, <2>2 DEF Apart
  <2> QED BY <2>1, <2>2
<1> QED BY <1>1, <1>3, <1>5, <1>6

LEMMA Answering ==
  ASSUME NEW t \in Tasks, Answer(t)
  PROVE  /\ Leaves(t) /\ task[t].at = "running" /\ UNCHANGED <<driver, queue>>
         /\ \E ok \in BOOLEAN :
              \/ WriteAnswered(t, ok)
              \/ BeginAnswered(t, ok)
              \/ ~ InProgress(t) /\ EndAnswered(t, ok)
              \/ EndRefused(t)
  BY DEF Answer, Leaves, LineGoesOn

LEMMA EndAnsweredKeeps ==
  ASSUME IInv, NEW t \in Tasks, NEW ok \in BOOLEAN, Leaves(t), task[t].at = "running",
         UNCHANGED <<driver, queue>>, ~ InProgress(t), EndAnswered(t, ok)
  PROVE  IInv'
<1> USE DEF IInv
<1> DEFINE a == AdapterOf[t]
           c == task[t].client
<1>1. /\ task'[t].at = "idle" /\ task'[t].client = None /\ ~ task'[t].pooled
      /\ \A u \in Tasks \ {t} : task'[u] = task[u]
      /\ Waiting' /\ Lined' /\ Turns'
  BY LeavesLine
<1>2. /\ a \in Adapters /\ c \in Pools[driver] /\ c # None /\ c \in Clients
      /\ task[t].job \in Ends /\ ~ Keeps(t) /\ c = adapter[a].client
  BY TypesUsed DEF TaskStates, Held, HeldBy, EndAnswered, Ends, Keeps, Mine, Types, Clients
<1>3. /\ free' = free \cup {c}
      /\ session' = [session EXCEPT ![c] = Closed]
  BY DEF EndAnswered, Released
<1>4. /\ adapter' \in [Adapters -> [client : Pools[driver] \cup {None}, inTransaction : BOOLEAN,
                                     stale : BOOLEAN]]
      /\ adapter'[a].client = None /\ ~ adapter'[a].inTransaction
      /\ \A b \in Adapters \ {a} : adapter'[b] = adapter[b]
  <2> DEFINE r == Released(t, ok).adapter
  <2>1. adapter' = [adapter EXCEPT ![a] = r]
    BY DEF EndAnswered
  <2>2. r = [Mine(t) EXCEPT !.client = None, !.inTransaction = FALSE,
                            !.stale = (driver = "mssql" /\ ~ ok)]
    BY DEF Released
  <2>3. /\ r \in [client : Pools[driver] \cup {None}, inTransaction : BOOLEAN, stale : BOOLEAN]
        /\ r.client = None /\ ~ r.inTransaction
    <3>1. (driver = "mssql" /\ ~ ok) \in BOOLEAN
      OBVIOUS
    <3>2. Mine(t) \in [client : Pools[driver] \cup {None}, inTransaction : BOOLEAN, stale : BOOLEAN]
      BY <1>2 DEF Mine, Types
    <3> QED BY <2>2, <3>1, <3>2
  <2> HIDE DEF r
  <2> QED BY <1>2, <2>1, <2>3 DEF Types
<1>5. Types'
  <2>1. Closed \in [by : Adapters \cup {None}, writers : SUBSET Adapters]
    BY DEF Closed
  <2>2. session' \in Sessions
    BY <1>3, <2>1 DEF Types, Sessions
  <2> QED BY <1>2, <1>3, <1>4, <2>2, LeavesLine DEF Types, Sessions
<1> HIDE DEF c
<1>6. \A u \in Tasks : Keeps(u)' => u # t /\ Keeps(u) /\ task'[u] = task[u]
  BY <1>1 DEF Keeps
<1>7. Held'
  <2>1. ASSUME NEW u \in Tasks PROVE HeldBy(u)'
    <3>1. CASE u = t
      BY <1>1, <3>1 DEF HeldBy, Keeps
    <3>2. CASE u # t /\ AdapterOf[u] # a
      <4>1. Mine(u)' = Mine(u)
        BY <1>4, <3>2 DEF Mine, Adapters
      <4> QED BY <1>1, <3>2, <4>1 DEF Held, HeldBy, Keeps
    <3>3. CASE u # t /\ AdapterOf[u] = a
      <4>1. task[u].at = "running" => Keeps(u)
        <5>1. driver # "mssql" => task[u].at = "idle"
          BY <3>3 DEF Turns
        <5>2. task[u].client # c \/ task[u].at # "running" \/ driver # "mssql"
          BY <3>3 DEF InProgress, c
        <5>3. task[u].at = "running" /\ ~ Keeps(u) => task[u].client = c
          BY <1>2, <3>3 DEF Held, HeldBy, Mine
        <5> QED BY <5>1, <5>2, <5>3
      <4>2. Mine(u)'.client = None
        BY <1>4, <3>3 DEF Mine
      <4> QED BY <1>1, <3>3, <4>1, <4>2 DEF Held, HeldBy, Keeps
    <3> QED BY <3>1, <3>2, <3>3
  <2>2. ASSUME NEW b \in Adapters PROVE HeldByAdapter(b)'
    BY <1>2, <1>4 DEF Held, HeldByAdapter
  <2> QED BY <2>1, <2>2 DEF Held
<1>8. Apart'
  <2>1. None \notin free'
    BY <1>2, <1>3, PoolAssumption DEF Types, None
  <2>2. /\ \A b \in Adapters : adapter'[b].client \notin free'
        /\ \A b, d \in Adapters :
             adapter'[b].client = adapter'[d].client /\ adapter'[b].client # None => b = d
    BY <1>2, <1>3, <1>4, <2>1 DEF Apart
  <2>3. \A u \in Tasks : Keeps(u) => task[u].client # c /\ task[u].client # None
    BY <1>2 DEF Apart, Held, HeldBy, Keeps
  <2>4. /\ \A u \in Tasks : Keeps(u)' => task'[u].client \notin free'
        /\ \A u \in Tasks, b \in Adapters : Keeps(u)' => task'[u].client # adapter'[b].client
        /\ \A u, v \in Tasks : Keeps(u)' /\ Keeps(v)' /\ task'[u].client = task'[v].client => u = v
    BY <1>3, <1>4, <1>6, <2>3 DEF Apart
  <2> QED BY <2>2, <2>4 DEF Apart
<1> QED BY <1>1, <1>5, <1>7, <1>8

LEMMA BegunKeeps ==
  ASSUME IInv, NEW t \in Tasks, Leaves(t), task[t].at = "running",
         UNCHANGED <<driver, queue>>, BeginAnswered(t, TRUE)
  PROVE  IInv'
<1> USE DEF IInv
<1> DEFINE a == AdapterOf[t]
           c == task[t].client
<1>1. /\ task'[t].at = "idle" /\ task'[t].client = None /\ ~ task'[t].pooled
      /\ \A u \in Tasks \ {t} : task'[u] = task[u]
      /\ Waiting' /\ Lined' /\ Turns'
  BY LeavesLine
<1>2. /\ a \in Adapters /\ c \in Pools[driver] /\ c # None /\ c \in Clients
      /\ task[t].job = "begin" /\ t \in Owners
  <2>1. task[t].job = "begin" /\ t \in Owners
    BY DEF BeginAnswered, Turns
  <2>2. /\ a \in Adapters /\ c \in Pools[driver] /\ c # None /\ c \in Clients
    BY TypesUsed DEF TaskStates, Held, HeldBy, Types, Clients
  <2> QED BY <2>1, <2>2
<1>3. \/ driver = "pg" /\ adapter[a].client = c
      \/ driver # "pg" /\ adapter[a].client = None /\ Keeps(t)
  BY <1>2 DEF Held, HeldBy, Keeps, Mine
<1>4. /\ session' = [session EXCEPT ![c] = [by |-> a, writers |-> {}]]
      /\ adapter' = [adapter EXCEPT ![a].client = c, ![a].inTransaction = TRUE]
      /\ UNCHANGED free
  BY DEF BeginAnswered
<1>5. /\ adapter' \in [Adapters -> [client : Pools[driver] \cup {None}, inTransaction : BOOLEAN,
                                     stale : BOOLEAN]]
      /\ adapter'[a].client = c /\ adapter'[a].inTransaction
      /\ \A b \in Adapters \ {a} : adapter'[b] = adapter[b]
  <2> DEFINE r == [adapter[a] EXCEPT !.client = c, !.inTransaction = TRUE]
  <2>1. adapter' = [adapter EXCEPT ![a] = r]
    BY <1>2, <1>4 DEF Types
  <2>2. /\ r \in [client : Pools[driver] \cup {None}, inTransaction : BOOLEAN, stale : BOOLEAN]
        /\ r.client = c /\ r.inTransaction
    BY <1>2 DEF Types
  <2> HIDE DEF r
  <2> QED BY <1>2, <2>1, <2>2 DEF Types
<1>6. Types'
  <2>1. session' \in Sessions
    BY <1>2, <1>4 DEF Types, Sessions
  <2> QED BY <1>4, <1>5, <2>1, LeavesLine DEF Types, Sessions
<1> HIDE DEF c
<1>7. \A u \in Tasks : Keeps(u)' => u # t /\ Keeps(u) /\ task'[u] = task[u]
  BY <1>1 DEF Keeps
<1>8. Held'
  <2>1. ASSUME NEW u \in Tasks PROVE HeldBy(u)'
    <3>1. CASE u = t
      BY <1>1, <3>1 DEF HeldBy, Keeps
    <3>2. CASE u # t /\ AdapterOf[u] # a
      <4>1. Mine(u)' = Mine(u)
        BY <1>5, <3>2 DEF Mine, Adapters
      <4> QED BY <1>1, <3>2, <4>1 DEF Held, HeldBy, Keeps
    <3>3. CASE u # t /\ AdapterOf[u] = a
      <4>1. task[u].at # "idle" => task[u].job # "begin"
        BY <1>2, <3>3, PoolAssumption DEF Turns
      <4>2. task[u].at = "running" /\ ~ Keeps(u) => task[u].client = adapter[a].client
        BY <3>3 DEF Held, HeldBy, Mine
      <4>3. Mine(u)'.client = c
        BY <1>5, <3>3 DEF Mine
      <4>4. task[u].at = "running" /\ ~ Keeps(u) => task[u].client = c
        BY <1>3, <3>3, <4>2 DEF Held, HeldBy
      <4> QED BY <1>1, <3>3, <4>1, <4>3, <4>4 DEF Held, HeldBy, Keeps
    <3> QED BY <3>1, <3>2, <3>3
  <2>2. ASSUME NEW b \in Adapters PROVE HeldByAdapter(b)'
    BY <1>2, <1>5 DEF Held, HeldByAdapter
  <2> QED BY <2>1, <2>2 DEF Held
<1>9. Apart'
  <2>1. \A u \in Tasks : u # t /\ Keeps(u) => task[u].client # c
    BY <1>2, <1>3 DEF Apart, c
  <2>2. c \notin free
    BY <1>2, <1>3 DEF Apart, c
  <2>3. /\ \A b \in Adapters : adapter'[b].client \notin free'
        /\ \A b, d \in Adapters :
             adapter'[b].client = adapter'[d].client /\ adapter'[b].client # None => b = d
    <3>1. \A b \in Adapters \ {a} : adapter[b].client # c
      BY <1>2, <1>3 DEF Apart, c
    <3> QED BY <1>2, <1>4, <1>5, <2>2, <3>1 DEF Apart
  <2>4. /\ \A u \in Tasks : Keeps(u)' => task'[u].client \notin free'
        /\ \A u \in Tasks, b \in Adapters : Keeps(u)' => task'[u].client # adapter'[b].client
        /\ \A u, v \in Tasks : Keeps(u)' /\ Keeps(v)' /\ task'[u].client = task'[v].client => u = v
    BY <1>4, <1>5, <1>7, <2>1 DEF Apart
  <2> QED BY <2>3, <2>4 DEF Apart
<1> QED BY <1>1, <1>6, <1>8, <1>9

LEMMA AnswerKeeps ==
  ASSUME IInv, NEW t \in Tasks, Answer(t)
  PROVE  IInv'
<1>1. /\ Leaves(t) /\ task[t].at = "running" /\ UNCHANGED <<driver, queue>>
      /\ \E ok \in BOOLEAN :
           \/ WriteAnswered(t, ok)
           \/ BeginAnswered(t, ok)
           \/ ~ InProgress(t) /\ EndAnswered(t, ok)
           \/ EndRefused(t)
  BY Answering
<1>2. PICK ok \in BOOLEAN :
           \/ WriteAnswered(t, ok)
           \/ BeginAnswered(t, ok)
           \/ ~ InProgress(t) /\ EndAnswered(t, ok)
           \/ EndRefused(t)
  BY <1>1
<1>3. session \in Sessions /\ AdapterOf[t] \in Adapters
  BY TypesUsed DEF IInv, Types, Sessions
<1>4. CASE WriteAnswered(t, ok)
  <2> DEFINE c == task[t].client
             w == IF ok /\ session[c].by # None THEN session[c].writers \cup {AdapterOf[t]}
                  ELSE session[c].writers
  <2>1. session' = [session EXCEPT ![c].writers = w]
    BY <1>4 DEF WriteAnswered
  <2>2. c \in Clients
    BY <1>1, TypesUsed DEF TaskStates, IInv, Types, Held, HeldBy, Clients
  <2>3. w \in SUBSET Adapters
    BY <1>3, <2>2 DEF Sessions
  <2> HIDE DEF w, c
  <2>4. session' \in Sessions
    BY <1>3, <2>1, <2>2, <2>3 DEF Sessions
  <2>5. task[t].pooled => Keeps(t)
    BY <1>1, <1>4 DEF WriteAnswered, Keeps
  <2>6. UNCHANGED adapter /\ (free' = free \/ (Keeps(t) /\ free' = free \cup {task[t].client}))
    BY <1>4, <2>5 DEF WriteAnswered
  <2> QED BY <1>1, <2>4, <2>6, ReturnsKeeps
<1>5. CASE BeginAnswered(t, TRUE)
  BY <1>1, <1>5, BegunKeeps
<1>6. CASE BeginAnswered(t, FALSE)
  <2>1. driver = "mssql" => Keeps(t)
    BY <1>1, <1>6 DEF BeginAnswered, Keeps
  <2>2. /\ UNCHANGED <<adapter, session>>
        /\ (free' = free \/ (Keeps(t) /\ free' = free \cup {task[t].client}))
    BY <1>6, <2>1 DEF BeginAnswered
  <2>3. session' \in Sessions
    BY <1>3, <2>2 DEF Sessions, Clients, Adapters
  <2> QED BY <1>1, <2>2, <2>3, ReturnsKeeps
<1>7. CASE ~ InProgress(t) /\ EndAnswered(t, ok)
  BY <1>1, <1>7, EndAnsweredKeeps
<1>8. CASE EndRefused(t)
  <2>1. UNCHANGED <<adapter, session, free>>
    BY <1>8 DEF EndRefused
  <2>2. session' \in Sessions
    BY <1>1, <1>3, <2>1 DEF Sessions, Clients, Adapters
  <2> QED BY <1>1, <2>1, <2>2, ReturnsKeeps
<1> QED BY <1>2, <1>4, <1>5, <1>6, <1>7, <1>8

-----------------------------------------------------------------------------
(* The invariant, and what follows from it. *)

LEMMA Initially ==
  ASSUME Init
  PROVE  IInv
<1> USE DEF Init
<1>1. driver \in Drivers /\ free = Pools[driver] /\ None \notin free
  BY PoolAssumption DEF Clients, None
<1>2. Types
  <2>1. task \in [Tasks -> TaskStates]
    BY DEF TaskStates, Jobs
  <2>2. session \in Sessions /\ queue \in Seq(Tasks) /\ line \in [Adapters -> Seq(Tasks)]
    BY DEF Sessions, Closed
  <2>3. adapter \in [Adapters -> [client : Pools[driver] \cup {None}, inTransaction : BOOLEAN,
                                  stale : BOOLEAN]]
    OBVIOUS
  <2> QED BY <1>1, <2>1, <2>2, <2>3 DEF Types, Sessions
<1>3. Waiting /\ Lined /\ Turns
  BY EmptyOnce DEF Waiting, Lined, Turns, Adapters
<1>4. Held
  BY DEF Held, HeldBy, HeldByAdapter, Keeps, Mine, Adapters
<1>5. Apart
  BY <1>1 DEF Apart, Keeps
<1> QED BY <1>2, <1>3, <1>4, <1>5 DEF IInv

LEMMA StepKeeps ==
  ASSUME IInv, [Next]_vars
  PROVE  IInv'
<1>1. CASE Grant
  BY <1>1, GrantKeeps
<1>2. ASSUME NEW t \in Tasks,
             Write(t) \/ CreateRequest(t) \/ BeginTransaction(t) \/ End(t) \/ Close(t) \/ Answer(t)
      PROVE  IInv'
  BY <1>2, WriteKeeps, CreateRequestKeeps, BeginTransactionKeeps, EndKeeps, CloseKeeps, AnswerKeeps
<1>3. CASE UNCHANGED vars
  BY <1>3 DEF vars, IInv, Types, TaskStates, Waiting, Lined, First, Turns, Held, HeldBy, HeldByAdapter,
              Keeps, Mine, Apart
<1> QED BY <1>1, <1>2, <1>3 DEF Next

THEOREM Invariant == Spec => []IInv
<1>1. Init => IInv
  BY Initially
<1>2. IInv /\ [Next]_vars => IInv'
  BY StepKeeps
<1> QED BY <1>1, <1>2, PTL DEF Spec

(* mssql's requests are made one at a time on each adapter, whatever fails *)
(* and however many tasks call: the line of serialQueue is what keeps them *)
(* apart (runSerial()).                                                    *)
THEOREM OneAtATime == Spec => []SingleFlight
<1>1. IInv => SingleFlight
  BY DEF IInv, Lined, First, SingleFlight
<1> QED BY <1>1, Invariant, PTL

(* Calls take nothing from the pool before it serves them. *)
LEMMA CallsTakeNothing ==
  ASSUME IInv, NEW t \in Tasks,
         Write(t) \/ CreateRequest(t) \/ BeginTransaction(t) \/ End(t) \/ (Close(t) /\ EndsFirst)
  PROVE  /\ UNCHANGED <<driver, free, session, adapter>>
         /\ \A u \in Tasks : task'[u].client = task[u].client \/ task[u].client = None
<1>1. task[t].at \in {"idle", "lined"}
  BY DEF Write, CreateRequest, BeginTransaction, End, Close, Calling
<1>2. task[t].client = None
  BY <1>1 DEF IInv, Held, HeldBy
<1>3. UNCHANGED <<driver, free, session, adapter>>
  BY DEF Write, CreateRequest, BeginTransaction, End, Close, Calling
<1>4. \E r : task' = [task EXCEPT ![t] = r]
  BY DEF Write, CreateRequest, BeginTransaction, End, Close, OnClient, FromPool
<1>5. \A u \in Tasks \ {t} : task'[u] = task[u]
  BY <1>4 DEF IInv, Types
<1> QED BY <1>2, <1>3, <1>5

LEMMA GrantTakes ==
  ASSUME IInv, Grant
  PROVE  \E c \in free, t \in Tasks :
           /\ task'[t].client = c /\ task[t].client = None
           /\ \A u \in Tasks \ {t} : task'[u] = task[u]
           /\ free' = free \ {c} /\ UNCHANGED <<driver, session>>
           /\ \A b \in Adapters : adapter'[b].client = adapter[b].client \/ adapter[b].client = None
<1> DEFINE t == Head(queue)
<1>1. t \in Occurs(queue) /\ t \in Tasks
  BY Rested DEF Grant, IInv, Types, Waiting
<1>2. PICK c \in free :
        /\ free' = free \ {c}
        /\ task' = [task EXCEPT ![t] = [@ EXCEPT !.at = "running", !.client = c,
                                                 !.pooled = (task[t].job = "write")]]
        /\ adapter' = IF driver = "pg" /\ task[t].job = "begin"
                      THEN [adapter EXCEPT ![AdapterOf[t]].client = c] ELSE adapter
        /\ UNCHANGED <<driver, session>>
  BY DEF Grant
<1> HIDE DEF t
<1>3. task[t].client = None /\ (task[t].job = "begin" => adapter[AdapterOf[t]].client = None)
  BY <1>1 DEF IInv, Waiting, Held, HeldBy, Mine
<1>4. task'[t].client = c /\ \A u \in Tasks \ {t} : task'[u] = task[u]
  BY <1>1, <1>2 DEF IInv, Types, TaskStates
<1>5. \A b \in Adapters : adapter'[b].client = adapter[b].client \/ adapter[b].client = None
  BY <1>2, <1>3 DEF IInv, Types
<1> QED BY <1>1, <1>2, <1>3, <1>4, <1>5

(* What is known of the client of a call when its answer comes. *)
LEMMA AnsweredClient ==
  ASSUME IInv, NEW t \in Tasks, task[t].at = "running"
  PROVE  /\ AdapterOf[t] \in Adapters
         /\ task[t].client \in Clients /\ task[t].client # None
         /\ ~ Keeps(t) => adapter[AdapterOf[t]].client = task[t].client
         /\ Keeps(t) => \A a \in Adapters : adapter[a].client # task[t].client
<1>1. AdapterOf[t] \in Adapters /\ task[t].client \in Clients /\ task[t].client # None
  BY TypesUsed DEF TaskStates, IInv, Types, Held, HeldBy, Clients
<1>2. ~ Keeps(t) => adapter[AdapterOf[t]].client = task[t].client
  BY DEF IInv, Held, HeldBy, Mine
<1>3. Keeps(t) => \A a \in Adapters : adapter[a].client # task[t].client
  BY DEF IInv, Apart
<1> QED BY <1>1, <1>2, <1>3

(* How commit(), rollBack() and close() leave the adapter. *)
LEMMA EndedClient ==
  ASSUME IInv, NEW t \in Tasks, NEW ok, task[t].at = "running", EndAnswered(t, ok)
  PROVE  /\ adapter'[AdapterOf[t]].client = None
         /\ \A a \in Adapters \ {AdapterOf[t]} : adapter'[a] = adapter[a]
         /\ free' = free \cup {task[t].client}
         /\ session' = [session EXCEPT ![task[t].client] = Closed]
         /\ ~ Keeps(t)
<1>1. AdapterOf[t] \in Adapters
  BY AnsweredClient
<1>2. Released(t, ok).adapter.client = None
  BY <1>1 DEF Released, Mine, IInv, Types
<1> QED BY <1>1, <1>2 DEF EndAnswered, Released, Keeps, IInv, Types

LEMMA NoneLostKept ==
  ASSUME IInv, NoneLost, [Next]_vars, <<"mysql2", "begin">> \notin Faults
  PROVE  NoneLost'
<1>1. CASE Grant
  <2>1. PICK c \in free, t \in Tasks :
           /\ task'[t].client = c /\ task[t].client = None
           /\ \A u \in Tasks \ {t} : task'[u] = task[u]
           /\ free' = free \ {c} /\ UNCHANGED <<driver, session>>
           /\ \A b \in Adapters : adapter'[b].client = adapter[b].client \/ adapter[b].client = None
    BY <1>1, GrantTakes
  <2>2. None \notin Pools[driver]
    BY PoolAssumption DEF None, IInv, Types
  <2> QED BY <2>1, <2>2 DEF NoneLost
<1>2. ASSUME NEW t \in Tasks,
             Write(t) \/ CreateRequest(t) \/ BeginTransaction(t) \/ End(t) \/ (Close(t) /\ EndsFirst)
      PROVE  NoneLost'
  <2>1. /\ UNCHANGED <<driver, free, session, adapter>>
        /\ \A u \in Tasks : task'[u].client = task[u].client \/ task[u].client = None
    BY <1>2, CallsTakeNothing
  <2>2. None \notin Pools[driver]
    BY PoolAssumption DEF None, IInv, Types
  <2> QED BY <2>1, <2>2 DEF NoneLost
<1>3. ASSUME NEW t \in Tasks, Close(t), ~ EndsFirst
      PROVE  NoneLost'
  <2>1. /\ UNCHANGED <<driver, task>> /\ free' = free \cup {adapter[AdapterOf[t]].client}
        /\ adapter' = [adapter EXCEPT ![AdapterOf[t]].client = None, ![AdapterOf[t]].inTransaction = FALSE]
    BY <1>3 DEF Close, Calling, Mine
  <2>2. \A b \in Adapters \ {AdapterOf[t]} : adapter'[b] = adapter[b]
    BY <2>1 DEF IInv, Types
  <2> QED BY <2>1, <2>2, ZenonT(60) DEF NoneLost
<1>4. ASSUME NEW t \in Tasks, Answer(t)
      PROVE  NoneLost'
  <2> DEFINE a == AdapterOf[t]
             c == task[t].client
  <2>1. Leaves(t) /\ task[t].at = "running" /\ UNCHANGED driver
    BY <1>4, Answering
  <2>2. \A u \in Tasks \ {t} : task'[u] = task[u]
    BY <2>1, LeavesLine
  <2>3. a \in Adapters /\ (~ Keeps(t) => adapter[a].client = c)
    BY <2>1, AnsweredClient
  <2>4. PICK ok \in IF CanFail(task[t].job) THEN BOOLEAN ELSE {TRUE} :
           \/ WriteAnswered(t, ok)
           \/ BeginAnswered(t, ok)
           \/ ~ InProgress(t) /\ EndAnswered(t, ok)
           \/ EndRefused(t)
    BY <1>4 DEF Answer
  <2> SUFFICES /\ \A b \in Adapters : /\ adapter[b].client # c
                                      => adapter'[b].client = adapter[b].client \/ adapter[b].client = None
               /\ free \subseteq free'
               /\ c \in free' \/ adapter'[a].client = c
    <3>1. None \notin Pools[driver]
      BY PoolAssumption DEF None, IInv, Types
    <3> QED BY <2>1, <2>2, <2>3, <3>1 DEF NoneLost
  <2>5. CASE WriteAnswered(t, ok)
    <3>1. ~ task[t].pooled => ~ Keeps(t)
      BY <2>5 DEF WriteAnswered, Keeps
    <3> QED BY <2>3, <2>5, <3>1 DEF WriteAnswered
  <2>6. CASE BeginAnswered(t, ok) /\ ok
    <3>1. adapter'[a].client = c /\ \A b \in Adapters \ {a} : adapter'[b] = adapter[b]
      BY <2>3, <2>6 DEF BeginAnswered, IInv, Types
    <3>2. adapter[a].client = c \/ adapter[a].client = None
      BY <2>1, <2>3, <2>6 DEF BeginAnswered, IInv, Held, HeldBy, Mine
    <3>3. UNCHANGED free
      BY <2>6 DEF BeginAnswered
    <3> QED BY <2>3, <3>1, <3>2, <3>3
  <2>7. CASE BeginAnswered(t, ok) /\ ~ ok
    <3>1. task[t].job = "begin" /\ CanFail("begin")
      BY <2>4, <2>7 DEF BeginAnswered
    <3>2. driver # "mysql2"
      BY <3>1 DEF CanFail
    <3>3. driver = "mssql" \/ ~ Keeps(t)
      BY <3>1, <3>2, PoolAssumption DEF Keeps, IInv, Types
    <3> QED BY <2>3, <2>7, <3>3 DEF BeginAnswered
  <2>8. CASE EndAnswered(t, ok)
    BY <2>1, <2>3, <2>8, EndedClient
  <2>9. CASE EndRefused(t)
    <3>1. ~ Keeps(t)
      BY <2>9 DEF EndRefused, Keeps
    <3> QED BY <2>3, <2>9, <3>1 DEF EndRefused
  <2> QED BY <2>4, <2>5, <2>6, <2>7, <2>8, <2>9
<1>5. CASE UNCHANGED vars
  BY <1>5 DEF vars, NoneLost
<1> QED BY <1>1, <1>2, <1>3, <1>4, <1>5 DEF Next

(* With any number of Connections and tasks no client gets lost, whatever  *)
(* fails but mysql2's BEGIN: each is in the pool, an adapter's or in use.  *)
THEOREM ClientsConserved ==
  ASSUME <<"mysql2", "begin">> \notin Faults
  PROVE  Spec => []NoneLost
<1>1. Init => NoneLost
  BY DEF Init, NoneLost
<1>2. IInv /\ NoneLost /\ [Next]_vars => NoneLost'
  BY NoneLostKept
<1> QED BY <1>1, <1>2, Invariant, PTL DEF Spec

LEMMA OwnedKept ==
  ASSUME IInv, Owned, [Next]_vars, ~ Abandoning
  PROVE  Owned'
<1> USE DEF Owned
<1>1. CASE Grant
  <2>1. \E c \in free, t \in Tasks :
           /\ UNCHANGED <<driver, session>>
           /\ \A b \in Adapters : adapter'[b].client = adapter[b].client \/ adapter[b].client = None
    BY <1>1, GrantTakes
  <2>2. None \notin Clients /\ \A c \in Clients : session[c].by \in Adapters \cup {None}
    BY PoolAssumption DEF None, IInv, Types, Clients
  <2> QED BY <2>1, <2>2
<1>2. ASSUME NEW t \in Tasks,
             Write(t) \/ CreateRequest(t) \/ BeginTransaction(t) \/ End(t) \/ Close(t)
      PROVE  Owned'
  <2>1. Close(t) => EndsFirst
    BY DEF Close, EndsFirst
  <2>2. UNCHANGED <<driver, free, session, adapter>>
    BY <1>2, <2>1, CallsTakeNothing
  <2> QED BY <2>2
<1>3. ASSUME NEW t \in Tasks, Answer(t)
      PROVE  Owned'
  <2> DEFINE a == AdapterOf[t]
             c == task[t].client
  <2>1. task[t].at = "running"
    BY <1>3, Answering
  <2>2. /\ a \in Adapters /\ c \in Clients /\ c # None
        /\ ~ Keeps(t) => adapter[a].client = c
        /\ Keeps(t) => \A b \in Adapters : adapter[b].client # c
    BY <2>1, AnsweredClient
  <2>3. \A d \in Clients : session[d].by \in Adapters \cup {None} /\ d # None
    BY PoolAssumption DEF None, IInv, Types, Clients
  <2>4. \A b, d \in Adapters : adapter[b].client = adapter[d].client /\ adapter[b].client # None => b = d
    BY DEF IInv, Apart
  <2>5. PICK ok \in BOOLEAN :
           \/ WriteAnswered(t, ok)
           \/ BeginAnswered(t, ok)
           \/ ~ InProgress(t) /\ EndAnswered(t, ok)
           \/ EndRefused(t)
    BY <1>3, Answering
  <2>6. CASE WriteAnswered(t, ok)
    <3> DEFINE w == IF ok /\ session[c].by # None THEN session[c].writers \cup {a} ELSE session[c].writers
    <3>1. session' = [session EXCEPT ![c].writers = w] /\ UNCHANGED adapter
      BY <2>6 DEF WriteAnswered
    <3>2. session[c].by # None => session[c].by = a
      BY <2>2, <2>3, <2>4
    <3>3. w \subseteq {session[c].by}
      BY <2>2, <3>2
    <3> HIDE DEF w
    <3>4. /\ session'[c].by = session[c].by /\ session'[c].writers = w
          /\ \A d \in Clients \ {c} : session'[d] = session[d]
      BY <2>2, <3>1 DEF IInv, Types
    <3> QED BY <3>1, <3>3, <3>4
  <2>7. CASE BeginAnswered(t, ok) /\ ok
    <3>1. /\ session' = [session EXCEPT ![c] = [by |-> a, writers |-> {}]]
          /\ adapter' = [adapter EXCEPT ![a].client = c, ![a].inTransaction = TRUE]
      BY <2>7 DEF BeginAnswered
    <3>2. adapter'[a].client = c /\ \A b \in Adapters \ {a} : adapter'[b] = adapter[b]
      BY <2>2, <3>1 DEF IInv, Types
    <3>3. adapter[a].client = c \/ adapter[a].client = None
      BY <2>1, <2>2, <2>7 DEF BeginAnswered, IInv, Held, HeldBy, Mine
    <3>4. /\ session'[c] = [by |-> a, writers |-> {}]
          /\ \A d \in Clients \ {c} : session'[d] = session[d]
      BY <2>2, <3>1 DEF IInv, Types
    <3>5. \A d \in Clients \ {c} : session[d].by # a
      BY <2>2, <2>3, <3>3, PoolAssumption DEF None, Adapters
    <3> QED BY <2>2, <2>3, <3>2, <3>4, <3>5
  <2>8. CASE BeginAnswered(t, ok) /\ ~ ok
    BY <2>8 DEF BeginAnswered
  <2>9. CASE EndAnswered(t, ok)
    <3>1. /\ adapter'[a].client = None /\ \A b \in Adapters \ {a} : adapter'[b] = adapter[b]
          /\ session' = [session EXCEPT ![c] = Closed] /\ ~ Keeps(t)
      BY <2>1, <2>9, EndedClient
    <3>2. /\ session'[c] = Closed
          /\ \A d \in Clients \ {c} : session'[d] = session[d]
      BY <2>2, <3>1 DEF IInv, Types
    <3>3. \A d \in Clients \ {c} : session[d].by # None => session[d].by # a
      BY <2>2, <3>1
    <3> QED BY <2>2, <2>3, <3>1, <3>2, <3>3 DEF Closed
  <2>10. CASE EndRefused(t)
    BY <2>10 DEF EndRefused
  <2> QED BY <2>5, <2>6, <2>7, <2>8, <2>9, <2>10
<1>4. CASE UNCHANGED vars
  BY <1>4 DEF vars
<1> QED BY <1>1, <1>2, <1>3, <1>4 DEF Next

(* With any number of Connections on one pool, whatever fails and however  *)
(* commit(), rollBack() and close() are refused, no statement lands in a   *)
(* transaction of another Connection, the pool has no client with an open  *)
(* transaction, and mssql's requests go one at a time - as long as mysql2's*)
(* close() is not called in a transaction.                                 *)
THEOREM Isolation ==
  ASSUME ~ Abandoning
  PROVE  Spec => []Isolated
<1>1. Init => Owned
  BY DEF Init, Owned, Closed
<1>2. IInv /\ Owned /\ [Next]_vars => Owned'
  BY OwnedKept
<1>3. IInv /\ Owned => OwnTransaction
  <2> SUFFICES ASSUME IInv, Owned, NEW c \in free PROVE session[c].by = None
    BY DEF Owned, OwnTransaction
  <2>1. c \in Clients
    BY DEF IInv, Types, Clients
  <2>2. session[c].by \in Adapters \cup {None}
    BY <2>1 DEF IInv, Types
  <2> QED BY <2>1, <2>2 DEF IInv, Apart, Owned
<1> QED BY <1>1, <1>2, <1>3, Invariant, OneAtATime, PTL DEF Spec, Isolated
=============================================================================
