----------------------- MODULE PrimaryReadReplicaProofs -----------------------
(***************************************************************************)
(* Proofs about PrimaryReadReplica, for any number of tasks, any calls,    *)
(* options, faults and bounds.                                             *)
(*                                                                         *)
(* A task is in the middle of a call: what it does next is right only if   *)
(* what its earlier steps established still holds.  The invariant says,    *)
(* for each step a task has still to do, what it relies on (Ready), which  *)
(* steps come before it (Shaped) and that a statement which needs the      *)
(* primary comes after a switch to it (Demands); and of the Connection,    *)
(* that a level means that the primary is the current connection.  All of  *)
(* it is about behaviours in which no call has crossed another one.        *)
(***************************************************************************)
EXTENDS PrimaryReadReplica, TLAPS

StepNames ==
  {"read", "write", "begin", "commit", "rollBack", "toPrimary", "toReplica", "close",
   "connect", "connectActive", "openPrimary", "openReplica", "adopt", "connected",
   "left", "leftNested"}

Conn == [role : Roles, inTx : BOOLEAN, alive : BOOLEAN, open : BOOLEAN]

(* The variables, but for the tasks, have the types of their fields. *)
Fields ==
  /\ options \in [autoCommit : BOOLEAN, keepReplica : BOOLEAN]
  /\ conns \in Seq(Conn)
  /\ current \in 0 .. Len(conns)
  /\ cache \in [primary : 0 .. Len(conns), replica : 0 .. Len(conns)]
  /\ level \in Nat
  /\ last \in [stmt : {"none", "read", "write"}, conn : 0 .. Len(conns),
               within : BOOLEAN, inTx : BOOLEAN, stuck : BOOLEAN]
  /\ stuck \in BOOLEAN

TypeOK ==
  /\ Fields
  /\ tasks \in [Tasks -> [todo : Seq(StepNames), conn : 0 .. Len(conns)]]

-----------------------------------------------------------------------------
(* The steps that are sent over the driver connection the task holds.      *)
Statements == {"read", "write", "begin", "commit", "rollBack"}

(* The steps that leave the Connection on the primary. *)
Switches == {"toPrimary", "openPrimary"}

(* A statement that needs the primary comes before any switch to it.       *)
Demands(todo) ==
  \E i \in DOMAIN todo :
    /\ todo[i] \in Statements \ {"read"}
    /\ \A j \in 1 .. i - 1 : todo[j] \notin Switches

(* Which step may come right after which: a statement follows the step     *)
(* that hands the task its driver connection.                              *)
Follows(before, step) ==
  /\ step \in {"read", "write", "begin"} => before \in {"connect", "adopt", "connected"}
  /\ step \in {"commit", "rollBack"} => before = "connectActive"
  /\ step = "adopt" => before \in {"openPrimary", "openReplica"}
  /\ step = "connected" => before \in {"begin", "write"}
  /\ step \notin {"toReplica", "close", "openPrimary", "openReplica"}
  /\ before \notin {"rollBack", "left", "leftNested"}

(* commit() has a finally block; what ends a program has nothing after it. *)
Shaped(todo) ==
  /\ \A i \in 2 .. Len(todo) : Follows(todo[i - 1], todo[i])
  /\ \A i \in 1 .. Len(todo) : todo[i] = "commit" => i < Len(todo) /\ todo[i + 1] = "left"

OnPrimary == current # 0 /\ current = cache.primary

(* What the next step of a task that is not idle relies on.                *)
Ready(todo, k) ==
  /\ k \in {0, current}
  /\ todo[1] \in Statements \cup {"adopt"} => k # 0
  /\ todo[1] = "connected" => current # 0
  /\ todo[1] \in {"commit", "rollBack"} => level # 0
  /\ todo[1] = "openPrimary" => cache.primary = 0
  /\ todo[1] = "openReplica" => cache.replica = 0 /\ level = 0 /\ ~ Demands(todo)
  /\ todo[1] \in {"toReplica", "openReplica"} => ~ stuck
  /\ todo[1] \in {"toReplica", "close"} => Len(todo) = 1

Holds(todo, k) ==
  /\ Shaped(todo)
  /\ Demands(todo) => OnPrimary
  /\ (\E i \in DOMAIN todo : todo[i] = "leftNested") => level > 1
  /\ todo # <<>> => Ready(todo, k)

Leaving == \E t \in Tasks : Next2Do(t, "left")

(* The server has the transaction that the level counts, unless its COMMIT *)
(* has been answered and the level is about to be left.                    *)
HasTransaction == level > 1 \/ (level = 1 /\ ~ Leaving) => conns[current].inTx

PrimaryCached == cache.primary # 0 => conns[cache.primary].role = "primary"

Executed ==
  /\ last.stmt # "none" => last.conn # 0
  /\ WritesRouted /\ ReadsStick
  /\ last.within => last.inTx

Sound ==
  /\ PrimaryCached
  /\ ReplicaFollowsPrimary
  /\ level # 0 => OnPrimary
  /\ stuck => OnPrimary
  /\ HasTransaction
  /\ Executed

Live == Sound /\ \A t \in Tasks : Holds(tasks[t].todo, tasks[t].conn)

IInv == ~ crossed => TypeOK /\ Live

-----------------------------------------------------------------------------
(* Sequences of steps. *)

LEMMA DemandsTail ==
  ASSUME NEW todo \in Seq(StepNames), todo # <<>>, Demands(Tail(todo))
  PROVE  Demands(todo) \/ todo[1] \in Switches
<1>1. PICK i \in DOMAIN Tail(todo) :
        /\ Tail(todo)[i] \in Statements \ {"read"}
        /\ \A j \in 1 .. i - 1 : Tail(todo)[j] \notin Switches
  BY DEF Demands
<1>2. /\ i + 1 \in DOMAIN todo /\ Tail(todo)[i] = todo[i + 1]
      /\ \A j \in 1 .. i - 1 : Tail(todo)[j] = todo[j + 1]
  BY <1>1
<1>3. ASSUME todo[1] \notin Switches
      PROVE  \A j \in 1 .. (i + 1) - 1 : todo[j] \notin Switches
  <2>1. ASSUME NEW j \in 2 .. i PROVE todo[j] \notin Switches
    <3>1. j - 1 \in 1 .. i - 1 /\ todo[(j - 1) + 1] = todo[j]
      BY <2>1
    <3> QED BY <1>1, <1>2, <3>1
  <2> QED BY <1>1, <1>3, <2>1
<1> QED BY <1>1, <1>2, <1>3 DEF Demands

LEMMA DemandsCons ==
  ASSUME NEW x \in StepNames, x \notin Statements \ {"read"},
         NEW rest \in Seq(StepNames), Demands(<<x>> \o rest)
  PROVE  Demands(rest) /\ x \notin Switches
<1> DEFINE todo == <<x>> \o rest
<1>1. todo \in Seq(StepNames) /\ todo # <<>> /\ Tail(todo) = rest /\ todo[1] = x
  OBVIOUS
<1>2. PICK i \in DOMAIN todo :
        /\ todo[i] \in Statements \ {"read"}
        /\ \A j \in 1 .. i - 1 : todo[j] \notin Switches
  BY DEF Demands
<1>3. i # 1 /\ i \in Nat
  BY <1>1, <1>2
<1>4. i - 1 \in DOMAIN rest /\ rest[i - 1] = todo[i]
  BY <1>2, <1>3
<1>5. \A j \in 1 .. (i - 1) - 1 : j + 1 \in 1 .. i - 1 /\ rest[j] = todo[j + 1]
  BY <1>2, <1>3, <1>4
<1>6. Demands(rest)
  BY <1>2, <1>4, <1>5 DEF Demands
<1>7. 1 \in 1 .. i - 1
  BY <1>3, <1>2
<1> QED BY <1>1, <1>2, <1>6, <1>7

(* A program that begins with a switch demands nothing before it.          *)
LEMMA DemandsSwitch ==
  ASSUME NEW todo \in Seq(StepNames), todo[1] \in Switches
  PROVE  ~ Demands(todo)
<1> SUFFICES ASSUME Demands(todo) PROVE FALSE
  OBVIOUS
<1>1. PICK i \in DOMAIN todo :
        /\ todo[i] \in Statements \ {"read"}
        /\ \A j \in 1 .. i - 1 : todo[j] \notin Switches
  BY DEF Demands
<1>2. i # 1
  BY <1>1 DEF Statements, Switches
<1>3. 1 \in 1 .. i - 1
  BY <1>1, <1>2
<1> QED BY <1>1, <1>3

LEMMA ShapedTail ==
  ASSUME NEW todo \in Seq(StepNames), todo # <<>>, Shaped(todo)
  PROVE  /\ Tail(todo) \in Seq(StepNames)
         /\ Shaped(Tail(todo))
         /\ Tail(todo) # <<>> => Follows(todo[1], Tail(todo)[1])
<1>1. Tail(todo) \in Seq(StepNames) /\ Len(Tail(todo)) = Len(todo) - 1
  OBVIOUS
<1>2. \A i \in 1 .. Len(Tail(todo)) : Tail(todo)[i] = todo[i + 1]
  OBVIOUS
<1>3. ASSUME NEW i \in 2 .. Len(Tail(todo))
      PROVE  Follows(Tail(todo)[i - 1], Tail(todo)[i])
  <2>1. i + 1 \in 2 .. Len(todo) /\ i - 1 \in 1 .. Len(Tail(todo)) /\ (i - 1) + 1 = (i + 1) - 1
    BY <1>1
  <2>2. Follows(todo[(i + 1) - 1], todo[i + 1])
    BY <2>1 DEF Shaped
  <2> QED BY <1>2, <2>1, <2>2
<1>4. Tail(todo) # <<>> => Follows(todo[1], Tail(todo)[1])
  <2> SUFFICES ASSUME Tail(todo) # <<>> PROVE Follows(todo[1], Tail(todo)[1])
    OBVIOUS
  <2>1. 2 \in 2 .. Len(todo) /\ 2 - 1 = 1 /\ Tail(todo)[1] = todo[2]
    BY <1>1
  <2>2. Follows(todo[2 - 1], todo[2])
    BY <2>1 DEF Shaped
  <2> QED BY <2>1, <2>2
<1>5. ASSUME NEW i \in 1 .. Len(Tail(todo)), Tail(todo)[i] = "commit"
      PROVE  i < Len(Tail(todo)) /\ Tail(todo)[i + 1] = "left"
  <2>1. i + 1 \in 1 .. Len(todo) /\ todo[i + 1] = "commit"
    BY <1>1, <1>2, <1>5
  <2>2. i + 1 < Len(todo) /\ todo[(i + 1) + 1] = "left"
    BY <2>1 DEF Shaped
  <2>3. i + 1 \in 1 .. Len(Tail(todo))
    BY <1>1, <2>2
  <2> QED BY <1>1, <1>2, <2>2, <2>3
<1> QED BY <1>1, <1>3, <1>4, <1>5 DEF Shaped

LEMMA ShapedJoin ==
  ASSUME NEW a \in Seq(StepNames), NEW b \in Seq(StepNames), Shaped(a), Shaped(b), a # <<>>,
         b # <<>> => Follows(a[Len(a)], b[1])
  PROVE  /\ a \o b \in Seq(StepNames) /\ a \o b # <<>>
         /\ Shaped(a \o b)
         /\ (a \o b)[1] = a[1]
         /\ b # <<>> => (a \o b)[Len(a \o b)] = b[Len(b)]
         /\ Len(a \o b) = Len(a) + Len(b)
<1>1. a \o b \in Seq(StepNames) /\ a \o b # <<>> /\ (a \o b)[1] = a[1] /\ Len(a \o b) = Len(a) + Len(b)
  OBVIOUS
<1>2. /\ \A i \in 1 .. Len(a) : (a \o b)[i] = a[i]
      /\ \A i \in Len(a) + 1 .. Len(a) + Len(b) : (a \o b)[i] = b[i - Len(a)]
  OBVIOUS
<1>3. ASSUME NEW i \in 2 .. Len(a \o b)
      PROVE  Follows((a \o b)[i - 1], (a \o b)[i])
  <2>1. CASE i \in 2 .. Len(a)
    <3>1. i - 1 \in 1 .. Len(a) /\ i \in 1 .. Len(a)
      BY <2>1
    <3> QED BY <1>2, <2>1, <3>1 DEF Shaped
  <2>2. CASE i = Len(a) + 1
    <3>1. /\ i - 1 = Len(a) /\ Len(a) \in 1 .. Len(a)
          /\ b # <<>> /\ i - Len(a) = 1 /\ i \in Len(a) + 1 .. Len(a) + Len(b)
      BY <1>1, <2>2
    <3>2. (a \o b)[i - 1] = a[Len(a)] /\ (a \o b)[i] = b[1]
      BY <1>2, <3>1
    <3> QED BY <3>1, <3>2
  <2>3. CASE i \in Len(a) + 2 .. Len(a) + Len(b)
    <3> DEFINE k == i - Len(a)
    <3>1. k \in 2 .. Len(b) /\ i \in Len(a) + 1 .. Len(a) + Len(b)
          /\ i - 1 \in Len(a) + 1 .. Len(a) + Len(b) /\ (i - 1) - Len(a) = k - 1
      BY <2>3
    <3>2. (a \o b)[i - 1] = b[k - 1] /\ (a \o b)[i] = b[k]
      BY <1>2, <3>1
    <3> QED BY <3>1, <3>2 DEF Shaped
  <2> QED BY <1>1, <2>1, <2>2, <2>3
<1>4. b # <<>> => (a \o b)[Len(a \o b)] = b[Len(b)]
  <2> SUFFICES ASSUME b # <<>> PROVE (a \o b)[Len(a \o b)] = b[Len(b)]
    OBVIOUS
  <2>1. Len(b) \in Nat \ {0}
    OBVIOUS
  <2> QED BY <1>1, <1>2, <2>1
<1>5. ASSUME NEW i \in 1 .. Len(a \o b), (a \o b)[i] = "commit"
      PROVE  i < Len(a \o b) /\ (a \o b)[i + 1] = "left"
  <2>1. CASE i \in 1 .. Len(a)
    <3>1. i < Len(a) /\ a[i + 1] = "left"
      BY <1>2, <1>5, <2>1 DEF Shaped
    <3> QED BY <1>1, <1>2, <2>1, <3>1
  <2>2. CASE i \in Len(a) + 1 .. Len(a) + Len(b)
    <3>1. i - Len(a) \in 1 .. Len(b) /\ b[i - Len(a)] = "commit"
      BY <1>2, <1>5, <2>2
    <3>2. i - Len(a) < Len(b) /\ b[(i - Len(a)) + 1] = "left"
      BY <3>1 DEF Shaped
    <3>3. i + 1 \in Len(a) + 1 .. Len(a) + Len(b) /\ (i + 1) - Len(a) = (i - Len(a)) + 1
      BY <2>2, <3>2
    <3> QED BY <1>1, <1>2, <3>2, <3>3
  <2> QED BY <1>1, <2>1, <2>2
<1> QED BY <1>1, <1>3, <1>4, <1>5 DEF Shaped

(* The pieces that programs are made of. *)
Pieces ==
  {<<"left">>, <<"leftNested">>, <<"adopt">>, <<"connected">>, <<"openPrimary">>,
   <<"openReplica">>, Begin, Savepoint}

LEMMA SavepointShape ==
  /\ Savepoint \in Seq(StepNames) /\ Savepoint # <<>> /\ Shaped(Savepoint)
  /\ Savepoint[1] = "toPrimary" /\ Savepoint[Len(Savepoint)] = "write" /\ Len(Savepoint) = 6
<1> DEFINE a == <<"toPrimary", "connect">>
<1>1. a \in Seq(StepNames) /\ Len(a) = 2 /\ a[1] = "toPrimary" /\ a[2] = "connect"
  BY DEF StepNames
<1>2. Shaped(a)
  BY <1>1 DEF Shaped, Follows
<1>3. Write \in Seq(StepNames)
  BY DEF Write, StepNames
<1>4. /\ Len(Write) = 4 /\ Write[1] = "toPrimary"
      /\ Write[2] = "connect" /\ Write[3] = "connect" /\ Write[4] = "write"
  BY DEF Write
<1>5. Shaped(Write)
  BY <1>3, <1>4 DEF Shaped, Follows
<1>6. Savepoint = a \o Write
  BY DEF Savepoint
<1>7. Write # <<>> => Follows(a[Len(a)], Write[1])
  BY <1>1, <1>4 DEF Follows
<1>8. a # <<>> /\ Write # <<>>
  BY DEF Write
<1> HIDE DEF a
<1>9. /\ a \o Write \in Seq(StepNames) /\ a \o Write # <<>> /\ Shaped(a \o Write)
      /\ (a \o Write)[1] = a[1] /\ (a \o Write)[Len(a \o Write)] = Write[Len(Write)]
      /\ Len(a \o Write) = Len(a) + Len(Write)
  BY <1>1, <1>2, <1>3, <1>5, <1>7, <1>8, ShapedJoin
<1> QED BY <1>1, <1>4, <1>6, <1>9

LEMMA PieceShape ==
  ASSUME NEW a \in Pieces
  PROVE  a \in Seq(StepNames) /\ a # <<>> /\ Shaped(a)
<1>1. ASSUME NEW x \in StepNames, x # "commit"
      PROVE  <<x>> \in Seq(StepNames) /\ <<x>> # <<>> /\ Shaped(<<x>>)
  BY <1>1 DEF Shaped
<1>2. Begin \in Seq(StepNames) /\ Begin # <<>> /\ Shaped(Begin)
  <2>1. Begin \in Seq(StepNames) /\ Begin # <<>>
    BY DEF Begin, StepNames
  <2>2. Len(Begin) = 3 /\ Begin[1] = "toPrimary" /\ Begin[2] = "connect" /\ Begin[3] = "begin"
    BY DEF Begin
  <2> QED BY <2>1, <2>2 DEF Shaped, Follows
<1>3. Savepoint \in Seq(StepNames) /\ Savepoint # <<>> /\ Shaped(Savepoint)
  BY SavepointShape
<1> QED BY <1>1, <1>2, <1>3 DEF Pieces, StepNames

LEMMA PieceEnds ==
  /\ Begin[1] = "toPrimary" /\ Begin[Len(Begin)] = "begin" /\ Len(Begin) = 3
  /\ Begin \in Pieces /\ Savepoint \in Pieces
BY DEF Begin, Pieces

(* No piece but "leftNested" itself leaves a savepoint. *)
Nests(todo) == \E i \in DOMAIN todo : todo[i] = "leftNested"

LEMMA NestsJoin ==
  ASSUME NEW a \in Seq(StepNames), NEW b \in Seq(StepNames), Nests(a \o b)
  PROVE  Nests(a) \/ Nests(b)
<1>1. PICK i \in DOMAIN (a \o b) : (a \o b)[i] = "leftNested"
  BY DEF Nests
<1>2. CASE i \in 1 .. Len(a)
  BY <1>1, <1>2 DEF Nests
<1>3. CASE i \notin 1 .. Len(a)
  <2>1. i - Len(a) \in DOMAIN b /\ b[i - Len(a)] = (a \o b)[i]
    BY <1>1, <1>3
  <2> QED BY <1>1, <2>1 DEF Nests
<1> QED BY <1>2, <1>3

LEMMA NestsPieces ==
  ASSUME NEW a \in Pieces, a # <<"leftNested">>
  PROVE  ~ Nests(a)
<1>1. ASSUME NEW x \in StepNames, x # "leftNested"
      PROVE  ~ Nests(<<x>>)
  BY <1>1 DEF Nests
<1>2. ~ Nests(Begin)
  BY DEF Nests, Begin
<1>3. ~ Nests(Savepoint)
  <2>1. ~ Nests(<<"toPrimary", "connect">>) /\ <<"toPrimary", "connect">> \in Seq(StepNames)
    BY DEF Nests, StepNames
  <2>2. ~ Nests(Write) /\ Write \in Seq(StepNames)
    BY DEF Nests, Write, StepNames
  <2> QED BY <2>1, <2>2, NestsJoin DEF Savepoint
<1> QED BY <1>1, <1>2, <1>3 DEF Pieces, StepNames

LEMMA NestsTail ==
  ASSUME NEW todo \in Seq(StepNames), todo # <<>>, Nests(Tail(todo))
  PROVE  Nests(todo)
<1>1. PICK i \in DOMAIN Tail(todo) : Tail(todo)[i] = "leftNested"
  BY DEF Nests
<1>2. i + 1 \in DOMAIN todo /\ todo[i + 1] = Tail(todo)[i]
  BY <1>1
<1> QED BY <1>1, <1>2 DEF Nests

(* The program of a call, and what its first step may be.                  *)
LEMMA ProgramShape ==
  ASSUME NEW call \in {"read", "write", "begin", "commit", "rollBack",
                       "toPrimary", "toReplica", "close"}
  PROVE  /\ Program(call) \in Seq(StepNames) /\ Program(call) # <<>>
         /\ Shaped(Program(call)) /\ ~ Demands(Program(call)) /\ ~ Nests(Program(call))
         /\ Program(call)[1] \in {"connect", "toPrimary", "toReplica", "close"}
         /\ Program(call)[1] \in {"toReplica", "close"} => Len(Program(call)) = 1
         /\ Program(call)[1] = "toReplica" => call = "toReplica"
<1> DEFINE p == Program(call)
<1>1. CASE call = "read"
  <2>1. p = <<"connect", "connect", "read">>
    BY <1>1 DEF Program, Read
  <2>2. p \in Seq(StepNames) /\ Len(p) = 3 /\ p[1] = "connect" /\ p[2] = "connect" /\ p[3] = "read"
    BY <2>1 DEF StepNames
  <2>3. ~ Demands(p)
    BY <2>2 DEF Demands, Statements
  <2> QED BY <2>2, <2>3 DEF Shaped, Follows, Nests
<1>2. CASE call = "write"
  <2>1. p = <<"toPrimary", "connect", "connect", "write">>
    BY <1>2 DEF Program, Write
  <2>2. /\ p \in Seq(StepNames) /\ Len(p) = 4
        /\ p[1] = "toPrimary" /\ p[2] = "connect" /\ p[3] = "connect" /\ p[4] = "write"
    BY <2>1 DEF StepNames
  <2> QED BY <2>2, DemandsSwitch DEF Shaped, Follows, Nests, Switches
<1>3. CASE call = "begin"
  <2>1. p = Begin
    BY <1>3 DEF Program
  <2> QED BY <2>1, PieceShape, PieceEnds, NestsPieces, DemandsSwitch DEF Switches
<1>4. CASE call = "commit"
  <2>1. p = <<"toPrimary", "connectActive", "commit", "left">>
    BY <1>4 DEF Program
  <2>2. /\ p \in Seq(StepNames) /\ Len(p) = 4
        /\ p[1] = "toPrimary" /\ p[2] = "connectActive" /\ p[3] = "commit" /\ p[4] = "left"
    BY <2>1 DEF StepNames
  <2>3. Shaped(p) /\ ~ Nests(p)
    BY <2>2 DEF Shaped, Follows, Nests
  <2> QED BY <2>2, <2>3, DemandsSwitch DEF Switches
<1>5. CASE call = "rollBack"
  <2>1. p = <<"toPrimary", "connectActive", "rollBack">>
    BY <1>5 DEF Program
  <2>2. /\ p \in Seq(StepNames) /\ Len(p) = 3
        /\ p[1] = "toPrimary" /\ p[2] = "connectActive" /\ p[3] = "rollBack"
    BY <2>1 DEF StepNames
  <2>3. Shaped(p) /\ ~ Nests(p)
    BY <2>2 DEF Shaped, Follows, Nests
  <2> QED BY <2>2, <2>3, DemandsSwitch DEF Switches
<1>6. CASE call \in {"toPrimary", "toReplica", "close"}
  <2>1. p = <<call>>
    BY <1>6 DEF Program
  <2>2. p \in Seq(StepNames) /\ Len(p) = 1 /\ p[1] = call
    BY <2>1, <1>6 DEF StepNames
  <2>3. ~ Demands(p)
    BY <2>2, <1>6 DEF Demands, Statements
  <2>4. Shaped(p) /\ ~ Nests(p)
    BY <2>2, <1>6 DEF Shaped, Nests
  <2> QED BY <2>2, <2>3, <2>4, <1>6
<1> QED BY <1>1, <1>2, <1>3, <1>4, <1>5, <1>6

-----------------------------------------------------------------------------
(* What a step leaves to the other tasks, and what the task goes on with.  *)

LEMMA Going ==
  ASSUME TypeOK, NEW t \in Tasks, NEW todo \in Seq(StepNames), NEW k \in 0 .. Len(conns'),
         Goes(t, todo, k), Len(conns') >= Len(conns)
  PROVE  /\ tasks' \in [Tasks -> [todo : Seq(StepNames), conn : 0 .. Len(conns')]]
         /\ tasks'[t].todo = todo /\ tasks'[t].conn = k
         /\ \A u \in Tasks \ {t} : tasks'[u] = tasks[u]
<1>1. Len(conns) \in Nat /\ tasks \in [Tasks -> [todo : Seq(StepNames), conn : 0 .. Len(conns)]]
  BY DEF TypeOK, Fields
<1>2. [todo |-> todo, conn |-> k] \in [todo : Seq(StepNames), conn : 0 .. Len(conns')]
  OBVIOUS
<1>3. Len(conns') \in Nat => \A j \in 0 .. Len(conns) : j \in 0 .. Len(conns')
  BY <1>1
<1>4. \A u \in Tasks : tasks[u] \in [todo : Seq(StepNames), conn : 0 .. Len(conns)]
  BY <1>1
<1>5. tasks' = [tasks EXCEPT ![t] = [todo |-> todo, conn |-> k]]
  BY DEF Goes
<1>6. ASSUME NEW u \in Tasks PROVE tasks'[u] \in [todo : Seq(StepNames), conn : 0 .. Len(conns')]
  <2>1. CASE u = t
    BY <1>1, <1>2, <1>5, <2>1
  <2>2. CASE u # t
    <3>1. tasks'[u] = tasks[u]
      BY <1>1, <1>5, <2>2
    <3>2. tasks[u].conn \in 0 .. Len(conns')
      BY <1>1, <1>4
    <3> QED BY <1>4, <3>1, <3>2
  <2> QED BY <2>1, <2>2
<1>7. tasks' = [u \in Tasks |-> tasks'[u]]
  BY <1>1, <1>5
<1> QED BY <1>1, <1>5, <1>6, <1>7

LEMMA FailingShape ==
  ASSUME TypeOK, NEW t \in Tasks, Fails(t)
  PROVE  \E todo \in {<<>>, <<"left">>} : todo \in Seq(StepNames) /\ Goes(t, todo, 0)
<1>1. <<>> \in Seq(StepNames) /\ <<"left">> \in Seq(StepNames)
  BY DEF StepNames
<1> QED BY <1>1 DEF Fails

(* An idle task relies on nothing. *)
LEMMA IdleHolds ==
  ASSUME NEW k
  PROVE  Holds(<<>>, k) /\ Holds(<<>>, k)'
<1>1. Shaped(<<>>) /\ ~ Demands(<<>>)
  BY DEF Shaped, Demands
<1> QED BY <1>1 DEF Holds

LEMMA LeftHolds ==
  ASSUME NEW own \in {<<>>, <<"left">>}
  PROVE  Holds(own, 0)'
<1>1. ~ Demands(<<"left">>) /\ ~ Nests(<<"left">>)
  BY DEF Demands, Statements, Nests
<1>2. Shaped(<<"left">>) /\ <<"left">>[1] = "left"
  BY DEF Shaped
<1>3. Holds(<<"left">>, 0)'
  BY <1>1, <1>2 DEF Holds, Ready, Statements, Nests
<1> QED BY <1>3, IdleHolds

(* A task that is not idle keeps what it relies on, through every step of  *)
(* another task that is not a crossing.                                    *)
LEMMA OthersHold ==
  ASSUME TypeOK, NEW t \in Tasks, NEW u \in Tasks \ {t}, tasks'[u] = tasks[u],
         Holds(tasks[u].todo, tasks[u].conn), level # 0 => OnPrimary,
         \/ Idle(u)
         \/ /\ current' = current /\ level' = level
            /\ \/ cache' = cache
               \/ level # 0 /\ cache'.primary = cache.primary
               \/ current = 0 /\ cache' = [primary |-> 0, replica |-> 0]
            /\ stuck' => stuck \/ ~ LeavingPrimary
  PROVE  Holds(tasks[u].todo, tasks[u].conn)'
<1> DEFINE todo == tasks[u].todo
           k == tasks[u].conn
<1>1. CASE Idle(u)
  <2>1. todo = <<>> /\ tasks'[u].todo = <<>>
    BY <1>1 DEF Idle
  <2> QED BY <2>1, IdleHolds DEF Holds
<1>2. CASE ~ Idle(u)
  <2>1. todo # <<>> /\ Ready(todo, k) /\ Shaped(todo) /\ (Demands(todo) => OnPrimary)
        /\ ((\E i \in DOMAIN todo : todo[i] = "leftNested") => level > 1)
    BY <1>2 DEF Idle, Holds
  <2>2. /\ current' = current /\ level' = level
        /\ \/ cache' = cache
           \/ level # 0 /\ cache'.primary = cache.primary
           \/ current = 0 /\ cache' = [primary |-> 0, replica |-> 0]
        /\ stuck' => stuck \/ ~ LeavingPrimary
    BY <1>2
  <2>3. Head(todo) = todo[1]
    BY <2>1 DEF TypeOK, Fields
  <2>4. todo[1] \in {"toReplica", "openReplica"} => ~ stuck'
    BY <2>1, <2>2, <2>3, <1>2 DEF Ready, Next2Do, LeavingPrimary
  <2>5. OnPrimary => OnPrimary'
    BY <2>2 DEF OnPrimary
  <2>6. Ready(todo, k)'
    <3>1. tasks'[u].todo = todo /\ tasks'[u].conn = k
      OBVIOUS
    <3>2. todo[1] = "openPrimary" => cache'.primary = 0
      BY <2>1, <2>2 DEF Ready
    <3>3. todo[1] = "openReplica" => cache'.replica = 0
      BY <2>1, <2>2 DEF Ready
    <3> QED BY <2>1, <2>2, <2>4, <3>1, <3>2, <3>3 DEF Ready
  <2> QED BY <2>1, <2>2, <2>5, <2>6 DEF Holds
<1> QED BY <1>1, <1>2

(* What is left of a program when its first step is done. *)
Rested(rest, x) ==
  /\ rest \in Seq(StepNames)
  /\ Shaped(rest)
  /\ rest # <<>> => Follows(x, rest[1])

LEMMA Resting ==
  ASSUME TypeOK, NEW t \in Tasks, Holds(tasks[t].todo, tasks[t].conn), ~ Idle(t)
  PROVE  /\ Rested(Rest(t), Head(tasks[t].todo))
         /\ Demands(Rest(t)) => OnPrimary \/ Head(tasks[t].todo) \in Switches
         /\ Nests(Rest(t)) => level > 1
         /\ Ready(tasks[t].todo, tasks[t].conn)
         /\ Head(tasks[t].todo) = tasks[t].todo[1]
<1> DEFINE todo == tasks[t].todo
<1>1. todo \in Seq(StepNames) /\ todo # <<>> /\ Head(todo) = todo[1] /\ Rest(t) = Tail(todo)
  BY DEF TypeOK, Fields, Idle, Rest
<1>2. Shaped(todo) /\ (Demands(todo) => OnPrimary) /\ (Nests(todo) => level > 1) /\ Ready(todo, tasks[t].conn)
  BY <1>1 DEF Holds, Nests
<1> QED BY <1>1, <1>2, ShapedTail, DemandsTail, NestsTail DEF Rested

(* After a step the task goes on with the rest of its program. *)
LEMMA RestHolds ==
  ASSUME NEW rest, NEW x, Rested(rest, x), NEW k,
         k \in {0, current'},
         x \in {"connect", "connectActive", "adopt", "connected", "openPrimary", "openReplica"} => k # 0,
         x \in {"begin", "write"} => current' # 0,
         x = "connectActive" => level' # 0,
         Demands(rest) => OnPrimary', Nests(rest) => level' > 1
  PROVE  Holds(rest, k)'
<1>1. CASE rest = <<>>
  BY <1>1, IdleHolds
<1>2. CASE rest # <<>>
  <2>1. Follows(x, rest[1])
    BY <1>2 DEF Rested
  <2>2. Ready(rest, k)'
    BY <2>1 DEF Follows, Ready, Statements
  <2> QED BY <1>2, <2>2 DEF Rested, Holds, Nests
<1> QED BY <1>1, <1>2

(* ... or with a piece before the rest. *)
LEMMA JoinHolds ==
  ASSUME NEW a \in Pieces, NEW rest, NEW x, Rested(rest, x), NEW k, k \in {0, current'},
         rest # <<>> => Follows(a[Len(a)], rest[1]),
         Demands(rest) => OnPrimary' \/ a[1] \in Switches,
         Nests(rest) => level' > 1,
         a[1] = "adopt" => k # 0,
         a[1] = "connected" => current' # 0,
         a[1] = "openPrimary" => (cache.primary = 0)',
         a[1] = "openReplica" => (cache.replica = 0 /\ level = 0 /\ ~ stuck)' /\ ~ Demands(rest),
         a[1] = "openReplica" => ~ Demands(a \o rest),
         a = <<"leftNested">> => level' > 1
  PROVE  a \o rest \in Seq(StepNames) /\ Shaped(a \o rest) /\ Holds(a \o rest, k)'
<1>1. a \in Seq(StepNames) /\ a # <<>> /\ Shaped(a) /\ rest \in Seq(StepNames) /\ Shaped(rest)
  BY PieceShape DEF Rested
<1>2. /\ a \o rest \in Seq(StepNames) /\ a \o rest # <<>> /\ Shaped(a \o rest)
      /\ (a \o rest)[1] = a[1]
  BY <1>1, ShapedJoin
<1>3. a[1] \in {"left", "leftNested", "adopt", "connected", "openPrimary", "openReplica", "toPrimary"}
  BY PieceEnds, SavepointShape DEF Pieces
<1>4. Demands(a \o rest) => OnPrimary'
  <2>1. CASE a[1] \in Switches
    BY <1>2, <2>1, DemandsSwitch
  <2>2. CASE a[1] \notin Switches
    <3>1. a = <<a[1]>> /\ a[1] \in StepNames /\ a[1] \notin Statements
      BY <2>2, PieceEnds, SavepointShape DEF Pieces, StepNames, Statements, Switches
    <3>2. Demands(a \o rest) => Demands(rest)
      BY <1>1, <3>1, DemandsCons
    <3> QED BY <2>2, <3>2
  <2> QED BY <2>1, <2>2
<1>5. Nests(a \o rest) => level' > 1
  BY <1>1, NestsJoin, NestsPieces
<1>6. Ready(a \o rest, k)'
  BY <1>2, <1>3 DEF Ready, Statements
<1> QED BY <1>2, <1>4, <1>5, <1>6 DEF Holds, Nests

(* The statements that were executed stay where they were executed. *)
LEMMA ExecutedKept ==
  ASSUME TypeOK, Executed, last' = last, Len(conns') >= Len(conns),
         \A k \in 1 .. Len(conns) : conns'[k].role = conns[k].role
  PROVE  Executed'
<1>1. last.stmt # "none" => last.conn \in 1 .. Len(conns)
  BY DEF Executed, TypeOK, Fields
<1>2. WritesRouted'
  BY <1>1 DEF Executed, WritesRouted
<1>3. ReadsStick'
  BY <1>1 DEF Executed, ReadsStick
<1> QED BY <1>2, <1>3 DEF Executed

(* A step that changes neither fields nor connections.                     *)
LEMMA SoundKept ==
  ASSUME TypeOK, Sound, UNCHANGED <<options, conns, current, cache, level, last>>,
         stuck' => stuck, level = 1 => (Leaving => Leaving')
  PROVE  Sound'
<1>1. Executed'
  BY ExecutedKept DEF Sound, TypeOK, Fields
<1>2. HasTransaction'
  BY DEF Sound, HasTransaction
<1>3. PrimaryCached' /\ ReplicaFollowsPrimary' /\ (OnPrimary => OnPrimary')
  BY DEF Sound, PrimaryCached, ReplicaFollowsPrimary, OnPrimary
<1> QED BY <1>1, <1>2, <1>3 DEF Sound

(* A task that is not at "left" does not take the exception away.          *)
LEMMA LeavingKept ==
  ASSUME NEW t \in Tasks, ~ Next2Do(t, "left"), \A u \in Tasks \ {t} : tasks'[u] = tasks[u]
  PROVE  Leaving => Leaving'
BY DEF Leaving, Next2Do, Idle

(* The invariant after a step: the task's own program, and the rest.       *)
LEMMA Assembled ==
  ASSUME TypeOK, Live, NEW t \in Tasks, ~ Crosses(t), Sound', Fields', Len(conns') >= Len(conns),
         NEW own \in Seq(StepNames), NEW j \in 0 .. Len(conns'), Goes(t, own, j), Holds(own, j)',
         \/ <<current, level>>' # <<current, level>>
         \/ /\ \/ cache' = cache
               \/ level # 0 /\ cache'.primary = cache.primary
               \/ current = 0 /\ cache' = [primary |-> 0, replica |-> 0]
            /\ stuck' => stuck \/ ~ LeavingPrimary
  PROVE  TypeOK' /\ Live'
<1>1. /\ tasks' \in [Tasks -> [todo : Seq(StepNames), conn : 0 .. Len(conns')]]
      /\ tasks'[t].todo = own /\ tasks'[t].conn = j /\ \A u \in Tasks \ {t} : tasks'[u] = tasks[u]
  BY Going
<1>2. ASSUME NEW u \in Tasks \ {t} PROVE Holds(tasks[u].todo, tasks[u].conn)'
  <2>1. Holds(tasks[u].todo, tasks[u].conn) /\ (level # 0 => OnPrimary)
    BY DEF Live, Sound
  <2> QED BY <1>1, <2>1, OthersHold DEF Crosses
<1> QED BY <1>1, <1>2 DEF Live, TypeOK

-----------------------------------------------------------------------------
(* The steps, one by one. *)

LEMMA CallStartsLive ==
  ASSUME TypeOK, Live, NEW t \in Tasks, NEW call \in Calls[t], CallStarts(t, call), ~ Crosses(t)
  PROVE  TypeOK' /\ Live'
<1>1. call \in {"read", "write", "begin", "commit", "rollBack", "toPrimary", "toReplica", "close"}
  BY PRRAssumption
<1> DEFINE p == Program(call)
<1>2. /\ p \in Seq(StepNames) /\ p # <<>> /\ Shaped(p) /\ ~ Demands(p) /\ ~ Nests(p)
      /\ p[1] \in {"connect", "toPrimary", "toReplica", "close"}
      /\ p[1] \in {"toReplica", "close"} => Len(p) = 1
      /\ p[1] = "toReplica" => call = "toReplica"
  BY <1>1, ProgramShape
<1>3. /\ UNCHANGED <<options, conns, current, cache, level, last>> /\ Goes(t, p, 0)
      /\ Idle(t) /\ stuck' = (stuck /\ call # "toReplica")
  BY DEF CallStarts
<1> HIDE DEF p
<1>4. Len(conns) \in Nat /\ conns' = conns
  BY <1>3 DEF TypeOK, Fields
<1>5. tasks'[t].todo = p /\ tasks'[t].conn = 0 /\ \A u \in Tasks \ {t} : tasks'[u] = tasks[u]
  BY <1>2, <1>3, <1>4, Going
<1>6. Holds(p, 0)'
  BY <1>2, <1>3 DEF Holds, Ready, Nests, Statements
<1>8. Sound'
  BY <1>3, <1>5, SoundKept, LeavingKept DEF Live, Next2Do
<1>9. Fields'
  <2>1. (stuck /\ call # "toReplica") \in BOOLEAN
    OBVIOUS
  <2> QED BY <1>3, <2>1 DEF TypeOK, Fields
<1>10. Len(conns') >= Len(conns) /\ 0 \in 0 .. Len(conns')
  BY <1>4
<1> QED BY <1>2, <1>3, <1>6, <1>8, <1>9, <1>10, Assembled

LEMMA PerformConnectLive ==
  ASSUME TypeOK, Live, NEW t \in Tasks, NEW name \in Roles, NEW todo, Rested(todo, "openPrimary"),
         PerformConnect(t, name, todo), UNCHANGED <<options, conns, level, last, stuck>>,
         ~ Crosses(t), ~ Next2Do(t, "left"), Nests(todo) => level > 1,
         name = "replica" /\ level = 0 => ~ stuck /\ ~ Demands(todo),
         Demands(todo) => OnPrimary \/ name = "primary"
  PROVE  TypeOK' /\ Live'
<1>0. PICK role \in Roles, k \in 0 .. Len(conns) : role = Selected(name) /\ k = cache[role]
  BY DEF Selected, Roles, TypeOK, Fields
<1>1. /\ role \in Roles
      /\ role = "primary" \/ (role = "replica" /\ name = "replica" /\ level = 0)
      /\ level # 0 => role = "primary"
      /\ k \in 0 .. Len(conns) /\ (role = "primary" => k = cache.primary)
      /\ (role = "replica" => k = cache.replica)
  BY <1>0 DEF Selected, Roles, TypeOK, Fields
<1>2. Sound /\ (\A u \in Tasks : Holds(tasks[u].todo, tasks[u].conn)) /\ (level # 0 => OnPrimary)
  BY DEF Live, Sound
<1>3. Rested(todo, "openReplica") /\ todo \in Seq(StepNames)
  BY DEF Rested, Follows
<1>4. /\ \E own \in Seq(StepNames), j \in 0 .. Len(conns) :
           Goes(t, own, j) /\ Holds(own, j)'
      /\ \/ cache' = cache
         \/ level # 0 /\ cache'.primary = cache.primary
      /\ Sound' /\ Fields'
  <2>1. CASE k # 0
    <3>1. /\ current' = k /\ Goes(t, todo, k)
          /\ cache' = IF level > 0 /\ ~ options.keepReplica THEN [cache EXCEPT !.replica = k] ELSE cache
      BY <1>0, <2>1 DEF PerformConnect
    <3>2. cache'.primary = cache.primary /\ (cache' = cache \/ level # 0)
          /\ (level # 0 /\ ~ options.keepReplica => cache'.replica = k)
      BY <3>1 DEF TypeOK, Fields
    <3>3. role = "primary" => OnPrimary'
      BY <1>1, <2>1, <3>1, <3>2 DEF OnPrimary
    <3>4. Holds(todo, k)'
      <4>1. Demands(todo) => OnPrimary'
        BY <1>1, <3>3
      <4>2. Nests(todo) => level' > 1
        OBVIOUS
      <4> QED BY <1>3, <2>1, <3>1, <4>1, <4>2, RestHolds
    <3>5. Sound'
      <4>1. ReplicaFollowsPrimary'
        BY <1>1, <1>2, <3>1, <3>2 DEF ReplicaFollowsPrimary, Sound
      <4>2. PrimaryCached' /\ Executed'
        BY <1>2, <3>2, ExecutedKept DEF Sound, PrimaryCached, TypeOK, Fields
      <4>3. (level # 0 => OnPrimary)' /\ (stuck => OnPrimary)'
        BY <1>1, <3>3
      <4>4. Len(conns') >= Len(conns) /\ k \in 0 .. Len(conns')
        BY <1>1 DEF TypeOK, Fields
      <4>5. \A u \in Tasks \ {t} : tasks'[u] = tasks[u]
        BY <1>3, <3>1, <4>4, Going
      <4>6. HasTransaction'
        <5>1. level # 0 => current' = current
          BY <1>1, <1>2, <3>1 DEF OnPrimary
        <5>2. level \in Nat /\ (Leaving => Leaving')
          BY <4>5, LeavingKept DEF TypeOK, Fields
        <5> QED BY <1>2, <5>1, <5>2 DEF HasTransaction, Sound
      <4> QED BY <4>1, <4>2, <4>3, <4>6 DEF Sound
    <3>6. Fields'
      BY <1>1, <3>1 DEF TypeOK, Fields
    <3> QED BY <1>1, <1>3, <3>1, <3>2, <3>4, <3>5, <3>6
  <2>2. CASE k = 0
    <3>1. /\ Goes(t, <<IF role = "primary" THEN "openPrimary" ELSE "openReplica">> \o todo, 0)
          /\ UNCHANGED <<current, cache>>
      BY <1>0, <2>2 DEF PerformConnect
    <3>0. PICK a \in Pieces : a = <<IF role = "primary" THEN "openPrimary" ELSE "openReplica">>
      BY DEF Pieces
    <3>2. a \in Pieces /\ a # <<"leftNested">> /\ Len(a) = 1 /\ a[1] \in {"openPrimary", "openReplica"}
          /\ a[Len(a)] = a[1] /\ (a[1] = "openPrimary" <=> role = "primary") /\ a = <<a[1]>>
      BY <3>0
    <3>3. level = 0
      BY <1>1, <1>2, <2>2 DEF OnPrimary
    <3>4. Goes(t, a \o todo, 0)
      BY <3>0, <3>1
    <3>5. Rested(todo, a[1]) /\ (todo # <<>> => Follows(a[Len(a)], todo[1]))
      BY <1>3, <3>2 DEF Rested
    <3>6. a[1] = "openReplica" => ~ Demands(a \o todo) /\ ~ Demands(todo) /\ ~ stuck
      <4> SUFFICES ASSUME a[1] = "openReplica"
                   PROVE  ~ Demands(a \o todo) /\ ~ Demands(todo) /\ ~ stuck
        OBVIOUS
      <4>1. ~ Demands(todo) /\ ~ stuck
        BY <1>1, <3>2
      <4>2. "openReplica" \in StepNames /\ "openReplica" \notin Statements \ {"read"}
        BY DEF StepNames, Statements
      <4>3. a = <<"openReplica">>
        BY <3>2
      <4> QED BY <1>3, <4>1, <4>2, <4>3, DemandsCons
    <3>7. Demands(todo) => a[1] \in Switches \/ OnPrimary'
      BY <1>1, <3>1, <3>2 DEF Switches, OnPrimary
    <3>8. a \o todo \in Seq(StepNames) /\ Holds(a \o todo, 0)'
      BY <1>1, <2>2, <3>1, <3>2, <3>3, <3>5, <3>6, <3>7, JoinHolds
    <3>9. \A u \in Tasks \ {t} : tasks'[u] = tasks[u]
      <4>1. 0 \in 0 .. Len(conns') /\ Len(conns') >= Len(conns)
        BY DEF TypeOK, Fields
      <4> QED BY <3>4, <3>8, <4>1, Going
    <3>10. Sound'
      BY <1>2, <3>1, <3>9, SoundKept, LeavingKept
    <3>11. 0 \in 0 .. Len(conns)
      BY DEF TypeOK, Fields
    <3>12. Fields'
      BY <3>1 DEF TypeOK, Fields
    <3> QED BY <3>1, <3>4, <3>8, <3>10, <3>11, <3>12
  <2> QED BY <2>1, <2>2
<1>5. PICK own \in Seq(StepNames), j \in 0 .. Len(conns) : Goes(t, own, j) /\ Holds(own, j)'
  BY <1>4
<1>6. j \in 0 .. Len(conns') /\ Len(conns') >= Len(conns)
  BY DEF TypeOK, Fields
<1> QED BY <1>4, <1>5, <1>6, Assembled

LEMMA EnsureConnectedLive ==
  ASSUME TypeOK, Live, NEW t \in Tasks, EnsureConnected(t), ~ Crosses(t)
  PROVE  TypeOK' /\ Live'
<1> DEFINE todo == tasks[t].todo
<1>1. /\ ~ Idle(t) /\ Head(todo) \in {"toPrimary", "toReplica"} /\ ~ Next2Do(t, "left")
      /\ UNCHANGED <<options, conns, level, last, stuck>>
      /\ Head(todo) = "toPrimary" => PerformConnect(t, "primary", Rest(t))
      /\ Head(todo) = "toReplica" => PerformConnect(t, "replica", Rest(t))
  BY DEF EnsureConnected, Next2Do
<1>2. /\ Rested(Rest(t), Head(todo))
      /\ Demands(Rest(t)) => OnPrimary \/ Head(todo) \in Switches
      /\ Nests(Rest(t)) => level > 1
      /\ Ready(todo, tasks[t].conn) /\ Head(todo) = todo[1]
  BY <1>1, Resting DEF Live
<1>3. Rested(Rest(t), "openPrimary")
  BY <1>1, <1>2 DEF Rested, Follows
<1>4. Head(todo) = "toReplica" => ~ stuck /\ ~ Demands(Rest(t))
  <2> SUFFICES ASSUME Head(todo) = "toReplica" PROVE ~ stuck /\ ~ Demands(Rest(t))
    OBVIOUS
  <2>1. ~ stuck /\ Len(todo) = 1
    BY <1>2 DEF Ready
  <2>2. todo \in Seq(StepNames) /\ todo # <<>> /\ Rest(t) = Tail(todo)
    BY <2>1 DEF Rest, TypeOK, Fields
  <2>3. Len(Rest(t)) = 0
    BY <2>1, <2>2
  <2> QED BY <2>1, <2>3 DEF Demands
<1>5. CASE Head(todo) = "toPrimary"
  BY <1>1, <1>2, <1>3, <1>5, PerformConnectLive DEF Roles
<1>6. CASE Head(todo) = "toReplica"
  BY <1>1, <1>2, <1>3, <1>4, <1>6, PerformConnectLive DEF Roles, Switches
<1> QED BY <1>1, <1>5, <1>6

LEMMA ConnectLive ==
  ASSUME TypeOK, Live, NEW t \in Tasks, Connect(t), ~ Crosses(t)
  PROVE  TypeOK' /\ Live'
<1> DEFINE todo == tasks[t].todo
<1>1. /\ ~ Idle(t) /\ Head(todo) \in {"connect", "connectActive"} /\ ~ Next2Do(t, "left")
      /\ UNCHANGED <<options, conns, level, last, stuck>>
      /\ Head(todo) = "connectActive" => level # 0
      /\ current # 0 => Goes(t, Rest(t), current) /\ UNCHANGED <<current, cache>>
      /\ current = 0 => PerformConnect(t, "replica", <<"adopt">> \o Rest(t))
  BY DEF Connect, Next2Do
<1>2. /\ Rested(Rest(t), Head(todo))
      /\ Demands(Rest(t)) => OnPrimary \/ Head(todo) \in Switches
      /\ Nests(Rest(t)) => level > 1
  BY <1>1, Resting DEF Live
<1>3. Demands(Rest(t)) => OnPrimary
  BY <1>1, <1>2 DEF Switches
<1>4. Sound
  BY DEF Live
<1>5. CASE current # 0
  <2>1. Goes(t, Rest(t), current) /\ UNCHANGED <<options, conns, current, cache, level, last, stuck>>
    BY <1>1, <1>5
  <2>2. PICK rest \in Seq(StepNames), k \in 0 .. Len(conns) : rest = Rest(t) /\ k = current
    BY <1>2 DEF Rested, TypeOK, Fields
  <2>3. Holds(rest, k)'
    <3>1. OnPrimary => OnPrimary'
      BY <2>1 DEF OnPrimary
    <3> QED BY <1>1, <1>2, <1>3, <1>5, <2>1, <2>2, <3>1, RestHolds
  <2>4. Goes(t, rest, k) /\ k \in 0 .. Len(conns') /\ Len(conns') >= Len(conns)
    BY <2>1, <2>2 DEF TypeOK, Fields
  <2>5. Sound'
    BY <1>1, <1>4, <2>1, <2>4, Going, LeavingKept, SoundKept
  <2>6. Fields'
    BY <2>1 DEF TypeOK, Fields
  <2> QED BY <2>1, <2>3, <2>4, <2>5, <2>6, Assembled
<1>6. CASE current = 0
  <2>1. ~ OnPrimary /\ level = 0 /\ ~ stuck
    BY <1>4, <1>6 DEF OnPrimary, Sound
  <2>2. Head(todo) = "connect"
    BY <1>1, <2>1
  <2>3. PICK rest \in Seq(StepNames) : rest = Rest(t)
    BY <1>2 DEF Rested
  <2>4. rest # <<>> => Follows("adopt", rest[1])
    BY <1>2, <2>2, <2>3 DEF Rested, Follows
  <2> DEFINE a == <<"adopt">>
  <2>5. a \in Pieces /\ a \in Seq(StepNames) /\ a # <<>> /\ Shaped(a) /\ Len(a) = 1 /\ a[1] = "adopt"
        /\ a # <<"leftNested">>
    BY PieceShape DEF Pieces
  <2> HIDE DEF a
  <2>6. /\ a \o rest \in Seq(StepNames) /\ Shaped(a \o rest) /\ (a \o rest)[1] = "adopt"
    BY <1>2, <2>3, <2>4, <2>5, ShapedJoin DEF Rested
  <2>7. Rested(a \o rest, "openPrimary")
    BY <2>6 DEF Rested, Follows
  <2>8. ~ Demands(a \o rest)
    <3>1. "adopt" \in StepNames /\ "adopt" \notin Statements \ {"read"}
      BY DEF StepNames, Statements
    <3> QED BY <1>3, <2>1, <2>3, <3>1, DemandsCons DEF a
  <2>9. Nests(a \o rest) => level > 1
    BY <1>2, <2>3, <2>5, NestsJoin, NestsPieces
  <2>10. PerformConnect(t, "replica", a \o rest)
    BY <1>1, <1>6, <2>3 DEF a
  <2>11. "replica" \in Roles
    BY DEF Roles
  <2> QED BY <1>1, <2>1, <2>7, <2>8, <2>9, <2>10, <2>11, PerformConnectLive
<1> QED BY <1>5, <1>6

(* A driver connection that is added, and one whose state changes, leave   *)
(* the role of every other where it is.                                    *)
LEMMA Added ==
  ASSUME TypeOK, NEW role \in Roles,
         conns' = Append(conns, [role |-> role, inTx |-> FALSE, alive |-> TRUE, open |-> TRUE])
  PROVE  /\ conns' \in Seq(Conn) /\ Len(conns') = Len(conns) + 1
         /\ \A k \in 1 .. Len(conns) : conns'[k] = conns[k]
         /\ conns'[Len(conns) + 1].role = role
<1> DEFINE r == [role |-> role, inTx |-> FALSE, alive |-> TRUE, open |-> TRUE]
<1>1. r \in Conn /\ r.role = role /\ conns \in Seq(Conn) /\ conns' = Append(conns, r)
  BY DEF Conn, TypeOK, Fields
<1> HIDE DEF r
<1> QED BY <1>1

LEMMA OpenLive ==
  ASSUME TypeOK, Live, NEW t \in Tasks, Open(t), ~ Crosses(t)
  PROVE  TypeOK' /\ Live'
<1> DEFINE todo == tasks[t].todo
<1>1. PICK role \in Roles :
        /\ Next2Do(t, IF role = "primary" THEN "openPrimary" ELSE "openReplica")
        /\ Opened(t, role) \/ OpenFails(t)
  BY DEF Open
<1>2. UNCHANGED <<options, last, stuck>>
  BY DEF Open
<1>3. /\ ~ Idle(t) /\ ~ Next2Do(t, "left") /\ Head(todo) \in {"openPrimary", "openReplica"}
      /\ role = "primary" <=> Head(todo) = "openPrimary"
  BY <1>1 DEF Next2Do, Roles
<1>4. /\ Rested(Rest(t), Head(todo))
      /\ Demands(Rest(t)) => OnPrimary \/ Head(todo) \in Switches
      /\ Nests(Rest(t)) => level > 1
      /\ Ready(todo, tasks[t].conn) /\ Head(todo) = todo[1]
  BY <1>3, Resting DEF Live
<1>5. Sound
  BY DEF Live
<1>6. level = 0 /\ ~ stuck /\ (role = "primary" => cache.primary = 0)
      /\ (role = "replica" => cache.replica = 0)
  BY <1>3, <1>4, <1>5 DEF Ready, Sound, OnPrimary, Roles
<1>7. CASE Opened(t, role)
  <2>1. PICK k \in Nat : k = Len(conns) + 1
    BY DEF TypeOK, Fields
  <2>2. /\ conns' = Append(conns, [role |-> role, inTx |-> FALSE, alive |-> TRUE, open |-> TRUE])
        /\ current' = k /\ cache' = CacheWith(role, k) /\ Goes(t, Rest(t), k) /\ level' = level
    BY <1>7, <2>1 DEF Opened
  <2>3. /\ conns' \in Seq(Conn) /\ Len(conns') = Len(conns) + 1 /\ Len(conns) \in Nat
        /\ \A i \in 1 .. Len(conns) : conns'[i] = conns[i]
        /\ conns'[k].role = role
    <3>1. Len(conns) \in Nat
      BY DEF TypeOK, Fields
    <3> QED BY <2>1, <2>2, <3>1, Added
  <2>4. /\ role = "primary" => cache'.primary = k /\ (~ options.keepReplica => cache'.replica = k)
        /\ role = "replica" => cache'.primary = cache.primary /\ cache'.replica = k
    BY <1>1, <2>2 DEF CacheWith, Roles, TypeOK, Fields
  <2>5. role = "primary" => OnPrimary'
    BY <2>1, <2>2, <2>4 DEF OnPrimary
  <2>6. PICK rest \in Seq(StepNames) : rest = Rest(t)
    BY <1>4 DEF Rested
  <2>7. Holds(rest, k)'
    <3>1. Demands(rest) => OnPrimary'
      <4> SUFFICES ASSUME Demands(rest), role = "replica" PROVE FALSE
        BY <1>1, <2>5 DEF Roles
      <4>1. ~ Demands(todo) /\ Head(todo) \notin Switches /\ todo[1] \notin Switches
        BY <1>3, <1>4 DEF Ready, Switches, Roles
      <4>2. todo \in Seq(StepNames) /\ todo # <<>> /\ rest = Tail(todo)
        BY <1>3, <2>6 DEF TypeOK, Fields, Rest, Idle
      <4> QED BY <4>1, <4>2, DemandsTail
    <3> QED BY <1>3, <1>4, <2>1, <2>2, <2>6, <3>1, RestHolds
  <2>8. Sound'
    <3>1. Executed'
      BY <1>2, <1>5, <2>3, ExecutedKept DEF Sound
    <3>2. PrimaryCached'
      <4>1. cache.primary \in 0 .. Len(conns)
        BY DEF TypeOK, Fields
      <4> QED BY <1>1, <1>5, <2>3, <2>4, <4>1 DEF PrimaryCached, Sound, Roles
    <3>3. ReplicaFollowsPrimary'
      BY <1>1, <1>2, <1>5, <1>6, <2>4 DEF ReplicaFollowsPrimary, Sound, Roles
    <3>4. HasTransaction' /\ (level # 0 => OnPrimary)' /\ (stuck => OnPrimary)'
      BY <1>2, <1>6, <2>2 DEF HasTransaction
    <3> QED BY <3>1, <3>2, <3>3, <3>4 DEF Sound
  <2>9. Len(conns') >= Len(conns) /\ k \in 0 .. Len(conns') /\ Goes(t, rest, k) /\ current' # current
    BY <2>1, <2>2, <2>3, <2>6 DEF TypeOK, Fields
  <2>10. Fields'
    <3>1. cache' \in [primary : 0 .. Len(conns'), replica : 0 .. Len(conns')]
      <4>1. cache.primary \in 0 .. Len(conns') /\ cache.replica \in 0 .. Len(conns')
            /\ cache \in [primary : 0 .. Len(conns), replica : 0 .. Len(conns)]
        BY <2>3 DEF TypeOK, Fields
      <4>2. k \in 0 .. Len(conns') /\ role \in {"primary", "replica"}
        BY <2>1, <2>3 DEF Roles
      <4>3. cache' = [primary |-> k, replica |-> k] \/ cache' = [cache EXCEPT ![role] = k]
        BY <2>2 DEF CacheWith
      <4>4. CASE role = "primary"
        BY <4>1, <4>2, <4>3, <4>4
      <4>5. CASE role = "replica"
        BY <4>1, <4>2, <4>3, <4>5
      <4> QED BY <4>2, <4>4, <4>5
    <3>2. last' \in [stmt : {"none", "read", "write"}, conn : 0 .. Len(conns'),
                     within : BOOLEAN, inTx : BOOLEAN, stuck : BOOLEAN]
      BY <1>2, <2>3 DEF TypeOK, Fields
    <3> QED BY <1>2, <2>1, <2>2, <2>3, <3>1, <3>2 DEF TypeOK, Fields
  <2> QED BY <2>7, <2>8, <2>9, <2>10, Assembled
<1>8. CASE OpenFails(t)
  <2>1. /\ Fails(t) /\ UNCHANGED <<options, conns, cache, last, stuck>>
        /\ (current' = 0 /\ level' = 0) \/ UNCHANGED <<current, level>>
    BY <1>2, <1>8 DEF OpenFails, Reset
  <2>2. PICK own \in Seq(StepNames) : own \in {<<>>, <<"left">>} /\ Goes(t, own, 0)
    BY <2>1, FailingShape
  <2>3. Holds(own, 0)'
    BY <2>2, LeftHolds
  <2>4. Len(conns') >= Len(conns) /\ 0 \in 0 .. Len(conns')
    BY <2>1 DEF TypeOK, Fields
  <2>5. Sound'
    <3>1. Executed'
      BY <1>5, <2>1, ExecutedKept DEF Sound, TypeOK, Fields
    <3>2. PrimaryCached' /\ ReplicaFollowsPrimary'
      BY <1>5, <2>1 DEF PrimaryCached, ReplicaFollowsPrimary, Sound
    <3>3. HasTransaction' /\ (level # 0 => OnPrimary)' /\ (stuck => OnPrimary)'
      BY <1>6, <2>1 DEF HasTransaction
    <3> QED BY <3>1, <3>2, <3>3 DEF Sound
  <2>6. Fields'
    BY <2>1 DEF TypeOK, Fields
  <2> QED BY <2>1, <2>2, <2>3, <2>4, <2>5, <2>6, Assembled
<1> QED BY <1>1, <1>7, <1>8

LEMMA NoActiveTransactionLive ==
  ASSUME TypeOK, Live, NEW t \in Tasks, NoActiveTransaction(t), ~ Crosses(t)
  PROVE  TypeOK' /\ Live'
<1>1. /\ UNCHANGED <<options, conns, current, cache, level, last, stuck>> /\ Fails(t)
      /\ ~ Next2Do(t, "left")
  BY DEF NoActiveTransaction, Next2Do
<1>2. PICK own \in Seq(StepNames) : own \in {<<>>, <<"left">>} /\ Goes(t, own, 0)
  BY <1>1, FailingShape
<1>3. Holds(own, 0)'
  BY <1>2, LeftHolds
<1>4. Len(conns') >= Len(conns) /\ 0 \in 0 .. Len(conns')
  BY <1>1 DEF TypeOK, Fields
<1>5. Sound'
  BY <1>1, <1>2, <1>4, Going, LeavingKept, SoundKept DEF Live
<1>6. Fields'
  BY <1>1 DEF TypeOK, Fields
<1> QED BY <1>1, <1>2, <1>3, <1>4, <1>5, <1>6, Assembled

LEMMA ConnectedLive ==
  ASSUME TypeOK, Live, NEW t \in Tasks, Connected(t), ~ Crosses(t)
  PROVE  TypeOK' /\ Live'
<1>1. /\ UNCHANGED <<options, conns, current, cache, level, last, stuck>> /\ Goes(t, Rest(t), current)
      /\ ~ Next2Do(t, "left") /\ ~ Idle(t) /\ Head(tasks[t].todo) = "connected"
  BY DEF Connected, Next2Do
<1>2. /\ Rested(Rest(t), "connected")
      /\ Demands(Rest(t)) => OnPrimary
      /\ Nests(Rest(t)) => level > 1
      /\ current # 0
  BY <1>1, Resting DEF Live, Switches, Ready
<1>3. PICK rest \in Seq(StepNames), k \in 0 .. Len(conns) : rest = Rest(t) /\ k = current
  BY <1>2 DEF Rested, TypeOK, Fields
<1>4. Holds(rest, k)'
  <2>1. OnPrimary => OnPrimary'
    BY <1>1 DEF OnPrimary
  <2> QED BY <1>1, <1>2, <1>3, <2>1, RestHolds
<1>5. Len(conns') >= Len(conns) /\ k \in 0 .. Len(conns') /\ Goes(t, rest, k)
  BY <1>1, <1>3 DEF TypeOK, Fields
<1>6. Sound'
  BY <1>1, <1>5, Going, LeavingKept, SoundKept DEF Live
<1>7. Fields'
  BY <1>1 DEF TypeOK, Fields
<1> QED BY <1>1, <1>4, <1>5, <1>6, <1>7, Assembled

LEMMA AdoptLive ==
  ASSUME TypeOK, Live, NEW t \in Tasks, Adopt(t), ~ Crosses(t)
  PROVE  TypeOK' /\ Live'
<1>1. /\ UNCHANGED <<options, conns, cache, level, last, stuck>> /\ current' = tasks[t].conn
      /\ Goes(t, (IF options.autoCommit THEN <<>> ELSE Begin) \o <<"connected">> \o Rest(t), 0)
      /\ ~ Next2Do(t, "left") /\ ~ Idle(t) /\ Head(tasks[t].todo) = "adopt"
  BY DEF Adopt, Next2Do
<1>2. /\ Rested(Rest(t), "adopt")
      /\ Demands(Rest(t)) => OnPrimary
      /\ Nests(Rest(t)) => level > 1
      /\ tasks[t].conn # 0 /\ tasks[t].conn = current
  <2>1. Ready(tasks[t].todo, tasks[t].conn) /\ tasks[t].todo[1] = "adopt"
    BY <1>1, Resting DEF Live
  <2> QED BY <1>1, <2>1, Resting DEF Live, Switches, Ready
<1>3. PICK rest \in Seq(StepNames) : rest = Rest(t)
  BY <1>2 DEF Rested
<1>4. current' = current /\ current # 0 /\ (OnPrimary => OnPrimary')
  BY <1>1, <1>2 DEF OnPrimary
<1>0. PICK a \in Pieces : a = <<"connected">>
  BY DEF Pieces
<1>5. a[1] = "connected" /\ Len(a) = 1 /\ a # <<"leftNested">> /\ a \in Seq(StepNames) /\ a # <<>>
  BY <1>0, PieceShape
<1>6. rest # <<>> => Follows("connected", rest[1])
  BY <1>2, <1>3 DEF Rested, Follows
<1>7. PICK own \in Seq(StepNames) : own = a \o rest
  <2>1. a \o rest \in Seq(StepNames)
    BY <1>5
  <2> QED BY <2>1
<1>8. Holds(own, 0)' /\ Shaped(own)
  BY <1>1, <1>2, <1>3, <1>4, <1>5, <1>6, <1>7, JoinHolds
<1>9. own[1] = "connected" /\ (Demands(own) => OnPrimary') /\ (Nests(own) => level' > 1)
  BY <1>5, <1>7, <1>8 DEF Holds, Nests
<1>10. \E all \in Seq(StepNames) : Goes(t, all, 0) /\ Holds(all, 0)'
  <2>1. CASE options.autoCommit
    <3>1. <<>> \o a = a
      BY <1>5
    <3> QED BY <1>0, <1>1, <1>3, <1>7, <1>8, <2>1, <3>1
  <2>2. CASE ~ options.autoCommit
    <3>1. Rested(own, "begin")
      BY <1>8, <1>9 DEF Rested, Follows
    <3>2. own # <<>> => Follows(Begin[Len(Begin)], own[1])
      BY <3>1, PieceEnds DEF Rested
    <3>3. Begin[1] = "toPrimary" /\ Begin \in Pieces /\ Begin # <<"leftNested">> /\ "toPrimary" \in Switches
      BY PieceEnds DEF Switches, Begin
    <3>4. Begin \o own \in Seq(StepNames) /\ Holds(Begin \o own, 0)'
      BY <1>1, <1>4, <1>9, <3>1, <3>2, <3>3, JoinHolds
    <3>5. (Begin \o a) \o rest = Begin \o (a \o rest)
      BY <1>5, <3>3, PieceShape
    <3> QED BY <1>0, <1>1, <1>3, <1>7, <2>2, <3>4, <3>5
  <2> QED BY <2>1, <2>2
<1>11. PICK all \in Seq(StepNames) : Goes(t, all, 0) /\ Holds(all, 0)'
  BY <1>10
<1>12. Len(conns') >= Len(conns) /\ 0 \in 0 .. Len(conns')
  BY <1>1 DEF TypeOK, Fields
<1>13. Sound'
  BY <1>1, <1>4, <1>11, <1>12, Going, LeavingKept, SoundKept DEF Live
<1>14. Fields'
  BY <1>1, <1>4 DEF TypeOK, Fields
<1> QED BY <1>1, <1>11, <1>12, <1>13, <1>14, Assembled

-----------------------------------------------------------------------------
(* Statements and transactions. *)

LEMMA DemandsFirst ==
  ASSUME NEW todo \in Seq(StepNames), todo # <<>>, todo[1] \in Statements \ {"read"}
  PROVE  Demands(todo)
<1>1. 1 \in DOMAIN todo /\ \A j \in 1 .. 1 - 1 : todo[j] \notin Switches
  OBVIOUS
<1> QED BY <1>1 DEF Demands

(* A task about to send a statement holds the current driver connection;   *)
(* it is the primary for all but a read, and in a transaction for a read.  *)
LEMMA Sending ==
  ASSUME TypeOK, Live, NEW t \in Tasks, ~ Idle(t), Head(tasks[t].todo) \in Statements
  PROVE  /\ tasks[t].conn = current /\ current \in 1 .. Len(conns)
         /\ Head(tasks[t].todo) # "read" => OnPrimary
         /\ Head(tasks[t].todo) \in {"commit", "rollBack"} => level # 0
         /\ OnPrimary => conns[current].role = "primary"
         /\ ~ Next2Do(t, "left")
         /\ Rested(Rest(t), Head(tasks[t].todo))
         /\ Demands(Rest(t)) => OnPrimary
         /\ Nests(Rest(t)) => level > 1
<1> DEFINE todo == tasks[t].todo
<1>1. Ready(todo, tasks[t].conn) /\ Head(todo) = todo[1]
  BY Resting DEF Live
<1>2. Rested(Rest(t), Head(todo)) /\ (Demands(Rest(t)) => OnPrimary) /\ (Nests(Rest(t)) => level > 1)
  BY Resting DEF Live, Statements, Switches
<1>3. tasks[t].conn = current /\ current \in 1 .. Len(conns)
  BY <1>1 DEF Ready, TypeOK, Fields
<1>4. Head(todo) # "read" => OnPrimary
  <2>1. todo \in Seq(StepNames) /\ todo # <<>>
    BY DEF TypeOK, Fields, Idle
  <2>2. Demands(todo) => OnPrimary
    BY DEF Live, Holds
  <2> QED BY <1>1, <2>1, <2>2, DemandsFirst
<1>5. OnPrimary => conns[current].role = "primary"
  BY DEF Live, Sound, PrimaryCached, OnPrimary
<1> QED BY <1>1, <1>2, <1>3, <1>4, <1>5 DEF Ready, Next2Do, Statements

(* The server's side of a driver connection changes, not its role. *)
LEMMA Changed ==
  ASSUME TypeOK, NEW k \in 1 .. Len(conns), NEW alive \in BOOLEAN, NEW inTx \in BOOLEAN,
         \/ conns' = [conns EXCEPT ![k].alive = alive, ![k].inTx = inTx]
         \/ conns' = [conns EXCEPT ![k].inTx = inTx]
  PROVE  /\ conns' \in Seq(Conn) /\ Len(conns') = Len(conns)
         /\ \A i \in 1 .. Len(conns) : conns'[i].role = conns[i].role
         /\ conns'[k].inTx = inTx
<1>1. conns \in Seq(Conn) /\ conns[k] \in Conn
  BY DEF TypeOK, Fields
<1>2. CASE conns' = [conns EXCEPT ![k].alive = alive, ![k].inTx = inTx]
  <2>1. PICK r \in Conn : r = [conns[k] EXCEPT !.alive = alive, !.inTx = inTx]
    BY <1>1 DEF Conn
  <2>2. r.role = conns[k].role /\ r.inTx = inTx
    BY <1>1, <2>1 DEF Conn
  <2>3. conns' = [conns EXCEPT ![k] = r]
    BY <1>1, <1>2, <2>1
  <2> QED BY <1>1, <2>2, <2>3
<1>3. CASE conns' = [conns EXCEPT ![k].inTx = inTx]
  <2>1. PICK r \in Conn : r = [conns[k] EXCEPT !.inTx = inTx]
    BY <1>1 DEF Conn
  <2>2. r.role = conns[k].role /\ r.inTx = inTx
    BY <1>1, <2>1 DEF Conn
  <2>3. conns' = [conns EXCEPT ![k] = r]
    BY <1>1, <1>3, <2>1
  <2> QED BY <1>1, <2>2, <2>3
<1> QED BY <1>2, <1>3

LEMMA LostLive ==
  ASSUME TypeOK, Live, NEW t \in Tasks, ~ Idle(t), Head(tasks[t].todo) \in Statements,
         Lost(t), UNCHANGED options, ~ Crosses(t)
  PROVE  TypeOK' /\ Live'
<1>1. PICK k \in 1 .. Len(conns) : k = tasks[t].conn /\ k = current
  BY Sending
<1>2. /\ conns' = [conns EXCEPT ![k].alive = FALSE, ![k].inTx = FALSE]
      /\ current' = 0 /\ level' = 0 /\ Fails(t) /\ stuck' = FALSE /\ UNCHANGED <<options, cache, last>>
  BY <1>1 DEF Lost, Reset
<1>3. conns' \in Seq(Conn) /\ Len(conns') = Len(conns) /\ \A i \in 1 .. Len(conns) : conns'[i].role = conns[i].role
  BY <1>2, Changed
<1>4. PICK own \in Seq(StepNames) : own \in {<<>>, <<"left">>} /\ Goes(t, own, 0)
  BY <1>2, FailingShape
<1>5. Holds(own, 0)'
  BY <1>4, LeftHolds
<1>6. Len(conns') >= Len(conns) /\ 0 \in 0 .. Len(conns') /\ current' # current
  BY <1>1, <1>2, <1>3 DEF TypeOK, Fields
<1>7. Sound'
  <2>1. Executed'
    BY <1>2, <1>3, <1>6, ExecutedKept DEF Live, Sound
  <2>2. PrimaryCached'
    BY <1>2, <1>3 DEF Live, Sound, PrimaryCached, TypeOK, Fields
  <2>3. ReplicaFollowsPrimary'
    BY <1>2 DEF Live, Sound, ReplicaFollowsPrimary
  <2>4. HasTransaction' /\ (level # 0 => OnPrimary)' /\ (stuck => OnPrimary)'
    BY <1>2 DEF HasTransaction
  <2> QED BY <2>1, <2>2, <2>3, <2>4 DEF Sound
<1>8. Fields'
  <2>1. current' = 0 /\ level' = 0 /\ stuck' = FALSE /\ UNCHANGED <<options, cache, last>>
    BY <1>2
  <2>2. 0 .. Len(conns') = 0 .. Len(conns) /\ 0 \in 0 .. Len(conns) /\ 0 \in Nat
    BY <1>3 DEF TypeOK, Fields
  <2>3. conns' \in Seq(Conn)
    BY <1>3
  <2> QED BY <2>1, <2>2, <2>3 DEF TypeOK, Fields
<1> QED BY <1>4, <1>5, <1>6, <1>7, <1>8, Assembled

LEMMA StatementLive ==
  ASSUME TypeOK, Live, NEW t \in Tasks, Statement(t), ~ Crosses(t)
  PROVE  TypeOK' /\ Live'
<1>1. PICK stmt \in {"read", "write"} :
        /\ Next2Do(t, stmt)
        /\ \/ Lost(t)
           \/ LET k == tasks[t].conn
              IN  /\ conns[k].alive
                  /\ last' = [ stmt |-> stmt, conn |-> k, within |-> WithinTransaction,
                               inTx |-> conns[k].inTx, stuck |-> stuck ]
                  /\ stuck' = (stuck \/ (stmt = "write" /\ ~ LeavingPrimary))
                  /\ Goes(t, Rest(t), k)
                  /\ UNCHANGED <<conns, current, cache, level>>
  BY DEF Statement
<1>2. UNCHANGED options /\ ~ Idle(t) /\ Head(tasks[t].todo) = stmt /\ stmt \in Statements
  BY <1>1 DEF Statement, Next2Do, Statements
<1>3. CASE Lost(t)
  BY <1>2, <1>3, LostLive
<1>4. CASE ~ Lost(t)
  <2>1. PICK k \in 1 .. Len(conns) : k = tasks[t].conn /\ k = current
    BY <1>2, Sending
  <2>2. /\ last' = [ stmt |-> stmt, conn |-> k, within |-> WithinTransaction,
                     inTx |-> conns[k].inTx, stuck |-> stuck ]
        /\ stuck' = (stuck \/ (stmt = "write" /\ ~ LeavingPrimary))
        /\ Goes(t, Rest(t), k)
        /\ UNCHANGED <<options, conns, current, cache, level>>
    BY <1>1, <1>2, <1>4, <2>1
  <2>3. /\ stmt = "write" => OnPrimary
        /\ OnPrimary => conns[k].role = "primary"
        /\ ~ Next2Do(t, "left")
        /\ Rested(Rest(t), stmt)
        /\ Demands(Rest(t)) => OnPrimary
        /\ Nests(Rest(t)) => level > 1
    BY <1>1, <1>2, <2>1, Sending
  <2>4. OnPrimary => OnPrimary'
    BY <2>2 DEF OnPrimary
  <2>5. PICK rest \in Seq(StepNames) : rest = Rest(t)
    BY <2>3 DEF Rested
  <2>6. Holds(rest, k)'
    BY <2>1, <2>2, <2>3, <2>4, <2>5, <1>1, RestHolds
  <2>7. Len(conns') >= Len(conns) /\ k \in 0 .. Len(conns') /\ Goes(t, rest, k)
    BY <2>2, <2>5 DEF TypeOK, Fields
  <2>8. Sound'
    <3>1. WithinTransaction => conns[k].inTx
      <4>1. WithinTransaction => level > 0 /\ ~ Leaving
        BY DEF WithinTransaction, Leaving
      <4> QED BY <2>1, <4>1 DEF Live, Sound, HasTransaction, TypeOK, Fields
    <3>2. stuck => OnPrimary
      BY DEF Live, Sound
    <3>3. Executed'
      BY <2>1, <2>2, <2>3, <3>1, <3>2 DEF Executed, WritesRouted, ReadsStick
    <3>4. Leaving => Leaving'
      BY <2>3, <2>5, <2>7, Going, LeavingKept
    <3>5. HasTransaction'
      BY <2>2, <3>4 DEF Live, Sound, HasTransaction
    <3>6. PrimaryCached' /\ ReplicaFollowsPrimary' /\ (level # 0 => OnPrimary)'
      BY <2>2, <2>4 DEF Live, Sound, PrimaryCached, ReplicaFollowsPrimary
    <3>7. (stuck => OnPrimary)'
      BY <2>2, <2>3, <2>4, <3>2
    <3> QED BY <3>3, <3>5, <3>6, <3>7 DEF Sound
  <2>9. stuck' => stuck \/ ~ LeavingPrimary
    BY <2>2
  <2>10. Fields'
    <3>1. (stuck \/ (stmt = "write" /\ ~ LeavingPrimary)) \in BOOLEAN
      OBVIOUS
    <3>2. WithinTransaction \in BOOLEAN
      BY DEF WithinTransaction
    <3>3. conns[k] \in Conn
      BY <2>1 DEF TypeOK, Fields
    <3>4. last' \in [stmt : {"none", "read", "write"}, conn : 0 .. Len(conns'),
                     within : BOOLEAN, inTx : BOOLEAN, stuck : BOOLEAN]
      BY <2>1, <2>2, <3>2, <3>3 DEF Conn, TypeOK, Fields
    <3> QED BY <2>2, <3>1, <3>4 DEF TypeOK, Fields
  <2> QED BY <2>2, <2>6, <2>7, <2>8, <2>9, <2>10, Assembled
<1> QED BY <1>3, <1>4

(* The nested level of a begin, commit or rollBack: its savepoint first.   *)
LEMMA SavepointHolds ==
  ASSUME NEW rest, NEW x, Rested(rest, x), x \in {"begin", "commit"} \/ rest = <<>>,
         Nests(rest) => level' > 1
  PROVE  Savepoint \o rest \in Seq(StepNames) /\ Holds(Savepoint \o rest, 0)'
<1>1. /\ Savepoint \in Pieces /\ Savepoint[1] = "toPrimary" /\ Savepoint[Len(Savepoint)] = "write"
      /\ "toPrimary" \in Switches /\ Savepoint # <<"leftNested">>
  BY PieceEnds, SavepointShape DEF Switches
<1>2. rest # <<>> => Follows("write", rest[1])
  BY DEF Rested, Follows
<1> QED BY <1>1, <1>2, JoinHolds

(* A step that only moves the level or the transaction of the current      *)
(* driver connection.                                                      *)
LEMMA SoundMoved ==
  ASSUME TypeOK, Sound, UNCHANGED <<options, current, cache, last>>, Len(conns') = Len(conns),
         \A i \in 1 .. Len(conns) : conns'[i].role = conns[i].role,
         level' # 0 \/ stuck' => OnPrimary, HasTransaction'
  PROVE  Sound'
<1>1. Executed'
  BY ExecutedKept DEF Sound, TypeOK, Fields
<1>2. PrimaryCached' /\ ReplicaFollowsPrimary' /\ (OnPrimary => OnPrimary')
  BY DEF Sound, PrimaryCached, ReplicaFollowsPrimary, OnPrimary, TypeOK, Fields
<1> QED BY <1>1, <1>2 DEF Sound

LEMMA BeginTransactionLive ==
  ASSUME TypeOK, Live, NEW t \in Tasks, BeginTransaction(t), ~ Crosses(t)
  PROVE  TypeOK' /\ Live'
<1>1. ~ Idle(t) /\ Head(tasks[t].todo) = "begin" /\ UNCHANGED options
  BY DEF BeginTransaction, Next2Do
<1>2. PICK k \in 1 .. Len(conns) : k = tasks[t].conn /\ k = current
  BY <1>1, Sending DEF Statements
<1>3. /\ OnPrimary /\ ~ Next2Do(t, "left") /\ Rested(Rest(t), "begin")
      /\ Nests(Rest(t)) => level > 1
  BY <1>1, Sending DEF Statements
<1>4. PICK rest \in Seq(StepNames) : rest = Rest(t)
  BY <1>3 DEF Rested
<1>5. Sound /\ level \in Nat
  BY DEF Live, TypeOK, Fields
<1>6. CASE Lost(t)
  BY <1>1, <1>6, LostLive DEF Statements
<1>7. CASE level = 0 /\ ~ Lost(t)
  <2>1. /\ level' = 1 /\ conns' = [conns EXCEPT ![k].inTx = TRUE] /\ stuck' = TRUE
        /\ Goes(t, rest, k) /\ UNCHANGED <<options, current, cache, last>>
    BY <1>1, <1>2, <1>4, <1>7 DEF BeginTransaction
  <2>2. /\ conns' \in Seq(Conn) /\ Len(conns') = Len(conns) /\ conns'[k].inTx
        /\ \A i \in 1 .. Len(conns) : conns'[i].role = conns[i].role
    BY <2>1, Changed
  <2>3. Len(conns') >= Len(conns) /\ k \in 0 .. Len(conns')
    BY <2>2 DEF TypeOK, Fields
  <2>4. Sound'
    <3>1. HasTransaction'
      BY <1>2, <2>1, <2>2 DEF HasTransaction
    <3> QED BY <1>3, <1>5, <2>1, <2>2, <3>1, SoundMoved
  <2>5. Holds(rest, k)'
    <3>1. OnPrimary' /\ ~ Nests(rest) /\ current' # 0 /\ k = current'
      BY <1>2, <1>3, <1>4, <1>7, <2>1 DEF OnPrimary
    <3> QED BY <1>3, <1>4, <3>1, RestHolds
  <2>6. Fields'
    BY <2>1, <2>2 DEF TypeOK, Fields
  <2> QED BY <1>7, <2>1, <2>3, <2>4, <2>5, <2>6, Assembled
<1>8. CASE level # 0 /\ ~ Lost(t)
  <2>1. /\ level' = level + 1 /\ Goes(t, Savepoint \o rest, 0)
        /\ UNCHANGED <<options, conns, current, cache, last, stuck>>
    BY <1>1, <1>4, <1>8 DEF BeginTransaction
  <2>2. \A u \in Tasks \ {t} : Idle(u)
    BY <1>5, <2>1 DEF Crosses
  <2>3. ~ Leaving
    BY <1>3, <2>2 DEF Leaving, Next2Do
  <2>4. Sound'
    <3>1. HasTransaction'
      BY <1>5, <1>8, <2>1, <2>3 DEF HasTransaction, Sound
    <3> QED BY <1>3, <1>5, <2>1, <3>1, SoundMoved
  <2>5. Savepoint \o rest \in Seq(StepNames) /\ Holds(Savepoint \o rest, 0)'
    <3>1. Nests(rest) => level' > 1
      BY <1>3, <1>4, <1>5, <2>1
    <3> QED BY <1>3, <1>4, <3>1, SavepointHolds
  <2>6. Len(conns') >= Len(conns) /\ 0 \in 0 .. Len(conns') /\ level' # level
    BY <1>5, <2>1 DEF TypeOK, Fields
  <2>7. Fields'
    BY <1>5, <2>1 DEF TypeOK, Fields
  <2> QED BY <2>1, <2>4, <2>5, <2>6, <2>7, Assembled
<1> QED BY <1>6, <1>7, <1>8

LEMMA CommitLive ==
  ASSUME TypeOK, Live, NEW t \in Tasks, Commit(t), ~ Crosses(t)
  PROVE  TypeOK' /\ Live'
<1>1. ~ Idle(t) /\ Head(tasks[t].todo) = "commit" /\ UNCHANGED options
  BY DEF Commit, Next2Do
<1>2. PICK k \in 1 .. Len(conns) : k = tasks[t].conn /\ k = current
  BY <1>1, Sending DEF Statements
<1>3. /\ OnPrimary /\ ~ Next2Do(t, "left") /\ Rested(Rest(t), "commit") /\ level # 0
      /\ Nests(Rest(t)) => level > 1
  BY <1>1, Sending DEF Statements
<1>4. PICK rest \in Seq(StepNames) : rest = Rest(t)
  BY <1>3 DEF Rested
<1>5. Sound /\ level \in Nat
  BY DEF Live, TypeOK, Fields
<1>6. CASE Lost(t)
  BY <1>1, <1>6, LostLive DEF Statements
<1>7. CASE level = 1 /\ ~ Lost(t)
  <2>1. /\ conns' = [conns EXCEPT ![k].inTx = FALSE]
        /\ Goes(t, rest, k) /\ UNCHANGED <<options, current, cache, level, last, stuck>>
    BY <1>1, <1>2, <1>4, <1>7 DEF Commit
  <2>2. /\ conns' \in Seq(Conn) /\ Len(conns') = Len(conns)
        /\ \A i \in 1 .. Len(conns) : conns'[i].role = conns[i].role
    BY <2>1, Changed
  <2>3. Len(conns') >= Len(conns) /\ k \in 0 .. Len(conns')
    BY <2>2 DEF TypeOK, Fields
  <2>4. rest # <<>> /\ rest[1] = "left"
    <3>0. PICK todo \in Seq(StepNames) : todo = tasks[t].todo
      BY DEF TypeOK, Fields
    <3>1. todo # <<>> /\ rest = Tail(todo) /\ todo[1] = "commit"
      BY <1>1, <1>4, <3>0 DEF Idle, Rest
    <3>2. 1 < Len(todo) /\ todo[2] = "left"
      <4>1. 1 \in 1 .. Len(todo) /\ 1 + 1 = 2
        BY <3>1
      <4>2. Shaped(todo)
        BY <3>0 DEF Live, Holds
      <4> QED BY <3>1, <4>1, <4>2 DEF Shaped
    <3>3. Len(rest) = Len(todo) - 1 /\ rest[1] = todo[2]
      BY <3>1, <3>2
    <3> QED BY <3>2, <3>3
  <2>5. Leaving'
    <3>1. tasks'[t].todo = rest
      BY <2>1, <2>3, Going
    <3>2. Next2Do(t, "left")'
      BY <2>4, <3>1 DEF Next2Do, Idle
    <3> QED BY <3>2 DEF Leaving
  <2>6. Sound'
    <3>1. HasTransaction'
      BY <1>7, <2>1, <2>5 DEF HasTransaction
    <3> QED BY <1>3, <1>5, <2>1, <2>2, <3>1, SoundMoved
  <2>7. Holds(rest, k)'
    <3>1. OnPrimary' /\ ~ Nests(rest) /\ k = current'
      BY <1>2, <1>3, <1>4, <1>7, <2>1 DEF OnPrimary
    <3> QED BY <1>3, <1>4, <3>1, RestHolds
  <2>8. Fields'
    BY <2>1, <2>2 DEF TypeOK, Fields
  <2> QED BY <2>1, <2>3, <2>6, <2>7, <2>8, Assembled
<1>8. CASE level # 1 /\ ~ Lost(t)
  <2>1. /\ Goes(t, Savepoint \o rest, 0)
        /\ UNCHANGED <<options, conns, current, cache, level, last, stuck>>
    BY <1>1, <1>4, <1>8 DEF Commit
  <2>2. Savepoint \o rest \in Seq(StepNames) /\ Holds(Savepoint \o rest, 0)'
    <3>1. Nests(rest) => level' > 1
      BY <1>3, <1>4, <2>1
    <3> QED BY <1>3, <1>4, <3>1, SavepointHolds
  <2>3. Len(conns') >= Len(conns) /\ 0 \in 0 .. Len(conns')
    BY <2>1 DEF TypeOK, Fields
  <2>4. Sound'
    BY <1>3, <1>5, <2>1, <2>2, <2>3, Going, LeavingKept, SoundKept
  <2>5. Fields'
    BY <2>1 DEF TypeOK, Fields
  <2> QED BY <2>1, <2>2, <2>3, <2>4, <2>5, Assembled
<1> QED BY <1>6, <1>7, <1>8

(* Nothing follows the last step of a program. *)
LEMMA Ended ==
  ASSUME NEW rest, NEW x \in {"rollBack", "left", "leftNested"}, Rested(rest, x)
  PROVE  rest = <<>>
BY DEF Rested, Follows

(* What follows the outermost transaction, with nothing after it. *)
LEMMA FollowingHolds ==
  ASSUME NEW k, k \in {0, current'}
  PROVE  \E own \in Seq(StepNames) : own = Following \o <<>> /\ Holds(own, k)'
<1>1. <<>> \in Seq(StepNames) /\ Rested(<<>>, "left") /\ ~ Demands(<<>>) /\ ~ Nests(<<>>)
  BY DEF Rested, Demands, Nests, Shaped
<1>2. /\ Begin \in Pieces /\ Begin[1] = "toPrimary" /\ "toPrimary" \in Switches
      /\ Begin # <<"leftNested">>
  BY PieceEnds DEF Switches, Begin
<1>3. Begin \o <<>> \in Seq(StepNames) /\ Holds(Begin \o <<>>, k)'
  BY <1>1, <1>2, JoinHolds
<1>4. <<>> \o <<>> = <<>>
  OBVIOUS
<1>5. Following = Begin \/ Following = <<>>
  BY DEF Following
<1>6. CASE Following = Begin
  BY <1>3, <1>6
<1>7. CASE Following = <<>>
  BY <1>1, <1>4, <1>7, IdleHolds
<1> QED BY <1>5, <1>6, <1>7

LEMMA LeftLive ==
  ASSUME TypeOK, Live, NEW t \in Tasks, Left(t), ~ Crosses(t)
  PROVE  TypeOK' /\ Live'
<1>1. /\ ~ Idle(t) /\ Head(tasks[t].todo) = "left" /\ level' = IF level = 0 THEN 0 ELSE level - 1
      /\ Goes(t, Following \o Rest(t), 0) /\ UNCHANGED <<options, conns, current, cache, last, stuck>>
  BY DEF Left, Next2Do
<1>2. Rest(t) = <<>>
  BY <1>1, Resting, Ended DEF Live
<1>3. \E own \in Seq(StepNames) : own = Following \o <<>> /\ Holds(own, 0)'
  BY FollowingHolds
<1>4. PICK own \in Seq(StepNames) : Goes(t, own, 0) /\ Holds(own, 0)'
  BY <1>1, <1>2, <1>3
<1>5. Len(conns') >= Len(conns) /\ 0 \in 0 .. Len(conns') /\ level \in Nat
  BY <1>1 DEF TypeOK, Fields
<1>6. Sound'
  <2>1. HasTransaction'
    BY <1>1, <1>5 DEF HasTransaction, Live, Sound
  <2>2. level' # 0 \/ stuck' => OnPrimary
    BY <1>1, <1>5 DEF Live, Sound
  <2> QED BY <1>1, <1>5, <2>1, <2>2, SoundMoved DEF Live
<1>7. Fields'
  BY <1>1, <1>5 DEF TypeOK, Fields
<1> QED BY <1>1, <1>4, <1>5, <1>6, <1>7, Assembled

LEMMA LeftNestedLive ==
  ASSUME TypeOK, Live, NEW t \in Tasks, LeftNested(t), ~ Crosses(t)
  PROVE  TypeOK' /\ Live'
<1>1. /\ ~ Idle(t) /\ Head(tasks[t].todo) = "leftNested" /\ level' = level - 1
      /\ Goes(t, Rest(t), 0) /\ UNCHANGED <<options, conns, current, cache, last, stuck>>
  BY DEF LeftNested, Next2Do
<1>2. Rest(t) = <<>> /\ tasks[t].todo[1] = "leftNested" /\ 1 \in DOMAIN tasks[t].todo
  BY <1>1, Resting, Ended DEF Live, TypeOK, Fields, Idle
<1>3. level > 1 /\ level \in Nat
  BY <1>2 DEF Live, Holds, TypeOK, Fields
<1>4. <<>> \in Seq(StepNames) /\ Goes(t, <<>>, 0) /\ Holds(<<>>, 0)'
  BY <1>1, <1>2, IdleHolds
<1>5. Len(conns') >= Len(conns) /\ 0 \in 0 .. Len(conns')
  BY <1>1 DEF TypeOK, Fields
<1>6. Sound'
  <2>1. HasTransaction'
    BY <1>1, <1>3 DEF HasTransaction, Live, Sound
  <2>2. level' # 0 \/ stuck' => OnPrimary
    BY <1>1, <1>3 DEF Live, Sound
  <2> QED BY <1>1, <1>5, <2>1, <2>2, SoundMoved DEF Live
<1>7. Fields'
  BY <1>1, <1>3 DEF TypeOK, Fields
<1> QED BY <1>1, <1>3, <1>4, <1>5, <1>6, <1>7, Assembled

LEMMA RollBackLive ==
  ASSUME TypeOK, Live, NEW t \in Tasks, RollBack(t), ~ Crosses(t)
  PROVE  TypeOK' /\ Live'
<1>1. ~ Idle(t) /\ Head(tasks[t].todo) = "rollBack" /\ UNCHANGED options
  BY DEF RollBack, Next2Do
<1>2. PICK k \in 1 .. Len(conns) : k = tasks[t].conn /\ k = current
  BY <1>1, Sending DEF Statements
<1>3. OnPrimary /\ ~ Next2Do(t, "left") /\ level # 0 /\ Rest(t) = <<>>
  BY <1>1, Sending, Ended DEF Statements
<1>4. Sound /\ level \in Nat
  BY DEF Live, TypeOK, Fields
<1>5. CASE Lost(t)
  BY <1>1, <1>5, LostLive DEF Statements
<1>6. CASE level = 1 /\ ~ Lost(t)
  <2>1. /\ level' = 0 /\ conns' = [conns EXCEPT ![k].inTx = FALSE]
        /\ Goes(t, Following \o <<>>, k) /\ UNCHANGED <<options, current, cache, last, stuck>>
    BY <1>1, <1>2, <1>3, <1>6 DEF RollBack
  <2>2. /\ conns' \in Seq(Conn) /\ Len(conns') = Len(conns)
        /\ \A i \in 1 .. Len(conns) : conns'[i].role = conns[i].role
    BY <2>1, Changed
  <2>3. Len(conns') >= Len(conns) /\ k \in 0 .. Len(conns') /\ level' # level
    BY <1>6, <2>1, <2>2 DEF TypeOK, Fields
  <2>4. Sound'
    <3>1. HasTransaction'
      BY <2>1 DEF HasTransaction
    <3>2. level' # 0 \/ stuck' => OnPrimary
      BY <1>3
    <3> QED BY <1>4, <2>1, <2>2, <3>1, <3>2, SoundMoved
  <2>5. PICK own \in Seq(StepNames) : own = Following \o <<>> /\ Holds(own, k)'
    <3>1. k = current'
      BY <1>2, <2>1
    <3> QED BY <3>1, FollowingHolds
  <2>6. Fields'
    BY <2>1, <2>2 DEF TypeOK, Fields
  <2> QED BY <2>1, <2>3, <2>4, <2>5, <2>6, Assembled
<1>7. CASE level # 1 /\ ~ Lost(t)
  <2>1. /\ Goes(t, Savepoint \o <<"leftNested">> \o <<>>, 0)
        /\ UNCHANGED <<options, conns, current, cache, level, last, stuck>>
    BY <1>1, <1>3, <1>7 DEF RollBack
  <2>2. level > 1
    BY <1>3, <1>4, <1>7
  <2>3. PICK a \in Pieces : a = <<"leftNested">>
    BY DEF Pieces
  <2>4. /\ a \in Seq(StepNames) /\ a # <<>> /\ Shaped(a) /\ Len(a) = 1 /\ a[1] = "leftNested"
        /\ Savepoint \in Seq(StepNames)
    BY <2>3, PieceShape, SavepointShape
  <2>5. Rested(a, "commit")
    BY <2>4 DEF Rested, Follows
  <2>6. Savepoint \o a \in Seq(StepNames) /\ Holds(Savepoint \o a, 0)'
    BY <2>1, <2>2, <2>5, SavepointHolds
  <2>7. (Savepoint \o a) \o <<>> = Savepoint \o a
    BY <2>4
  <2>8. Len(conns') >= Len(conns) /\ 0 \in 0 .. Len(conns')
    BY <2>1 DEF TypeOK, Fields
  <2>9. Goes(t, Savepoint \o a, 0)
    BY <2>1, <2>3, <2>7
  <2>10. Sound'
    BY <1>3, <1>4, <2>1, <2>6, <2>8, <2>9, Going, LeavingKept, SoundKept
  <2>11. Fields'
    BY <2>1 DEF TypeOK, Fields
  <2> QED BY <2>1, <2>6, <2>8, <2>9, <2>10, <2>11, Assembled
<1> QED BY <1>5, <1>6, <1>7

LEMMA CloseLive ==
  ASSUME TypeOK, Live, NEW t \in Tasks, Close(t), ~ Crosses(t)
  PROVE  TypeOK' /\ Live'
<1>1. /\ conns' = [ k \in DOMAIN conns |->
                      IF k \in {current, cache.primary, cache.replica}
                      THEN [conns[k] EXCEPT !.open = FALSE, !.inTx = FALSE] ELSE conns[k] ]
      /\ cache' = [primary |-> 0, replica |-> 0] /\ current' = 0 /\ level' = 0
      /\ stuck' = FALSE /\ Fails(t) /\ UNCHANGED <<options, last>>
  BY DEF Close, Reset
<1>2. /\ conns' \in Seq(Conn) /\ Len(conns') = Len(conns)
      /\ \A i \in 1 .. Len(conns) : conns'[i].role = conns[i].role
  <2>0. conns \in Seq(Conn)
    BY DEF TypeOK, Fields
  <2>1. ASSUME NEW i \in 1 .. Len(conns)
        PROVE  conns'[i] \in Conn /\ conns'[i].role = conns[i].role
    <3>1. conns[i] \in Conn /\ i \in DOMAIN conns
      BY <2>0
    <3>2. conns'[i] = [conns[i] EXCEPT !.open = FALSE, !.inTx = FALSE] \/ conns'[i] = conns[i]
      BY <1>1, <3>1
    <3> QED BY <3>1, <3>2 DEF Conn
  <2>2. DOMAIN conns = 1 .. Len(conns) /\ DOMAIN conns' = DOMAIN conns /\ Len(conns) \in Nat
    <3>1. DOMAIN conns = 1 .. Len(conns) /\ Len(conns) \in Nat
      BY <2>0
    <3> QED BY <1>1, <3>1
  <2>3. conns' = [i \in 1 .. Len(conns) |-> conns'[i]]
    BY <1>1, <2>2
  <2> QED BY <2>1, <2>2, <2>3
<1>3. PICK own \in Seq(StepNames) : own \in {<<>>, <<"left">>} /\ Goes(t, own, 0)
  BY <1>1, FailingShape
<1>4. Holds(own, 0)'
  BY <1>3, LeftHolds
<1>5. Len(conns') >= Len(conns) /\ 0 \in 0 .. Len(conns')
  BY <1>2 DEF TypeOK, Fields
<1>6. Sound'
  <2>1. Executed'
    BY <1>1, <1>2, <1>5, ExecutedKept DEF Live, Sound
  <2>2. cache'.primary = 0
    BY <1>1
  <2>3. PrimaryCached' /\ ReplicaFollowsPrimary'
    BY <2>2 DEF PrimaryCached, ReplicaFollowsPrimary
  <2>4. HasTransaction'
    <3>1. level' = 0
      BY <1>1
    <3> QED BY <3>1 DEF HasTransaction
  <2> QED BY <1>1, <2>1, <2>3, <2>4 DEF Sound
<1>7. \/ <<current, level>>' # <<current, level>>
      \/ current = 0
  BY <1>1
<1>8. Fields'
  BY <1>1, <1>2, <1>5 DEF TypeOK, Fields
<1> QED BY <1>1, <1>3, <1>4, <1>5, <1>6, <1>7, <1>8, Assembled

-----------------------------------------------------------------------------
(* The invariant holds at first, every step keeps it, and so it holds.     *)
LEMMA InitInv == Init => IInv
<1> SUFFICES ASSUME Init PROVE TypeOK /\ Live
  BY DEF IInv
<1>1. conns = <<>> /\ Len(conns) = 0 /\ current = 0 /\ level = 0 /\ stuck = FALSE
      /\ cache = [primary |-> 0, replica |-> 0]
  BY DEF Init
<1>2. options \in [autoCommit : BOOLEAN, keepReplica : BOOLEAN]
  BY PRRAssumption DEF Init
<1>3. last.stmt = "none" /\ last.within = FALSE
      /\ last \in [stmt : {"none", "read", "write"}, conn : 0 .. Len(conns),
                  within : BOOLEAN, inTx : BOOLEAN, stuck : BOOLEAN]
  BY <1>1 DEF Init
<1>4. \A t \in Tasks : tasks[t].todo = <<>> /\ tasks[t].conn = 0
  BY DEF Init
<1>5. tasks \in [Tasks -> [todo : Seq(StepNames), conn : 0 .. Len(conns)]]
  <2>1. [todo |-> <<>>, conn |-> 0] \in [todo : Seq(StepNames), conn : 0 .. Len(conns)]
    BY <1>1
  <2> QED BY <2>1 DEF Init
<1>6. TypeOK
  <2>1. conns \in Seq(Conn)
    BY <1>1
  <2>2. /\ current \in 0 .. Len(conns) /\ level \in Nat /\ stuck \in BOOLEAN
        /\ cache \in [primary : 0 .. Len(conns), replica : 0 .. Len(conns)]
    <3>1. 0 \in 0 .. Len(conns) /\ 0 \in Nat
      BY <1>1
    <3> QED BY <1>1, <3>1
  <2> QED BY <1>2, <1>3, <1>5, <2>1, <2>2 DEF TypeOK, Fields
<1>7. \A t \in Tasks : Holds(tasks[t].todo, tasks[t].conn)
  BY <1>4, IdleHolds
<1>8. Sound
  <2>1. PrimaryCached /\ ReplicaFollowsPrimary /\ HasTransaction
    BY <1>1 DEF PrimaryCached, ReplicaFollowsPrimary, HasTransaction
  <2>2. Executed
    BY <1>3 DEF Executed, WritesRouted, ReadsStick
  <2> QED BY <1>1, <2>1, <2>2 DEF Sound
<1> QED BY <1>6, <1>7, <1>8 DEF Live

LEMMA StepLive ==
  ASSUME TypeOK, Live, NEW t \in Tasks, Step(t), ~ Crosses(t)
  PROVE  TypeOK' /\ Live'
<1>1. ASSUME NEW call \in Calls[t], CallStarts(t, call) PROVE TypeOK' /\ Live'
  BY <1>1, CallStartsLive
<1>2. CASE EnsureConnected(t)
  BY <1>2, EnsureConnectedLive
<1>3. CASE Open(t)
  BY <1>3, OpenLive
<1>4. CASE Connect(t)
  BY <1>4, ConnectLive
<1>5. CASE NoActiveTransaction(t)
  BY <1>5, NoActiveTransactionLive
<1>6. CASE Adopt(t)
  BY <1>6, AdoptLive
<1>7. CASE Connected(t)
  BY <1>7, ConnectedLive
<1>8. CASE Statement(t)
  BY <1>8, StatementLive
<1>9. CASE BeginTransaction(t)
  BY <1>9, BeginTransactionLive
<1>10. CASE Commit(t)
  BY <1>10, CommitLive
<1>11. CASE Left(t)
  BY <1>11, LeftLive
<1>12. CASE RollBack(t)
  BY <1>12, RollBackLive
<1>13. CASE LeftNested(t)
  BY <1>13, LeftNestedLive
<1>14. CASE Close(t)
  BY <1>14, CloseLive
<1> QED BY <1>1, <1>2, <1>3, <1>4, <1>5, <1>6, <1>7, <1>8, <1>9, <1>10, <1>11, <1>12,
           <1>13, <1>14 DEF Step

LEMMA NextInv == IInv /\ [Next]_vars => IInv'
<1> SUFFICES ASSUME IInv, [Next]_vars, ~ crossed' PROVE TypeOK' /\ Live'
  BY DEF IInv
<1>1. CASE Next
  <2>1. PICK t \in Tasks : Step(t) /\ crossed' = Crosses(t)
    BY <1>1 DEF Next
  <2>2. TypeOK /\ Live
    BY <1>1 DEF Next, IInv
  <2> QED BY <2>1, <2>2, StepLive
<1>2. CASE UNCHANGED vars
  <2>1. TypeOK /\ Live
    BY <1>2 DEF IInv, vars
  <2>2. UNCHANGED <<options, conns, current, cache, level, tasks, last, stuck>>
    BY <1>2 DEF vars
  <2>3. Fields' /\ TypeOK'
    BY <2>1, <2>2 DEF TypeOK, Fields
  <2>4. Sound'
    <3>1. Leaving => Leaving'
      BY <2>2 DEF Leaving, Next2Do, Idle
    <3> QED BY <2>1, <2>2, <3>1, SoundKept DEF Live
  <2>5. ASSUME NEW u \in Tasks PROVE Holds(tasks[u].todo, tasks[u].conn)'
    <3>1. Holds(tasks[u].todo, tasks[u].conn)
      BY <2>1 DEF Live
    <3> QED BY <2>2, <3>1 DEF Holds, Ready, OnPrimary
  <2> QED BY <2>3, <2>4, <2>5 DEF Live
<1> QED BY <1>1, <1>2

LEMMA Invariance == Spec => []IInv
BY InitInv, NextInv, PTL DEF Spec

(* Every write goes to the primary, every read after it too, and without   *)
(* keepReplica the primary replaces the replica: whichever calls overlap,  *)
(* unless one changes the connection in the middle of another one.         *)
THEOREM AlwaysRouted == Spec => []Routed
<1>1. IInv => Routed
  BY DEF IInv, Live, Sound, Executed, Routed
<1> QED BY <1>1, Invariance, PTL

(* A transaction is on the primary, and every statement inside it goes to  *)
(* the driver connection it was begun on, of whichever task it is.         *)
THEOREM AlwaysPinned == Spec => []Pinned
<1>1. IInv => Pinned
  <2> SUFFICES ASSUME IInv, ~ crossed PROVE Pinned
    BY DEF Pinned
  <2>1. Live /\ level \in Nat
    BY DEF IInv, TypeOK, Fields
  <2>2. last.within => last.inTx
    BY <2>1 DEF Live, Sound, Executed
  <2>3. ASSUME \A t \in Tasks : Idle(t), level > 0
        PROVE  current # 0 /\ conns[current].role = "primary" /\ conns[current].inTx
    <3>1. ~ Leaving
      BY <2>3 DEF Leaving, Next2Do
    <3>2. OnPrimary
      BY <2>1, <2>3 DEF Live, Sound
    <3>3. conns[current].inTx
      BY <2>1, <2>3, <3>1 DEF Live, Sound, HasTransaction
    <3> QED BY <2>1, <3>2, <3>3 DEF Live, Sound, PrimaryCached, OnPrimary
  <2> QED BY <2>2, <2>3 DEF Pinned
<1> QED BY <1>1, Invariance, PTL
=============================================================================
