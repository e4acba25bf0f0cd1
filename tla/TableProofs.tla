---------------------------- MODULE TableProofs -----------------------------
(***************************************************************************)
(* The parts of a table stay in step through every sequence of calls of    *)
(* its own and of an editor's, for every set of columns and names: the     *)
(* first part describes the folds of the model step by step, the second    *)
(* what each method leaves of a table, the third what create() makes, and  *)
(* the last what it gives back.                                            *)
(***************************************************************************)
EXTENDS AlterTable, SequenceTheorems, WellFoundedInduction, TLAPS

-----------------------------------------------------------------------------
(* Folds. *)

(* A set of numbers that is not empty has a least one.                     *)
LEMMA Least ==
  ASSUME NEW T \in SUBSET Nat, T # {}
  PROVE  \E y \in T : \A x \in T : y <= x
<1> DEFINE R == OpToRel(<, Nat)
<1>1. IsWellFoundedOn(R, Nat)
  BY NatLessThanWellFounded, Zenon
<1>2. R = {p \in Nat \X Nat : p[1] < p[2]}
  BY DEF OpToRel
<1> HIDE DEF R
<1>3. PICK y \in T : \A x \in T : <<x, y>> \notin R
  BY <1>1, WFMin, Zenon
<1>4. ASSUME NEW x \in T, x < y PROVE FALSE
  <2>1. <<x, y>> \in R
    BY <1>2, <1>4
  <2> QED BY <1>3, <2>1
<1> QED BY <1>4

(* What holds of no steps and is kept by each holds of them all.  Stated   *)
(* for the sets of the k up to which something holds.                      *)
LEMMA UpTo ==
  ASSUME NEW n \in Nat, NEW T, 0 \in T, \A k \in 1 .. n : k - 1 \in T => k \in T
  PROVE  \A k \in 0 .. n : k \in T
<1> DEFINE U == {k \in 0 .. n : k \notin T}
<1>1. ASSUME U # {} PROVE FALSE
  <2>1. U \in SUBSET Nat
    OBVIOUS
  <2>2. PICK k \in U : \A x \in U : k <= x
    BY <1>1, <2>1, Least, Zenon
  <2>3. k \in 1 .. n /\ k - 1 \in 0 .. n /\ ~ k <= k - 1
    OBVIOUS
  <2>4. k - 1 \notin U
    BY <2>2, <2>3
  <2> QED BY <2>3, <2>4
<1> QED BY <1>1

(* The greatest element of a set of numbers up to k that has k.            *)
LEMMA MaxIs ==
  ASSUME NEW k \in Nat, NEW s \in SUBSET (1 .. k), k \in s
  PROVE  Max(s) = k
<1>1. \A y \in s : k >= y
  OBVIOUS
<1>2. Max(s) \in s /\ \A y \in s : Max(s) >= y
  BY <1>1, Zenon DEF Max
<1>3. PICK m : m = Max(s)
  OBVIOUS
<1>4. m \in s /\ m >= k /\ k >= m
  BY <1>1, <1>2, <1>3
<1>5. m \in Nat
  BY <1>4
<1> QED BY <1>3, <1>4, <1>5

LEMMA MaxIn ==
  ASSUME NEW n \in Nat, NEW s \in SUBSET (1 .. n), s # {}
  PROVE  Max(s) \in s
<1> DEFINE T == {n - y : y \in s}
<1>1. T \in SUBSET Nat /\ T # {}
  <2>1. \A y \in s : n - y \in Nat
    OBVIOUS
  <2>2. PICK z : z \in s
    OBVIOUS
  <2>3. n - z \in T
    BY <2>2
  <2> QED BY <2>1, <2>3
<1>2. PICK m \in T : \A x \in T : m <= x
  BY <1>1, Least, Zenon
<1>3. PICK k \in s : m = n - k
  BY <1>2
<1>4. \A y \in s : k >= y
  <2>1. SUFFICES ASSUME NEW y \in s PROVE k >= y
    OBVIOUS
  <2>2. m <= n - y
    BY <1>2
  <2> QED BY <2>2, <1>3
<1> QED BY <1>4, Zenon DEF Max

(* A fold goes over the sets of the indexes of a sequence.  It is defined  *)
(* when each of its steps is: G[a][k] is the outcome of step k after a.    *)
Folds(g, n, base, G) ==
  g = [T \in SUBSET (1 .. n) |-> IF T = {} THEN base ELSE G[g[T \ {Max(T)}]][Max(T)]]

LEMMA FoldExists ==
  ASSUME NEW n \in Nat, NEW A, NEW base \in A, NEW G \in [A -> [1 .. n -> A]]
  PROVE  \E g : g \in [SUBSET (1 .. n) -> A] /\ Folds(g, n, base, G)
<1> DEFINE Is(g, k) == g \in [SUBSET (1 .. k) -> A] /\ Folds(g, k, base, G)
           T == {k \in 0 .. n : \E g : Is(g, k)}
<1>1. 0 \in T
  <2>1. PICK g : g = [t \in SUBSET (1 .. 0) |-> base]
    OBVIOUS
  <2>2. \A t \in SUBSET (1 .. 0) : t = {}
    OBVIOUS
  <2>3. Is(g, 0)
    BY <2>1, <2>2 DEF Folds
  <2> HIDE DEF Is
  <2> QED BY <2>3
<1>2. ASSUME NEW k \in 1 .. n, k - 1 \in T PROVE k \in T
  <2>1. PICK g : Is(g, k - 1)
    BY <1>2
  <2> DEFINE h == [t \in SUBSET (1 .. k) |-> IF k \in t THEN G[g[t \ {k}]][k] ELSE g[t]]
  <2>2. ASSUME NEW t \in SUBSET (1 .. k)
        PROVE  /\ h[t] = IF t = {} THEN base ELSE G[h[t \ {Max(t)}]][Max(t)]
               /\ h[t] \in A
    <3>1. CASE k \in t
      <4>1. Max(t) = k
        BY <3>1, MaxIs
      <4>2. t \ {k} \in SUBSET (1 .. k) /\ t \ {k} \in SUBSET (1 .. k - 1)
        OBVIOUS
      <4>3. h[t \ {k}] = g[t \ {k}]
        BY <4>2
      <4>4. h[t] = G[g[t \ {k}]][k]
        BY <3>1
      <4>5. g[t \ {k}] \in A
        BY <2>1, <4>2
      <4>6. h[t] \in A
        BY <4>4, <4>5
      <4> QED BY <4>1, <4>3, <4>4, <4>6, <3>1, Zenon
    <3>2. CASE k \notin t
      <4>1. t \in SUBSET (1 .. k - 1)
        <5>1. \A x \in 1 .. k : x # k => x \in 1 .. k - 1
          OBVIOUS
        <5> QED BY <5>1, <3>2
      <4>2. h[t] = g[t]
        BY <3>2
      <4>3. g[t] = IF t = {} THEN base ELSE G[g[t \ {Max(t)}]][Max(t)]
        BY <2>1, <4>1, Zenon DEF Folds
      <4>4. h[t \ {Max(t)}] = g[t \ {Max(t)}]
        <5>1. t \ {Max(t)} \in SUBSET (1 .. k) /\ k \notin t \ {Max(t)}
          BY <3>2
        <5> QED BY <5>1
      <4>5. g[t] \in A
        BY <2>1, <4>1
      <4> QED BY <4>2, <4>3, <4>4, <4>5, Zenon
    <3> QED BY <3>1, <3>2
  <2>3. Is(h, k)
    <3>1. h \in [SUBSET (1 .. k) -> A]
      BY <2>2
    <3>2. Folds(h, k, base, G)
      BY <2>2, Zenon DEF Folds
    <3> QED BY <3>1, <3>2
  <2> HIDE DEF h, Is
  <2> QED BY <2>3
<1>3. n \in T
  <2> HIDE DEF T
  <2>1. \A k \in 0 .. n : k \in T
    BY <1>1, <1>2, UpTo
  <2> QED BY <2>1
<1> QED BY <1>3

(* Distinct() looks at the columns one by one.                             *)
Seen(seen, c) == IF Contains(seen, c) THEN seen ELSE Append(seen, c)

LEMMA DistinctOneByOne ==
  ASSUME NEW S, NEW s \in Seq(S)
  PROVE  \E f : /\ f[0] = <<>> /\ f[Len(s)] = Distinct(s)
                /\ \A k \in 1 .. Len(s) : f[k] = Seen(f[k - 1], s[k])
<1>1. PICK n : n = Len(s) /\ n \in Nat /\ DOMAIN s = 1 .. n
  OBVIOUS
<1> DEFINE Step(g, T) == IF T = {} THEN <<>> ELSE Seen(g[T \ {Max(T)}], s[Max(T)])
           Op(g) == g = [T \in SUBSET (1 .. n) |-> Step(g, T)]
           iter == CHOOSE g : Op(g)
<1>2. \E g : Op(g)
  <2>1. PICK G : G = [a \in Seq(S) |-> [k \in 1 .. n |-> Seen(a, s[k])]]
    OBVIOUS
  <2>2. \A a \in Seq(S), k \in 1 .. n : Seen(a, s[k]) \in Seq(S)
    BY <1>1 DEF Seen
  <2>3. G \in [Seq(S) -> [1 .. n -> Seq(S)]] /\ <<>> \in Seq(S)
    BY <2>1, <2>2
  <2>4. PICK g : g \in [SUBSET (1 .. n) -> Seq(S)] /\ Folds(g, n, <<>>, G)
    BY <1>1, <2>3, FoldExists
  <2>5. ASSUME NEW T \in SUBSET (1 .. n), T # {}
        PROVE  G[g[T \ {Max(T)}]][Max(T)] = Seen(g[T \ {Max(T)}], s[Max(T)])
    <3>1. Max(T) \in 1 .. n
      BY <1>1, <2>5, MaxIn
    <3>2. g[T \ {Max(T)}] \in Seq(S)
      BY <2>4
    <3> QED BY <3>1, <3>2, <2>1
  <2>6. Op(g)
    BY <2>4, <2>5, Zenon DEF Folds
  <2> QED BY <2>6
<1>3. Op(iter)
  BY <1>2, Zenon
<1>4. Distinct(s) = iter[1 .. n]
  BY <1>1, Zenon DEF Distinct, FoldLeft, MapThenFoldSet, Seen
<1> HIDE DEF iter
<1>5. PICK f : f = [k \in 0 .. n |-> iter[1 .. k]]
  OBVIOUS
<1>6. f[0] = <<>>
  <2>1. 1 .. 0 = {} /\ {} \in SUBSET (1 .. n)
    OBVIOUS
  <2>2. iter[{}] = Step(iter, {})
    BY <1>3, <2>1, Zenon
  <2> QED BY <2>1, <2>2, <1>1, <1>5
<1>7. ASSUME NEW k \in 1 .. n PROVE f[k] = Seen(f[k - 1], s[k])
  <2>1. k \in Nat /\ k \in 1 .. k /\ 1 .. k \in SUBSET (1 .. n) /\ 1 .. k # {}
    <3>1. k \in Nat /\ k \in 1 .. k
      OBVIOUS
    <3>2. \A x \in 1 .. k : x \in 1 .. n
      BY <1>1
    <3> QED BY <3>1, <3>2
  <2>2. Max(1 .. k) = k
    BY <2>1, MaxIs
  <2>3. (1 .. k) \ {k} = 1 .. k - 1
    BY <2>1
  <2>4. iter[1 .. k] = Step(iter, 1 .. k)
    BY <1>3, <2>1, Zenon
  <2>5. iter[1 .. k] = Seen(iter[1 .. k - 1], s[k])
    BY <2>1, <2>2, <2>3, <2>4, Zenon
  <2> QED BY <2>5, <1>1, <1>5
<1> QED BY <1>1, <1>4, <1>5, <1>6, <1>7
-----------------------------------------------------------------------------
(* The columns of indexes. *)

LEMMA InRange ==
  ASSUME NEW S, NEW s \in Seq(S)
  PROVE  /\ \A x : Contains(s, x) <=> x \in Range(s)
         /\ Range(s) \subseteq S
  BY DEF Contains, Range

LEMMA Appended ==
  ASSUME NEW S, NEW s \in Seq(S), NEW x \in S
  PROVE  /\ Append(s, x) \in Seq(S) /\ Len(Append(s, x)) = Len(s) + 1
         /\ Append(s, x)[Len(s) + 1] = x
         /\ \A i \in 1 .. Len(s) : Append(s, x)[i] = s[i]
<1>1. Append(s, x) \in Seq(S)
  BY AppendProperties
<1>2. Len(Append(s, x)) = Len(s) + 1
  BY AppendProperties
<1>3. Append(s, x)[Len(s) + 1] = x
  BY AppendProperties
<1>4. \A i \in 1 .. Len(s) : Append(s, x)[i] = s[i]
  BY AppendProperties
<1> QED BY <1>1, <1>2, <1>3, <1>4

LEMMA AppendRange ==
  ASSUME NEW S, NEW s \in Seq(S), NEW x \in S
  PROVE  Append(s, x) \in Seq(S) /\ Range(Append(s, x)) = Range(s) \cup {x}
<1>1. PICK u, n : u = Append(s, x) /\ n = Len(s)
  OBVIOUS
<1>2. /\ u \in Seq(S) /\ Len(u) = n + 1 /\ u[n + 1] = x
      /\ \A i \in 1 .. n : u[i] = s[i]
  BY <1>1, Appended
<1>3. n \in Nat /\ DOMAIN s = 1 .. n /\ DOMAIN u = 1 .. n + 1
  BY <1>1, <1>2
<1>4. Range(u) = Range(s) \cup {x}
  <2>1. \A i \in 1 .. n + 1 : i = n + 1 \/ i \in 1 .. n
    BY <1>3
  <2>2. n + 1 \in 1 .. n + 1 /\ \A i \in 1 .. n : i \in 1 .. n + 1
    BY <1>3
  <2> QED BY <1>2, <1>3, <2>1, <2>2 DEF Range
<1> QED BY <1>1, <1>2, <1>4

LEMMA DistinctEmpty == Distinct(<<>>) = <<>>
<1>1. PICK e, S : e = <<>> /\ S = {}
  OBVIOUS
<1>2. e \in Seq(S) /\ Len(e) = 0
  BY <1>1
<1>3. \E f : f[0] = <<>> /\ f[Len(e)] = Distinct(e)
  BY <1>2, DistinctOneByOne
<1> QED BY <1>1, <1>2, <1>3

LEMMA DistinctType ==
  ASSUME NEW S, NEW s \in Seq(S)
  PROVE  Distinct(s) \in Seq(S) /\ Range(Distinct(s)) = Range(s)
<1>1. PICK f : /\ f[0] = <<>> /\ f[Len(s)] = Distinct(s)
               /\ \A k \in 1 .. Len(s) : f[k] = Seen(f[k - 1], s[k])
  BY DistinctOneByOne
<1>2. PICK n : n = Len(s) /\ n \in Nat /\ DOMAIN s = 1 .. n
  OBVIOUS
<1> DEFINE T == {k \in 0 .. n : f[k] \in Seq(S) /\ Range(f[k]) = {s[i] : i \in 1 .. k}}
<1>3. 0 \in T
  <2>1. f[0] \in Seq(S) /\ Range(f[0]) = {}
    BY <1>1 DEF Range
  <2>2. {s[i] : i \in 1 .. 0} = {}
    OBVIOUS
  <2> QED BY <2>1, <2>2, <1>2
<1>4. ASSUME NEW k \in 1 .. n, k - 1 \in T PROVE k \in T
  <2>1. PICK a : a = f[k - 1] /\ a \in Seq(S) /\ Range(a) = {s[i] : i \in 1 .. k - 1}
    BY <1>4
  <2>2. PICK x : x = s[k] /\ x \in S
    BY <1>2
  <2>3. {s[i] : i \in 1 .. k} = {s[i] : i \in 1 .. k - 1} \cup {x}
    <3>1. \A i \in 1 .. k : i = k \/ i \in 1 .. k - 1
      OBVIOUS
    <3>2. k \in 1 .. k /\ \A i \in 1 .. k - 1 : i \in 1 .. k
      OBVIOUS
    <3> QED BY <3>1, <3>2, <2>2
  <2>4. f[k] = Seen(a, x)
    BY <1>1, <1>2, <2>1, <2>2
  <2>5. CASE Contains(a, x)
    <3>1. f[k] = a
      BY <2>4, <2>5 DEF Seen
    <3>2. x \in Range(a)
      BY <2>1, <2>5, InRange
    <3>3. f[k] \in Seq(S)
      BY <3>1, <3>2, <2>1
    <3>4. Range(f[k]) = {s[i] : i \in 1 .. k}
      BY <3>1, <3>2, <2>1, <2>3, Zenon
    <3>5. k \in 0 .. n
      OBVIOUS
    <3> QED BY <3>3, <3>4, <3>5, Zenon
  <2>6. CASE ~ Contains(a, x)
    <3>1. f[k] = Append(a, x)
      BY <2>4, <2>6 DEF Seen
    <3>2. Append(a, x) \in Seq(S) /\ Range(Append(a, x)) = Range(a) \cup {x}
      BY <2>1, <2>2, AppendRange
    <3>3. f[k] \in Seq(S)
      BY <3>1, <3>2, <2>1
    <3>4. Range(f[k]) = {s[i] : i \in 1 .. k}
      BY <3>1, <3>2, <2>1, <2>3, Zenon
    <3>5. k \in 0 .. n
      OBVIOUS
    <3> QED BY <3>3, <3>4, <3>5, Zenon
  <2> QED BY <2>5, <2>6
<1>5. n \in T
  <2> HIDE DEF T
  <2>1. \A k \in 0 .. n : k \in T
    BY <1>2, <1>3, <1>4, UpTo
  <2> QED BY <2>1, <1>2
<1>6. Range(s) = {s[i] : i \in 1 .. n}
  BY <1>2 DEF Range
<1>7. f[n] = Distinct(s)
  BY <1>1, <1>2
<1> QED BY <1>5, <1>6, <1>7, Zenon

(* What is appended is seen last. *)
LEMMA DistinctAppend ==
  ASSUME NEW S, NEW s \in Seq(S), NEW x \in S
  PROVE  Distinct(Append(s, x)) = Seen(Distinct(s), x)
<1>1. PICK n : n = Len(s) /\ n \in Nat
  OBVIOUS
<1>2. PICK u : u = Append(s, x) /\ u \in Seq(S) /\ Len(u) = n + 1 /\ u[n + 1] = x
               /\ \A k \in 1 .. n : u[k] = s[k]
  <2>1. PICK u : u = Append(s, x)
    OBVIOUS
  <2>2. /\ u \in Seq(S) /\ Len(u) = n + 1 /\ u[n + 1] = x
        /\ \A k \in 1 .. n : u[k] = s[k]
    BY <1>1, <2>1, Appended
  <2> QED BY <2>1, <2>2
<1>3. PICK f : /\ f[0] = <<>> /\ f[n] = Distinct(s)
               /\ \A k \in 1 .. n : f[k] = Seen(f[k - 1], s[k])
  BY <1>1, DistinctOneByOne
<1>4. PICK h : /\ h[0] = <<>> /\ h[n + 1] = Distinct(u)
               /\ \A k \in 1 .. n + 1 : h[k] = Seen(h[k - 1], u[k])
  <2>1. Len(u) = n + 1 /\ u \in Seq(S)
    BY <1>2
  <2>2. \E h : /\ h[0] = <<>> /\ h[Len(u)] = Distinct(u)
               /\ \A k \in 1 .. Len(u) : h[k] = Seen(h[k - 1], u[k])
    BY Zenon, <2>1, DistinctOneByOne
  <2> QED BY Zenon, <2>1, <2>2
<1> DEFINE T == {k \in 0 .. n : f[k] = h[k]}
<1>5. 0 \in T
  BY <1>1, <1>3, <1>4
<1>6. ASSUME NEW k \in 1 .. n, k - 1 \in T PROVE k \in T
  <2>1. k \in 1 .. n + 1
    BY <1>1
  <2>2. h[k] = Seen(h[k - 1], s[k])
    BY <2>1, <1>2, <1>4
  <2>3. f[k] = Seen(f[k - 1], s[k]) /\ f[k - 1] = h[k - 1]
    BY <1>3, <1>6
  <2> QED BY <2>2, <2>3
<1>7. n \in T
  <2> HIDE DEF T
  <2>1. \A k \in 0 .. n : k \in T
    BY <1>1, <1>5, <1>6, UpTo
  <2> QED BY <2>1, <1>1
<1>8. PICK k : k = n + 1
  OBVIOUS
<1>9. k \in 1 .. n + 1 /\ k - 1 = n /\ u[k] = x
  BY <1>1, <1>2, <1>8
<1>10. h[k] = Seen(h[n], x)
  <2>1. h[k] = Seen(h[k - 1], u[k])
    BY <1>4, <1>9, Zenon
  <2> QED BY <2>1, <1>9, Zenon
<1> QED BY <1>2, <1>3, <1>4, <1>7, <1>8, <1>10

LEMMA DistinctTwice ==
  ASSUME NEW S, NEW s \in Seq(S)
  PROVE  Distinct(Distinct(s)) = Distinct(s)
<1>1. PICK f : /\ f[0] = <<>> /\ f[Len(s)] = Distinct(s)
               /\ \A k \in 1 .. Len(s) : f[k] = Seen(f[k - 1], s[k])
  BY DistinctOneByOne
<1>2. PICK n : n = Len(s) /\ n \in Nat /\ DOMAIN s = 1 .. n
  OBVIOUS
<1> DEFINE T == {k \in 0 .. n : f[k] \in Seq(S) /\ Distinct(f[k]) = f[k]}
<1>3. 0 \in T
  <2>1. f[0] \in Seq(S)
    BY <1>1
  <2>2. Distinct(f[0]) = f[0]
    BY <1>1, DistinctEmpty
  <2> QED BY <2>1, <2>2, <1>2
<1>4. ASSUME NEW k \in 1 .. n, k - 1 \in T PROVE k \in T
  <2>1. PICK a : a = f[k - 1] /\ a \in Seq(S) /\ Distinct(a) = a
    BY <1>4
  <2>2. PICK x : x = s[k] /\ x \in S
    BY <1>2
  <2>3. f[k] = Seen(a, x)
    BY <1>1, <1>2, <2>1, <2>2
  <2>4. CASE Contains(a, x)
    <3>1. f[k] = a
      BY <2>3, <2>4 DEF Seen
    <3> QED BY <2>1, <3>1
  <2>5. CASE ~ Contains(a, x)
    <3>1. f[k] = Append(a, x)
      BY <2>3, <2>5 DEF Seen
    <3>2. Distinct(Append(a, x)) = Seen(a, x)
      BY <2>1, <2>2, DistinctAppend
    <3>3. Append(a, x) \in Seq(S)
      BY <2>1, <2>2, Appended
    <3>4. f[k] \in Seq(S) /\ Distinct(f[k]) = f[k]
      BY <2>3, <3>1, <3>2, <3>3
    <3> QED BY <3>4
  <2> QED BY <2>4, <2>5
<1>5. n \in T
  <2> HIDE DEF T
  <2>1. \A k \in 0 .. n : k \in T
    BY <1>2, <1>3, <1>4, UpTo
  <2> QED BY <2>1, <1>2
<1> QED BY <1>1, <1>2, <1>5

LEMMA ReplacedType ==
  ASSUME NEW S, NEW s \in Seq(S), NEW c, NEW d \in S
  PROVE  /\ ReplaceAll(s, c, d) \in Seq(S) /\ Len(ReplaceAll(s, c, d)) = Len(s)
         /\ \A i \in 1 .. Len(s) : ReplaceAll(s, c, d)[i] = IF s[i] = c THEN d ELSE s[i]
         /\ Range(ReplaceAll(s, c, d)) \subseteq (Range(s) \ {c}) \cup {d}
<1>1. PICK r : r = ReplaceAll(s, c, d)
  OBVIOUS
<1>2. r = [i \in 1 .. Len(s) |-> IF s[i] = c THEN d ELSE s[i]]
  BY <1>1 DEF ReplaceAll
<1>3. \A i \in 1 .. Len(s) : s[i] \in S
  OBVIOUS
<1>4. r \in Seq(S) /\ Len(r) = Len(s)
  BY <1>2, <1>3
<1>5. Range(r) \subseteq (Range(s) \ {c}) \cup {d}
  BY <1>2, <1>4 DEF Range
<1> QED BY <1>1, <1>2, <1>4, <1>5

(* A column is replaced alike in a sequence and in what is distinct of it. *)
LEMMA DistinctReplaced ==
  ASSUME NEW S, NEW s \in Seq(S), NEW c, NEW d \in S
  PROVE  Distinct(ReplaceAll(Distinct(s), c, d)) = Distinct(ReplaceAll(s, c, d))
<1>1. PICK f : /\ f[0] = <<>> /\ f[Len(s)] = Distinct(s)
               /\ \A k \in 1 .. Len(s) : f[k] = Seen(f[k - 1], s[k])
  BY DistinctOneByOne
<1>2. PICK n : n = Len(s) /\ n \in Nat /\ DOMAIN s = 1 .. n
  OBVIOUS
<1>3. PICK r : /\ r = ReplaceAll(s, c, d) /\ r \in Seq(S) /\ Len(r) = n
               /\ \A i \in 1 .. n : r[i] = IF s[i] = c THEN d ELSE s[i]
  BY <1>2, ReplacedType
<1>4. PICK h : /\ h[0] = <<>> /\ h[n] = Distinct(r)
               /\ \A k \in 1 .. n : h[k] = Seen(h[k - 1], r[k])
  BY <1>3, DistinctOneByOne
<1> DEFINE T == {k \in 0 .. n : f[k] \in Seq(S) /\ Distinct(ReplaceAll(f[k], c, d)) = h[k]}
<1>5. 0 \in T
  <2>1. ReplaceAll(<<>>, c, d) = <<>>
    BY DEF ReplaceAll
  <2>2. f[0] \in Seq(S) /\ Distinct(ReplaceAll(f[0], c, d)) = h[0]
    BY <2>1, <1>1, <1>4, DistinctEmpty
  <2> QED BY <2>2, <1>2
<1>6. ASSUME NEW k \in 1 .. n, k - 1 \in T PROVE k \in T
  <2>1. PICK a : a = f[k - 1] /\ a \in Seq(S)
    BY <1>6
  <2>2. PICK b : b = ReplaceAll(a, c, d) /\ b \in Seq(S) /\ Len(b) = Len(a)
                 /\ \A i \in 1 .. Len(a) : b[i] = IF a[i] = c THEN d ELSE a[i]
    BY <2>1, ReplacedType
  <2>3. PICK x : x = s[k] /\ x \in S
    BY <1>2
  <2>4. PICK y : y = (IF x = c THEN d ELSE x) /\ y \in S
    BY <2>3
  <2>5. f[k] = Seen(a, x) /\ h[k] = Seen(h[k - 1], y) /\ h[k - 1] = Distinct(b)
    BY <1>1, <1>2, <1>3, <1>4, <1>6, <2>1, <2>2, <2>3, <2>4
  <2>6. CASE Contains(a, x)
    <3>1. f[k] = a
      BY <2>5, <2>6 DEF Seen
    <3>2. y \in Range(b)
      BY <2>1, <2>2, <2>4, <2>6 DEF Contains, Range
    <3>3. Distinct(b) \in Seq(S) /\ y \in Range(Distinct(b))
      BY <2>2, <3>2, DistinctType
    <3>4. Contains(Distinct(b), y)
      BY <3>3, InRange
    <3>5. h[k] = Distinct(b)
      BY <2>5, <3>4 DEF Seen
    <3>6. f[k] \in Seq(S) /\ Distinct(ReplaceAll(f[k], c, d)) = h[k]
      BY <2>1, <2>2, <3>1, <3>5
    <3> QED BY <3>6
  <2>7. CASE ~ Contains(a, x)
    <3>1. PICK e : e = Append(a, x) /\ e \in Seq(S) /\ Len(e) = Len(a) + 1
                   /\ e[Len(e)] = x /\ \A i \in 1 .. Len(a) : e[i] = a[i]
      <4>1. PICK e : e = Append(a, x)
        OBVIOUS
      <4>2. /\ e \in Seq(S) /\ Len(e) = Len(a) + 1 /\ e[Len(a) + 1] = x
            /\ \A i \in 1 .. Len(a) : e[i] = a[i]
        BY <4>1, <2>1, <2>3, Appended
      <4> QED BY <4>1, <4>2
    <3>2. f[k] = e
      BY <2>5, <2>7, <3>1 DEF Seen
    <3>3. ReplaceAll(e, c, d) = Append(b, y)
      <4>0. e \in Seq(S)
        BY <3>1
      <4> PICK v : v = ReplaceAll(e, c, d)
        OBVIOUS
      <4>1. /\ v = ReplaceAll(e, c, d) /\ v \in Seq(S) /\ Len(v) = Len(e)
            /\ \A i \in 1 .. Len(e) : v[i] = IF e[i] = c THEN d ELSE e[i]
        BY <4>0, ReplacedType
      <4> PICK w : w = Append(b, y)
        OBVIOUS
      <4>2. /\ w = Append(b, y) /\ w \in Seq(S) /\ Len(w) = Len(b) + 1
            /\ w[Len(b) + 1] = y /\ \A i \in 1 .. Len(b) : w[i] = b[i]
        BY <2>2, <2>4, Appended
      <4>3. Len(v) = Len(w)
        BY <4>1, <4>2, <3>1, <2>2
      <4>4. ASSUME NEW i \in 1 .. Len(v) PROVE v[i] = w[i]
        BY <4>1, <4>2, <3>1, <2>1, <2>2, <2>4
      <4>5. v = w
        BY <4>1, <4>2, <4>3, <4>4, SeqEqual
      <4> QED BY <4>1, <4>2, <4>5
    <3>4. Distinct(Append(b, y)) = Seen(Distinct(b), y)
      BY <2>2, <2>4, DistinctAppend
    <3>5. f[k] \in Seq(S) /\ Distinct(ReplaceAll(f[k], c, d)) = h[k]
      BY <2>5, <3>1, <3>2, <3>3, <3>4
    <3> QED BY <3>5
  <2> QED BY <2>6, <2>7
<1>7. n \in T
  <2> HIDE DEF T
  <2>1. \A k \in 0 .. n : k \in T
    BY <1>2, <1>5, <1>6, UpTo
  <2> QED BY <2>1, <1>2
<1> QED BY <1>1, <1>2, <1>3, <1>4, <1>7

-----------------------------------------------------------------------------
(* Maps. *)

LEMMA EntryType ==
  ASSUME NEW K, NEW V, NEW k \in K, NEW v \in V
  PROVE  Entry(k, v) \in [key : K, value : V] /\ Entry(k, v).key = k /\ Entry(k, v).value = v
BY DEF Entry

LEMMA Elements ==
  ASSUME NEW S, NEW map \in Seq(S)
  PROVE  /\ DOMAIN map = 1 .. Len(map) /\ Len(map) \in Nat
         /\ \A i \in 1 .. Len(map) : map[i] \in S /\ map[i] \in Range(map)
         /\ \A e \in Range(map) : e \in S /\ \E i \in 1 .. Len(map) : e = map[i]
BY DEF Range

LEMMA GetIs ==
  ASSUME NEW map, NEW k \in Keys(map)
  PROVE  \E e \in Range(map) : e.key = k /\ e.value = Get(map, k)
<1>1. \E e \in Range(map) : e.key = k
  BY DEF Keys
<1>2. PICK e : e = CHOOSE x \in Range(map) : x.key = k
  OBVIOUS
<1>3. e \in Range(map) /\ e.key = k
  BY <1>1, <1>2, Zenon
<1>4. e.value = Get(map, k)
  BY <1>2, Zenon DEF Get
<1> QED BY <1>3, <1>4

(* No name is given twice. *)
Once(map) == \A i, j \in DOMAIN map : map[i].key = map[j].key => i = j

LEMMA HasKeysIs ==
  ASSUME NEW map
  PROVE  HasKeys(map) <=> Once(map) /\ NoName \notin Keys(map)
BY DEF HasKeys, Once

LEMMA OnlyOne ==
  ASSUME NEW map, Once(map), NEW e \in Range(map), NEW d \in Range(map), e.key = d.key
  PROVE  e = d
<1>1. PICK i \in DOMAIN map : e = map[i]
  BY DEF Range
<1>2. PICK j \in DOMAIN map : d = map[j]
  BY DEF Range
<1>3. i = j
  BY <1>1, <1>2 DEF Once
<1> QED BY <1>1, <1>2, <1>3

LEMMA GetOnce ==
  ASSUME NEW map, Once(map), NEW e \in Range(map)
  PROVE  Get(map, e.key) = e.value
<1>1. PICK k : k = e.key
  OBVIOUS
<1>2. k \in Keys(map)
  BY <1>1 DEF Keys
<1>3. PICK d \in Range(map) : d.key = k /\ d.value = Get(map, k)
  BY <1>2, GetIs
<1>4. d = e
  BY <1>1, <1>3, OnlyOne
<1> QED BY <1>1, <1>3, <1>4

LEMMA PutMap ==
  ASSUME NEW K, NEW V, NEW map \in MapOf(K, V), NEW k \in K, NEW v \in V
  PROVE  /\ Put(map, k, v) \in MapOf(K, V)
         /\ Keys(Put(map, k, v)) = Keys(map) \cup {k}
         /\ Entry(k, v) \in Range(Put(map, k, v))
         /\ Range(Put(map, k, v)) \subseteq Range(map) \cup {Entry(k, v)}
         /\ \A e \in Range(map) : e.key # k => e \in Range(Put(map, k, v))
         /\ Once(map) => Once(Put(map, k, v))
         /\ Len(Put(map, k, v)) >= Len(map)
         /\ k \notin Keys(map) => Len(Put(map, k, v)) = Len(map) + 1
<1>1. PICK E, S : E = Entry(k, v) /\ S = [key : K, value : V]
  OBVIOUS
<1>2. E \in S /\ E.key = k /\ E.value = v
  BY <1>1, EntryType
<1>3. map \in Seq(S)
  BY <1>1 DEF MapOf
<1>4. PICK n : n = Len(map) /\ n \in Nat /\ DOMAIN map = 1 .. n /\ \A i \in 1 .. n : map[i] \in S
  BY <1>3
<1>5. PICK p : p = Put(map, k, v)
  OBVIOUS
<1>6. CASE k \in Keys(map)
  <2>1. p = [i \in 1 .. n |-> IF map[i].key = k THEN E ELSE map[i]]
    BY <1>1, <1>4, <1>5, <1>6 DEF Put
  <2>2. p \in Seq(S) /\ Len(p) = n
    BY <1>2, <1>4, <2>1
  <2>3. DOMAIN p = 1 .. n /\ \A i \in 1 .. n : p[i] = IF map[i].key = k THEN E ELSE map[i]
    BY <2>1
  <2>4. \A i \in 1 .. n : p[i].key = map[i].key
    BY <2>3, <1>2
  <2>5. PICK j \in 1 .. n : map[j].key = k
    BY <1>4, <1>6 DEF Keys, Range
  <2>6. E \in Range(p)
    BY <2>3, <2>5 DEF Range
  <2>7. Range(p) \subseteq Range(map) \cup {E}
    BY <2>3, <1>4 DEF Range
  <2>8. \A e \in Range(map) : e.key # k => e \in Range(p)
    BY <2>3, <1>4 DEF Range
  <2>9. Keys(p) = Keys(map) \cup {k}
    BY <2>3, <2>4, <1>4, <1>6 DEF Keys, Range
  <2>10. Once(map) => Once(p)
    BY <2>3, <2>4, <1>4 DEF Once
  <2>11. Len(p) >= Len(map) /\ (k \notin Keys(map) => Len(p) = Len(map) + 1)
    BY <2>2, <1>4, <1>6
  <2>12. p \in MapOf(K, V)
    BY <2>2, <1>1 DEF MapOf
  <2> QED BY <1>1, <1>5, <2>6, <2>7, <2>8, <2>9, <2>10, <2>11, <2>12
<1>7. CASE k \notin Keys(map)
  <2>1. p = Append(map, E)
    BY <1>1, <1>5, <1>7 DEF Put
  <2>2. /\ p \in Seq(S) /\ Len(p) = n + 1 /\ p[n + 1] = E
        /\ \A i \in 1 .. n : p[i] = map[i]
    BY <2>1, <1>2, <1>3, <1>4, Appended
  <2>3. Range(p) = Range(map) \cup {E}
    BY <2>1, <1>2, <1>3, AppendRange
  <2>4. Keys(p) = Keys(map) \cup {k}
    BY <2>3, <1>2 DEF Keys
  <2>5. Once(map) => Once(p)
    <3>1. SUFFICES ASSUME Once(map), NEW i \in DOMAIN p, NEW j \in DOMAIN p,
                          p[i].key = p[j].key
                   PROVE  i = j
      BY DEF Once
    <3>2. i \in 1 .. n + 1 /\ j \in 1 .. n + 1
      BY <2>2
    <3>3. \A x \in 1 .. n : map[x].key # k
      BY <1>4, <1>7 DEF Keys, Range
    <3>4. CASE i = n + 1 \/ j = n + 1
      <4>1. \A x \in 1 .. n + 1 : x # n + 1 => x \in 1 .. n
        BY <1>4
      <4>2. \A x \in 1 .. n + 1 : x # n + 1 => p[x].key # k
        BY <4>1, <3>3, <2>2
      <4> QED BY <3>1, <3>2, <3>4, <4>2, <2>2, <1>2
    <3>5. CASE i # n + 1 /\ j # n + 1
      <4>1. i \in 1 .. n /\ j \in 1 .. n
        BY <3>2, <3>5, <1>4
      <4> QED BY <4>1, <3>1, <2>2, <1>4 DEF Once
    <3> QED BY <3>4, <3>5
  <2>6. p \in MapOf(K, V)
    BY <2>2, <1>1 DEF MapOf
  <2>7. Len(p) >= Len(map) /\ Len(p) = Len(map) + 1
    BY <2>2, <1>4
  <2> QED BY <1>1, <1>5, <2>3, <2>4, <2>5, <2>6, <2>7
<1> QED BY <1>6, <1>7

LEMMA DeleteMap ==
  ASSUME NEW K, NEW V, NEW map \in MapOf(K, V), NEW k
  PROVE  /\ Delete(map, k) \in MapOf(K, V)
         /\ Range(Delete(map, k)) \subseteq Range(map)
         /\ \A e \in Range(map) : e.key # k => e \in Range(Delete(map, k))
         /\ Once(map) => Once(Delete(map, k)) /\ k \notin Keys(Delete(map, k))
         /\ k \notin Keys(map) => Delete(map, k) = map
         /\ k \in Keys(map) => Len(Delete(map, k)) = Len(map) - 1
<1>1. PICK S : S = [key : K, value : V]
  OBVIOUS
<1>2. map \in Seq(S)
  BY <1>1 DEF MapOf
<1>3. PICK n : n = Len(map) /\ n \in Nat /\ DOMAIN map = 1 .. n /\ \A i \in 1 .. n : map[i] \in S
  BY <1>2
<1>4. PICK p : p = Delete(map, k)
  OBVIOUS
<1>5. CASE k \notin Keys(map)
  <2>1. p = map
    BY <1>4, <1>5 DEF Delete
  <2> QED BY <1>4, <1>5, <2>1
<1>6. CASE k \in Keys(map)
  <2>1. \E j \in DOMAIN map : map[j].key = k
    BY <1>6 DEF Keys, Range
  <2>2. PICK j : j = CHOOSE x \in DOMAIN map : map[x].key = k
    OBVIOUS
  <2>3. j \in DOMAIN map /\ map[j].key = k
    BY <2>1, <2>2, Zenon
  <2>4. p = RemoveAt(map, j)
    BY <1>4, <1>6, <2>2, Zenon DEF Delete
  <2>5. j \in 1 .. n
    BY <2>3, <1>3
  <2>6. p = SubSeq(map, 1, j - 1) \o SubSeq(map, j + 1, n)
    BY <2>4, <1>3 DEF RemoveAt
  <2>7. /\ p \in Seq(S) /\ Len(p) = n - 1 /\ DOMAIN p = 1 .. n - 1
        /\ \A i \in 1 .. n - 1 : p[i] = IF i < j THEN map[i] ELSE map[i + 1]
    <3>1. PICK a, b : a = SubSeq(map, 1, j - 1) /\ b = SubSeq(map, j + 1, n)
      OBVIOUS
    <3>2. j \in Nat /\ 1 <= j /\ j <= n
      BY <2>5, <1>3
    <3>3. a \in Seq(S) /\ Len(a) = j - 1 /\ \A i \in 1 .. j - 1 : a[i] = map[i]
      BY <3>1, <3>2, <1>2, <1>3, SubSeqProperties
    <3>4. b \in Seq(S) /\ Len(b) = n - j /\ \A i \in 1 .. n - j : b[i] = map[j + i]
      BY <3>1, <3>2, <1>2, <1>3, SubSeqProperties
    <3>5. p = a \o b /\ p \in Seq(S) /\ Len(p) = n - 1
      <4>1. p = a \o b
        BY <3>1, <2>6
      <4>2. p \in Seq(S)
        BY <4>1, <3>3, <3>4, ConcatProperties
      <4>3. Len(p) = Len(a) + Len(b)
        BY <4>1, <3>3, <3>4, ConcatProperties
      <4> QED BY <4>1, <4>2, <4>3, <3>2, <3>3, <3>4, <1>3
    <3>6. DOMAIN p = 1 .. n - 1
      BY <3>5
    <3>7. ASSUME NEW i \in 1 .. n - 1 PROVE p[i] = IF i < j THEN map[i] ELSE map[i + 1]
      <4>1. CASE i < j
        <5>1. p[i] = a[i]
          BY <4>1, <3>2, <3>3, <3>4, <3>5, <1>3
        <5> QED BY <5>1, <4>1, <3>2, <3>3
      <4>2. CASE ~ i < j
        <5>1. p[i] = b[i - j + 1]
          BY <4>2, <3>2, <3>3, <3>4, <3>5, <1>3
        <5>2. i - j + 1 \in 1 .. n - j /\ j + (i - j + 1) = i + 1
          BY <4>2, <3>2, <1>3
        <5> QED BY <5>1, <5>2, <4>2, <3>4
      <4> QED BY <4>1, <4>2
    <3> QED BY <3>5, <3>6, <3>7
  <2>8. Range(p) \subseteq Range(map)
    <3>1. \A i \in 1 .. n - 1 : i \in 1 .. n /\ i + 1 \in 1 .. n
      BY <1>3
    <3> QED BY <3>1, <2>7, <1>3 DEF Range
  <2>9. ASSUME NEW e \in Range(map), e.key # k PROVE e \in Range(p)
    <3>1. PICK i \in 1 .. n : e = map[i]
      BY <1>3 DEF Range
    <3>2. i # j
      BY <2>3, <2>9, <3>1
    <3>3. CASE i < j
      <4>1. i \in 1 .. n - 1 /\ p[i] = map[i]
        BY <3>3, <2>5, <2>7, <1>3
      <4> QED BY <4>1, <3>1, <2>7 DEF Range
    <3>4. CASE i > j
      <4>1. PICK m : m = i - 1
        OBVIOUS
      <4>2. m \in 1 .. n - 1 /\ ~ m < j /\ m + 1 = i
        BY <3>4, <4>1, <2>5, <1>3
      <4>3. p[m] = map[i]
        BY <4>2, <2>7
      <4> QED BY <4>2, <4>3, <3>1, <2>7 DEF Range
    <3> QED BY <3>2, <3>3, <3>4, <2>5
  <2>10. ASSUME Once(map) PROVE Once(p) /\ k \notin Keys(p)
    <3>1. \A a, b \in 1 .. n : map[a].key = map[b].key => a = b
      BY <2>10, <1>3 DEF Once
    <3>2. \A i \in 1 .. n - 1 : i \in 1 .. n /\ i + 1 \in 1 .. n
      BY <1>3
    <3>3. Once(p)
      <4>1. SUFFICES ASSUME NEW a \in 1 .. n - 1, NEW b \in 1 .. n - 1, p[a].key = p[b].key
                     PROVE  a = b
        BY <2>7 DEF Once
      <4>2. PICK x \in 1 .. n : p[a] = map[x] /\ x = IF a < j THEN a ELSE a + 1
        BY <3>2, <2>7
      <4>3. PICK y \in 1 .. n : p[b] = map[y] /\ y = IF b < j THEN b ELSE b + 1
        BY <3>2, <2>7
      <4>4. x = y
        BY <3>1, <4>1, <4>2, <4>3
      <4> QED BY <4>2, <4>3, <4>4, <2>5, <1>3
    <3>4. \A i \in 1 .. n - 1 : p[i].key # k
      <4>1. SUFFICES ASSUME NEW i \in 1 .. n - 1, p[i].key = k PROVE FALSE
        OBVIOUS
      <4>2. PICK x \in 1 .. n : p[i] = map[x] /\ x = IF i < j THEN i ELSE i + 1
        BY <3>2, <2>7
      <4>3. x = j
        BY <3>1, <4>1, <4>2, <2>3, <2>5
      <4> QED BY <4>2, <4>3, <2>5, <1>3
    <3> QED BY <3>3, <3>4, <2>7 DEF Keys, Range
  <2>11. p \in MapOf(K, V)
    BY <2>7, <1>1 DEF MapOf
  <2>12. Len(p) = Len(map) - 1
    BY <2>7, <1>3
  <2> QED BY <1>4, <1>6, <2>8, <2>9, <2>10, <2>11, <2>12
<1> QED BY <1>5, <1>6

-----------------------------------------------------------------------------
(* Indexes and names. *)

LEMMA IndexIs ==
  ASSUME NEW cols \in Seq(Columns), NEW unique \in BOOLEAN, NEW primary \in BOOLEAN
  PROVE  /\ Index(cols, unique, primary) \in IndexType
         /\ Index(cols, unique, primary).cols = Distinct(cols)
         /\ Index(cols, unique, primary).unique = unique
         /\ Index(cols, unique, primary).primary = primary
         /\ Distinct(Distinct(cols)) = Distinct(cols)
         /\ Range(Distinct(cols)) = Range(cols)
<1>1. Distinct(cols) \in Seq(Columns) /\ Range(Distinct(cols)) = Range(cols)
  BY DistinctType
<1>2. Distinct(Distinct(cols)) = Distinct(cols)
  BY DistinctTwice
<1> QED BY <1>1, <1>2 DEF Index, IndexType

Names == Name \ {NoName}

LEMMA ColumnNames ==
  ASSUME NEW cols \in Seq(Columns)
  PROVE  cols \in Seq(STRING)
<1>1. PICK T : T = STRING
  OBVIOUS
<1>2. Columns \subseteq T
  BY <1>1, TableAssumption, Zenon DEF TableAssumption
<1>3. cols \in Seq(T)
  BY <1>2
<1> QED BY <1>1, <1>3, Zenon

(* A generated name has a prefix, which keeps it from being empty.         *)
LEMMA NameIs ==
  ASSUME NEW cols \in Seq(Columns), NEW given \in Name
  PROVE  /\ Named(given, <<"idx", "table">> \o cols) \in Names
         /\ Named(given, <<"uniq", "table">> \o cols) \in Names
         /\ Named(given, <<"fk", "table">> \o cols) \in Names
         /\ Named(given, <<"uniq">> \o cols) \in Names
         /\ Named(given, Primary) \in Names
<1>1. cols \in Seq(STRING)
  BY ColumnNames
<1>2. ASSUME NEW prefix \in Seq(STRING), Len(prefix) > 0
      PROVE  Named(given, prefix \o cols) \in Names
  <2>1. PICK n : n = prefix \o cols
    OBVIOUS
  <2>2. n \in Seq(STRING) /\ Len(n) = Len(prefix) + Len(cols)
    BY <2>1, <1>1, ConcatProperties
  <2>3. n # NoName
    BY <2>2, <1>1, <1>2 DEF NoName
  <2> QED BY <2>1, <2>2, <2>3 DEF Named, Names, Name
<1>3. ASSUME NEW T PROVE \A a \in T, b \in T : <<a, b>> \in Seq(T) /\ Len(<<a, b>>) > 0
  OBVIOUS
<1>4. ASSUME NEW T PROVE \A a \in T : <<a>> \in Seq(T) /\ Len(<<a>>) > 0
  OBVIOUS
<1>5. "idx" \in STRING /\ "uniq" \in STRING /\ "fk" \in STRING /\ "table" \in STRING
      /\ "primary" \in STRING
  BY TableAssumption, Zenon DEF TableAssumption
<1>6. Named(given, Primary) \in Names
  <2>1. Primary \in Seq(STRING) /\ Len(Primary) > 0
    BY <1>4, <1>5 DEF Primary
  <2>2. Primary # NoName
    BY <2>1 DEF NoName
  <2> QED BY <2>1, <2>2 DEF Named, Names, Name
<1>7. Named(given, <<"idx", "table">> \o cols) \in Names
  BY <1>2, <1>3, <1>5, Zenon
<1>8. Named(given, <<"uniq", "table">> \o cols) \in Names
  BY <1>2, <1>3, <1>5, Zenon
<1>9. Named(given, <<"fk", "table">> \o cols) \in Names
  BY <1>2, <1>3, <1>5, Zenon
<1>10. Named(given, <<"uniq">> \o cols) \in Names
  BY <1>2, <1>4, <1>5, Zenon
<1> QED BY <1>6, <1>7, <1>8, <1>9, <1>10

-----------------------------------------------------------------------------
(* What a sound table is, name by name. *)

(* The primary key that is named is there. *)
KeyHeld(t) ==
  t.primaryKeyName # NoName =>
    \E e \in Range(t.indexes) : e.key = t.primaryKeyName /\ e.value.primary

LEMMA KeyAgreesIs ==
  ASSUME NEW t, WellMade(t)
  PROVE  KeyAgrees(t) <=> KeyHeld(t)
<1>1. /\ Once(t.indexes) /\ NoName \notin Keys(t.indexes)
      /\ \A e \in Range(t.indexes) : e.value.primary => e.key = t.primaryKeyName
  BY HasKeysIs DEF WellMade
<1> DEFINE L == {name \in Keys(t.indexes) : Get(t.indexes, name).primary}
<1>2. ASSUME KeyHeld(t) PROVE L = {t.primaryKeyName} \ {NoName}
  <2>1. ASSUME NEW name \in L PROVE name = t.primaryKeyName /\ name # NoName
    <3>1. PICK e \in Range(t.indexes) : e.key = name /\ e.value = Get(t.indexes, name)
      BY GetIs
    <3>2. e.value.primary
      BY <3>1
    <3> QED BY <3>1, <3>2, <1>1
  <2>2. ASSUME t.primaryKeyName # NoName PROVE t.primaryKeyName \in L
    <3>1. PICK e \in Range(t.indexes) : e.key = t.primaryKeyName /\ e.value.primary
      BY <1>2, <2>2 DEF KeyHeld
    <3>2. Get(t.indexes, e.key) = e.value
      BY <1>1, GetOnce
    <3>3. e.key \in Keys(t.indexes)
      BY DEF Keys
    <3> QED BY <3>1, <3>2, <3>3
  <2> HIDE DEF L
  <2> QED BY <2>1, <2>2
<1>3. ASSUME L = {t.primaryKeyName} \ {NoName} PROVE KeyHeld(t)
  <2>1. SUFFICES ASSUME t.primaryKeyName # NoName
                 PROVE  \E e \in Range(t.indexes) : e.key = t.primaryKeyName /\ e.value.primary
    BY DEF KeyHeld
  <2>2. t.primaryKeyName \in L
    BY <1>3, <2>1, Zenon
  <2>3. t.primaryKeyName \in Keys(t.indexes) /\ Get(t.indexes, t.primaryKeyName).primary
    BY <2>2
  <2>4. PICK e \in Range(t.indexes) : /\ e.key = t.primaryKeyName
                                      /\ e.value = Get(t.indexes, t.primaryKeyName)
    BY <2>3, GetIs
  <2> QED BY <2>3, <2>4
<1> QED BY <1>2, <1>3, Zenon DEF KeyAgrees

(* The columns of its indexes and constraints are among some columns.      *)
LEMMA RefersIs ==
  ASSUME NEW t, NEW cs
  PROVE  Refers(t, cs) <=>
           /\ \A e \in Range(t.indexes) : Range(e.value.cols) \subseteq cs
           /\ \A e \in Range(t.foreignKeys) : Range(e.value) \subseteq cs
           /\ \A e \in Range(t.uniqueConstraints) : Range(e.value) \subseteq cs
BY Zenon DEF Refers, Values

LEMMA IsIndexedIs ==
  ASSUME NEW t
  PROVE  IsIndexed(t) <=>
           /\ \A e \in Range(t.foreignKeys) :
                \E i \in Range(t.indexes) : i.value.cols = Distinct(e.value)
           /\ \A e \in Range(t.uniqueConstraints) :
                \E i \in Range(t.indexes) : i.value.unique /\ i.value.cols = Distinct(e.value)
BY DEF IsIndexed, Values

-----------------------------------------------------------------------------
(* What the methods of a table leave of it. *)

Outcome == [table : TableType, threw : BOOLEAN]

(* The table with one index more. *)
Grown(t, u, e) ==
  /\ u \in TableType /\ WellMade(u)
  /\ u.columns = t.columns
  /\ u.foreignKeys = t.foreignKeys
  /\ u.uniqueConstraints = t.uniqueConstraints
  /\ Range(u.indexes) = Range(t.indexes) \cup {e}
  /\ u.primaryKeyName = IF e.value.primary THEN e.key ELSE t.primaryKeyName

(* What a call leaves that drops no columns, and whose own columns are     *)
(* among cs; and one that drops no index either.                           *)
Left(t, o, cs) ==
  /\ o \in Outcome /\ WellMade(o.table)
  /\ o.table.columns = t.columns
  /\ Refers(t, cs) => Refers(o.table, cs)
  /\ ~ o.threw /\ KeyHeld(t) => KeyHeld(o.table)

Kept(t, o, cs) ==
  /\ Left(t, o, cs)
  /\ ~ o.threw /\ IsIndexed(t) => IsIndexed(o.table)

LEMMA OutcomeIs ==
  ASSUME NEW t \in TableType
  PROVE  /\ Returns(t) \in Outcome /\ Returns(t).table = t /\ Returns(t).threw = FALSE
         /\ Throws(t) \in Outcome /\ Throws(t).table = t /\ Throws(t).threw = TRUE
BY DEF Returns, Throws, Outcome

LEMMA Unchanged ==
  ASSUME NEW t \in TableType, WellMade(t), NEW cs
  PROVE  Kept(t, Returns(t), cs) /\ Kept(t, Throws(t), cs)
BY OutcomeIs DEF Kept, Left

LEMMA WellMadeIs ==
  ASSUME NEW t
  PROVE  WellMade(t) <=>
           /\ Once(t.indexes) /\ NoName \notin Keys(t.indexes)
           /\ Once(t.foreignKeys) /\ NoName \notin Keys(t.foreignKeys)
           /\ Once(t.uniqueConstraints) /\ NoName \notin Keys(t.uniqueConstraints)
           /\ \A e \in Range(t.indexes) :
                /\ Distinct(e.value.cols) = e.value.cols
                /\ e.value.primary => e.key = t.primaryKeyName /\ e.value.unique
BY HasKeysIs, Zenon DEF WellMade

LEMMA AddIndexObjectIs ==
  ASSUME NEW t \in TableType, WellMade(t), NEW name \in Names, NEW index \in IndexType,
         Distinct(index.cols) = index.cols,
         index.primary => index.unique /\ \A e \in Range(t.indexes) : ~ e.value.primary,
         NEW o, o = AddIndexObject(t, name, index)
  PROVE  /\ o \in Outcome
         /\ o.threw <=> name \in Keys(t.indexes)
         /\ o.threw => o.table = t
         /\ ~ o.threw => Grown(t, o.table, Entry(name, index))
<1>1. CASE name \in Keys(t.indexes)
  <2>1. o = Throws(t)
    BY <1>1, Zenon DEF AddIndexObject
  <2> QED BY <1>1, <2>1, OutcomeIs
<1>2. CASE name \notin Keys(t.indexes)
  <2>1. PICK m, k : m = Put(t.indexes, name, index)
                    /\ k = IF index.primary THEN name ELSE t.primaryKeyName
    OBVIOUS
  <2>2. PICK u : u = [t EXCEPT !.indexes = m, !.primaryKeyName = k]
    OBVIOUS
  <2>3. o = Returns(u)
    BY <1>2, <2>1, <2>2, Zenon DEF AddIndexObject
  <2>4. t.indexes \in MapOf(Name, IndexType) /\ t.primaryKeyName \in Name /\ name \in Name
    BY DEF TableType, Names
  <2>5. PICK e : e = Entry(name, index) /\ e.key = name /\ e.value = index
    <3>1. Entry(name, index).key = name /\ Entry(name, index).value = index
      BY DEF Entry
    <3> QED BY <3>1
  <2>6. /\ m \in MapOf(Name, IndexType)
        /\ Keys(m) = Keys(t.indexes) \cup {name}
        /\ Once(t.indexes) => Once(m)
        /\ Range(m) \subseteq Range(t.indexes) \cup {e} /\ e \in Range(m)
        /\ \A d \in Range(t.indexes) : d.key # name => d \in Range(m)
    BY <2>1, <2>4, <2>5, PutMap
  <2>7. \A d \in Range(t.indexes) : d.key # name
    BY <1>2 DEF Keys
  <2>8. Range(m) = Range(t.indexes) \cup {e}
    BY <2>6, <2>7
  <2>9. k \in Name
    BY <2>1, <2>4
  <2>10. /\ u \in TableType /\ u.indexes = m /\ u.primaryKeyName = k
         /\ u.columns = t.columns /\ u.foreignKeys = t.foreignKeys
         /\ u.uniqueConstraints = t.uniqueConstraints
    BY <2>2, <2>6, <2>9 DEF TableType
  <2>11. WellMade(u)
    <3>1. name # NoName
      BY DEF Names
    <3>2. Once(m) /\ NoName \notin Keys(m)
      BY <2>6, <3>1, WellMadeIs
    <3>3. ASSUME NEW d \in Range(m)
          PROVE  /\ Distinct(d.value.cols) = d.value.cols
                 /\ d.value.primary => d.key = k /\ d.value.unique
      <4>1. CASE d \in Range(t.indexes)
        BY <4>1, <2>1, WellMadeIs
      <4>2. CASE d = e
        BY <4>2, <2>1, <2>5
      <4> QED BY <4>1, <4>2, <2>8
    <3> QED BY <2>10, <3>2, <3>3, WellMadeIs
  <2>12. Grown(t, u, e)
    BY <2>1, <2>5, <2>8, <2>10, <2>11 DEF Grown
  <2>13. o \in Outcome /\ o.table = u /\ o.threw = FALSE
    BY <2>3, <2>10, OutcomeIs
  <2> QED BY <1>2, <2>5, <2>12, <2>13
<1> QED BY <1>1, <1>2

(* An index more keeps what is indexed, and the primary key. *)
LEMMA GrownKeeps ==
  ASSUME NEW t, NEW u, NEW e, Grown(t, u, e)
  PROVE  /\ \A cs : Refers(t, cs) /\ Range(e.value.cols) \subseteq cs => Refers(u, cs)
         /\ e.value.primary \/ KeyHeld(t) => KeyHeld(u)
         /\ IsIndexed(t) => IsIndexed(u)
<1>1. ASSUME NEW cs, Refers(t, cs), Range(e.value.cols) \subseteq cs PROVE Refers(u, cs)
  BY <1>1, RefersIs DEF Grown
<1>2. ASSUME e.value.primary \/ KeyHeld(t) PROVE KeyHeld(u)
  BY <1>2 DEF Grown, KeyHeld
<1>3. ASSUME IsIndexed(t) PROVE IsIndexed(u)
  BY <1>3, IsIndexedIs DEF Grown
<1> QED BY <1>1, <1>2, <1>3

LEMMA AddsIndex ==
  ASSUME NEW t \in TableType, WellMade(t), NEW cols \in Seq(Columns), NEW given \in Name,
         NEW unique \in BOOLEAN, NEW o,
         o = IF unique THEN AddUniqueIndex(t, cols, given) ELSE AddIndex(t, cols, given)
  PROVE  /\ o \in Outcome
         /\ o.threw => o.table = t
         /\ \A cs : Range(cols) \subseteq cs => Kept(t, o, cs)
         /\ ~ o.threw => \E name \in Names : Grown(t, o.table, Entry(name, Index(cols, unique, FALSE)))
<1>1. PICK index : index = Index(cols, unique, FALSE)
  OBVIOUS
<1>2. /\ index \in IndexType /\ index.cols = Distinct(cols) /\ index.primary = FALSE
      /\ Distinct(index.cols) = index.cols /\ Range(index.cols) = Range(cols)
  BY <1>1, IndexIs
<1>3. PICK name : name = IF unique THEN Named(given, <<"uniq", "table">> \o cols)
                         ELSE Named(given, <<"idx", "table">> \o cols)
  OBVIOUS
<1>4. name \in Names
  BY <1>3, NameIs
<1>5. o = AddIndexObject(t, name, index)
  BY <1>1, <1>3, Zenon DEF AddIndex, AddUniqueIndex
<1>6. /\ o \in Outcome
      /\ o.threw => o.table = t
      /\ ~ o.threw => Grown(t, o.table, Entry(name, index))
  BY <1>2, <1>4, <1>5, AddIndexObjectIs
<1>7. Entry(name, index).value = index
  BY DEF Entry
<1>8. ASSUME NEW cs, Range(cols) \subseteq cs PROVE Kept(t, o, cs)
  <2>1. CASE o.threw
    BY <2>1, <1>6 DEF Kept, Left
  <2>2. CASE ~ o.threw
    <3>1. WellMade(o.table) /\ o.table.columns = t.columns
      BY <2>2, <1>6 DEF Grown
    <3>2. Refers(t, cs) => Refers(o.table, cs)
      BY <2>2, <1>2, <1>6, <1>7, <1>8, GrownKeeps
    <3>3. KeyHeld(t) => KeyHeld(o.table)
      BY <2>2, <1>6, GrownKeeps
    <3>4. IsIndexed(t) => IsIndexed(o.table)
      BY <2>2, <1>6, GrownKeeps
    <3> QED BY <1>6, <3>1, <3>2, <3>3, <3>4 DEF Kept, Left
  <2> QED BY <2>1, <2>2
<1> QED BY <1>1, <1>4, <1>6, <1>8

(* A table whose other parts are the same. *)
SameParts(t, u) ==
  /\ u.indexes = t.indexes /\ u.foreignKeys = t.foreignKeys
  /\ u.uniqueConstraints = t.uniqueConstraints

LEMMA SamePartsKeep ==
  ASSUME NEW t, NEW u, SameParts(t, u)
  PROVE  /\ \A cs : Refers(t, cs) <=> Refers(u, cs)
         /\ IsIndexed(t) <=> IsIndexed(u)
         /\ u.primaryKeyName = t.primaryKeyName => (KeyHeld(t) <=> KeyHeld(u))
         /\ u.primaryKeyName = t.primaryKeyName => (WellMade(t) <=> WellMade(u))
<1>1. \A cs : Refers(t, cs) <=> Refers(u, cs)
  BY RefersIs DEF SameParts
<1>2. IsIndexed(t) <=> IsIndexed(u)
  BY IsIndexedIs DEF SameParts
<1>3. ASSUME u.primaryKeyName = t.primaryKeyName PROVE KeyHeld(t) <=> KeyHeld(u)
  BY <1>3 DEF SameParts, KeyHeld
<1>4. ASSUME u.primaryKeyName = t.primaryKeyName PROVE WellMade(t) <=> WellMade(u)
  BY <1>4, Zenon DEF SameParts, WellMade
<1> QED BY <1>1, <1>2, <1>3, <1>4

LEMMA SetPrimaryKeyIs ==
  ASSUME NEW t \in TableType, WellMade(t), NEW cols \in Seq(Columns), NEW given \in Name,
         NEW o, o = SetPrimaryKey(t, cols, given)
  PROVE  /\ \A cs : Range(cols) \subseteq cs => Kept(t, o, cs)
         /\ ~ o.threw =>
              \E e :
                /\ Range(o.table.indexes) = Range(t.indexes) \cup {e}
                /\ e.value.cols = Distinct(cols) /\ e.value.unique
                /\ o.table.foreignKeys = t.foreignKeys
                /\ o.table.uniqueConstraints = t.uniqueConstraints
<1>1. CASE HasPrimaryKey(t)
  <2>1. o = Throws(t)
    BY <1>1, Zenon DEF SetPrimaryKey
  <2> QED BY <2>1, Unchanged, OutcomeIs
<1>2. CASE ~ HasPrimaryKey(t)
  <2>1. PICK name : name = Named(given, Primary)
    OBVIOUS
  <2>2. name \in Names /\ name \in Name
    <3>1. name \in Names
      BY <2>1, NameIs
    <3> QED BY <3>1 DEF Names
  <2>3. PICK v : v = [t EXCEPT !.primaryKeyName = name]
    OBVIOUS
  <2>4. v \in TableType /\ SameParts(t, v) /\ v.columns = t.columns
    BY <2>2, <2>3 DEF TableType, SameParts
  <2>5. \A e \in Range(t.indexes) : ~ e.value.primary
    <3>1. \A e \in Range(t.indexes) : e.key # t.primaryKeyName
      BY <1>2 DEF HasPrimaryKey, Keys
    <3> QED BY <3>1, WellMadeIs
  <2>6. WellMade(v)
    BY <2>4, <2>5, WellMadeIs DEF SameParts
  <2>7. PICK index : index = Index(cols, TRUE, TRUE)
    OBVIOUS
  <2>8. /\ index \in IndexType /\ index.cols = Distinct(cols) /\ index.primary = TRUE
        /\ Distinct(index.cols) = index.cols /\ Range(index.cols) = Range(cols)
        /\ index.unique = TRUE
    BY <2>7, IndexIs
  <2>9. o = AddIndexObject(v, name, index)
    BY <1>2, <2>1, <2>3, <2>7, Zenon DEF SetPrimaryKey
  <2>10. /\ o \in Outcome
         /\ o.threw => o.table = v
         /\ ~ o.threw => Grown(v, o.table, Entry(name, index))
    BY <2>2, <2>4, <2>5, <2>6, <2>8, <2>9, AddIndexObjectIs DEF SameParts
  <2>11. Entry(name, index).value = index
    BY DEF Entry
  <2>12. ASSUME NEW cs, Range(cols) \subseteq cs PROVE Kept(t, o, cs)
    <3>0. (Refers(t, cs) <=> Refers(v, cs)) /\ (IsIndexed(t) <=> IsIndexed(v))
      BY <2>4, SamePartsKeep
    <3>1. CASE o.threw
      BY <3>0, <3>1, <2>4, <2>6, <2>10 DEF Kept, Left
    <3>2. CASE ~ o.threw
      <4>1. WellMade(o.table) /\ o.table.columns = t.columns
        BY <3>2, <2>4, <2>10 DEF Grown
      <4>2. Refers(t, cs) => Refers(o.table, cs)
        BY <3>0, <3>2, <2>8, <2>10, <2>11, <2>12, GrownKeeps
      <4>3. KeyHeld(o.table)
        BY <3>2, <2>8, <2>10, <2>11, GrownKeeps
      <4>4. IsIndexed(t) => IsIndexed(o.table)
        BY <3>0, <3>2, <2>10, GrownKeeps
      <4> QED BY <2>10, <4>1, <4>2, <4>3, <4>4 DEF Kept, Left
    <3> QED BY <3>1, <3>2
  <2>13. ASSUME ~ o.threw
         PROVE  \E e : /\ Range(o.table.indexes) = Range(t.indexes) \cup {e}
                       /\ e.value.cols = Distinct(cols) /\ e.value.unique
                       /\ o.table.foreignKeys = t.foreignKeys
                       /\ o.table.uniqueConstraints = t.uniqueConstraints
    <3> WITNESS Entry(name, index)
    <3> QED BY <2>4, <2>8, <2>10, <2>11, <2>13 DEF Grown, SameParts
  <2> QED BY <2>12, <2>13
<1> QED BY <1>1, <1>2

(* The table without an index of a name, and without the name of a primary *)
(* key of that name.                                                       *)
Stripped(t, name, pk) == [t EXCEPT !.indexes = Delete(@, name), !.primaryKeyName = pk]

Strips(t, name, pk) ==
  \/ pk = t.primaryKeyName /\ \A e \in Range(t.indexes) : e.key = name => ~ e.value.primary
  \/ pk = NoName /\ t.primaryKeyName = name
  \/ pk = t.primaryKeyName /\ t.primaryKeyName # name

LEMMA WithoutIndex ==
  ASSUME NEW t \in TableType, WellMade(t), NEW name, NEW pk, Strips(t, name, pk),
         NEW u, u = Stripped(t, name, pk)
  PROVE  /\ u \in TableType /\ WellMade(u) /\ u.columns = t.columns
         /\ u.foreignKeys = t.foreignKeys /\ u.uniqueConstraints = t.uniqueConstraints
         /\ Range(u.indexes) \subseteq Range(t.indexes)
         /\ \A e \in Range(t.indexes) : e.key # name => e \in Range(u.indexes)
         /\ \A cs : Refers(t, cs) => Refers(u, cs)
         /\ KeyHeld(t) => KeyHeld(u)
<1>0. /\ u = [t EXCEPT !.indexes = Delete(@, name), !.primaryKeyName = pk]
      /\ \/ pk = t.primaryKeyName /\ \A e \in Range(t.indexes) : e.key = name => ~ e.value.primary
         \/ pk = NoName /\ t.primaryKeyName = name
         \/ pk = t.primaryKeyName /\ t.primaryKeyName # name
  BY Zenon DEF Stripped, Strips
<1>1. PICK m : m = Delete(t.indexes, name)
  OBVIOUS
<1>2. t.indexes \in MapOf(Name, IndexType) /\ t.primaryKeyName \in Name
  BY DEF TableType
<1>3. /\ m \in MapOf(Name, IndexType)
      /\ Range(m) \subseteq Range(t.indexes)
      /\ \A e \in Range(t.indexes) : e.key # name => e \in Range(m)
      /\ Once(t.indexes) => Once(m) /\ name \notin Keys(m)
  BY <1>1, <1>2, DeleteMap
<1>4. pk \in Name
  <2>1. NoName \in Name
    BY DEF NoName, Name
  <2> QED BY <2>1, <1>0, <1>2
<1>5. /\ u \in TableType /\ u.columns = t.columns /\ u.indexes = m
      /\ u.foreignKeys = t.foreignKeys /\ u.uniqueConstraints = t.uniqueConstraints
      /\ u.primaryKeyName = pk
  BY <1>0, <1>1, <1>3, <1>4 DEF TableType
<1>6. WellMade(u)
  <2>1. Once(m) /\ name \notin Keys(m)
    BY <1>3, WellMadeIs
  <2>2. NoName \notin Keys(m)
    BY <1>3, WellMadeIs DEF Keys
  <2>3. ASSUME NEW e \in Range(m)
        PROVE  /\ Distinct(e.value.cols) = e.value.cols
               /\ e.value.primary => e.key = pk /\ e.value.unique
    <3>1. e \in Range(t.indexes) /\ e.key # name
      BY <1>3, <2>1 DEF Keys
    <3>2. /\ Distinct(e.value.cols) = e.value.cols
          /\ e.value.primary => e.key = t.primaryKeyName /\ e.value.unique
      BY <3>1, WellMadeIs
    <3> QED BY <3>1, <3>2, <1>0
  <2> QED BY <1>5, <2>1, <2>2, <2>3, WellMadeIs
<1>7. \A cs : Refers(t, cs) => Refers(u, cs)
  BY <1>3, <1>5, RefersIs
<1>8. ASSUME KeyHeld(t) PROVE KeyHeld(u)
  <2>1. SUFFICES ASSUME pk # NoName
                 PROVE  \E e \in Range(m) : e.key = pk /\ e.value.primary
    BY <1>5 DEF KeyHeld
  <2>2. pk = t.primaryKeyName
    BY <2>1, <1>0
  <2>3. PICK e \in Range(t.indexes) : e.key = pk /\ e.value.primary
    BY <1>8, <2>1, <2>2 DEF KeyHeld
  <2>4. e.key # name
    BY <2>1, <2>2, <2>3, <1>0
  <2> QED BY <2>3, <2>4, <1>3
<1> QED BY <1>3, <1>5, <1>6, <1>7, <1>8

LEMMA DropIndexIs ==
  ASSUME NEW t \in TableType, WellMade(t), NEW name, NEW cs
  PROVE  Left(t, DropIndex(t, name), cs)
<1>1. PICK pk : pk = IF t.primaryKeyName = name THEN NoName ELSE t.primaryKeyName
  OBVIOUS
<1>2. PICK u : u = Stripped(t, name, pk)
  OBVIOUS
<1>3. /\ u \in TableType /\ WellMade(u) /\ u.columns = t.columns
      /\ Refers(t, cs) => Refers(u, cs)
      /\ KeyHeld(t) => KeyHeld(u)
  <2>1. Strips(t, name, pk)
    BY <1>1 DEF Strips
  <2>2. u \in TableType /\ WellMade(u) /\ u.columns = t.columns
    BY <1>2, <2>1, WithoutIndex
  <2>3. \A x : Refers(t, x) => Refers(u, x)
    BY <1>2, <2>1, WithoutIndex
  <2>4. KeyHeld(t) => KeyHeld(u)
    BY <1>2, <2>1, WithoutIndex
  <2> QED BY <2>2, <2>3, <2>4
<1>4. DropIndex(t, name) = Returns(u)
  BY <1>1, <1>2, Zenon DEF DropIndex, Stripped
<1> QED BY <1>3, <1>4, OutcomeIs DEF Left

LEMMA DropPrimaryKeyIs ==
  ASSUME NEW t \in TableType, WellMade(t), NEW cs
  PROVE  Left(t, DropPrimaryKey(t), cs)
<1>1. DropPrimaryKey(t) \in {Returns(t), Throws(t), DropIndex(t, t.primaryKeyName)}
  BY Zenon DEF DropPrimaryKey
<1>2. Left(t, Returns(t), cs) /\ Left(t, Throws(t), cs)
  BY Unchanged DEF Kept
<1>3. Left(t, DropIndex(t, t.primaryKeyName), cs)
  BY DropIndexIs
<1> QED BY <1>1, <1>2, <1>3

(* An index that is gone is added again, with its columns and as unique as *)
(* it was.                                                                 *)
LEMMA RenameIndexIs ==
  ASSUME NEW t \in TableType, WellMade(t), NEW name \in Keys(t.indexes), NEW given \in Name,
         NEW cs
  PROVE  Kept(t, RenameIndex(t, name, given), cs)
<1>1. PICK o : o = RenameIndex(t, name, given)
  OBVIOUS
<1>2. CASE given = name
  <2>1. o = Returns(t)
    BY <1>1, <1>2, Zenon DEF RenameIndex
  <2> QED BY <1>1, <2>1, Unchanged
<1>3. CASE given # name /\ given \in Keys(t.indexes)
  <2>1. o = Throws(t)
    BY <1>1, <1>3, Zenon DEF RenameIndex
  <2> QED BY <1>1, <2>1, Unchanged
<1>4. CASE given # name /\ given \notin Keys(t.indexes)
  <2>1. PICK e \in Range(t.indexes) : e.key = name /\ e.value = Get(t.indexes, name)
    BY GetIs
  <2>2. PICK index : index = e.value
    OBVIOUS
  <2>3. /\ index \in IndexType /\ Distinct(index.cols) = index.cols
        /\ index.primary => t.primaryKeyName = name
        /\ \A d \in Range(t.indexes) : d.key = name => d = e
    <3>1. t.indexes \in Seq([key : Name, value : IndexType])
      BY DEF TableType, MapOf
    <3>2. e \in [key : Name, value : IndexType]
      BY <3>1, Elements
    <3>3. Distinct(e.value.cols) = e.value.cols /\ (e.value.primary => e.key = t.primaryKeyName)
      BY WellMadeIs
    <3>4. \A d \in Range(t.indexes) : d.key = name => d = e
      BY <2>1, OnlyOne, WellMadeIs
    <3> QED BY <2>1, <2>2, <3>2, <3>3, <3>4
  <2>4. /\ index.cols \in Seq(Columns) /\ index.unique \in BOOLEAN /\ index.primary \in BOOLEAN
    BY <2>3 DEF IndexType
  <2>5. PICK pk : pk = IF index.primary /\ t.primaryKeyName = name THEN NoName
                       ELSE t.primaryKeyName
    OBVIOUS
  <2>6. PICK v : v = Stripped(t, name, pk)
    OBVIOUS
  <2>7. Strips(t, name, pk)
    BY <2>2, <2>3, <2>5 DEF Strips
  <2>8. /\ v \in TableType /\ WellMade(v) /\ v.columns = t.columns
        /\ v.foreignKeys = t.foreignKeys /\ v.uniqueConstraints = t.uniqueConstraints
    BY <2>6, <2>7, WithoutIndex
  <2>9. \A d \in Range(t.indexes) : d.key # name => d \in Range(v.indexes)
    BY <2>6, <2>7, WithoutIndex
  <2>10. \A x : Refers(t, x) => Refers(v, x)
    BY <2>6, <2>7, WithoutIndex
  <2>11. KeyHeld(t) => KeyHeld(v)
    BY <2>6, <2>7, WithoutIndex
  <2>12. o = IF index.primary THEN SetPrimaryKey(v, index.cols, given)
             ELSE IF index.unique THEN AddUniqueIndex(v, index.cols, given)
             ELSE AddIndex(v, index.cols, given)
    BY <1>1, <1>4, <2>1, <2>2, <2>5, <2>6, Zenon DEF RenameIndex, Stripped
  <2>13. /\ \A x : Range(index.cols) \subseteq x => Kept(v, o, x)
         /\ ~ o.threw => \E d :
              /\ Range(o.table.indexes) = Range(v.indexes) \cup {d}
              /\ d.value.cols = index.cols /\ (index.unique => d.value.unique)
              /\ o.table.foreignKeys = v.foreignKeys
              /\ o.table.uniqueConstraints = v.uniqueConstraints
    <3>1. \A i : \A n : Entry(n, i).value = i
      BY DEF Entry
    <3>2. CASE index.primary
      <4>1. o = SetPrimaryKey(v, index.cols, given)
        BY <2>12, <3>2
      <4>2. \A x : Range(index.cols) \subseteq x => Kept(v, o, x)
        BY <4>1, <2>4, <2>8, SetPrimaryKeyIs
      <4>3. ASSUME ~ o.threw
            PROVE  \E d : /\ Range(o.table.indexes) = Range(v.indexes) \cup {d}
                          /\ d.value.cols = Distinct(index.cols) /\ d.value.unique
                          /\ o.table.foreignKeys = v.foreignKeys
                          /\ o.table.uniqueConstraints = v.uniqueConstraints
        <5>1. v \in TableType /\ WellMade(v) /\ index.cols \in Seq(Columns)
          BY <2>4, <2>8
        <5>2. ~ o.threw =>
                \E d : /\ Range(o.table.indexes) = Range(v.indexes) \cup {d}
                       /\ d.value.cols = Distinct(index.cols) /\ d.value.unique
                       /\ o.table.foreignKeys = v.foreignKeys
                       /\ o.table.uniqueConstraints = v.uniqueConstraints
          BY <4>1, <5>1, SetPrimaryKeyIs, Zenon
        <5> QED BY <4>3, <5>2, Zenon
      <4> QED BY <4>2, <4>3, <2>3
    <3>3. CASE ~ index.primary
      <4>1. o = IF index.unique THEN AddUniqueIndex(v, index.cols, given)
                ELSE AddIndex(v, index.cols, given)
        BY <2>12, <3>3
      <4>2. \A x : Range(index.cols) \subseteq x => Kept(v, o, x)
        BY <4>1, <2>4, <2>8, AddsIndex
      <4>3. ASSUME ~ o.threw
            PROVE  \E d : /\ Grown(v, o.table, d)
                          /\ d.value = Index(index.cols, index.unique, FALSE)
        <5>1. PICK n \in Names : Grown(v, o.table, Entry(n, Index(index.cols, index.unique, FALSE)))
          BY <4>1, <4>3, <2>4, <2>8, AddsIndex
        <5> WITNESS Entry(n, Index(index.cols, index.unique, FALSE))
        <5> QED BY <5>1, <3>1, Zenon
      <4>4. /\ Index(index.cols, index.unique, FALSE).cols = index.cols
            /\ Index(index.cols, index.unique, FALSE).unique = index.unique
        BY <2>3, <2>4, IndexIs
      <4> QED BY <4>2, <4>3, <4>4 DEF Grown
    <3> QED BY <3>2, <3>3
  <2>14. Left(t, o, cs)
    <3>1. Kept(v, o, Range(index.cols))
      BY <2>13
    <3>2. ASSUME Refers(t, cs) PROVE Refers(o.table, cs)
      <4>1. Range(index.cols) \subseteq cs
        BY <3>2, <2>2, RefersIs
      <4>2. Kept(v, o, cs)
        BY <4>1, <2>13
      <4> QED BY <4>2, <3>2, <2>10 DEF Kept, Left
    <3> QED BY <3>1, <3>2, <2>8, <2>11 DEF Kept, Left
  <2>15. ASSUME ~ o.threw, IsIndexed(t) PROVE IsIndexed(o.table)
    <3>1. PICK d : /\ Range(o.table.indexes) = Range(v.indexes) \cup {d}
                   /\ d.value.cols = index.cols /\ (index.unique => d.value.unique)
                   /\ o.table.foreignKeys = v.foreignKeys
                   /\ o.table.uniqueConstraints = v.uniqueConstraints
      BY <2>13, <2>15
    <3>2. ASSUME NEW i \in Range(t.indexes)
          PROVE  \E j \in Range(o.table.indexes) : /\ j.value.cols = i.value.cols
                                                   /\ i.value.unique => j.value.unique
      <4>1. CASE i.key # name
        <5>1. i \in Range(o.table.indexes)
          BY <4>1, <2>9, <3>1
        <5> QED BY <5>1
      <4>2. CASE i.key = name
        <5>1. i.value = index /\ d \in Range(o.table.indexes)
          BY <4>2, <2>2, <2>3, <3>1
        <5> QED BY <5>1, <3>1
      <4> QED BY <4>1, <4>2
    <3>3. o.table.foreignKeys = t.foreignKeys /\ o.table.uniqueConstraints = t.uniqueConstraints
      BY <3>1, <2>8
    <3>4. ASSUME NEW x \in Range(t.foreignKeys)
          PROVE  \E j \in Range(o.table.indexes) : j.value.cols = Distinct(x.value)
      <4>1. PICK i \in Range(t.indexes) : i.value.cols = Distinct(x.value)
        BY <2>15, IsIndexedIs
      <4> QED BY <4>1, <3>2
    <3>5. ASSUME NEW x \in Range(t.uniqueConstraints)
          PROVE  \E j \in Range(o.table.indexes) : j.value.unique /\ j.value.cols = Distinct(x.value)
      <4>1. PICK i \in Range(t.indexes) : i.value.unique /\ i.value.cols = Distinct(x.value)
        BY <2>15, IsIndexedIs
      <4> QED BY <4>1, <3>2
    <3> QED BY <3>3, <3>4, <3>5, IsIndexedIs
  <2> QED BY <1>1, <2>14, <2>15 DEF Kept
<1> QED BY <1>2, <1>3, <1>4

(* The table with an index of cols, its constraints as they were. *)
Serves(t, u, cols, unique) ==
  /\ Range(t.indexes) \subseteq Range(u.indexes)
  /\ u.foreignKeys = t.foreignKeys /\ u.uniqueConstraints = t.uniqueConstraints
  /\ \E e \in Range(u.indexes) : e.value.cols = Distinct(cols) /\ (unique => e.value.unique)

LEMMA AddsServing ==
  ASSUME NEW t \in TableType, WellMade(t), NEW cols \in Seq(Columns), NEW given \in Name,
         NEW unique \in BOOLEAN, NEW o,
         o = IF unique THEN AddUniqueIndex(t, cols, given) ELSE AddIndex(t, cols, given),
         ~ o.threw
  PROVE  Serves(t, o.table, cols, unique)
<1>1. PICK name \in Names : Grown(t, o.table, Entry(name, Index(cols, unique, FALSE)))
  BY AddsIndex
<1>2. PICK e : e = Entry(name, Index(cols, unique, FALSE))
  OBVIOUS
<1>3. e.value = Index(cols, unique, FALSE)
  BY <1>2 DEF Entry
<1>4. Index(cols, unique, FALSE).cols = Distinct(cols) /\ Index(cols, unique, FALSE).unique = unique
  BY IndexIs
<1>5. Grown(t, o.table, e)
  BY <1>1, <1>2
<1>6. e.value.cols = Distinct(cols) /\ e.value.unique = unique
  BY <1>3, <1>4, Zenon
<1> QED BY <1>5, <1>6 DEF Grown, Serves

LEMMA AddImplicitIs ==
  ASSUME NEW t \in TableType, WellMade(t), NEW cols \in Seq(Columns),
         NEW o, o = AddImplicitForeignKeyIndex(t, cols)
  PROVE  /\ \A cs : Range(cols) \subseteq cs => Kept(t, o, cs)
         /\ ~ o.threw => Serves(t, o.table, cols, FALSE)
<1>1. CASE \E index \in Values(t.indexes) : IsFulfilledBy(Index(cols, FALSE, FALSE), index)
  <2>1. o = Returns(t)
    BY <1>1, Zenon DEF AddImplicitForeignKeyIndex
  <2>2. PICK e \in Range(t.indexes) : IsFulfilledBy(Index(cols, FALSE, FALSE), e.value)
    BY <1>1 DEF Values
  <2>3. e.value.cols = Distinct(cols)
    BY <2>2 DEF IsFulfilledBy, Index
  <2>4. o.table = t /\ \A cs : Kept(t, o, cs)
    BY <2>1, Unchanged, OutcomeIs
  <2> QED BY <2>3, <2>4 DEF Serves
<1>2. CASE ~ \E index \in Values(t.indexes) : IsFulfilledBy(Index(cols, FALSE, FALSE), index)
  <2>1. o = AddIndex(t, cols, NoName)
    BY <1>2, Zenon DEF AddImplicitForeignKeyIndex
  <2>2. NoName \in Name
    BY DEF NoName, Name
  <2>3. PICK no : no = FALSE
    OBVIOUS
  <2>4. no \in BOOLEAN /\ o = IF no THEN AddUniqueIndex(t, cols, NoName) ELSE AddIndex(t, cols, NoName)
    BY <2>1, <2>3
  <2>5. \A cs : Range(cols) \subseteq cs => Kept(t, o, cs)
    BY <2>2, <2>4, AddsIndex
  <2>6. ~ o.threw => Serves(t, o.table, cols, no)
    BY <2>2, <2>4, AddsServing
  <2> QED BY <2>3, <2>5, <2>6 DEF Serves
<1> QED BY <1>1, <1>2

(* A constraint of the table, in either of its maps. *)
LEMMA PutConstraint ==
  ASSUME NEW map \in ConstraintMap, HasKeys(map), NEW name \in Names, NEW cols \in Seq(Columns)
  PROVE  /\ Put(map, name, cols) \in ConstraintMap /\ HasKeys(Put(map, name, cols))
         /\ \A e \in Range(Put(map, name, cols)) : e \in Range(map) \/ e.value = cols
<1>1. name \in Name /\ name # NoName
  BY DEF Names
<1>2. PICK m, E : m = Put(map, name, cols) /\ E = Entry(name, cols)
  OBVIOUS
<1>3. /\ m \in ConstraintMap /\ Keys(m) = Keys(map) \cup {name}
      /\ Range(m) \subseteq Range(map) \cup {E} /\ (Once(map) => Once(m))
  BY <1>1, <1>2, PutMap DEF ConstraintMap
<1>4. HasKeys(m)
  BY <1>1, <1>3, HasKeysIs
<1>5. E.value = cols
  BY <1>2 DEF Entry
<1> QED BY <1>2, <1>3, <1>4, <1>5

LEMMA DeleteConstraint ==
  ASSUME NEW map \in ConstraintMap, HasKeys(map), NEW name
  PROVE  /\ Delete(map, name) \in ConstraintMap /\ HasKeys(Delete(map, name))
         /\ Range(Delete(map, name)) \subseteq Range(map)
<1>1. PICK m : m = Delete(map, name)
  OBVIOUS
<1>2. m \in ConstraintMap /\ Range(m) \subseteq Range(map) /\ (Once(map) => Once(m))
  BY <1>1, DeleteMap DEF ConstraintMap
<1>3. HasKeys(m)
  BY <1>2, HasKeysIs DEF Keys
<1> QED BY <1>1, <1>2, <1>3

(* The table with other constraints, whose columns were in the table's     *)
(* constraints or are cols.                                                *)
Reconstrained(t, v, cols) ==
  /\ v \in TableType
  /\ v.columns = t.columns /\ v.indexes = t.indexes /\ v.primaryKeyName = t.primaryKeyName
  /\ HasKeys(v.foreignKeys) /\ HasKeys(v.uniqueConstraints)
  /\ \A e \in Range(v.foreignKeys) : e \in Range(t.foreignKeys) \/ e.value = cols
  /\ \A e \in Range(v.uniqueConstraints) : e \in Range(t.uniqueConstraints) \/ e.value = cols

LEMMA ReconstrainedIs ==
  ASSUME NEW t \in TableType, WellMade(t), NEW v, NEW cols, Reconstrained(t, v, cols)
  PROVE  /\ WellMade(v)
         /\ KeyHeld(t) => KeyHeld(v)
         /\ \A cs : Refers(t, cs) /\ Range(cols) \subseteq cs => Refers(v, cs)
<1>1. WellMade(v)
  BY Zenon DEF WellMade, Reconstrained
<1>2. KeyHeld(t) => KeyHeld(v)
  BY DEF KeyHeld, Reconstrained
<1>3. ASSUME NEW cs, Refers(t, cs), Range(cols) \subseteq cs PROVE Refers(v, cs)
  BY <1>3, RefersIs DEF Reconstrained
<1> QED BY <1>1, <1>2, <1>3

LEMMA ReconstrainedKeeps ==
  ASSUME NEW t \in TableType, WellMade(t), NEW v, NEW cols \in Seq(Columns), Reconstrained(t, v, cols),
         NEW o, NEW cs, Range(cols) \subseteq cs, Kept(v, o, cs)
  PROVE  Left(t, o, cs)
<1>1. /\ KeyHeld(t) => KeyHeld(v)
      /\ Refers(t, cs) => Refers(v, cs)
  BY ReconstrainedIs
<1>2. v.columns = t.columns
  BY DEF Reconstrained
<1> QED BY <1>1, <1>2 DEF Kept, Left

LEMMA TableParts ==
  ASSUME NEW t \in TableType, WellMade(t)
  PROVE  /\ t.foreignKeys \in ConstraintMap /\ HasKeys(t.foreignKeys)
         /\ t.uniqueConstraints \in ConstraintMap /\ HasKeys(t.uniqueConstraints)
         /\ t.indexes \in MapOf(Name, IndexType) /\ t.columns \in MapOf(Columns, Types)
         /\ t.renamed \in MapOf(Columns, Columns)
BY DEF TableType, WellMade

LEMMA AddForeignKeyIs ==
  ASSUME NEW t \in TableType, WellMade(t), NEW cols \in Seq(Columns), NEW given \in Name,
         NEW cs, Range(cols) \subseteq cs
  PROVE  Kept(t, AddForeignKeyConstraint(t, cols, given), cs)
<1>1. PICK name : name = Named(given, <<"fk", "table">> \o cols)
  OBVIOUS
<1>2. name \in Names
  BY <1>1, NameIs
<1>3. PICK m : m = Put(t.foreignKeys, name, cols)
  OBVIOUS
<1>4. /\ m \in ConstraintMap /\ HasKeys(m)
      /\ \A e \in Range(m) : e \in Range(t.foreignKeys) \/ e.value = cols
  BY <1>2, <1>3, TableParts, PutConstraint
<1>5. PICK v : v = [t EXCEPT !.foreignKeys = m]
  OBVIOUS
<1>6. v \in TableType /\ v.foreignKeys = m /\ v.uniqueConstraints = t.uniqueConstraints
      /\ v.columns = t.columns /\ v.indexes = t.indexes /\ v.primaryKeyName = t.primaryKeyName
  BY <1>4, <1>5 DEF TableType
<1>7. Reconstrained(t, v, cols)
  BY <1>4, <1>6, TableParts DEF Reconstrained
<1>8. WellMade(v)
  BY <1>7, ReconstrainedIs
<1>9. PICK o : o = AddForeignKeyConstraint(t, cols, given)
  OBVIOUS
<1>10. o = AddImplicitForeignKeyIndex(v, cols)
  BY <1>1, <1>3, <1>5, <1>9, Zenon DEF AddForeignKeyConstraint
<1>11. Kept(v, o, cs) /\ (~ o.threw => Serves(v, o.table, cols, FALSE))
  BY <1>6, <1>8, <1>10, AddImplicitIs
<1>12. Left(t, o, cs)
  BY <1>7, <1>11, ReconstrainedKeeps
<1>13. ASSUME ~ o.threw, IsIndexed(t) PROVE IsIndexed(o.table)
  <2>1. /\ Range(t.indexes) \subseteq Range(o.table.indexes)
        /\ o.table.foreignKeys = m /\ o.table.uniqueConstraints = t.uniqueConstraints
        /\ \E i \in Range(o.table.indexes) : i.value.cols = Distinct(cols)
    BY <1>6, <1>11, <1>13 DEF Serves
  <2>2. ASSUME NEW e \in Range(m)
        PROVE  \E i \in Range(o.table.indexes) : i.value.cols = Distinct(e.value)
    BY <2>1, <1>4, <1>13, IsIndexedIs
  <2>3. ASSUME NEW e \in Range(t.uniqueConstraints)
        PROVE  \E i \in Range(o.table.indexes) : i.value.unique /\ i.value.cols = Distinct(e.value)
    BY <2>1, <1>13, IsIndexedIs
  <2> QED BY <2>1, <2>2, <2>3, IsIndexedIs
<1> QED BY <1>9, <1>12, <1>13 DEF Kept

LEMMA RemoveForeignKeyIs ==
  ASSUME NEW t \in TableType, WellMade(t), NEW name, NEW cs
  PROVE  Kept(t, RemoveForeignKey(t, name), cs)
<1>1. PICK m : m = Delete(t.foreignKeys, name)
  OBVIOUS
<1>2. m \in ConstraintMap /\ HasKeys(m) /\ Range(m) \subseteq Range(t.foreignKeys)
  BY <1>1, TableParts, DeleteConstraint
<1>3. PICK v : v = [t EXCEPT !.foreignKeys = m]
  OBVIOUS
<1>4. v \in TableType /\ v.foreignKeys = m /\ v.uniqueConstraints = t.uniqueConstraints
      /\ v.columns = t.columns /\ v.indexes = t.indexes /\ v.primaryKeyName = t.primaryKeyName
  BY <1>2, <1>3 DEF TableType
<1>5. RemoveForeignKey(t, name) = Returns(v)
  BY <1>1, <1>3, Zenon DEF RemoveForeignKey
<1>6. WellMade(v)
  BY <1>2, <1>4 DEF WellMade
<1>7. Refers(t, cs) => Refers(v, cs)
  BY <1>2, <1>4, RefersIs
<1>8. KeyHeld(t) => KeyHeld(v)
  BY <1>4 DEF KeyHeld
<1>9. IsIndexed(t) => IsIndexed(v)
  BY <1>2, <1>4, IsIndexedIs
<1> QED BY <1>4, <1>5, <1>6, <1>7, <1>8, <1>9, OutcomeIs DEF Kept, Left

LEMMA DropUniqueConstraintIs ==
  ASSUME NEW t \in TableType, WellMade(t), NEW name, NEW cs
  PROVE  Kept(t, DropUniqueConstraint(t, name), cs)
<1>1. PICK m : m = Delete(t.uniqueConstraints, name)
  OBVIOUS
<1>2. m \in ConstraintMap /\ HasKeys(m) /\ Range(m) \subseteq Range(t.uniqueConstraints)
  BY <1>1, TableParts, DeleteConstraint
<1>3. PICK v : v = [t EXCEPT !.uniqueConstraints = m]
  OBVIOUS
<1>4. v \in TableType /\ v.foreignKeys = t.foreignKeys /\ v.uniqueConstraints = m
      /\ v.columns = t.columns /\ v.indexes = t.indexes /\ v.primaryKeyName = t.primaryKeyName
  BY <1>2, <1>3 DEF TableType
<1>5. DropUniqueConstraint(t, name) = Returns(v)
  BY <1>1, <1>3, Zenon DEF DropUniqueConstraint
<1>6. WellMade(v)
  BY <1>2, <1>4 DEF WellMade
<1>7. Refers(t, cs) => Refers(v, cs)
  BY <1>2, <1>4, RefersIs
<1>8. KeyHeld(t) => KeyHeld(v)
  BY <1>4 DEF KeyHeld
<1>9. IsIndexed(t) => IsIndexed(v)
  BY <1>2, <1>4, IsIndexedIs
<1> QED BY <1>4, <1>5, <1>6, <1>7, <1>8, <1>9, OutcomeIs DEF Kept, Left

LEMMA AddUniqueConstraintIs ==
  ASSUME NEW t \in TableType, WellMade(t), NEW cols \in Seq(Columns), NEW given \in Name,
         NEW cs, Range(cols) \subseteq cs
  PROVE  Kept(t, AddUniqueConstraint(t, cols, given), cs)
<1>1. PICK name : name = Named(given, <<"uniq">> \o cols)
  OBVIOUS
<1>2. name \in Names
  BY <1>1, NameIs
<1>3. PICK m : m = Put(t.uniqueConstraints, name, cols)
  OBVIOUS
<1>4. /\ m \in ConstraintMap /\ HasKeys(m)
      /\ \A e \in Range(m) : e \in Range(t.uniqueConstraints) \/ e.value = cols
  BY <1>2, <1>3, TableParts, PutConstraint
<1>5. PICK v : v = [t EXCEPT !.uniqueConstraints = m]
  OBVIOUS
<1>6. v \in TableType /\ v.uniqueConstraints = m /\ v.foreignKeys = t.foreignKeys
      /\ v.columns = t.columns /\ v.indexes = t.indexes /\ v.primaryKeyName = t.primaryKeyName
  BY <1>4, <1>5 DEF TableType
<1>7. Reconstrained(t, v, cols)
  BY <1>4, <1>6, TableParts DEF Reconstrained
<1>8. WellMade(v)
  BY <1>7, ReconstrainedIs
<1>9. PICK o : o = AddUniqueConstraint(t, cols, given)
  OBVIOUS
<1>10. ASSUME Kept(v, o, cs), ~ o.threw => Serves(v, o.table, cols, TRUE) PROVE Kept(t, o, cs)
  <2>1. Left(t, o, cs)
    BY <1>7, <1>10, ReconstrainedKeeps
  <2>2. ASSUME ~ o.threw, IsIndexed(t) PROVE IsIndexed(o.table)
    <3>1. /\ Range(t.indexes) \subseteq Range(o.table.indexes)
          /\ o.table.uniqueConstraints = m /\ o.table.foreignKeys = t.foreignKeys
          /\ \E i \in Range(o.table.indexes) : i.value.unique /\ i.value.cols = Distinct(cols)
      BY <1>6, <1>10, <2>2 DEF Serves
    <3>2. ASSUME NEW e \in Range(m)
          PROVE  \E i \in Range(o.table.indexes) : i.value.unique /\ i.value.cols = Distinct(e.value)
      BY <3>1, <1>4, <2>2, IsIndexedIs
    <3>3. ASSUME NEW e \in Range(t.foreignKeys)
          PROVE  \E i \in Range(o.table.indexes) : i.value.cols = Distinct(e.value)
      BY <3>1, <2>2, IsIndexedIs
    <3> QED BY <3>1, <3>2, <3>3, IsIndexedIs
  <2> QED BY <2>1, <2>2 DEF Kept
<1>11. CASE name \in Keys(t.uniqueConstraints)
  <2>1. o = Throws(t)
    BY <1>1, <1>9, <1>11, Zenon DEF AddUniqueConstraint
  <2> QED BY <1>9, <2>1, Unchanged
<1>12. CASE name \notin Keys(t.uniqueConstraints) /\ IsBacked(t, cols)
  <2>1. o = Returns(v)
    BY <1>1, <1>3, <1>5, <1>9, <1>12, Zenon DEF AddUniqueConstraint
  <2>2. Kept(v, o, cs) /\ o.table = v
    BY <2>1, <1>6, <1>8, Unchanged, OutcomeIs
  <2>3. PICK i \in Range(t.indexes) : i.value.unique /\ i.value.cols = cols
    BY <1>12 DEF IsBacked, Values
  <2>4. i.value.cols = Distinct(cols)
    BY <2>3, WellMadeIs
  <2>5. Serves(v, o.table, cols, TRUE)
    BY <1>6, <2>2, <2>3, <2>4 DEF Serves
  <2> QED BY <1>9, <1>10, <2>2, <2>5
<1>13. CASE name \notin Keys(t.uniqueConstraints) /\ ~ IsBacked(t, cols)
  <2>1. o = AddUniqueIndex(v, cols, name)
    BY <1>1, <1>3, <1>5, <1>9, <1>13, Zenon DEF AddUniqueConstraint
  <2>2. PICK yes : yes = TRUE
    OBVIOUS
  <2>3. /\ yes \in BOOLEAN /\ name \in Name
        /\ o = IF yes THEN AddUniqueIndex(v, cols, name) ELSE AddIndex(v, cols, name)
    BY <1>2, <2>1, <2>2 DEF Names
  <2>4. Kept(v, o, cs)
    BY <1>6, <1>8, <2>3, AddsIndex
  <2>5. ~ o.threw => Serves(v, o.table, cols, yes)
    BY <1>6, <1>8, <2>3, AddsServing
  <2>6. ~ o.threw => Serves(v, o.table, cols, TRUE)
    BY <2>2, <2>5 DEF Serves
  <2> QED BY <1>9, <1>10, <2>4, <2>6
<1> QED BY <1>11, <1>12, <1>13

-----------------------------------------------------------------------------
(* What the methods that change columns leave. *)

(* The columns that are no more once t has become u.                       *)
NowGone(t, u, gone) ==
  IF Len(u.columns) < Len(t.columns) THEN gone \cup (Keys(t.columns) \ Keys(u.columns)) ELSE gone

(* What a call leaves, one that drops no index and one that may.           *)
Sound(t, o) ==
  /\ o \in Outcome /\ WellMade(o.table)
  /\ \A gone : Refers(t, Keys(t.columns) \cup gone)
                => Refers(o.table, Keys(o.table.columns) \cup NowGone(t, o.table, gone))
  /\ ~ o.threw /\ KeyHeld(t) => KeyHeld(o.table)

SoundAndIndexed(t, o) == Sound(t, o) /\ (~ o.threw /\ IsIndexed(t) => IsIndexed(o.table))

LEMMA LeftIsSound ==
  ASSUME NEW t \in TableType, NEW o, \A gone : Left(t, o, Keys(t.columns) \cup gone)
  PROVE  Sound(t, o)
<1>1. \A gone : Left(t, o, Keys(t.columns) \cup gone)
  OBVIOUS
<1>2. Left(t, o, Keys(t.columns) \cup {})
  BY <1>1, Zenon
<1>3. Len(t.columns) \in Nat
  BY DEF TableType, MapOf
<1>4. o.table.columns = t.columns
  BY <1>2 DEF Left
<1>5. \A gone : NowGone(t, o.table, gone) = gone
  BY <1>3, <1>4 DEF NowGone
<1>6. ASSUME NEW gone, Refers(t, Keys(t.columns) \cup gone)
      PROVE  Refers(o.table, Keys(o.table.columns) \cup NowGone(t, o.table, gone))
  <2>1. Refers(o.table, Keys(t.columns) \cup gone)
    BY <1>1, <1>6, Zenon DEF Left
  <2> QED BY <2>1, <1>4, <1>5, Zenon
<1> QED BY <1>2, <1>6 DEF Left, Sound

LEMMA KeptIsSound ==
  ASSUME NEW t \in TableType, NEW o, \A gone : Kept(t, o, Keys(t.columns) \cup gone)
  PROVE  SoundAndIndexed(t, o)
<1>1. \A gone : Kept(t, o, Keys(t.columns) \cup gone)
  OBVIOUS
<1>2. Kept(t, o, Keys(t.columns) \cup {})
  BY <1>1, Zenon
<1>3. \A gone : Left(t, o, Keys(t.columns) \cup gone)
  BY <1>1, Zenon DEF Kept
<1>4. Sound(t, o)
  BY <1>3, LeftIsSound
<1> QED BY <1>2, <1>4 DEF Kept, SoundAndIndexed

(* A table with other columns only: what is missing has made it shorter.   *)
LEMMA OtherColumns ==
  ASSUME NEW t \in TableType, WellMade(t), NEW m \in MapOf(Columns, Types),
         NEW u, u = [t EXCEPT !.columns = m], NEW o, o \in {Returns(u), Throws(u)},
         Len(m) < Len(t.columns) \/ Keys(t.columns) \subseteq Keys(m)
  PROVE  SoundAndIndexed(t, o) /\ o.table = u /\ u \in TableType
<1>1. u \in TableType /\ SameParts(t, u) /\ u.primaryKeyName = t.primaryKeyName /\ u.columns = m
  BY DEF TableType, SameParts
<1>2. o \in Outcome /\ o.table = u
  BY <1>1, OutcomeIs
<1>3. /\ \A cs : Refers(t, cs) <=> Refers(u, cs)
      /\ IsIndexed(t) <=> IsIndexed(u)
      /\ KeyHeld(t) <=> KeyHeld(u)
      /\ WellMade(u)
  BY <1>1, SamePartsKeep
<1>4. ASSUME NEW gone, Refers(t, Keys(t.columns) \cup gone)
      PROVE  Refers(u, Keys(u.columns) \cup NowGone(t, u, gone))
  <2>1. Keys(t.columns) \cup gone \subseteq Keys(u.columns) \cup NowGone(t, u, gone)
    BY <1>1 DEF NowGone
  <2>2. Refers(u, Keys(t.columns) \cup gone)
    BY <1>3, <1>4
  <2> QED BY <2>1, <2>2, RefersIs
<1> QED BY <1>1, <1>2, <1>3, <1>4 DEF Sound, SoundAndIndexed

LEMMA PutColumn ==
  ASSUME NEW t \in TableType, WellMade(t), NEW c \in Columns, NEW type \in Types
  PROVE  SoundAndIndexed(t, AddColumn(t, c, type)) /\ SoundAndIndexed(t, ModifyColumn(t, c, type))
<1>1. PICK m, u : m = Put(t.columns, c, type) /\ u = [t EXCEPT !.columns = m]
  OBVIOUS
<1>2. m \in MapOf(Columns, Types) /\ Keys(m) = Keys(t.columns) \cup {c}
  BY <1>1, TableParts, PutMap
<1>3. PICK o : o = Returns(u)
  OBVIOUS
<1>4. SoundAndIndexed(t, o)
  BY <1>1, <1>2, <1>3, OtherColumns
<1>5. ModifyColumn(t, c, type) = o
  BY <1>1, <1>3, Zenon DEF ModifyColumn
<1>6. AddColumn(t, c, type) \in {o, Throws(t)}
  BY <1>1, <1>3, Zenon DEF AddColumn
<1>7. SoundAndIndexed(t, Throws(t))
  <2>1. \A gone : Kept(t, Throws(t), Keys(t.columns) \cup gone)
    BY Unchanged
  <2> QED BY <2>1, KeptIsSound
<1> QED BY <1>4, <1>5, <1>6, <1>7

LEMMA DeleteColumn ==
  ASSUME NEW t \in TableType, WellMade(t), NEW c \in Keys(t.columns)
  PROVE  /\ Delete(t.columns, c) \in MapOf(Columns, Types)
         /\ Len(Delete(t.columns, c)) = Len(t.columns) - 1
         /\ Len(Delete(t.columns, c)) < Len(t.columns)
         /\ Len(t.columns) \in Nat
         /\ Keys(t.columns) \ {c} \subseteq Keys(Delete(t.columns, c))
<1>1. t.columns \in MapOf(Columns, Types)
  BY TableParts
<1>2. Len(t.columns) \in Nat
  BY <1>1 DEF MapOf
<1>3. PICK m : m = Delete(t.columns, c)
  OBVIOUS
<1>4. /\ m \in MapOf(Columns, Types) /\ Len(m) = Len(t.columns) - 1
      /\ \A e \in Range(t.columns) : e.key # c => e \in Range(m)
  BY <1>1, <1>3, DeleteMap
<1>5. Keys(t.columns) \ {c} \subseteq Keys(m)
  BY <1>4 DEF Keys
<1>6. Len(m) < Len(t.columns)
  BY <1>2, <1>4
<1> QED BY <1>2, <1>3, <1>4, <1>5, <1>6

LEMMA DropColumnIs ==
  ASSUME NEW t \in TableType, WellMade(t), NEW c \in Keys(t.columns)
  PROVE  SoundAndIndexed(t, DropColumn(t, c))
<1>1. PICK m, u : m = Delete(t.columns, c) /\ u = [t EXCEPT !.columns = m]
  OBVIOUS
<1>2. m \in MapOf(Columns, Types) /\ Len(m) < Len(t.columns)
  BY <1>1, DeleteColumn
<1>3. PICK o : o = Returns(u)
  OBVIOUS
<1>4. SoundAndIndexed(t, o)
  BY <1>1, <1>2, <1>3, OtherColumns
<1>5. DropColumn(t, c) = o
  BY <1>1, <1>3, Zenon DEF DropColumn
<1> QED BY <1>4, <1>5

(* A rename in the indexes and in the constraints: what entry f becomes.   *)
RenamedEntry(f, e, c, d) ==
  /\ e.key = f.key /\ e.value.unique = f.value.unique /\ e.value.primary = f.value.primary
  /\ e.value.cols = Distinct(ReplaceAll(f.value.cols, c, d))
  /\ Distinct(e.value.cols) = e.value.cols
  /\ Range(e.value.cols) \subseteq (Range(f.value.cols) \ {c}) \cup {d}

RenamedCols(f, e, c, d) ==
  /\ e.key = f.key /\ f.value \in Seq(Columns)
  /\ e.value = ReplaceAll(f.value, c, d)
  /\ Range(e.value) \subseteq (Range(f.value) \ {c}) \cup {d}

LEMMA RenamedIndexes ==
  ASSUME NEW map \in MapOf(Name, IndexType), NEW c \in Columns, NEW d \in Columns,
         NEW r, r = RenamedInIndexes(map, c, d)
  PROVE  /\ r \in MapOf(Name, IndexType) /\ DOMAIN r = DOMAIN map
         /\ \A i \in DOMAIN map : RenamedEntry(map[i], r[i], c, d)
<1>1. PICK S : S = [key : Name, value : IndexType]
  OBVIOUS
<1>2. map \in Seq(S)
  BY <1>1 DEF MapOf
<1>3. PICK n : n = Len(map) /\ n \in Nat /\ DOMAIN map = 1 .. n /\ \A i \in 1 .. n : map[i] \in S
  BY <1>2
<1>4. r = [i \in DOMAIN map |->
             [map[i] EXCEPT !.value = [map[i].value EXCEPT
                !.cols = Distinct(ReplaceAll(map[i].value.cols, c, d))]]]
  BY DEF RenamedInIndexes, MapValues
<1>5. ASSUME NEW i \in 1 .. n
      PROVE  r[i] \in S /\ RenamedEntry(map[i], r[i], c, d)
  <2>1. PICK e : e = map[i] /\ e \in S
    BY <1>3
  <2>2. e.value \in IndexType /\ e.value.cols \in Seq(Columns) /\ e.key \in Name
    BY <2>1, <1>1 DEF IndexType
  <2>3. PICK q : q = ReplaceAll(e.value.cols, c, d)
    OBVIOUS
  <2>4. q \in Seq(Columns) /\ Range(q) \subseteq (Range(e.value.cols) \ {c}) \cup {d}
    BY <2>2, <2>3, ReplacedType
  <2>5. PICK x : x = Distinct(q)
    OBVIOUS
  <2>6. x \in Seq(Columns) /\ Range(x) = Range(q)
    BY <2>4, <2>5, DistinctType
  <2>7. Distinct(x) = x
    BY <2>4, <2>5, DistinctTwice
  <2>8. r[i] = [e EXCEPT !.value = [e.value EXCEPT !.cols = x]]
    BY <1>3, <1>4, <2>1, <2>3, <2>5
  <2>9. r[i] \in S /\ r[i].key = e.key /\ r[i].value = [e.value EXCEPT !.cols = x]
    BY <2>1, <2>2, <2>6, <2>8, <1>1 DEF IndexType
  <2>10. /\ r[i].value.cols = x /\ r[i].value.unique = e.value.unique
         /\ r[i].value.primary = e.value.primary
    BY <2>2, <2>9 DEF IndexType
  <2> QED BY <2>1, <2>3, <2>4, <2>5, <2>6, <2>7, <2>9, <2>10 DEF RenamedEntry
<1>6. DOMAIN r = 1 .. n
  BY <1>3, <1>4
<1>7. r \in Seq(S)
  <2>1. r = [i \in 1 .. n |-> r[i]]
    BY <1>4, <1>6
  <2> QED BY <2>1, <1>3, <1>5
<1>8. r \in MapOf(Name, IndexType)
  BY <1>1, <1>7 DEF MapOf
<1> QED BY <1>3, <1>5, <1>6, <1>8

LEMMA RenamedConstraints ==
  ASSUME NEW map \in ConstraintMap, NEW c \in Columns, NEW d \in Columns,
         NEW r, r = RenamedInConstraints(map, c, d)
  PROVE  /\ r \in ConstraintMap /\ DOMAIN r = DOMAIN map
         /\ \A i \in DOMAIN map : RenamedCols(map[i], r[i], c, d)
<1>1. PICK S : S = [key : Name, value : Seq(Columns)]
  OBVIOUS
<1>2. map \in Seq(S)
  BY <1>1 DEF MapOf, ConstraintMap
<1>3. PICK n : n = Len(map) /\ n \in Nat /\ DOMAIN map = 1 .. n /\ \A i \in 1 .. n : map[i] \in S
  BY <1>2
<1>4. r = [i \in DOMAIN map |-> [map[i] EXCEPT !.value = ReplaceAll(@, c, d)]]
  BY Zenon DEF RenamedInConstraints, MapValues
<1>5. ASSUME NEW i \in 1 .. n
      PROVE  r[i] \in S /\ RenamedCols(map[i], r[i], c, d)
  <2>1. PICK e : e = map[i] /\ e \in S
    BY <1>3
  <2>2. e.value \in Seq(Columns) /\ e.key \in Name
    BY <2>1, <1>1
  <2>3. PICK q : q = ReplaceAll(e.value, c, d)
    OBVIOUS
  <2>4. q \in Seq(Columns) /\ Range(q) \subseteq (Range(e.value) \ {c}) \cup {d}
    BY <2>2, <2>3, ReplacedType
  <2>5. r[i] = [e EXCEPT !.value = q]
    BY <1>3, <1>4, <2>1, <2>3
  <2>6. r[i] \in S /\ r[i].key = e.key /\ r[i].value = q
    BY <2>1, <2>2, <2>4, <2>5, <1>1
  <2> QED BY <2>1, <2>2, <2>3, <2>4, <2>6 DEF RenamedCols
<1>6. DOMAIN r = 1 .. n
  BY <1>3, <1>4
<1>7. r \in Seq(S)
  <2>1. r = [i \in 1 .. n |-> r[i]]
    BY <1>4, <1>6
  <2> QED BY <2>1, <1>3, <1>5
<1>8. r \in ConstraintMap
  BY <1>1, <1>7 DEF MapOf, ConstraintMap
<1> QED BY <1>3, <1>5, <1>6, <1>8

(* The same keys in the same places. *)
LEMMA SameKeys ==
  ASSUME NEW map, NEW r, DOMAIN r = DOMAIN map, \A i \in DOMAIN map : r[i].key = map[i].key
  PROVE  (Once(map) => Once(r)) /\ Keys(r) = Keys(map) /\ (HasKeys(map) => HasKeys(r))
<1>1. Once(map) => Once(r)
  BY DEF Once
<1>2. Keys(r) = Keys(map)
  BY DEF Keys, Range
<1> QED BY <1>1, <1>2, HasKeysIs

LEMMA TrackRenameIs ==
  ASSUME NEW map \in MapOf(Columns, Columns), NEW c \in Columns, NEW d \in Columns
  PROVE  TrackRename(map, c, d) \in MapOf(Columns, Columns)
<1>1. CASE c \notin Keys(map)
  <2>1. TrackRename(map, c, d) = Put(map, d, c)
    BY <1>1, Zenon DEF TrackRename
  <2>2. Put(map, d, c) \in MapOf(Columns, Columns)
    BY PutMap
  <2> QED BY <2>1, <2>2
<1>2. CASE c \in Keys(map)
  <2>1. PICK e \in Range(map) : e.key = c /\ e.value = Get(map, c)
    BY <1>2, GetIs
  <2>2. PICK first : first = Get(map, c)
    OBVIOUS
  <2>3. map \in Seq([key : Columns, value : Columns])
    BY DEF MapOf
  <2>4. e \in [key : Columns, value : Columns]
    BY <2>1, <2>3, Elements
  <2>5. first \in Columns
    BY <2>1, <2>2, <2>4
  <2>6. PICK m : m = Delete(map, c) /\ m \in MapOf(Columns, Columns)
    BY DeleteMap
  <2>7. Put(m, d, first) \in MapOf(Columns, Columns)
    BY <2>5, <2>6, PutMap
  <2>8. CASE first = d
    <3>1. TrackRename(map, c, d) = m
      BY <1>2, <2>2, <2>6, <2>8, Zenon DEF TrackRename
    <3> QED BY <3>1, <2>6
  <2>9. CASE first # d
    <3>1. TrackRename(map, c, d) = Put(m, d, first)
      BY <1>2, <2>2, <2>6, <2>9, Zenon DEF TrackRename
    <3> QED BY <3>1, <2>7
  <2> QED BY <2>8, <2>9
<1> QED BY <1>1, <1>2

(* The renamed maps, entry by entry. *)
LEMMA RenamedIndexEntries ==
  ASSUME NEW map \in MapOf(Name, IndexType), NEW c \in Columns, NEW d \in Columns,
         NEW r, r = RenamedInIndexes(map, c, d)
  PROVE  /\ r \in MapOf(Name, IndexType)
         /\ Keys(r) = Keys(map)
         /\ Once(map) => Once(r)
         /\ \A e \in Range(r) : \E f \in Range(map) : RenamedEntry(f, e, c, d)
         /\ \A f \in Range(map) : \E e \in Range(r) : RenamedEntry(f, e, c, d)
<1>1. r \in MapOf(Name, IndexType) /\ DOMAIN r = DOMAIN map
  BY RenamedIndexes
<1>2. \A i \in DOMAIN map : RenamedEntry(map[i], r[i], c, d)
  BY RenamedIndexes
<1>3. \A i \in DOMAIN map : r[i].key = map[i].key
  BY <1>2 DEF RenamedEntry
<1>4. Keys(r) = Keys(map) /\ (Once(map) => Once(r))
  BY <1>1, <1>3, SameKeys
<1>5. Range(r) = {r[i] : i \in DOMAIN map} /\ Range(map) = {map[i] : i \in DOMAIN map}
  BY <1>1 DEF Range
<1>6. \A e \in Range(r) : \E f \in Range(map) : RenamedEntry(f, e, c, d)
  BY <1>2, <1>5
<1>7. \A f \in Range(map) : \E e \in Range(r) : RenamedEntry(f, e, c, d)
  BY <1>2, <1>5
<1> QED BY <1>1, <1>4, <1>6, <1>7

LEMMA RenamedConstraintEntries ==
  ASSUME NEW map \in ConstraintMap, NEW c \in Columns, NEW d \in Columns,
         NEW r, r = RenamedInConstraints(map, c, d)
  PROVE  /\ r \in ConstraintMap
         /\ Keys(r) = Keys(map)
         /\ HasKeys(map) => HasKeys(r)
         /\ \A e \in Range(r) : \E f \in Range(map) : RenamedCols(f, e, c, d)
<1>1. r \in ConstraintMap /\ DOMAIN r = DOMAIN map
  BY RenamedConstraints
<1>2. \A i \in DOMAIN map : RenamedCols(map[i], r[i], c, d)
  BY RenamedConstraints
<1>3. Keys(r) = Keys(map) /\ (HasKeys(map) => HasKeys(r))
  BY <1>1, <1>2, SameKeys DEF RenamedCols
<1>4. Range(r) = {r[i] : i \in DOMAIN map} /\ Range(map) = {map[i] : i \in DOMAIN map}
  BY <1>1 DEF Range
<1> QED BY <1>1, <1>2, <1>3, <1>4

(* A rename takes along what refers to the column.                         *)
LEMMA RenameColumnIs ==
  ASSUME NEW t \in TableType, WellMade(t), NEW c \in Keys(t.columns), NEW d \in Columns, c # d
  PROVE  SoundAndIndexed(t, RenameColumn(t, c, d))
<1>1. PICK m, removed : m = Delete(t.columns, c) /\ removed = [t EXCEPT !.columns = m]
  OBVIOUS
<1>2. m \in MapOf(Columns, Types) /\ Len(m) = Len(t.columns) - 1 /\ Len(m) < Len(t.columns)
      /\ Len(t.columns) \in Nat /\ Keys(t.columns) \ {c} \subseteq Keys(m)
  BY <1>1, DeleteColumn
<1>3. removed.columns = m /\ removed.indexes = t.indexes /\ removed.foreignKeys = t.foreignKeys
      /\ removed.uniqueConstraints = t.uniqueConstraints /\ removed.renamed = t.renamed
  BY <1>1 DEF TableType
<1>4. CASE d \in Keys(m)
  <2>1. PICK o : o = Throws(removed)
    OBVIOUS
  <2>2. SoundAndIndexed(t, o)
    BY <1>1, <1>2, <2>1, OtherColumns
  <2>3. RenameColumn(t, c, d) = o
    BY <1>1, <1>3, <1>4, <2>1, Zenon DEF RenameColumn
  <2> QED BY <2>2, <2>3
<1>5. CASE d \notin Keys(m)
  <2>1. PICK e \in Range(t.columns) : e.key = c /\ e.value = Get(t.columns, c)
    BY GetIs
  <2>2. PICK type : type = Get(t.columns, c)
    OBVIOUS
  <2>3. t.columns \in Seq([key : Columns, value : Types])
    BY TableParts DEF MapOf
  <2>4. e \in [key : Columns, value : Types]
    BY <2>1, <2>3, Elements
  <2>5. type \in Types /\ c \in Columns
    BY <2>1, <2>2, <2>4
  <2>6. PICK cols : cols = Put(m, d, type)
    OBVIOUS
  <2>7. cols \in MapOf(Columns, Types) /\ Keys(cols) = Keys(m) \cup {d} /\ Len(cols) = Len(m) + 1
    BY <1>2, <1>5, <2>5, <2>6, PutMap
  <2>8. PICK is, fks, us, ren : /\ is = RenamedInIndexes(t.indexes, c, d)
                                /\ fks = RenamedInConstraints(t.foreignKeys, c, d)
                                /\ us = RenamedInConstraints(t.uniqueConstraints, c, d)
                                /\ ren = TrackRename(t.renamed, c, d)
    OBVIOUS
  <2>9. PICK u : u = [t EXCEPT !.columns = cols, !.indexes = is, !.foreignKeys = fks,
                               !.uniqueConstraints = us, !.renamed = ren]
    OBVIOUS
  <2>10. RenameColumn(t, c, d) = Returns(u)
    <3>1. u = [removed EXCEPT
             !.columns = Put(@, d, Get(t.columns, c)),
             !.indexes = RenamedInIndexes(@, c, d),
             !.foreignKeys = RenamedInConstraints(@, c, d),
             !.uniqueConstraints = RenamedInConstraints(@, c, d),
             !.renamed = TrackRename(@, c, d)]
      BY <1>1, <1>3, <2>2, <2>6, <2>8, <2>9 DEF TableType
    <3>2. RenameColumn(t, c, d) = Returns([removed EXCEPT
             !.columns = Put(@, d, Get(t.columns, c)),
             !.indexes = RenamedInIndexes(@, c, d),
             !.foreignKeys = RenamedInConstraints(@, c, d),
             !.uniqueConstraints = RenamedInConstraints(@, c, d),
             !.renamed = TrackRename(@, c, d)])
      BY <1>1, <1>3, <1>5, Zenon DEF RenameColumn
    <3> QED BY <3>1, <3>2
  <2> HIDE DEF TableType
  <2>11. t.indexes \in MapOf(Name, IndexType) /\ t.foreignKeys \in ConstraintMap
         /\ t.uniqueConstraints \in ConstraintMap /\ t.renamed \in MapOf(Columns, Columns)
         /\ HasKeys(t.foreignKeys) /\ HasKeys(t.uniqueConstraints)
    BY TableParts
  <2>12. /\ is \in MapOf(Name, IndexType) /\ Keys(is) = Keys(t.indexes)
         /\ Once(t.indexes) => Once(is)
         /\ \A x \in Range(is) : \E f \in Range(t.indexes) : RenamedEntry(f, x, c, d)
         /\ \A f \in Range(t.indexes) : \E x \in Range(is) : RenamedEntry(f, x, c, d)
    BY <2>5, <2>8, <2>11, RenamedIndexEntries
  <2>13. /\ fks \in ConstraintMap /\ HasKeys(fks)
         /\ \A x \in Range(fks) : \E f \in Range(t.foreignKeys) : RenamedCols(f, x, c, d)
    BY <2>5, <2>8, <2>11, RenamedConstraintEntries
  <2>14. /\ us \in ConstraintMap /\ HasKeys(us)
         /\ \A x \in Range(us) : \E f \in Range(t.uniqueConstraints) : RenamedCols(f, x, c, d)
    BY <2>5, <2>8, <2>11, RenamedConstraintEntries
  <2>15. ren \in MapOf(Columns, Columns)
    BY <2>5, <2>8, <2>11, TrackRenameIs
  <2>16. /\ u \in TableType /\ u.columns = cols /\ u.indexes = is /\ u.foreignKeys = fks
         /\ u.uniqueConstraints = us /\ u.primaryKeyName = t.primaryKeyName
    BY <2>7, <2>9, <2>12, <2>13, <2>14, <2>15 DEF TableType
  <2>17. WellMade(u)
    <3>1. Once(t.indexes) /\ NoName \notin Keys(t.indexes)
          /\ \A f \in Range(t.indexes) : f.value.primary => f.key = t.primaryKeyName /\ f.value.unique
      BY WellMadeIs
    <3>2. \A x \in Range(is) :
            /\ Distinct(x.value.cols) = x.value.cols
            /\ x.value.primary => x.key = t.primaryKeyName /\ x.value.unique
      BY <3>1, <2>12 DEF RenamedEntry
    <3>3. /\ Once(fks) /\ NoName \notin Keys(fks) /\ Once(us) /\ NoName \notin Keys(us)
      BY <2>13, <2>14, HasKeysIs
    <3> QED BY <3>1, <3>2, <3>3, <2>12, <2>16, WellMadeIs
  <2>18. KeyHeld(t) => KeyHeld(u)
    BY <2>12, <2>16 DEF KeyHeld, RenamedEntry
  <2>19. ASSUME NEW gone, Refers(t, Keys(t.columns) \cup gone)
         PROVE  Refers(u, Keys(u.columns) \cup NowGone(t, u, gone))
    <3>1. NowGone(t, u, gone) = gone
      BY <1>2, <2>7, <2>16 DEF NowGone
    <3>2. PICK cs, ds : cs = Keys(t.columns) \cup gone /\ ds = Keys(u.columns) \cup gone
      OBVIOUS
    <3>3. (cs \ {c}) \cup {d} \subseteq ds
      BY <3>2, <1>2, <2>7, <2>16
    <3>4. /\ \A f \in Range(t.indexes) : Range(f.value.cols) \subseteq cs
          /\ \A f \in Range(t.foreignKeys) : Range(f.value) \subseteq cs
          /\ \A f \in Range(t.uniqueConstraints) : Range(f.value) \subseteq cs
      BY <2>19, <3>2, RefersIs
    <3>5. \A x \in Range(is) : Range(x.value.cols) \subseteq ds
      BY <3>3, <3>4, <2>12 DEF RenamedEntry
    <3>6. \A x \in Range(fks) : Range(x.value) \subseteq ds
      BY <3>3, <3>4, <2>13 DEF RenamedCols
    <3>7. \A x \in Range(us) : Range(x.value) \subseteq ds
      BY <3>3, <3>4, <2>14 DEF RenamedCols
    <3> QED BY <3>1, <3>2, <3>5, <3>6, <3>7, <2>16, RefersIs
  <2>20. IsIndexed(t) => IsIndexed(u)
    <3> SUFFICES ASSUME IsIndexed(t) PROVE IsIndexed(u)
      OBVIOUS
    <3>1. /\ \A f \in Range(t.foreignKeys) :
               \E i \in Range(t.indexes) : i.value.cols = Distinct(f.value)
          /\ \A f \in Range(t.uniqueConstraints) :
               \E i \in Range(t.indexes) : i.value.unique /\ i.value.cols = Distinct(f.value)
      BY IsIndexedIs
    <3>2. ASSUME NEW x \in Range(fks)
          PROVE  \E i \in Range(is) : i.value.cols = Distinct(x.value)
      <4>1. PICK f \in Range(t.foreignKeys) : f.value \in Seq(Columns) /\ x.value = ReplaceAll(f.value, c, d)
        BY <2>13 DEF RenamedCols
      <4>2. PICK i \in Range(t.indexes) : i.value.cols = Distinct(f.value)
        BY <3>1
      <4>3. PICK j \in Range(is) : RenamedEntry(i, j, c, d)
        BY <2>12
      <4>4. Distinct(ReplaceAll(Distinct(f.value), c, d)) = Distinct(ReplaceAll(f.value, c, d))
        BY <4>1, DistinctReplaced
      <4>5. j.value.cols = Distinct(x.value)
        BY <4>1, <4>2, <4>3, <4>4 DEF RenamedEntry
      <4> QED BY <4>5
    <3>3. ASSUME NEW x \in Range(us)
          PROVE  \E i \in Range(is) : i.value.unique /\ i.value.cols = Distinct(x.value)
      <4>1. PICK f \in Range(t.uniqueConstraints) : f.value \in Seq(Columns) /\ x.value = ReplaceAll(f.value, c, d)
        BY <2>14 DEF RenamedCols
      <4>2. PICK i \in Range(t.indexes) : i.value.unique /\ i.value.cols = Distinct(f.value)
        BY <3>1
      <4>3. PICK j \in Range(is) : RenamedEntry(i, j, c, d)
        BY <2>12
      <4>4. Distinct(ReplaceAll(Distinct(f.value), c, d)) = Distinct(ReplaceAll(f.value, c, d))
        BY <4>1, DistinctReplaced
      <4>5. j.value.unique /\ j.value.cols = Distinct(x.value)
        BY <4>1, <4>2, <4>3, <4>4 DEF RenamedEntry
      <4> QED BY <4>5
    <3> QED BY <3>2, <3>3, <2>16, IsIndexedIs
  <2>21. Returns(u) \in Outcome /\ Returns(u).table = u /\ ~ Returns(u).threw
    BY <2>16, OutcomeIs
  <2> QED BY <2>10, <2>16, <2>17, <2>18, <2>19, <2>20, <2>21 DEF Sound, SoundAndIndexed
<1> QED BY <1>4, <1>5

-----------------------------------------------------------------------------
(* The calls of the application. *)

OriginType == [Columns -> Columns \cup {NoColumn}]

HistoryType == [halfDone : BOOLEAN, unindexed : BOOLEAN, gone : SUBSET Columns]

(* TableConsistent of a table and a history, with the primary key as the   *)
(* methods keep it.                                                        *)
Consistent(t, h) ==
  /\ Refers(t, Keys(t.columns) \cup h.gone)
  /\ ~ h.halfDone /\ ~ h.unindexed => IsIndexed(t)
  /\ ~ h.halfDone => KeyHeld(t)

TableInv ==
  /\ table \in TableType /\ WellMade(table)
  /\ origin \in OriginType /\ history \in HistoryType
  /\ Consistent(table, history)

LEMMA InvIsConsistent ==
  ASSUME TableInv
  PROVE  TableConsistent
<1>1. KeyAgrees(table) <=> KeyHeld(table)
  BY KeyAgreesIs DEF TableInv
<1> QED
  BY <1>1 DEF TableInv, Consistent, TableConsistent, ReferencesResolve, ConstraintsIndexed,
              PrimaryKeyAgrees

LEMMA ColumnsAre ==
  ASSUME NEW t \in TableType
  PROVE  Keys(t.columns) \subseteq Columns
<1>1. t.columns \in Seq([key : Columns, value : Types])
  BY DEF TableType, MapOf
<1>2. \A e \in Range(t.columns) : e \in [key : Columns, value : Types]
  BY <1>1, Elements
<1>3. \A e \in Range(t.columns) : e.key \in Columns
  BY <1>2
<1> QED BY <1>3 DEF Keys

(* What is remembered of a call. *)
After(h, t, o, drops) ==
  [ halfDone  |-> h.halfDone \/ (o.threw /\ o.table # t),
    unindexed |-> h.unindexed \/ drops,
    gone      |-> NowGone(t, o.table, h.gone) ]

LEMMA AfterCall ==
  ASSUME NEW t \in TableType, NEW h \in HistoryType, Consistent(t, h),
         NEW o, Sound(t, o), NEW drops \in BOOLEAN, drops \/ SoundAndIndexed(t, o),
         NEW i, i = After(h, t, o, drops)
  PROVE  /\ o.table \in TableType /\ WellMade(o.table)
         /\ i \in HistoryType /\ h.gone \subseteq i.gone
         /\ Consistent(o.table, i)
<1>1. PICK u, threw : u = o.table /\ threw = o.threw
  OBVIOUS
<1>2. u \in TableType /\ threw \in BOOLEAN /\ WellMade(u)
  BY <1>1 DEF Sound, Outcome
<1>3. h.halfDone \in BOOLEAN /\ h.unindexed \in BOOLEAN /\ h.gone \in SUBSET Columns
  BY DEF HistoryType
<1>4. PICK gone : gone = NowGone(t, u, h.gone)
  OBVIOUS
<1>5. gone \in SUBSET Columns /\ h.gone \subseteq gone
  BY <1>3, <1>4, ColumnsAre DEF NowGone
<1>6. i = [halfDone |-> h.halfDone \/ (threw /\ u # t), unindexed |-> h.unindexed \/ drops,
           gone |-> gone]
  BY <1>1, <1>4 DEF After
<1>7. /\ i.gone = gone
      /\ ~ i.halfDone => ~ h.halfDone /\ (~ threw \/ u = t)
      /\ ~ i.unindexed => ~ h.unindexed /\ ~ drops
  BY <1>2, <1>3, <1>6
<1>8. i \in HistoryType
  BY <1>2, <1>3, <1>5, <1>6 DEF HistoryType
<1>9. Refers(u, Keys(u.columns) \cup i.gone)
  BY <1>1, <1>4, <1>7 DEF Consistent, Sound
<1>10. ~ i.halfDone => KeyHeld(u)
  BY <1>1, <1>7 DEF Consistent, Sound
<1>11. ~ i.halfDone /\ ~ i.unindexed => IsIndexed(u)
  BY <1>1, <1>7 DEF Consistent, SoundAndIndexed
<1> QED BY <1>1, <1>2, <1>5, <1>7, <1>8, <1>9, <1>10, <1>11 DEF Consistent

(* The inductive part of a call. *)
TableStep == TableInv' /\ history.gone \subseteq history'.gone

LEMMA CallKeeping ==
  ASSUME TableInv, NEW o, NEW origins \in OriginType, SoundAndIndexed(table, o), Call(o, origins, FALSE)
  PROVE  TableStep
<1>1. PICK no : no = FALSE
  OBVIOUS
<1>2. table' = o.table
  BY DEF Call
<1>3. history' = After(history, table, o, no)
  BY <1>1 DEF Call, After, NowGone
<1>4. no \in BOOLEAN /\ Sound(table, o)
  BY <1>1 DEF SoundAndIndexed
<1>5. /\ o.table \in TableType /\ WellMade(o.table)
      /\ history' \in HistoryType /\ history.gone \subseteq history'.gone
      /\ Consistent(o.table, history')
  BY <1>3, <1>4, AfterCall DEF TableInv
<1>6. origin' \in OriginType
  BY DEF Call, OriginType
<1> QED BY <1>2, <1>6, <1>5 DEF TableInv, TableStep

LEMMA CallDropping ==
  ASSUME TableInv, NEW o, NEW origins \in OriginType, Sound(table, o), Call(o, origins, TRUE)
  PROVE  TableStep
<1>1. PICK yes : yes = TRUE
  OBVIOUS
<1>2. table' = o.table
  BY DEF Call
<1>3. history' = After(history, table, o, yes)
  BY <1>1 DEF Call, After, NowGone
<1>4. /\ o.table \in TableType /\ WellMade(o.table)
      /\ history' \in HistoryType /\ history.gone \subseteq history'.gone
      /\ Consistent(o.table, history')
  BY <1>1, <1>3, AfterCall DEF TableInv
<1>6. origin' \in OriginType
  BY DEF Call, OriginType
<1> QED BY <1>2, <1>6, <1>4 DEF TableInv, TableStep

LEMMA NamesAre == MaybeNamed \subseteq Name
<1>1. <<>> \in Seq(STRING)
  OBVIOUS
<1>2. GivenNames \subseteq Seq(STRING)
  BY TableAssumption
<1> QED BY <1>1, <1>2, Zenon DEF MaybeNamed, Name, NoName

LEMMA ListsAre ==
  ASSUME NEW cols \in Lists
  PROVE  cols \in Seq(Columns) /\ \A gone : Range(cols) \subseteq Keys(table.columns) \cup gone
BY TableAssumption DEF Lists

LEMMA NewIndexIs ==
  ASSUME NEW t \in TableType, WellMade(t), NEW cols \in Seq(Columns), NEW given \in Name,
         \A gone : Range(cols) \subseteq Keys(t.columns) \cup gone
  PROVE  /\ SoundAndIndexed(t, AddIndex(t, cols, given))
         /\ SoundAndIndexed(t, AddUniqueIndex(t, cols, given))
         /\ SoundAndIndexed(t, SetPrimaryKey(t, cols, given))
<1>1. PICK yes, no : yes = TRUE /\ no = FALSE
  OBVIOUS
<1>2. ASSUME NEW unique \in BOOLEAN, NEW o,
             o = IF unique THEN AddUniqueIndex(t, cols, given) ELSE AddIndex(t, cols, given)
      PROVE  SoundAndIndexed(t, o)
  <2>1. \A cs : Range(cols) \subseteq cs => Kept(t, o, cs)
    BY <1>2, AddsIndex
  <2> QED BY <2>1, KeptIsSound
<1>3. SoundAndIndexed(t, AddIndex(t, cols, given))
  BY <1>1, <1>2
<1>4. SoundAndIndexed(t, AddUniqueIndex(t, cols, given))
  BY <1>1, <1>2
<1>5. PICK o : o = SetPrimaryKey(t, cols, given)
  OBVIOUS
<1>6. \A cs : Range(cols) \subseteq cs => Kept(t, o, cs)
  BY <1>5, SetPrimaryKeyIs
<1>7. SoundAndIndexed(t, o)
  BY <1>6, KeptIsSound
<1> QED BY <1>3, <1>4, <1>5, <1>7

LEMMA TableStepKeeps ==
  ASSUME TableInv, TableNext
  PROVE  TableStep
<1>1. table \in TableType /\ WellMade(table)
  BY DEF TableInv
<1>11. origin \in OriginType
  BY DEF TableInv
<1>2. CASE NewColumn
  <2>1. PICK c \in Columns, type \in Types : Call(AddColumn(table, c, type), origin, FALSE)
    BY <1>2, Zenon DEF NewColumn
  <2>2. SoundAndIndexed(table, AddColumn(table, c, type))
    BY <1>1, PutColumn
  <2> QED BY <2>1, <2>2, <1>11, CallKeeping, Zenon
<1>3. CASE ChangedColumn
  <2>1. PICK c \in Keys(table.columns), type \in Types :
          Call(ModifyColumn(table, c, type), origin, FALSE)
    BY <1>3, Zenon DEF ChangedColumn
  <2>2. c \in Columns
    BY <1>1, ColumnsAre
  <2>3. SoundAndIndexed(table, ModifyColumn(table, c, type))
    BY <1>1, <2>2, PutColumn
  <2> QED BY <2>1, <2>3, <1>11, CallKeeping, Zenon
<1>4. CASE DroppedColumn
  <2>1. PICK c \in Keys(table.columns) : Call(DropColumn(table, c), origin, FALSE)
    BY <1>4, Zenon DEF DroppedColumn
  <2>2. SoundAndIndexed(table, DropColumn(table, c))
    BY <1>1, DropColumnIs
  <2> QED BY <2>1, <2>2, <1>11, CallKeeping, Zenon
<1>5. CASE RenamedColumn
  <2>1. PICK c \in Keys(table.columns), d \in Columns :
          /\ c # d
          /\ Call(RenameColumn(table, c, d),
                  IF RenameColumn(table, c, d).threw THEN origin
                  ELSE [origin EXCEPT ![d] = origin[c]], FALSE)
    BY <1>5, Zenon DEF RenamedColumn
  <2>2. SoundAndIndexed(table, RenameColumn(table, c, d))
    BY <1>1, <2>1, RenameColumnIs
  <2>3. c \in Columns
    BY <1>1, ColumnsAre
  <2>4. (IF RenameColumn(table, c, d).threw THEN origin ELSE [origin EXCEPT ![d] = origin[c]])
          \in OriginType
    BY <1>11, <2>3 DEF OriginType
  <2> QED BY <2>1, <2>2, <2>4, <1>11, CallKeeping, Zenon
<1>6. CASE NewIndex
  <2>1. PICK cols \in Lists, given \in MaybeNamed :
          \/ Call(AddIndex(table, cols, given), origin, FALSE)
          \/ Call(AddUniqueIndex(table, cols, given), origin, FALSE)
          \/ Call(SetPrimaryKey(table, cols, given), origin, FALSE)
    BY <1>6, Zenon DEF NewIndex
  <2>2. given \in Name /\ cols \in Seq(Columns)
        /\ \A gone : Range(cols) \subseteq Keys(table.columns) \cup gone
    BY NamesAre, ListsAre
  <2>3. /\ SoundAndIndexed(table, AddIndex(table, cols, given))
        /\ SoundAndIndexed(table, AddUniqueIndex(table, cols, given))
        /\ SoundAndIndexed(table, SetPrimaryKey(table, cols, given))
    BY <1>1, <2>2, NewIndexIs
  <2> QED BY <2>1, <2>3, <1>11, CallKeeping, Zenon
<1>7. CASE DroppedIndex
  <2>1. \/ \E name \in Keys(table.indexes) : Call(DropIndex(table, name), origin, TRUE)
        \/ Call(DropPrimaryKey(table), origin, TRUE)
    BY <1>7, Zenon DEF DroppedIndex
  <2>2. \A name : Sound(table, DropIndex(table, name))
    BY <1>1, DropIndexIs, LeftIsSound
  <2>3. Sound(table, DropPrimaryKey(table))
    BY <1>1, DropPrimaryKeyIs, LeftIsSound
  <2> QED BY <2>1, <2>2, <2>3, <1>11, CallDropping, Zenon
<1>8. CASE RenamedIndex
  <2>1. PICK name \in Keys(table.indexes), given \in MaybeNamed :
          Call(RenameIndex(table, name, given), origin, FALSE)
    BY <1>8, Zenon DEF RenamedIndex
  <2>2. given \in Name
    BY NamesAre
  <2>3. \A cs : Kept(table, RenameIndex(table, name, given), cs)
    BY <1>1, <2>2, RenameIndexIs
  <2>4. SoundAndIndexed(table, RenameIndex(table, name, given))
    BY <1>1, <2>3, KeptIsSound
  <2> QED BY <2>1, <2>4, <1>11, CallKeeping, Zenon
<1>9. CASE NewConstraint
  <2>1. PICK cols \in Lists, given \in MaybeNamed :
          \/ Call(AddForeignKeyConstraint(table, cols, given), origin, FALSE)
          \/ Call(AddUniqueConstraint(table, cols, given), origin, FALSE)
    BY <1>9, Zenon DEF NewConstraint
  <2>2. given \in Name /\ cols \in Seq(Columns)
        /\ \A gone : Range(cols) \subseteq Keys(table.columns) \cup gone
    BY NamesAre, ListsAre
  <2>3. \A gone : Kept(table, AddForeignKeyConstraint(table, cols, given), Keys(table.columns) \cup gone)
    BY <1>1, <2>2, AddForeignKeyIs
  <2>4. \A gone : Kept(table, AddUniqueConstraint(table, cols, given), Keys(table.columns) \cup gone)
    BY <1>1, <2>2, AddUniqueConstraintIs
  <2>5. /\ SoundAndIndexed(table, AddForeignKeyConstraint(table, cols, given))
        /\ SoundAndIndexed(table, AddUniqueConstraint(table, cols, given))
    BY <1>1, <2>3, <2>4, KeptIsSound
  <2> QED BY <2>1, <2>5, <1>11, CallKeeping, Zenon
<1>10. CASE DroppedConstraint
  <2>1. \/ \E name : Call(RemoveForeignKey(table, name), origin, FALSE)
        \/ \E name : Call(DropUniqueConstraint(table, name), origin, FALSE)
    BY <1>10, Zenon DEF DroppedConstraint
  <2>2. \A name : SoundAndIndexed(table, RemoveForeignKey(table, name))
    BY <1>1, RemoveForeignKeyIs, KeptIsSound
  <2>3. \A name : SoundAndIndexed(table, DropUniqueConstraint(table, name))
    BY <1>1, DropUniqueConstraintIs, KeptIsSound
  <2> QED BY <2>1, <2>2, <2>3, <1>11, CallKeeping, Zenon
<1> QED BY <1>2, <1>3, <1>4, <1>5, <1>6, <1>7, <1>8, <1>9, <1>10, Zenon DEF TableNext

-----------------------------------------------------------------------------
(* What edit() takes apart and create() puts together. *)

(* Ordinary() looks at the indexes one by one. *)
NotPrimary(kept, e) == IF e.value.primary THEN kept ELSE Append(kept, e)

LEMMA OrdinaryOneByOne ==
  ASSUME NEW S, NEW s \in Seq(S)
  PROVE  \E f : /\ f[0] = <<>> /\ f[Len(s)] = Ordinary(s)
                /\ \A k \in 1 .. Len(s) : f[k] = NotPrimary(f[k - 1], s[k])
<1>1. PICK n : n = Len(s) /\ n \in Nat /\ DOMAIN s = 1 .. n
  OBVIOUS
<1> DEFINE Step(g, T) == IF T = {} THEN <<>> ELSE NotPrimary(g[T \ {Max(T)}], s[Max(T)])
           Op(g) == g = [T \in SUBSET (1 .. n) |-> Step(g, T)]
           iter == CHOOSE g : Op(g)
<1>2. \E g : Op(g)
  <2>1. PICK G : G = [a \in Seq(S) |-> [k \in 1 .. n |-> NotPrimary(a, s[k])]]
    OBVIOUS
  <2>2. \A a \in Seq(S), k \in 1 .. n : NotPrimary(a, s[k]) \in Seq(S)
    BY <1>1 DEF NotPrimary
  <2>3. G \in [Seq(S) -> [1 .. n -> Seq(S)]] /\ <<>> \in Seq(S)
    BY <2>1, <2>2
  <2>4. PICK g : g \in [SUBSET (1 .. n) -> Seq(S)] /\ Folds(g, n, <<>>, G)
    BY <1>1, <2>3, FoldExists
  <2>5. ASSUME NEW T \in SUBSET (1 .. n), T # {}
        PROVE  G[g[T \ {Max(T)}]][Max(T)] = NotPrimary(g[T \ {Max(T)}], s[Max(T)])
    <3>1. Max(T) \in 1 .. n
      BY <1>1, <2>5, MaxIn
    <3>2. g[T \ {Max(T)}] \in Seq(S)
      BY <2>4
    <3> QED BY <3>1, <3>2, <2>1
  <2>6. Op(g)
    BY <2>4, <2>5, Zenon DEF Folds
  <2> QED BY <2>6
<1>3. Op(iter)
  BY <1>2, Zenon
<1>4. Ordinary(s) = iter[1 .. n]
  BY <1>1, Zenon DEF Ordinary, FoldLeft, MapThenFoldSet, NotPrimary
<1> HIDE DEF iter
<1>5. PICK f : f = [k \in 0 .. n |-> iter[1 .. k]]
  OBVIOUS
<1>6. f[0] = <<>>
  <2>1. 1 .. 0 = {} /\ {} \in SUBSET (1 .. n)
    OBVIOUS
  <2>2. iter[{}] = Step(iter, {})
    BY <1>3, <2>1, Zenon
  <2> QED BY <2>1, <2>2, <1>1, <1>5
<1>7. ASSUME NEW k \in 1 .. n PROVE f[k] = NotPrimary(f[k - 1], s[k])
  <2>1. k \in Nat /\ k \in 1 .. k /\ 1 .. k \in SUBSET (1 .. n) /\ 1 .. k # {}
    <3>1. k \in Nat /\ k \in 1 .. k
      OBVIOUS
    <3>2. \A x \in 1 .. k : x \in 1 .. n
      BY <1>1
    <3> QED BY <3>1, <3>2
  <2>2. Max(1 .. k) = k
    BY <2>1, MaxIs
  <2>3. (1 .. k) \ {k} = 1 .. k - 1
    BY <2>1
  <2>4. iter[1 .. k] = Step(iter, 1 .. k)
    BY <1>3, <2>1, Zenon
  <2>5. iter[1 .. k] = NotPrimary(iter[1 .. k - 1], s[k])
    BY <2>1, <2>2, <2>3, <2>4, Zenon
  <2> QED BY <2>5, <1>1, <1>5
<1>8. f[n] = Ordinary(s)
  <2>1. n \in 0 .. n
    BY <1>1
  <2>2. f[n] = iter[1 .. n]
    BY <1>5, <2>1
  <2> QED BY <2>2, <1>4
<1> QED BY <1>1, <1>6, <1>7, <1>8, Zenon

(* It keeps the indexes that are not primary. *)
LEMMA OrdinaryIs ==
  ASSUME NEW S, NEW s \in Seq(S)
  PROVE  /\ Ordinary(s) \in Seq(S)
         /\ Range(Ordinary(s)) = {e \in Range(s) : ~ e.value.primary}
         /\ Once(s) => Once(Ordinary(s))
<1>1. PICK f : /\ f[0] = <<>> /\ f[Len(s)] = Ordinary(s)
               /\ \A k \in 1 .. Len(s) : f[k] = NotPrimary(f[k - 1], s[k])
  BY OrdinaryOneByOne
<1>2. PICK n : n = Len(s) /\ n \in Nat /\ DOMAIN s = 1 .. n
  OBVIOUS
<1> DEFINE Of(k) == {e \in {s[i] : i \in 1 .. k} : ~ e.value.primary}
           Is(a, k) == a \in Seq(S) /\ Range(a) = Of(k) /\ (Once(s) => Once(a))
           T == {k \in 0 .. n : Is(f[k], k)}
<1>3. 0 \in T
  <2>1. f[0] \in Seq(S) /\ Range(f[0]) = {} /\ Once(f[0])
    BY <1>1 DEF Range, Once
  <2>2. Of(0) = {}
    <3>1. 1 .. 0 = {}
      OBVIOUS
    <3> QED BY <3>1
  <2>3. 0 \in 0 .. n
    BY <1>2
  <2> QED BY <2>1, <2>2, <2>3, Zenon
<1>4. ASSUME NEW k \in 1 .. n, k - 1 \in T PROVE k \in T
  <2>1. PICK a : a = f[k - 1] /\ a \in Seq(S) /\ Range(a) = Of(k - 1) /\ (Once(s) => Once(a))
    BY <1>4, Zenon
  <2>2. PICK x : x = s[k] /\ x \in S
    BY <1>2
  <2>3. {s[i] : i \in 1 .. k} = {s[i] : i \in 1 .. k - 1} \cup {x}
    <3>1. \A i \in 1 .. k : i = k \/ i \in 1 .. k - 1
      OBVIOUS
    <3>2. k \in 1 .. k /\ \A i \in 1 .. k - 1 : i \in 1 .. k
      OBVIOUS
    <3> QED BY <3>1, <3>2, <2>2
  <2>4. f[k] = NotPrimary(a, x)
    BY <1>1, <1>2, <2>1, <2>2
  <2>5. k \in 0 .. n
    OBVIOUS
  <2>6. CASE x.value.primary
    <3>1. f[k] = a
      BY <2>4, <2>6 DEF NotPrimary
    <3>2. Of(k) = Of(k - 1)
      BY <2>3, <2>6
    <3>3. Is(f[k], k)
      BY <3>1, <3>2, <2>1, Zenon
    <3> QED BY <3>3, <2>5, Zenon
  <2>7. CASE ~ x.value.primary
    <3>1. f[k] = Append(a, x)
      BY <2>4, <2>7 DEF NotPrimary
    <3>2. PICK b : b = Append(a, x)
      OBVIOUS
    <3>3. b \in Seq(S) /\ Range(b) = Range(a) \cup {x}
      BY <3>2, <2>1, <2>2, AppendRange
    <3>4. Of(k) = Of(k - 1) \cup {x}
      BY <2>3, <2>7
    <3>5. Range(b) = Of(k)
      BY <3>3, <3>4, <2>1, Zenon
    <3>6. ASSUME Once(s) PROVE Once(b)
      <4>1. \A i \in 1 .. k - 1 : s[i].key # x.key
        BY <1>2, <2>2, <3>6 DEF Once
      <4>2. \A e \in Range(a) : e.key # x.key
        BY <2>1, <4>1
      <4>3. \A i \in 1 .. Len(a) : a[i].key # x.key
        <5>1. \A i \in 1 .. Len(a) : a[i] \in Range(a)
          BY <2>1, Elements
        <5> QED BY <5>1, <4>2
      <4>4. \A i, j \in 1 .. Len(a) : a[i].key = a[j].key => i = j
        BY <2>1, <3>6 DEF Once
      <4>5. /\ Len(a) \in Nat /\ Len(b) = Len(a) + 1 /\ b[Len(a) + 1] = x
            /\ \A i \in 1 .. Len(a) : b[i] = a[i]
        BY <2>1, <2>2, <3>2, Appended
      <4>6. \A i \in 1 .. Len(b) : i = Len(a) + 1 \/ i \in 1 .. Len(a)
        BY <4>5
      <4>7. DOMAIN b = 1 .. Len(b)
        BY <3>3
      <4>8. \A i, j \in 1 .. Len(b) : b[i].key = b[j].key => i = j
        BY <4>3, <4>4, <4>5, <4>6
      <4> QED BY <4>7, <4>8 DEF Once
    <3>7. Is(f[k], k)
      BY <3>1, <3>2, <3>3, <3>5, <3>6, Zenon
    <3> QED BY <3>7, <2>5, Zenon
  <2> QED BY <2>6, <2>7
<1> HIDE DEF T
<1>5. \A k \in 0 .. n : k \in T
  BY <1>2, <1>3, <1>4, UpTo
<1> USE DEF T
<1>6. n \in 0 .. n
  BY <1>2
<1>7. Is(f[n], n)
  BY <1>5, <1>6, Zenon
<1>8. {s[i] : i \in 1 .. n} = Range(s)
  BY <1>2 DEF Range
<1>9. f[n] = Ordinary(s)
  BY <1>1, <1>2
<1> QED BY <1>7, <1>8, <1>9, Zenon

(* The parts that create() adds. *)
LEMMA PartsAre ==
  ASSUME NEW S, NEW map \in Seq(S), NEW kind, NEW p, p = Parts(kind, map)
  PROVE  /\ p \in Seq(Range(p)) /\ Len(p) = Len(map) /\ Len(map) \in Nat
         /\ \A i \in 1 .. Len(map) : /\ map[i] \in Range(map)
                                     /\ p[i].kind = kind
                                     /\ p[i].name = map[i].key /\ p[i].value = map[i].value
<1>1. DOMAIN map = 1 .. Len(map) /\ Len(map) \in Nat /\ \A i \in 1 .. Len(map) : map[i] \in Range(map)
  BY Elements
<1>2. p = [i \in 1 .. Len(map) |-> [kind |-> kind, name |-> map[i].key, value |-> map[i].value]]
  BY <1>1 DEF Parts
<1>3. \A i \in 1 .. Len(map) : p[i] \in Range(p)
  BY <1>2 DEF Range
<1>4. p \in Seq(Range(p)) /\ Len(p) = Len(map)
  BY <1>1, <1>2, <1>3
<1> QED BY <1>1, <1>2, <1>4

(* What an editor holds, over columns that are among cs. *)
EditorHolds(e, cs) ==
  /\ e.columns \in MapOf(Columns, Types) /\ e.indexes \in MapOf(Name, IndexType)
  /\ e.primaryKey \in ConstraintMap /\ e.foreignKeys \in ConstraintMap
  /\ e.uniqueConstraints \in ConstraintMap
  /\ \A x \in Range(e.indexes) : /\ Distinct(x.value.cols) = x.value.cols
                                 /\ ~ x.value.primary
                                 /\ x.key # NoName
                                 /\ Range(x.value.cols) \subseteq cs
  /\ \A map \in {e.primaryKey, e.foreignKeys, e.uniqueConstraints} :
       \A x \in Range(map) : Range(x.value) \subseteq cs

JoinIs(s, p, q, m, n) ==
  /\ Len(s) = n
  /\ \A i \in 1 .. n : s[i] = IF i <= m THEN p[i] ELSE q[i - m]

LEMMA Joined ==
  ASSUME NEW U, NEW p \in Seq(U), NEW q \in Seq(U), NEW m \in Nat, Len(p) = m,
         NEW n \in Nat, m + Len(q) = n, NEW s, s = p \o q
  PROVE  s \in Seq(U) /\ JoinIs(s, p, q, m, n)
<1>1. s \in Seq(U)
  BY ConcatProperties
<1>2. Len(s) = Len(p) + Len(q)
  BY ConcatProperties
<1>3. \A i \in 1 .. Len(p) + Len(q) : s[i] = IF i <= Len(p) THEN p[i] ELSE q[i - Len(p)]
  BY ConcatProperties
<1>4. Len(p) + Len(q) = n
  OBVIOUS
<1> QED BY <1>1, <1>2, <1>3, <1>4, Zenon DEF JoinIs

(* A part of some kind that was an entry of a map. *)
IsPart(p, kind, x) == p.kind = kind /\ p.name = x.key /\ p.value = x.value

(* The parts in their places: the kinds of them end at a, b, c and d.      *)
PartsLaid(e, s, a, b, c, d) ==
  /\ Len(e.indexes) = a /\ a + Len(e.foreignKeys) = b
  /\ b + Len(e.primaryKey) = c /\ c + Len(e.uniqueConstraints) = d
  /\ DOMAIN s = 1 .. d /\ Len(s) = d
  /\ a <= b /\ b <= c /\ c <= d
  /\ \A i \in 1 .. a : IsPart(s[i], "index", e.indexes[i])
  /\ \A i \in a + 1 .. b : IsPart(s[i], "foreignKey", e.foreignKeys[i - a])
  /\ \A i \in b + 1 .. c : IsPart(s[i], "primaryKey", e.primaryKey[i - b])
  /\ \A i \in c + 1 .. d : IsPart(s[i], "unique", e.uniqueConstraints[i - c])

LEMMA PartsOfAre ==
  ASSUME NEW e, NEW A, NEW B, NEW C, NEW D,
         e.indexes \in Seq(A), e.foreignKeys \in Seq(B), e.primaryKey \in Seq(C),
         e.uniqueConstraints \in Seq(D), NEW s, s = PartsOf(e),
         NEW a \in Nat, Len(e.indexes) = a, NEW b \in Nat, a + Len(e.foreignKeys) = b,
         NEW c \in Nat, b + Len(e.primaryKey) = c, NEW d \in Nat, c + Len(e.uniqueConstraints) = d
  PROVE  PartsLaid(e, s, a, b, c, d)
<1>1. PICK p, q, r, t : /\ p = Parts("index", e.indexes) /\ q = Parts("foreignKey", e.foreignKeys)
                        /\ r = Parts("primaryKey", e.primaryKey)
                        /\ t = Parts("unique", e.uniqueConstraints)
  OBVIOUS
<1>2. PICK U : U = Range(p) \cup Range(q) \cup Range(r) \cup Range(t)
  OBVIOUS
<1>3. /\ p \in Seq(Range(p)) /\ Len(p) = a /\ a \in Nat
      /\ \A i \in 1 .. a : IsPart(p[i], "index", e.indexes[i])
  BY SMTT(30), <1>1, PartsAre DEF IsPart
<1>4. /\ q \in Seq(Range(q)) /\ Len(q) = Len(e.foreignKeys) /\ Len(q) \in Nat
      /\ \A i \in 1 .. Len(q) : IsPart(q[i], "foreignKey", e.foreignKeys[i])
  BY SMTT(30), <1>1, PartsAre DEF IsPart
<1>5. /\ r \in Seq(Range(r)) /\ Len(r) = Len(e.primaryKey) /\ Len(r) \in Nat
      /\ \A i \in 1 .. Len(r) : IsPart(r[i], "primaryKey", e.primaryKey[i])
  BY SMTT(30), <1>1, PartsAre DEF IsPart
<1>6. /\ t \in Seq(Range(t)) /\ Len(t) = Len(e.uniqueConstraints) /\ Len(t) \in Nat
      /\ \A i \in 1 .. Len(t) : IsPart(t[i], "unique", e.uniqueConstraints[i])
  BY <1>1, PartsAre DEF IsPart
<1>24. a \in Nat /\ b \in Nat /\ c \in Nat /\ d \in Nat /\ 0 <= a /\ a <= b /\ b <= c /\ c <= d
       /\ a + Len(q) = b /\ b + Len(r) = c /\ c + Len(t) = d
  <2>1. a + Len(q) = b /\ Len(q) \in Nat
    BY <1>4
  <2>2. b + Len(r) = c /\ Len(r) \in Nat
    BY <1>5
  <2>3. c + Len(t) = d /\ Len(t) \in Nat
    BY <1>6
  <2>4. PICK x \in Nat, y \in Nat, z \in Nat : x = Len(q) /\ y = Len(r) /\ z = Len(t)
    BY <2>1, <2>2, <2>3
  <2>5. a + x = b /\ b + y = c /\ c + z = d
    BY <2>1, <2>2, <2>3, <2>4
  <2>6. a <= b /\ b <= c /\ c <= d
    BY <2>5
  <2> QED BY <2>1, <2>2, <2>3, <2>6
<1>7. p \in Seq(U) /\ q \in Seq(U) /\ r \in Seq(U) /\ t \in Seq(U)
  BY <1>2, <1>3, <1>4, <1>5, <1>6
<1>8. PICK pq : pq = p \o q
  OBVIOUS
<1>9. pq \in Seq(U) /\ JoinIs(pq, p, q, a, b)
  <2>1. Len(p) = a
    BY <1>3
  <2> QED BY <2>1, <1>24, <1>7, <1>8, Joined
<1>10. PICK pqr : pqr = pq \o r
  OBVIOUS
<1>11. pqr \in Seq(U) /\ JoinIs(pqr, pq, r, b, c)
  BY SMTT(30), <1>24, <1>7, <1>9, <1>10, Joined DEF JoinIs
<1>12. s = pqr \o t
  BY <1>1, <1>8, <1>10 DEF PartsOf
<1>13. s \in Seq(U) /\ JoinIs(s, pqr, t, c, d)
  <2>1. PICK w : w = pqr \o t
    OBVIOUS
  <2>2. w \in Seq(U) /\ JoinIs(w, pqr, t, c, d)
    <3>1. Len(pqr) = c /\ pqr \in Seq(U) /\ t \in Seq(U) /\ c + Len(t) = d
      BY <1>24, <1>7, <1>11 DEF JoinIs
    <3> QED BY <3>1, <2>1, Joined, Zenon
  <2> QED BY <2>1, <2>2, <1>12, Zenon
<1>15. Len(s) = d /\ DOMAIN s = 1 .. d
  BY <1>13 DEF JoinIs
<1>16. ASSUME NEW i \in 1 .. a PROVE s[i] = p[i]
  <2>1. i \in 1 .. b /\ i \in 1 .. c /\ i \in 1 .. d /\ i <= a /\ i <= b /\ i <= c
    BY <1>24
  <2> QED BY <2>1, <1>9, <1>11, <1>13 DEF JoinIs
<1>17. ASSUME NEW i \in a + 1 .. b PROVE s[i] = q[i - a] /\ i - a \in 1 .. Len(q)
  <2>1. i \in 1 .. b /\ i \in 1 .. c /\ i \in 1 .. d /\ ~ i <= a /\ i <= b /\ i <= c
        /\ i - a \in 1 .. Len(q)
    BY <1>24
  <2> QED BY <2>1, <1>9, <1>11, <1>13 DEF JoinIs
<1>18. ASSUME NEW i \in b + 1 .. c PROVE s[i] = r[i - b] /\ i - b \in 1 .. Len(r)
  <2>1. i \in 1 .. c /\ i \in 1 .. d /\ ~ i <= b /\ i <= c /\ i - b \in 1 .. Len(r)
    BY <1>24
  <2> QED BY <2>1, <1>11, <1>13 DEF JoinIs
<1>19. ASSUME NEW i \in c + 1 .. d PROVE s[i] = t[i - c] /\ i - c \in 1 .. Len(t)
  <2>1. i \in 1 .. d /\ ~ i <= c /\ i - c \in 1 .. Len(t)
    BY <1>24
  <2> QED BY <2>1, <1>13 DEF JoinIs
<1>20. \A i \in 1 .. a : IsPart(s[i], "index", e.indexes[i])
  BY <1>3, <1>16
<1>21. \A i \in a + 1 .. b : IsPart(s[i], "foreignKey", e.foreignKeys[i - a])
  BY <1>4, <1>17
<1>22. \A i \in b + 1 .. c : IsPart(s[i], "primaryKey", e.primaryKey[i - b])
  BY <1>5, <1>18
<1>23. \A i \in c + 1 .. d : IsPart(s[i], "unique", e.uniqueConstraints[i - c])
  BY <1>6, <1>19
<1> QED BY <1>24, <1>15, <1>20, <1>21, <1>22, <1>23 DEF PartsLaid

LEMMA PartsAreLaid ==
  ASSUME NEW e, NEW A, NEW B, NEW C, NEW D,
         e.indexes \in Seq(A), e.foreignKeys \in Seq(B), e.primaryKey \in Seq(C),
         e.uniqueConstraints \in Seq(D), NEW s, s = PartsOf(e)
  PROVE  \E a, b, c, d \in Nat : PartsLaid(e, s, a, b, c, d)
<1>1. /\ Len(e.indexes) \in Nat /\ Len(e.foreignKeys) \in Nat /\ Len(e.primaryKey) \in Nat
      /\ Len(e.uniqueConstraints) \in Nat
  OBVIOUS
<1>2. PICK a \in Nat : Len(e.indexes) = a
  BY <1>1
<1>3. PICK b \in Nat : a + Len(e.foreignKeys) = b
  BY <1>1
<1>4. PICK c \in Nat : b + Len(e.primaryKey) = c
  BY <1>1
<1>5. PICK d \in Nat : c + Len(e.uniqueConstraints) = d
  BY <1>1
<1>6. PartsLaid(e, s, a, b, c, d)
  BY <1>2, <1>3, <1>4, <1>5, PartsOfAre
<1> QED BY <1>6

LEMMA AddPartIs ==
  ASSUME NEW t, NEW p
  PROVE  /\ p.kind = "index" => AddPart(t, p) = AddIndexObject(t, p.name, p.value)
         /\ p.kind = "foreignKey" => AddPart(t, p) = AddForeignKeyConstraint(t, p.value, p.name)
         /\ p.kind = "primaryKey" => AddPart(t, p) = SetPrimaryKey(t, p.value, p.name)
         /\ p.kind = "unique" => AddPart(t, p) = AddUniqueConstraint(t, p.value, p.name)
BY DEF AddPart

(* What a part of an editor is that create() can add. *)
Addable(p, cs) ==
  \/ /\ p.kind = "index" /\ p.name \in Names /\ p.value \in IndexType
     /\ Distinct(p.value.cols) = p.value.cols /\ ~ p.value.primary
     /\ Range(p.value.cols) \subseteq cs
  \/ /\ p.kind \in {"foreignKey", "primaryKey", "unique"} /\ p.name \in Name
     /\ p.value \in Seq(Columns) /\ Range(p.value) \subseteq cs

(* A table that create() has made so far, unless it threw.                 *)
Making(columns, cs) ==
  {o \in Outcome : ~ o.threw => /\ WellMade(o.table) /\ o.table.columns = columns
                                /\ Refers(o.table, cs) /\ IsIndexed(o.table) /\ KeyHeld(o.table)}

LEMMA KeptIsMaking ==
  ASSUME NEW cs, NEW columns, NEW t, t \in TableType, Refers(t, cs), IsIndexed(t), KeyHeld(t),
         t.columns = columns, NEW o, Kept(t, o, cs)
  PROVE  o \in Making(columns, cs)
BY DEF Making, Kept, Left

Added(o, p) == IF o.threw THEN o ELSE AddPart(o.table, p)

LEMMA AddedIs ==
  ASSUME NEW columns, NEW cs, NEW o \in Making(columns, cs), NEW p, Addable(p, cs)
  PROVE  Added(o, p) \in Making(columns, cs)
<1>1. CASE o.threw
  BY <1>1 DEF Added
<1>2. CASE ~ o.threw
  <2>1. PICK t : t = o.table
    OBVIOUS
  <2>2. t \in TableType
    BY <2>1 DEF Making, Outcome
  <2>3. /\ WellMade(t) /\ t.columns = columns /\ Refers(t, cs) /\ IsIndexed(t) /\ KeyHeld(t)
    BY <1>2, <2>1 DEF Making
  <2>4. Added(o, p) = AddPart(t, p)
    BY <1>2, <2>1 DEF Added
  <2>5. CASE p.kind = "index"
    <3>1. /\ p.name \in Names /\ p.value \in IndexType
          /\ Distinct(p.value.cols) = p.value.cols /\ ~ p.value.primary
          /\ Range(p.value.cols) \subseteq cs
      BY <2>5 DEF Addable
    <3>2. PICK name, index : name = p.name /\ index = p.value
      OBVIOUS
    <3>3. PICK u : u = AddIndexObject(t, name, index)
      OBVIOUS
    <3>4. /\ u \in Outcome
          /\ u.threw => u.table = t
          /\ ~ u.threw => Grown(t, u.table, Entry(name, index))
      BY <2>2, <2>3, <3>1, <3>2, <3>3, AddIndexObjectIs
    <3>5. AddPart(t, p) = u
      BY <2>5, <3>2, <3>3, AddPartIs
    <3>6. CASE u.threw
      BY <2>4, <3>4, <3>5, <3>6 DEF Making
    <3>7. CASE ~ u.threw
      <4>1. PICK e : e = Entry(name, index) /\ e.value = index /\ e.key = name
        BY ZenonT(60), EntryType DEF Entry
      <4>2. Grown(t, u.table, e)
        BY <3>4, <3>7, <4>1
      <4>3. /\ \A x : Refers(t, x) /\ Range(e.value.cols) \subseteq x => Refers(u.table, x)
            /\ KeyHeld(t) => KeyHeld(u.table)
            /\ IsIndexed(t) => IsIndexed(u.table)
        BY <4>2, GrownKeeps
      <4>4. WellMade(u.table) /\ u.table.columns = columns
        BY <4>2, <2>3 DEF Grown
      <4>5. Refers(u.table, cs) /\ KeyHeld(u.table) /\ IsIndexed(u.table)
        BY <2>3, <3>1, <3>2, <4>1, <4>3
      <4> QED BY <2>4, <3>4, <3>5, <4>4, <4>5 DEF Making
    <3> QED BY <3>6, <3>7
  <2>6. CASE p.kind \in {"foreignKey", "primaryKey", "unique"}
    <3>1. p.name \in Name /\ p.value \in Seq(Columns) /\ Range(p.value) \subseteq cs
      BY <2>6 DEF Addable
    <3>2. PICK u : u = AddPart(t, p)
      OBVIOUS
    <3>3. Kept(t, u, cs)
      <4>1. CASE p.kind = "foreignKey"
        <5>1. u = AddForeignKeyConstraint(t, p.value, p.name)
          BY <3>2, <4>1, AddPartIs
        <5> QED BY <5>1, <2>2, <2>3, <3>1, AddForeignKeyIs
      <4>2. CASE p.kind = "primaryKey"
        <5>1. u = SetPrimaryKey(t, p.value, p.name)
          BY <3>2, <4>2, AddPartIs
        <5>2. \A x : Range(p.value) \subseteq x => Kept(t, u, x)
          BY <5>1, <2>2, <2>3, <3>1, SetPrimaryKeyIs
        <5> QED BY <5>2, <3>1
      <4>3. CASE p.kind = "unique"
        <5>1. u = AddUniqueConstraint(t, p.value, p.name)
          BY <3>2, <4>3, AddPartIs
        <5> QED BY <5>1, <2>2, <2>3, <3>1, AddUniqueConstraintIs
      <4> QED BY <2>6, <4>1, <4>2, <4>3
    <3>4. u \in Making(columns, cs)
      BY <2>2, <2>3, <3>3, KeptIsMaking
    <3> QED BY <2>4, <3>2, <3>4
  <2> QED BY <2>5, <2>6 DEF Addable
<1> QED BY <1>1, <1>2

LEMMA PartsAddable ==
  ASSUME NEW e, NEW cs, EditorHolds(e, cs), NEW s, s = PartsOf(e)
  PROVE  \A i \in 1 .. Len(s) : Addable(s[i], cs)
<1>1. PICK A, B : A = [key : Name, value : IndexType] /\ B = [key : Name, value : Seq(Columns)]
  OBVIOUS
<1>2. /\ e.indexes \in Seq(A) /\ e.foreignKeys \in Seq(B) /\ e.primaryKey \in Seq(B)
      /\ e.uniqueConstraints \in Seq(B)
  BY <1>1 DEF EditorHolds, ConstraintMap, MapOf
<1>3. /\ Len(e.indexes) \in Nat /\ Len(e.foreignKeys) \in Nat /\ Len(e.primaryKey) \in Nat
      /\ Len(e.uniqueConstraints) \in Nat
  BY <1>2
<1>4. PICK a \in Nat, b \in Nat, c \in Nat, d \in Nat : PartsLaid(e, s, a, b, c, d)
  BY <1>2, PartsAreLaid
<1>5. a + Len(e.foreignKeys) = b
  BY <1>4 DEF PartsLaid
<1>6. b + Len(e.primaryKey) = c
  BY <1>4 DEF PartsLaid
<1>7. c + Len(e.uniqueConstraints) = d
  BY <1>4 DEF PartsLaid
<1>8. /\ Len(s) = d /\ a <= b /\ b <= c /\ c <= d
      /\ \A i \in 1 .. a : IsPart(s[i], "index", e.indexes[i])
      /\ \A i \in a + 1 .. b : IsPart(s[i], "foreignKey", e.foreignKeys[i - a])
      /\ \A i \in b + 1 .. c : IsPart(s[i], "primaryKey", e.primaryKey[i - b])
      /\ \A i \in c + 1 .. d : IsPart(s[i], "unique", e.uniqueConstraints[i - c])
  BY <1>4 DEF PartsLaid
<1>9. ASSUME NEW x \in Range(e.indexes), NEW p, IsPart(p, "index", x)
      PROVE  Addable(p, cs)
  <2>1. x \in A
    BY <1>2, Elements
  <2>2. x.key \in Names /\ x.value \in IndexType
    BY <1>1, <2>1 DEF EditorHolds, Names
  <2> QED BY <1>9, <2>2 DEF EditorHolds, IsPart, Addable
<1>10. ASSUME NEW map \in {e.primaryKey, e.foreignKeys, e.uniqueConstraints}, NEW x \in Range(map),
              NEW kind \in {"foreignKey", "primaryKey", "unique"}, NEW p, IsPart(p, kind, x)
       PROVE  Addable(p, cs)
  <2>1. map \in Seq(B)
    BY <1>2
  <2>2. x \in B
    BY <2>1, Elements
  <2>3. x.key \in Name /\ x.value \in Seq(Columns)
    BY <1>1, <2>2
  <2>4. Range(x.value) \subseteq cs
    BY DEF EditorHolds
  <2> QED BY <1>10, <2>3, <2>4 DEF IsPart, Addable
<1>11. /\ \A i \in 1 .. Len(e.indexes) : e.indexes[i] \in Range(e.indexes)
       /\ \A i \in 1 .. Len(e.foreignKeys) : e.foreignKeys[i] \in Range(e.foreignKeys)
       /\ \A i \in 1 .. Len(e.primaryKey) : e.primaryKey[i] \in Range(e.primaryKey)
       /\ \A i \in 1 .. Len(e.uniqueConstraints) : e.uniqueConstraints[i] \in Range(e.uniqueConstraints)
  BY <1>2, Elements
<1>12. ASSUME NEW i \in 1 .. a PROVE Addable(s[i], cs)
  <2>1. i \in 1 .. Len(e.indexes)
    BY <1>4 DEF PartsLaid
  <2> QED BY <2>1, <1>8, <1>9, <1>11
<1>13. ASSUME NEW i \in a + 1 .. b PROVE Addable(s[i], cs)
  <2>1. i - a \in 1 .. Len(e.foreignKeys)
    BY <1>3, <1>5
  <2>2. e.foreignKeys[i - a] \in Range(e.foreignKeys)
    BY <2>1, <1>11
  <2> QED BY <2>2, <1>8, <1>10
<1>14. ASSUME NEW i \in b + 1 .. c PROVE Addable(s[i], cs)
  <2>1. i - b \in 1 .. Len(e.primaryKey)
    BY <1>3, <1>6
  <2>2. e.primaryKey[i - b] \in Range(e.primaryKey)
    BY <2>1, <1>11
  <2> QED BY <2>2, <1>8, <1>10
<1>15. ASSUME NEW i \in c + 1 .. d PROVE Addable(s[i], cs)
  <2>1. i - c \in 1 .. Len(e.uniqueConstraints)
    BY <1>3, <1>7
  <2>2. e.uniqueConstraints[i - c] \in Range(e.uniqueConstraints)
    BY <2>1, <1>11
  <2> QED BY <2>2, <1>8, <1>10
<1>16. \A i \in 1 .. d : \/ i \in 1 .. a \/ i \in a + 1 .. b \/ i \in b + 1 .. c \/ i \in c + 1 .. d
  BY <1>8
<1> QED BY <1>8, <1>12, <1>13, <1>14, <1>15, <1>16

LEMMA BareIs ==
  ASSUME NEW columns \in MapOf(Columns, Types), NEW cs
  PROVE  /\ Returns(Bare(columns)) \in Making(columns, cs)
         /\ Throws(Bare(columns)) \in Making(columns, cs)
<1>1. PICK u : u = Bare(columns)
  OBVIOUS
<1>2. u \in TableType
  <2>1. <<>> \in Name /\ <<>> \in MapOf(Name, IndexType) /\ <<>> \in ConstraintMap
        /\ <<>> \in MapOf(Columns, Columns)
    BY DEF Name, MapOf, ConstraintMap
  <2> QED BY <1>1, <2>1 DEF TableType, Bare, NoName
<1>3. /\ u.columns = columns /\ u.indexes = <<>> /\ u.foreignKeys = <<>>
      /\ u.uniqueConstraints = <<>> /\ u.primaryKeyName = NoName
  BY <1>1 DEF Bare
<1>4. Range(<<>>) = {} /\ Once(<<>>) /\ Keys(<<>>) = {}
  BY DEF Range, Once, Keys
<1>5. WellMade(u)
  BY <1>3, <1>4, WellMadeIs
<1>6. Refers(u, cs)
  BY <1>3, <1>4, RefersIs
<1>7. IsIndexed(u)
  BY <1>3, <1>4, IsIndexedIs
<1>8. KeyHeld(u)
  BY <1>3 DEF KeyHeld
<1>9. /\ Returns(u) \in Outcome /\ Returns(u).table = u
      /\ Throws(u) \in Outcome /\ Throws(u).threw
  BY <1>2, OutcomeIs
<1> QED BY <1>1, <1>3, <1>5, <1>6, <1>7, <1>8, <1>9 DEF Making

(* create() adds the parts one by one. *)
LEMMA CreateOneByOne ==
  ASSUME NEW e, NEW cs, EditorHolds(e, cs), e.columns # <<>>, NEW s, s = PartsOf(e)
  PROVE  \E f : /\ f[0] = Returns(Bare(e.columns)) /\ f[Len(s)] = CreateTable(e)
                /\ \A k \in 1 .. Len(s) : f[k] = Added(f[k - 1], s[k])
                /\ \A k \in 0 .. Len(s) : f[k] \in Making(e.columns, cs)
<1>1. PICK n : n = Len(s) /\ n \in Nat /\ DOMAIN s = 1 .. n
  <2>1. PICK A, B : A = [key : Name, value : IndexType] /\ B = [key : Name, value : Seq(Columns)]
    OBVIOUS
  <2>2. /\ e.indexes \in Seq(A) /\ e.foreignKeys \in Seq(B) /\ e.primaryKey \in Seq(B)
        /\ e.uniqueConstraints \in Seq(B)
    BY <2>1 DEF EditorHolds, ConstraintMap, MapOf
  <2>3. PICK a \in Nat, b \in Nat, c \in Nat, d \in Nat : PartsLaid(e, s, a, b, c, d)
    BY <2>2, PartsAreLaid
  <2>8. Len(s) = d /\ DOMAIN s = 1 .. d
    BY <2>3 DEF PartsLaid
  <2> QED BY <2>8
<1>2. PICK S, bare : S = Making(e.columns, cs) /\ bare = Returns(Bare(e.columns))
  OBVIOUS
<1>3. bare \in S
  BY <1>2, BareIs DEF EditorHolds
<1>4. \A a \in S, k \in 1 .. n : Added(a, s[k]) \in S
  BY <1>1, <1>2, PartsAddable, AddedIs
<1> DEFINE Step(g, T) == IF T = {} THEN bare ELSE Added(g[T \ {Max(T)}], s[Max(T)])
           Op(g) == g = [T \in SUBSET (1 .. n) |-> Step(g, T)]
           iter == CHOOSE g : Op(g)
<1>5. PICK h : h \in [SUBSET (1 .. n) -> S] /\ Op(h)
  <2>1. PICK G : G = [a \in S |-> [k \in 1 .. n |-> Added(a, s[k])]]
    OBVIOUS
  <2>3. G \in [S -> [1 .. n -> S]]
    BY <1>4, <2>1
  <2>4. PICK g : g \in [SUBSET (1 .. n) -> S] /\ Folds(g, n, bare, G)
    BY <1>1, <1>3, <2>3, FoldExists
  <2>5. ASSUME NEW T \in SUBSET (1 .. n), T # {}
        PROVE  G[g[T \ {Max(T)}]][Max(T)] = Added(g[T \ {Max(T)}], s[Max(T)])
    <3>1. Max(T) \in 1 .. n
      BY <1>1, <2>5, MaxIn
    <3>2. g[T \ {Max(T)}] \in S
      BY <2>4
    <3> QED BY <3>1, <3>2, <2>1
  <2>6. Op(g)
    BY <2>4, <2>5, Zenon DEF Folds
  <2> QED BY <2>4, <2>6
<1>6. Op(iter)
  BY <1>5, Zenon
<1>7. CreateTable(e) = iter[1 .. n]
  BY <1>1, <1>2, Zenon DEF CreateTable, FoldLeft, MapThenFoldSet, Added
<1> HIDE DEF iter
<1>8. PICK f : f = [k \in 0 .. n |-> iter[1 .. k]]
  OBVIOUS
<1>9. f[0] = bare
  <2>1. 1 .. 0 = {} /\ {} \in SUBSET (1 .. n)
    OBVIOUS
  <2>2. iter[{}] = Step(iter, {})
    BY <1>6, <2>1, Zenon
  <2> QED BY <2>1, <2>2, <1>1, <1>8
<1>10. ASSUME NEW k \in 1 .. n PROVE f[k] = Added(f[k - 1], s[k])
  <2>1. k \in Nat /\ k \in 1 .. k /\ 1 .. k \in SUBSET (1 .. n) /\ 1 .. k # {}
    <3>1. k \in Nat /\ k \in 1 .. k
      OBVIOUS
    <3>2. \A x \in 1 .. k : x \in 1 .. n
      BY <1>1
    <3> QED BY <3>1, <3>2
  <2>2. Max(1 .. k) = k
    BY <2>1, MaxIs
  <2>3. (1 .. k) \ {k} = 1 .. k - 1
    BY <2>1
  <2>4. iter[1 .. k] = Step(iter, 1 .. k)
    BY <1>6, <2>1, Zenon
  <2>5. iter[1 .. k] = Added(iter[1 .. k - 1], s[k])
    BY <2>1, <2>2, <2>3, <2>4, Zenon
  <2> QED BY <2>5, <1>1, <1>8
<1>11. f[n] = CreateTable(e)
  <2>1. n \in 0 .. n
    BY <1>1
  <2>2. f[n] = iter[1 .. n]
    BY <1>8, <2>1
  <2> QED BY <2>2, <1>7
<1> DEFINE T == {k \in 0 .. n : f[k] \in S}
<1>12. 0 \in T
  BY <1>1, <1>3, <1>9
<1>13. ASSUME NEW k \in 1 .. n, k - 1 \in T PROVE k \in T
  <2>1. f[k - 1] \in S
    BY <1>13
  <2>2. f[k] \in S
    BY <2>1, <1>4, <1>10
  <2>3. k \in 0 .. n
    OBVIOUS
  <2> QED BY <2>2, <2>3
<1> HIDE DEF T
<1>14. \A k \in 0 .. n : k \in T
  BY <1>1, <1>12, <1>13, UpTo
<1>15. \A k \in 0 .. n : f[k] \in Making(e.columns, cs)
  BY <1>2, <1>14 DEF T
<1>16. /\ f[0] = Returns(Bare(e.columns)) /\ f[Len(s)] = CreateTable(e)
       /\ \A k \in 1 .. Len(s) : f[k] = Added(f[k - 1], s[k])
       /\ \A k \in 0 .. Len(s) : f[k] \in Making(e.columns, cs)
  BY <1>1, <1>2, <1>9, <1>10, <1>11, <1>15, Zenon
<1> QED BY <1>16, Zenon

LEMMA CreateTableIs ==
  ASSUME NEW e, NEW cs, EditorHolds(e, cs)
  PROVE  CreateTable(e) \in Making(e.columns, cs)
<1>1. CASE e.columns = <<>>
  <2>1. CreateTable(e) = Throws(Bare(e.columns))
    BY <1>1, Zenon DEF CreateTable
  <2> QED BY <2>1, BareIs DEF EditorHolds
<1>2. CASE e.columns # <<>>
  <2>1. PICK s : s = PartsOf(e)
    OBVIOUS
  <2>2. PICK f : /\ f[Len(s)] = CreateTable(e)
                 /\ \A k \in 0 .. Len(s) : f[k] \in Making(e.columns, cs)
    BY <1>2, <2>1, CreateOneByOne
  <2>3. Len(s) \in 0 .. Len(s)
    <3>1. PICK A, B : A = [key : Name, value : IndexType] /\ B = [key : Name, value : Seq(Columns)]
      OBVIOUS
    <3>2. /\ e.indexes \in Seq(A) /\ e.foreignKeys \in Seq(B) /\ e.primaryKey \in Seq(B)
          /\ e.uniqueConstraints \in Seq(B)
      BY <3>1 DEF EditorHolds, ConstraintMap, MapOf
    <3>3. PICK a \in Nat, b \in Nat, c \in Nat, d \in Nat : PartsLaid(e, s, a, b, c, d)
      BY <2>1, <3>2, PartsAreLaid
    <3> QED BY <3>3 DEF PartsLaid
  <2> QED BY <2>2, <2>3
<1> QED BY <1>1, <1>2

-----------------------------------------------------------------------------
(* The calls of an editor. *)

EditorType ==
  [ open : BOOLEAN, columns : MapOf(Columns, Types), indexes : MapOf(Name, IndexType),
    primaryKey : ConstraintMap, foreignKeys : ConstraintMap, uniqueConstraints : ConstraintMap,
    origin : OriginType, gone : SUBSET Columns ]

EditorSound(e, gone) ==
  e \in EditorType /\ EditorHolds(e, Keys(e.columns) \cup e.gone \cup gone)

LEMMA EditorMore ==
  ASSUME NEW e, NEW cs, NEW ds, cs \subseteq ds, EditorHolds(e, cs)
  PROVE  EditorHolds(e, ds)
BY DEF EditorHolds

LEMMA EditorSoundMore ==
  ASSUME NEW e, NEW cs, NEW ds, cs \subseteq ds, EditorSound(e, cs)
  PROVE  EditorSound(e, ds)
<1>1. Keys(e.columns) \cup e.gone \cup cs \subseteq Keys(e.columns) \cup e.gone \cup ds
  OBVIOUS
<1> QED BY <1>1, EditorMore DEF EditorSound

(* The editor holds its maps: what they are, one by one. *)
LEMMA EditorHoldsIs ==
  ASSUME NEW e \in EditorType, NEW cs
  PROVE  EditorHolds(e, cs) <=>
           /\ \A x \in Range(e.indexes) : /\ Distinct(x.value.cols) = x.value.cols
                                          /\ ~ x.value.primary
                                          /\ x.key # NoName
                                          /\ Range(x.value.cols) \subseteq cs
           /\ \A x \in Range(e.primaryKey) : Range(x.value) \subseteq cs
           /\ \A x \in Range(e.foreignKeys) : Range(x.value) \subseteq cs
           /\ \A x \in Range(e.uniqueConstraints) : Range(x.value) \subseteq cs
BY DEF EditorHolds, EditorType

LEMMA NoEditorIs ==
  ASSUME NEW cs
  PROVE  EditorSound(NoEditor, cs)
<1>1. <<>> \in MapOf(Name, IndexType) /\ <<>> \in ConstraintMap /\ <<>> \in MapOf(Columns, Types)
  BY DEF Name, MapOf, ConstraintMap
<1>2. [c \in Columns |-> NoColumn] \in OriginType
  BY DEF OriginType
<1>3. NoEditor \in EditorType
  BY <1>1, <1>2 DEF NoEditor, EditorType
<1>4. NoEditor.indexes = <<>> /\ NoEditor.primaryKey = <<>> /\ NoEditor.foreignKeys = <<>>
      /\ NoEditor.uniqueConstraints = <<>>
  BY DEF NoEditor
<1>5. Range(<<>>) = {}
  BY DEF Range
<1> QED BY <1>3, <1>4, <1>5, EditorHoldsIs DEF EditorSound

(* edit() takes a sound table apart. *)
LEMMA EditTableIs ==
  ASSUME NEW t \in TableType, WellMade(t), NEW o \in OriginType, NEW gone,
         Refers(t, Keys(t.columns) \cup gone), NEW e, e = [EditTable(t) EXCEPT !.origin = o]
  PROVE  EditorSound(e, gone)
<1>1. PICK cs : cs = Keys(t.columns) \cup gone
  OBVIOUS
<1>2. /\ t.foreignKeys \in ConstraintMap /\ t.uniqueConstraints \in ConstraintMap
      /\ t.indexes \in MapOf(Name, IndexType) /\ t.columns \in MapOf(Columns, Types)
  BY TableParts
<1>3. PICK is : is = IF HasPrimaryKey(t) THEN Ordinary(t.indexes) ELSE t.indexes
  OBVIOUS
<1>4. PICK pk : pk = IF HasPrimaryKey(t)
                     THEN <<Entry(t.primaryKeyName, Get(t.indexes, t.primaryKeyName).cols)>>
                     ELSE <<>>
  OBVIOUS
<1>5. PICK S : S = [key : Name, value : IndexType]
  OBVIOUS
<1>6. t.indexes \in Seq(S)
  BY <1>2, <1>5 DEF MapOf
<1>7. /\ is \in Seq(S) /\ Range(is) \subseteq Range(t.indexes)
      /\ \A x \in Range(is) : ~ x.value.primary
  <2>1. CASE HasPrimaryKey(t)
    <3>1. /\ Ordinary(t.indexes) \in Seq(S)
          /\ Range(Ordinary(t.indexes)) = {x \in Range(t.indexes) : ~ x.value.primary}
      BY <1>6, OrdinaryIs
    <3> QED BY <1>3, <2>1, <3>1
  <2>2. CASE ~ HasPrimaryKey(t)
    <3>1. \A x \in Range(t.indexes) : ~ x.value.primary
      BY <2>2, WellMadeIs DEF HasPrimaryKey, Keys
    <3> QED BY <1>3, <1>6, <2>2, <3>1
  <2> QED BY <2>1, <2>2
<1>8. pk \in ConstraintMap /\ \A x \in Range(pk) : Range(x.value) \subseteq cs
  <2>1. CASE HasPrimaryKey(t)
    <3>1. PICK x \in Range(t.indexes) : x.key = t.primaryKeyName
                                        /\ x.value = Get(t.indexes, t.primaryKeyName)
      BY <2>1, GetIs DEF HasPrimaryKey
    <3>2. x \in S
      BY <1>6, Elements
    <3>3. x.value \in IndexType /\ x.value.cols \in Seq(Columns) /\ x.key \in Name
      BY <1>5, <3>2 DEF IndexType
    <3>4. Range(x.value.cols) \subseteq cs
      BY <1>1, RefersIs
    <3>9. PICK y, n, cols : y = Entry(n, cols) /\ n = x.key /\ cols = x.value.cols
      OBVIOUS
    <3>5. y \in [key : Name, value : Seq(Columns)] /\ y.value = x.value.cols
      BY <3>3, <3>9 DEF Entry
    <3>6. pk = <<y>>
      BY <1>4, <2>1, <3>1, <3>9
    <3>7. Range(<<y>>) = {y}
      BY DEF Range
    <3>8. <<y>> \in ConstraintMap
      BY <3>5 DEF ConstraintMap, MapOf
    <3> QED BY <3>4, <3>5, <3>6, <3>7, <3>8
  <2>2. CASE ~ HasPrimaryKey(t)
    <3>1. pk = <<>> /\ Range(<<>>) = {}
      BY <1>4, <2>2 DEF Range
    <3> QED BY <3>1 DEF ConstraintMap, MapOf
  <2> QED BY <2>1, <2>2
<1>9. e = [ open |-> TRUE, columns |-> t.columns, indexes |-> is, primaryKey |-> pk,
            foreignKeys |-> t.foreignKeys, uniqueConstraints |-> t.uniqueConstraints,
            origin |-> o, gone |-> {} ]
  BY <1>3, <1>4 DEF EditTable, NoEditor
<1>10. is \in MapOf(Name, IndexType)
  BY <1>5, <1>7 DEF MapOf
<1>11. e \in EditorType
  <2>1. PICK columns, fks, us : columns = t.columns /\ fks = t.foreignKeys /\ us = t.uniqueConstraints
    OBVIOUS
  <2>2. columns \in MapOf(Columns, Types) /\ fks \in ConstraintMap /\ us \in ConstraintMap
    BY <1>2, <2>1
  <2>3. PICK w : w = [ open |-> TRUE, columns |-> columns, indexes |-> is, primaryKey |-> pk,
                       foreignKeys |-> fks, uniqueConstraints |-> us, origin |-> o, gone |-> {} ]
    OBVIOUS
  <2>4. w \in EditorType
    BY <1>8, <1>10, <2>2, <2>3 DEF EditorType
  <2>5. e = w
    BY <1>9, <2>1, <2>3
  <2> QED BY <2>4, <2>5, Zenon
<1>12. /\ e.columns = t.columns /\ e.indexes = is /\ e.primaryKey = pk
       /\ e.foreignKeys = t.foreignKeys /\ e.uniqueConstraints = t.uniqueConstraints /\ e.gone = {}
  BY <1>9
<1>13. Keys(e.columns) \cup e.gone \cup gone = cs
  BY <1>1, <1>12
<1>14. /\ \A x \in Range(t.indexes) : Range(x.value.cols) \subseteq cs
       /\ \A x \in Range(t.foreignKeys) : Range(x.value) \subseteq cs
       /\ \A x \in Range(t.uniqueConstraints) : Range(x.value) \subseteq cs
  BY <1>1, RefersIs
<1>15. \A x \in Range(is) : Distinct(x.value.cols) = x.value.cols /\ x.key # NoName
  BY <1>7, WellMadeIs DEF Keys
<1>16. EditorHolds(e, cs)
  BY <1>7, <1>8, <1>11, <1>12, <1>14, <1>15, EditorHoldsIs
<1> QED BY <1>11, <1>13, <1>16 DEF EditorSound

LEMMA AppendMap ==
  ASSUME NEW K, NEW V, NEW map \in MapOf(K, V), NEW k \in K, NEW v \in V
  PROVE  /\ Append(map, Entry(k, v)) \in MapOf(K, V)
         /\ Range(Append(map, Entry(k, v))) = Range(map) \cup {Entry(k, v)}
<1>1. PICK S, x : S = [key : K, value : V] /\ x = Entry(k, v)
  OBVIOUS
<1>2. x \in S /\ map \in Seq(S)
  BY <1>1, EntryType DEF MapOf
<1>3. Append(map, x) \in Seq(S) /\ Range(Append(map, x)) = Range(map) \cup {x}
  BY <1>2, AppendRange
<1> QED BY <1>1, <1>3 DEF MapOf

(* What a call of the editor may do to one of its maps. *)
LEMMA WithIndexes ==
  ASSUME NEW e, NEW gone, EditorSound(e, gone), NEW is \in MapOf(Name, IndexType),
         \A x \in Range(is) : \/ x \in Range(e.indexes)
                              \/ /\ Distinct(x.value.cols) = x.value.cols
                                 /\ ~ x.value.primary /\ x.key # NoName
                                 /\ Range(x.value.cols) \subseteq Keys(e.columns) \cup e.gone \cup gone,
         NEW pk \in ConstraintMap,
         \A x \in Range(pk) : \/ x \in Range(e.primaryKey)
                              \/ Range(x.value) \subseteq Keys(e.columns) \cup e.gone \cup gone,
         NEW u, u = [e EXCEPT !.indexes = is, !.primaryKey = pk]
  PROVE  EditorSound(u, gone)
<1>1. PICK cs : cs = Keys(e.columns) \cup e.gone \cup gone
  OBVIOUS
<1>2. e \in EditorType /\ EditorHolds(e, cs)
  BY <1>1 DEF EditorSound
<1>3. /\ u \in EditorType /\ u.columns = e.columns /\ u.gone = e.gone /\ u.indexes = is
      /\ u.primaryKey = pk /\ u.foreignKeys = e.foreignKeys
      /\ u.uniqueConstraints = e.uniqueConstraints
  BY <1>2 DEF EditorType
<1>4. /\ \A x \in Range(e.indexes) : /\ Distinct(x.value.cols) = x.value.cols
                                     /\ ~ x.value.primary
                                     /\ x.key # NoName
                                     /\ Range(x.value.cols) \subseteq cs
      /\ \A x \in Range(e.primaryKey) : Range(x.value) \subseteq cs
      /\ \A x \in Range(e.foreignKeys) : Range(x.value) \subseteq cs
      /\ \A x \in Range(e.uniqueConstraints) : Range(x.value) \subseteq cs
  BY <1>2, EditorHoldsIs
<1>5. \A x \in Range(is) : /\ Distinct(x.value.cols) = x.value.cols
                           /\ ~ x.value.primary /\ x.key # NoName
                           /\ Range(x.value.cols) \subseteq cs
  BY <1>1, <1>4
<1>6. \A x \in Range(pk) : Range(x.value) \subseteq cs
  BY <1>1, <1>4
<1>7. EditorHolds(u, cs)
  BY <1>3, <1>4, <1>5, <1>6, EditorHoldsIs
<1> QED BY <1>1, <1>3, <1>7 DEF EditorSound

LEMMA WithConstraints ==
  ASSUME NEW e, NEW gone, EditorSound(e, gone),
         NEW fks \in ConstraintMap,
         \A x \in Range(fks) : \/ x \in Range(e.foreignKeys)
                               \/ Range(x.value) \subseteq Keys(e.columns) \cup e.gone \cup gone,
         NEW us \in ConstraintMap,
         \A x \in Range(us) : \/ x \in Range(e.uniqueConstraints)
                              \/ Range(x.value) \subseteq Keys(e.columns) \cup e.gone \cup gone,
         NEW u, u = [e EXCEPT !.foreignKeys = fks, !.uniqueConstraints = us]
  PROVE  EditorSound(u, gone)
<1>1. PICK cs : cs = Keys(e.columns) \cup e.gone \cup gone
  OBVIOUS
<1>2. e \in EditorType /\ EditorHolds(e, cs)
  BY <1>1 DEF EditorSound
<1>3. /\ u \in EditorType /\ u.columns = e.columns /\ u.gone = e.gone /\ u.indexes = e.indexes
      /\ u.primaryKey = e.primaryKey /\ u.foreignKeys = fks
      /\ u.uniqueConstraints = us
  BY <1>2 DEF EditorType
<1>4. /\ \A x \in Range(e.indexes) : /\ Distinct(x.value.cols) = x.value.cols
                                     /\ ~ x.value.primary
                                     /\ x.key # NoName
                                     /\ Range(x.value.cols) \subseteq cs
      /\ \A x \in Range(e.primaryKey) : Range(x.value) \subseteq cs
      /\ \A x \in Range(e.foreignKeys) : Range(x.value) \subseteq cs
      /\ \A x \in Range(e.uniqueConstraints) : Range(x.value) \subseteq cs
  BY <1>2, EditorHoldsIs
<1>5. \A x \in Range(fks) : Range(x.value) \subseteq cs
  BY <1>1, <1>4
<1>6. \A x \in Range(us) : Range(x.value) \subseteq cs
  BY <1>1, <1>4
<1>7. EditorHolds(u, cs)
  BY <1>3, <1>4, <1>5, <1>6, EditorHoldsIs
<1> QED BY <1>1, <1>3, <1>7 DEF EditorSound

LEMMA WithColumns ==
  ASSUME NEW e, NEW gone, EditorSound(e, gone),
         NEW columns \in MapOf(Columns, Types), NEW o \in OriginType, NEW lost \in SUBSET Columns,
         Keys(e.columns) \cup e.gone \subseteq Keys(columns) \cup lost,
         NEW u, u = [e EXCEPT !.columns = columns, !.origin = o, !.gone = lost]
  PROVE  EditorSound(u, gone)
<1>1. PICK cs, ds : /\ cs = Keys(e.columns) \cup e.gone \cup gone
                    /\ ds = Keys(columns) \cup lost \cup gone
  OBVIOUS
<1>2. e \in EditorType /\ EditorHolds(e, cs)
  BY <1>1 DEF EditorSound
<1>3. /\ u \in EditorType /\ u.columns = columns /\ u.gone = lost /\ u.indexes = e.indexes
      /\ u.primaryKey = e.primaryKey /\ u.foreignKeys = e.foreignKeys
      /\ u.uniqueConstraints = e.uniqueConstraints
  BY <1>2 DEF EditorType
<1>4. EditorHolds(e, ds)
  BY <1>1, <1>2, EditorMore
<1>5. EditorHolds(u, ds)
  BY <1>2, <1>3, <1>4, EditorHoldsIs
<1> QED BY <1>1, <1>3, <1>5 DEF EditorSound

(* A column whose name or type changes in its place, with what refers to it. *)
LEMMA ModifiedInPlace ==
  ASSUME NEW map \in MapOf(Columns, Types), NEW c \in Keys(map), NEW d \in Columns, NEW type \in Types,
         NEW m, m = [i \in DOMAIN map |-> IF map[i].key = c THEN Entry(d, type) ELSE map[i]]
  PROVE  m \in MapOf(Columns, Types) /\ (Keys(map) \ {c}) \cup {d} \subseteq Keys(m)
<1>1. PICK S, x : S = [key : Columns, value : Types] /\ x = Entry(d, type)
  OBVIOUS
<1>2. x \in S /\ x.key = d /\ map \in Seq(S)
  BY <1>1 DEF MapOf, Entry
<1>3. DOMAIN map = 1 .. Len(map) /\ Len(map) \in Nat /\ \A i \in 1 .. Len(map) : map[i] \in S
  BY <1>2, Elements
<1>4. m = [i \in 1 .. Len(map) |-> IF map[i].key = c THEN x ELSE map[i]]
  BY <1>1, <1>3
<1>5. m \in Seq(S)
  BY <1>2, <1>3, <1>4
<1>6. \A i \in 1 .. Len(map) : m[i] \in Range(m)
  BY <1>4 DEF Range
<1>7. \A y \in Range(map) : \E i \in 1 .. Len(map) : y = map[i]
  BY <1>2, Elements
<1>8. \A y \in Range(map) : y.key # c => y \in Range(m)
  BY <1>4, <1>6, <1>7
<1>9. x \in Range(m)
  <2>1. PICK y \in Range(map) : y.key = c
    BY DEF Keys
  <2>2. PICK i \in 1 .. Len(map) : map[i].key = c
    BY <1>7, <2>1
  <2>3. m[i] = x
    BY <1>4, <2>2
  <2> QED BY <1>6, <2>3
<1>10. (Keys(map) \ {c}) \cup {d} \subseteq Keys(m)
  BY <1>2, <1>8, <1>9 DEF Keys
<1> QED BY <1>1, <1>5, <1>10 DEF MapOf

LEMMA RenamedInEditorIs ==
  ASSUME NEW e, NEW gone, EditorSound(e, gone), NEW c \in Keys(e.columns), NEW d \in Columns,
         NEW m \in MapOf(Columns, Types), (Keys(e.columns) \ {c}) \cup {d} \subseteq Keys(m),
         NEW u, u = RenamedInEditor([e EXCEPT !.columns = m], c, d)
  PROVE  EditorSound(u, gone)
<1>1. PICK cs, ds : /\ cs = Keys(e.columns) \cup e.gone \cup gone
                    /\ ds = Keys(m) \cup e.gone \cup gone
  OBVIOUS
<1>2. e \in EditorType /\ EditorHolds(e, cs)
  BY <1>1 DEF EditorSound
<1>3. c \in Columns /\ (cs \ {c}) \cup {d} \subseteq ds
  <2>1. e.columns \in Seq([key : Columns, value : Types])
    BY <1>2 DEF EditorType, MapOf
  <2>2. \A x \in Range(e.columns) : x \in [key : Columns, value : Types]
    BY <2>1, Elements
  <2>3. \A x \in Range(e.columns) : x.key \in Columns
    BY <2>2
  <2>4. c \in Columns
    BY <2>3 DEF Keys
  <2> QED BY <1>1, <2>4
<1>4. PICK is, pk, fks, us, o : /\ is = RenamedInIndexes(e.indexes, c, d)
                                /\ pk = RenamedInConstraints(e.primaryKey, c, d)
                                /\ fks = RenamedInConstraints(e.foreignKeys, c, d)
                                /\ us = RenamedInConstraints(e.uniqueConstraints, c, d)
                                /\ o = [e.origin EXCEPT ![d] = e.origin[c], ![c] = NoColumn]
  OBVIOUS
<1>5. PICK w : w = [e EXCEPT !.columns = m, !.indexes = is, !.primaryKey = pk, !.foreignKeys = fks,
                             !.uniqueConstraints = us, !.origin = o]
  OBVIOUS
<1>6. u = w
  <2>1. PICK v : v = [e EXCEPT !.columns = m]
    OBVIOUS
  <2>2. /\ v.indexes = e.indexes /\ v.primaryKey = e.primaryKey /\ v.foreignKeys = e.foreignKeys
        /\ v.uniqueConstraints = e.uniqueConstraints /\ v.origin = e.origin
    BY <1>2, <2>1 DEF EditorType
  <2>3. u = [v EXCEPT !.indexes = RenamedInIndexes(v.indexes, c, d),
                      !.primaryKey = RenamedInConstraints(v.primaryKey, c, d),
                      !.foreignKeys = RenamedInConstraints(v.foreignKeys, c, d),
                      !.uniqueConstraints = RenamedInConstraints(v.uniqueConstraints, c, d),
                      !.origin = [v.origin EXCEPT ![d] = v.origin[c], ![c] = NoColumn]]
    BY <2>1 DEF RenamedInEditor
  <2>4. u = [v EXCEPT !.indexes = is, !.primaryKey = pk, !.foreignKeys = fks,
                      !.uniqueConstraints = us, !.origin = o]
    BY <1>4, <2>2, <2>3
  <2> QED BY <1>2, <1>5, <2>1, <2>4 DEF EditorType
<1>7. /\ e.indexes \in MapOf(Name, IndexType) /\ e.primaryKey \in ConstraintMap
      /\ e.foreignKeys \in ConstraintMap /\ e.uniqueConstraints \in ConstraintMap
      /\ e.origin \in OriginType
  BY <1>2 DEF EditorType
<1>8. /\ is \in MapOf(Name, IndexType)
      /\ \A x \in Range(is) : \E f \in Range(e.indexes) : RenamedEntry(f, x, c, d)
  BY <1>3, <1>4, <1>7, RenamedIndexEntries
<1>9. /\ pk \in ConstraintMap
      /\ \A x \in Range(pk) : \E f \in Range(e.primaryKey) : RenamedCols(f, x, c, d)
  BY <1>3, <1>4, <1>7, RenamedConstraintEntries
<1>10. /\ fks \in ConstraintMap
       /\ \A x \in Range(fks) : \E f \in Range(e.foreignKeys) : RenamedCols(f, x, c, d)
  BY <1>3, <1>4, <1>7, RenamedConstraintEntries
<1>11. /\ us \in ConstraintMap
       /\ \A x \in Range(us) : \E f \in Range(e.uniqueConstraints) : RenamedCols(f, x, c, d)
  BY <1>3, <1>4, <1>7, RenamedConstraintEntries
<1>12. o \in OriginType
  BY <1>3, <1>4, <1>7 DEF OriginType
<1>13. /\ w \in EditorType /\ w.columns = m /\ w.gone = e.gone /\ w.indexes = is
       /\ w.primaryKey = pk /\ w.foreignKeys = fks /\ w.uniqueConstraints = us
  BY <1>2, <1>5, <1>8, <1>9, <1>10, <1>11, <1>12 DEF EditorType
<1>14. /\ \A x \in Range(e.indexes) : /\ Distinct(x.value.cols) = x.value.cols
                                      /\ ~ x.value.primary
                                      /\ x.key # NoName
                                      /\ Range(x.value.cols) \subseteq cs
       /\ \A x \in Range(e.primaryKey) : Range(x.value) \subseteq cs
       /\ \A x \in Range(e.foreignKeys) : Range(x.value) \subseteq cs
       /\ \A x \in Range(e.uniqueConstraints) : Range(x.value) \subseteq cs
  BY <1>2, EditorHoldsIs
<1>15. \A x \in Range(is) : /\ Distinct(x.value.cols) = x.value.cols
                            /\ ~ x.value.primary /\ x.key # NoName
                            /\ Range(x.value.cols) \subseteq ds
  BY <1>3, <1>8, <1>14 DEF RenamedEntry
<1>16. \A x \in Range(pk) : Range(x.value) \subseteq ds
  BY <1>3, <1>9, <1>14 DEF RenamedCols
<1>17. \A x \in Range(fks) : Range(x.value) \subseteq ds
  BY <1>3, <1>10, <1>14 DEF RenamedCols
<1>18. \A x \in Range(us) : Range(x.value) \subseteq ds
  BY <1>3, <1>11, <1>14 DEF RenamedCols
<1>19. EditorHolds(w, ds)
  BY <1>13, <1>15, <1>16, <1>17, <1>18, EditorHoldsIs
<1>20. ds = Keys(w.columns) \cup w.gone \cup gone
  BY <1>1, <1>13
<1> QED BY <1>6, <1>13, <1>19, <1>20 DEF EditorSound

IInv == TableInv /\ EditorSound(editor, history.gone)

LEMMA EditorParts ==
  ASSUME NEW e, NEW gone, EditorSound(e, gone)
  PROVE  /\ e \in EditorType /\ e.columns \in MapOf(Columns, Types)
         /\ e.indexes \in MapOf(Name, IndexType)
         /\ e.primaryKey \in ConstraintMap /\ e.foreignKeys \in ConstraintMap
         /\ e.uniqueConstraints \in ConstraintMap
         /\ e.origin \in OriginType /\ e.gone \in SUBSET Columns
         /\ Keys(e.columns) \subseteq Columns
<1>1. e.columns \in Seq([key : Columns, value : Types])
  BY DEF EditorSound, EditorType, MapOf
<1>2. \A x \in Range(e.columns) : x \in [key : Columns, value : Types]
  BY <1>1, Elements
<1>3. \A x \in Range(e.columns) : x.key \in Columns
  BY <1>2
<1>4. Keys(e.columns) \subseteq Columns
  BY <1>3 DEF Keys
<1> QED BY <1>4 DEF EditorSound, EditorType

LEMMA EditColumnKeeps ==
  ASSUME IInv, EditColumn
  PROVE  EditorSound(editor, history.gone)'
<1>1. PICK e, gone : e = editor /\ gone = history.gone
  OBVIOUS
<1>2. /\ EditorSound(e, gone) /\ e \in EditorType /\ e.columns \in MapOf(Columns, Types)
      /\ e.origin \in OriginType /\ e.gone \in SUBSET Columns /\ Keys(e.columns) \subseteq Columns
  BY <1>1, EditorParts DEF IInv
<1>3. ASSUME NEW c \in Columns, NEW type \in Types
      PROVE  EditorSound([e EXCEPT !.columns = Append(@, Entry(c, type))], gone)
  <2>1. PICK m : m = Append(e.columns, Entry(c, type))
    OBVIOUS
  <2>2. m \in MapOf(Columns, Types) /\ Range(m) = Range(e.columns) \cup {Entry(c, type)}
    BY <1>2, <2>1, AppendMap
  <2>3. Keys(e.columns) \subseteq Keys(m)
    BY <2>2 DEF Keys
  <2>4. PICK o, lost : o = e.origin /\ lost = e.gone
    OBVIOUS
  <2>5. PICK u : u = [e EXCEPT !.columns = m, !.origin = o, !.gone = lost]
    OBVIOUS
  <2>6. EditorSound(u, gone)
    <3>1. o \in OriginType /\ lost \in SUBSET Columns
          /\ Keys(e.columns) \cup e.gone \subseteq Keys(m) \cup lost
      BY <1>2, <2>3, <2>4
    <3> QED BY <1>2, <2>2, <2>5, <3>1, WithColumns
  <2>7. u = [e EXCEPT !.columns = Append(@, Entry(c, type))]
    BY <1>2, <2>1, <2>4, <2>5 DEF EditorType
  <2> QED BY <2>6, <2>7
<1>4. ASSUME NEW c \in Keys(e.columns), NEW d \in Columns, NEW type \in Types
      PROVE  EditorSound(ModifyColumnInEditor(e, c, d, type), gone)
  <2>1. PICK m : m = [i \in DOMAIN e.columns |-> IF e.columns[i].key = c THEN Entry(d, type)
                                                 ELSE e.columns[i]]
    OBVIOUS
  <2>2. m \in MapOf(Columns, Types) /\ (Keys(e.columns) \ {c}) \cup {d} \subseteq Keys(m)
    BY <1>2, <2>1, ModifiedInPlace
  <2>3. PICK v : v = [e EXCEPT !.columns = m]
    OBVIOUS
  <2>4. v = [e EXCEPT !.columns = [i \in DOMAIN @ |-> IF @[i].key = c THEN Entry(d, type)
                                                       ELSE @[i]]]
    BY <1>2, <2>1, <2>3 DEF EditorType
  <2>5. CASE c = d
    <3>1. ModifyColumnInEditor(e, c, d, type) = v
      BY <2>4, <2>5, Zenon DEF ModifyColumnInEditor
    <3>2. PICK o, lost : o = e.origin /\ lost = e.gone
      OBVIOUS
    <3>3. PICK u : u = [e EXCEPT !.columns = m, !.origin = o, !.gone = lost]
      OBVIOUS
    <3>4. EditorSound(u, gone)
      <4>1. o \in OriginType /\ lost \in SUBSET Columns
            /\ Keys(e.columns) \cup e.gone \subseteq Keys(m) \cup lost
        BY <1>2, <2>2, <2>5, <3>2
      <4> QED BY <1>2, <2>2, <3>3, <4>1, WithColumns
    <3>5. u = v
      BY <1>2, <2>3, <3>2, <3>3 DEF EditorType
    <3> QED BY <3>1, <3>4, <3>5
  <2>6. CASE c # d
    <3>1. ModifyColumnInEditor(e, c, d, type) = RenamedInEditor(v, c, d)
      BY <2>4, <2>6, Zenon DEF ModifyColumnInEditor
    <3>2. PICK u : u = RenamedInEditor([e EXCEPT !.columns = m], c, d)
      OBVIOUS
    <3>3. EditorSound(u, gone)
      BY <1>2, <2>2, <3>2, RenamedInEditorIs
    <3> QED BY <2>3, <3>1, <3>2, <3>3
  <2> QED BY <2>5, <2>6
<1>5. ASSUME NEW c \in Keys(e.columns)
      PROVE  EditorSound([e EXCEPT !.columns = Delete(@, c),
                                   !.origin = [@ EXCEPT ![c] = NoColumn],
                                   !.gone = @ \cup {c}], gone)
  <2>1. PICK m, o, lost : /\ m = Delete(e.columns, c)
                          /\ o = [e.origin EXCEPT ![c] = NoColumn]
                          /\ lost = e.gone \cup {c}
    OBVIOUS
  <2>2. m \in MapOf(Columns, Types) /\ \A x \in Range(e.columns) : x.key # c => x \in Range(m)
    BY <1>2, <2>1, DeleteMap
  <2>3. Keys(e.columns) \cup e.gone \subseteq Keys(m) \cup lost
    BY <2>1, <2>2 DEF Keys
  <2>4. o \in OriginType /\ lost \in SUBSET Columns
    BY <1>2, <2>1 DEF OriginType
  <2>5. PICK u : u = [e EXCEPT !.columns = m, !.origin = o, !.gone = lost]
    OBVIOUS
  <2>6. EditorSound(u, gone)
    BY <1>2, <2>2, <2>3, <2>4, <2>5, WithColumns
  <2>7. u = [e EXCEPT !.columns = Delete(@, c), !.origin = [@ EXCEPT ![c] = NoColumn],
                      !.gone = @ \cup {c}]
    BY <1>2, <2>1, <2>5 DEF EditorType
  <2> QED BY <2>6, <2>7
<1>6. EditorSound(editor', gone) /\ history' = history
  <2>1. \/ \E c \in Columns, type \in Types :
             CallEditor([editor EXCEPT !.columns = Append(@, Entry(c, type))])
        \/ \E c \in Keys(editor.columns), d \in Columns, type \in Types :
             CallEditor(ModifyColumnInEditor(editor, c, d, type))
        \/ \E c \in Keys(editor.columns) :
             CallEditor([editor EXCEPT !.columns = Delete(@, c),
                                       !.origin = [@ EXCEPT ![c] = NoColumn],
                                       !.gone = @ \cup {c}])
    BY Zenon DEF EditColumn
  <2>2. ASSUME NEW u, CallEditor(u), EditorSound(u, gone)
        PROVE  EditorSound(editor', gone) /\ history' = history
    BY <2>2 DEF CallEditor
  <2>3. /\ \A c \in Columns, type \in Types :
             EditorSound([editor EXCEPT !.columns = Append(@, Entry(c, type))], gone)
        /\ \A c \in Keys(editor.columns), d \in Columns, type \in Types :
             EditorSound(ModifyColumnInEditor(editor, c, d, type), gone)
        /\ \A c \in Keys(editor.columns) :
             EditorSound([editor EXCEPT !.columns = Delete(@, c),
                                        !.origin = [@ EXCEPT ![c] = NoColumn],
                                        !.gone = @ \cup {c}], gone)
    BY <1>1, <1>3, <1>4, <1>5
  <2> QED BY <2>1, <2>2, <2>3, Zenon
<1> QED BY <1>1, <1>6

LEMMA EditorListsAre ==
  ASSUME NEW cols \in EditorLists
  PROVE  cols \in Seq(Columns) /\ Range(cols) \subseteq Keys(editor.columns)
BY TableAssumption DEF EditorLists

LEMMA GivenNamesAre == GivenNames \subseteq Names /\ GivenNames \cup {NoName, Primary} \subseteq Name
<1>1. <<>> \in Seq(STRING)
  OBVIOUS
<1>2. "primary" \in STRING
  BY TableAssumption
<1>3. <<"primary">> \in Seq(STRING)
  BY <1>2
<1>4. GivenNames \subseteq Seq(STRING) \ {<<>>}
  BY TableAssumption
<1> QED BY <1>1, <1>3, <1>4, Zenon DEF Names, Name, NoName, Primary

(* An entry that takes another name keeps its value. *)
Reindexed(map, m) ==
  \A y \in Range(m) : \/ y \in Range(map)
                      \/ y.key # NoName /\ \E x \in Range(map) : y.value = x.value

LEMMA RenamedEntries ==
  ASSUME NEW map \in MapOf(Name, IndexType), NEW name, NEW to \in Names,
         NEW m, m = [i \in DOMAIN map |-> IF map[i].key = name THEN Entry(to, map[i].value)
                                          ELSE map[i]]
  PROVE  m \in MapOf(Name, IndexType) /\ Reindexed(map, m)
<1>1. PICK S : S = [key : Name, value : IndexType]
  OBVIOUS
<1>2. map \in Seq(S) /\ to \in Name /\ to # NoName
  BY <1>1 DEF MapOf, Names
<1>3. /\ DOMAIN map = 1 .. Len(map) /\ Len(map) \in Nat
      /\ \A i \in 1 .. Len(map) : map[i] \in S /\ map[i] \in Range(map)
  BY <1>2, Elements
<1>4. m = [i \in 1 .. Len(map) |-> IF map[i].key = name THEN [key |-> to, value |-> map[i].value]
                                   ELSE map[i]]
  BY <1>3 DEF Entry
<1>5. m \in Seq(S)
  BY <1>1, <1>2, <1>3, <1>4
<1>6. \A y \in Range(m) : \E i \in 1 .. Len(map) : y = m[i]
  BY <1>4 DEF Range
<1>7. ASSUME NEW y \in Range(m)
      PROVE  \/ y \in Range(map)
             \/ y.key # NoName /\ \E x \in Range(map) : y.value = x.value
  <2>1. PICK i \in 1 .. Len(map) : y = m[i]
    BY <1>6
  <2>2. PICK x : x = map[i] /\ x \in Range(map)
    BY <1>3
  <2>3. CASE x.key = name
    <3>1. y = [key |-> to, value |-> x.value]
      BY <1>4, <2>1, <2>2, <2>3
    <3> QED BY <1>2, <2>2, <3>1
  <2>4. CASE x.key # name
    BY <1>4, <2>1, <2>2, <2>4
  <2> QED BY <2>3, <2>4
<1> QED BY <1>1, <1>5, <1>7 DEF MapOf, Reindexed

LEMMA EditIndexKeeps ==
  ASSUME IInv, EditIndex
  PROVE  EditorSound(editor, history.gone)'
<1>1. PICK e, gone : e = editor /\ gone = history.gone
  OBVIOUS
<1>2. /\ EditorSound(e, gone) /\ e \in EditorType /\ e.indexes \in MapOf(Name, IndexType)
      /\ e.primaryKey \in ConstraintMap
  BY <1>1, EditorParts DEF IInv
<1>3. ASSUME NEW is \in MapOf(Name, IndexType),
             \A x \in Range(is) : \/ x \in Range(e.indexes)
                                  \/ /\ Distinct(x.value.cols) = x.value.cols
                                     /\ ~ x.value.primary /\ x.key # NoName
                                     /\ Range(x.value.cols) \subseteq Keys(e.columns) \cup e.gone \cup gone,
             NEW v, v = [e EXCEPT !.indexes = is]
      PROVE  EditorSound(v, gone)
  <2>1. PICK pk, u : pk = e.primaryKey /\ u = [e EXCEPT !.indexes = is, !.primaryKey = pk]
    OBVIOUS
  <2>2. EditorSound(u, gone)
    BY <1>2, <1>3, <2>1, WithIndexes
  <2>3. u = v
    BY <1>2, <1>3, <2>1 DEF EditorType
  <2> QED BY <2>2, <2>3
<1>4. ASSUME NEW cols \in EditorLists, NEW given \in GivenNames, NEW unique \in BOOLEAN
      PROVE  EditorSound([e EXCEPT !.indexes = Append(@, Entry(given, Index(cols, unique, FALSE)))], gone)
  <2>1. PICK no : no = FALSE
    OBVIOUS
  <2>2. PICK index : index = Index(cols, unique, no)
    OBVIOUS
  <2>3. cols \in Seq(Columns) /\ Range(cols) \subseteq Keys(e.columns) /\ given \in Name /\ given # NoName
    BY <1>1, EditorListsAre, GivenNamesAre DEF Names
  <2>4. /\ index \in IndexType /\ index.cols = Distinct(cols) /\ ~ index.primary
        /\ Distinct(Distinct(cols)) = Distinct(cols) /\ Range(Distinct(cols)) = Range(cols)
    BY <2>1, <2>2, <2>3, IndexIs
  <2>5. PICK x : x = Entry(given, index)
    OBVIOUS
  <2>6. x.key = given /\ x.value = index
    BY <2>5 DEF Entry
  <2>7. PICK is : is = Append(e.indexes, x)
    OBVIOUS
  <2>8. is \in MapOf(Name, IndexType) /\ Range(is) = Range(e.indexes) \cup {x}
    BY <1>2, <2>3, <2>4, <2>5, <2>7, AppendMap
  <2>9. PICK v : v = [e EXCEPT !.indexes = is]
    OBVIOUS
  <2>10. EditorSound(v, gone)
    <3>1. /\ Distinct(x.value.cols) = x.value.cols /\ ~ x.value.primary /\ x.key # NoName
          /\ Range(x.value.cols) \subseteq Keys(e.columns) \cup e.gone \cup gone
      BY <2>3, <2>4, <2>6
    <3> QED BY <1>3, <2>8, <2>9, <3>1
  <2>11. v = [e EXCEPT !.indexes = Append(@, Entry(given, Index(cols, unique, FALSE)))]
    BY <2>1, <2>2, <2>5, <2>7, <2>9, Zenon
  <2> QED BY <2>10, <2>11, Zenon
<1>5. ASSUME NEW name, NEW to \in GivenNames
      PROVE  EditorSound(RenameIndexInEditor(e, name, to), gone)
  <2>1. PICK is : is = [i \in DOMAIN e.indexes |->
                          IF e.indexes[i].key = name THEN Entry(to, e.indexes[i].value)
                          ELSE e.indexes[i]]
    OBVIOUS
  <2>2. is \in MapOf(Name, IndexType) /\ Reindexed(e.indexes, is)
    BY <1>2, <2>1, GivenNamesAre, RenamedEntries
  <2>3. \A x \in Range(e.indexes) :
          /\ Distinct(x.value.cols) = x.value.cols /\ ~ x.value.primary
          /\ Range(x.value.cols) \subseteq Keys(e.columns) \cup e.gone \cup gone
    BY <1>2, EditorHoldsIs DEF EditorSound
  <2>4. PICK v : v = [e EXCEPT !.indexes = is]
    OBVIOUS
  <2>5. EditorSound(v, gone)
    BY <1>3, <2>2, <2>3, <2>4 DEF Reindexed
  <2>6. v = RenameIndexInEditor(e, name, to)
    BY <1>2, <2>1, <2>4 DEF RenameIndexInEditor, EditorType
  <2> QED BY <2>5, <2>6
<1>6. ASSUME NEW name
      PROVE  EditorSound([e EXCEPT !.indexes = Delete(@, name)], gone)
  <2>1. PICK is, v : is = Delete(e.indexes, name) /\ v = [e EXCEPT !.indexes = is]
    OBVIOUS
  <2>2. is \in MapOf(Name, IndexType) /\ Range(is) \subseteq Range(e.indexes)
    BY <1>2, <2>1, DeleteMap
  <2>3. EditorSound(v, gone)
    BY <1>3, <2>1, <2>2
  <2> QED BY <2>1, <2>3
<1>7. EditorSound(editor', gone) /\ history' = history
  <2>1. \/ \E cols \in EditorLists, given \in GivenNames, unique \in BOOLEAN :
             CallEditor([editor EXCEPT !.indexes = Append(@, Entry(given, Index(cols, unique, FALSE)))])
        \/ \E name \in Keys(editor.indexes), to \in GivenNames :
             CallEditor(RenameIndexInEditor(editor, name, to))
        \/ \E name \in Keys(editor.indexes) :
             CallEditor([editor EXCEPT !.indexes = Delete(@, name)])
    BY Zenon DEF EditIndex
  <2>2. ASSUME NEW u, CallEditor(u), EditorSound(u, gone)
        PROVE  EditorSound(editor', gone) /\ history' = history
    BY <2>2 DEF CallEditor
  <2>3. /\ \A cols \in EditorLists, given \in GivenNames, unique \in BOOLEAN :
             EditorSound([editor EXCEPT !.indexes =
                            Append(@, Entry(given, Index(cols, unique, FALSE)))], gone)
        /\ \A name : \A to \in GivenNames : EditorSound(RenameIndexInEditor(editor, name, to), gone)
        /\ \A name : EditorSound([editor EXCEPT !.indexes = Delete(@, name)], gone)
    BY <1>1, <1>4, <1>5, <1>6
  <2> QED BY <2>1, <2>2, <2>3, Zenon
<1> QED BY <1>1, <1>7

LEMMA OneEntry ==
  ASSUME NEW given \in Name, NEW cols \in Seq(Columns)
  PROVE  /\ <<Entry(given, cols)>> \in ConstraintMap
         /\ \A x \in Range(<<Entry(given, cols)>>) : x.value = cols
<1>1. PICK y : y = Entry(given, cols)
  OBVIOUS
<1>2. y \in [key : Name, value : Seq(Columns)] /\ y.value = cols
  BY <1>1 DEF Entry
<1>3. <<y>> \in ConstraintMap
  BY <1>2 DEF ConstraintMap, MapOf
<1>4. Range(<<y>>) = {y}
  BY DEF Range
<1> QED BY <1>1, <1>2, <1>3, <1>4

LEMMA EditPrimaryKeyKeeps ==
  ASSUME IInv, EditPrimaryKey
  PROVE  EditorSound(editor, history.gone)'
<1>1. PICK e, gone : e = editor /\ gone = history.gone
  OBVIOUS
<1>2. /\ EditorSound(e, gone) /\ e \in EditorType /\ e.indexes \in MapOf(Name, IndexType)
  BY <1>1, EditorParts DEF IInv
<1>3. PICK is : is = Ordinary(e.indexes)
  OBVIOUS
<1>4. is \in MapOf(Name, IndexType) /\ Range(is) \subseteq Range(e.indexes)
  <2>1. PICK S : S = [key : Name, value : IndexType]
    OBVIOUS
  <2>2. e.indexes \in Seq(S)
    BY <1>2, <2>1 DEF MapOf
  <2>3. is \in Seq(S) /\ Range(is) = {x \in Range(e.indexes) : ~ x.value.primary}
    BY <1>3, <2>2, OrdinaryIs
  <2> QED BY <2>1, <2>3 DEF MapOf
<1>5. ASSUME NEW pk \in ConstraintMap,
             \A x \in Range(pk) : Range(x.value) \subseteq Keys(e.columns) \cup e.gone \cup gone
      PROVE  EditorSound([e EXCEPT !.indexes = Ordinary(@), !.primaryKey = pk], gone)
  <2>1. PICK u : u = [e EXCEPT !.indexes = is, !.primaryKey = pk]
    OBVIOUS
  <2>2. EditorSound(u, gone)
    BY <1>2, <1>4, <1>5, <2>1, WithIndexes
  <2> QED BY <1>3, <2>1, <2>2
<1>6. ASSUME NEW cols \in EditorLists, NEW given \in GivenNames \cup {Primary}
      PROVE  EditorSound([e EXCEPT !.indexes = Ordinary(@), !.primaryKey = <<Entry(given, cols)>>], gone)
  <2>1. given \in Name /\ cols \in Seq(Columns) /\ Range(cols) \subseteq Keys(e.columns)
    BY <1>1, EditorListsAre, GivenNamesAre
  <2>2. PICK pk : pk = <<Entry(given, cols)>>
    OBVIOUS
  <2>3. pk \in ConstraintMap /\ \A x \in Range(pk) : x.value = cols
    BY <2>1, <2>2, OneEntry
  <2>4. \A x \in Range(pk) : Range(x.value) \subseteq Keys(e.columns) \cup e.gone \cup gone
    BY <2>1, <2>3
  <2> QED BY <1>5, <2>2, <2>3, <2>4
<1>7. EditorSound([e EXCEPT !.indexes = Ordinary(@), !.primaryKey = <<>>], gone)
  <2>1. PICK none : none = <<>>
    OBVIOUS
  <2>2. none \in ConstraintMap /\ Range(none) = {}
    BY <2>1 DEF ConstraintMap, MapOf, Range
  <2> QED BY <1>5, <2>1, <2>2
<1>8. EditorSound(editor', gone) /\ history' = history
  <2>1. \/ \E cols \in EditorLists, given \in GivenNames \cup {Primary} :
             CallEditor([editor EXCEPT !.indexes = Ordinary(@), !.primaryKey = <<Entry(given, cols)>>])
        \/ CallEditor([editor EXCEPT !.indexes = Ordinary(@), !.primaryKey = <<>>])
    BY Zenon DEF EditPrimaryKey
  <2>2. ASSUME NEW u, CallEditor(u), EditorSound(u, gone)
        PROVE  EditorSound(editor', gone) /\ history' = history
    BY <2>2 DEF CallEditor
  <2>3. /\ \A cols \in EditorLists, given \in GivenNames \cup {Primary} :
             EditorSound([editor EXCEPT !.indexes = Ordinary(@),
                                        !.primaryKey = <<Entry(given, cols)>>], gone)
        /\ EditorSound([editor EXCEPT !.indexes = Ordinary(@), !.primaryKey = <<>>], gone)
    BY <1>1, <1>6, <1>7
  <2> QED BY <2>1, <2>2, <2>3, Zenon
<1> QED BY <1>1, <1>8

LEMMA EditConstraintKeeps ==
  ASSUME IInv, EditConstraint
  PROVE  EditorSound(editor, history.gone)'
<1>1. PICK e, gone : e = editor /\ gone = history.gone
  OBVIOUS
<1>2. /\ EditorSound(e, gone) /\ e \in EditorType
      /\ e.foreignKeys \in ConstraintMap /\ e.uniqueConstraints \in ConstraintMap
  BY <1>1, EditorParts DEF IInv
<1>3. ASSUME NEW fks \in ConstraintMap, NEW us \in ConstraintMap,
             \A x \in Range(fks) : \/ x \in Range(e.foreignKeys)
                                   \/ Range(x.value) \subseteq Keys(e.columns) \cup e.gone \cup gone,
             \A x \in Range(us) : \/ x \in Range(e.uniqueConstraints)
                                  \/ Range(x.value) \subseteq Keys(e.columns) \cup e.gone \cup gone
      PROVE  /\ us = e.uniqueConstraints => EditorSound([e EXCEPT !.foreignKeys = fks], gone)
             /\ fks = e.foreignKeys => EditorSound([e EXCEPT !.uniqueConstraints = us], gone)
  <2>1. PICK u : u = [e EXCEPT !.foreignKeys = fks, !.uniqueConstraints = us]
    OBVIOUS
  <2>2. EditorSound(u, gone)
    BY <1>2, <1>3, <2>1, WithConstraints
  <2>3. us = e.uniqueConstraints => u = [e EXCEPT !.foreignKeys = fks]
    BY <1>2, <2>1 DEF EditorType
  <2>4. fks = e.foreignKeys => u = [e EXCEPT !.uniqueConstraints = us]
    BY <1>2, <2>1 DEF EditorType
  <2> QED BY <2>2, <2>3, <2>4
<1>4. ASSUME NEW map \in ConstraintMap, NEW cols \in EditorLists, NEW given \in Name
      PROVE  /\ Append(map, Entry(given, cols)) \in ConstraintMap
             /\ \A x \in Range(Append(map, Entry(given, cols))) :
                  \/ x \in Range(map)
                  \/ Range(x.value) \subseteq Keys(e.columns) \cup e.gone \cup gone
  <2>1. cols \in Seq(Columns) /\ Range(cols) \subseteq Keys(e.columns)
    BY <1>1, EditorListsAre
  <2>2. PICK x, m : x = Entry(given, cols) /\ m = Append(map, x)
    OBVIOUS
  <2>3. x.value = cols
    BY <2>2 DEF Entry
  <2>4. m \in MapOf(Name, Seq(Columns)) /\ Range(m) = Range(map) \cup {x}
    BY <2>1, <2>2, AppendMap DEF ConstraintMap
  <2> QED BY <2>1, <2>2, <2>3, <2>4 DEF ConstraintMap
<1>5. ASSUME NEW map \in ConstraintMap, NEW name
      PROVE  Delete(map, name) \in ConstraintMap /\ Range(Delete(map, name)) \subseteq Range(map)
  BY DeleteMap DEF ConstraintMap
<1>6. ASSUME NEW cols \in EditorLists, NEW given \in Name
      PROVE  /\ EditorSound([e EXCEPT !.foreignKeys = Append(@, Entry(given, cols))], gone)
             /\ EditorSound([e EXCEPT !.uniqueConstraints = Append(@, Entry(given, cols))], gone)
  <2>1. PICK fks, us : /\ fks = Append(e.foreignKeys, Entry(given, cols))
                       /\ us = Append(e.uniqueConstraints, Entry(given, cols))
    OBVIOUS
  <2>2. /\ fks \in ConstraintMap
        /\ \A x \in Range(fks) : \/ x \in Range(e.foreignKeys)
                                 \/ Range(x.value) \subseteq Keys(e.columns) \cup e.gone \cup gone
    BY <1>2, <1>4, <2>1
  <2>3. /\ us \in ConstraintMap
        /\ \A x \in Range(us) : \/ x \in Range(e.uniqueConstraints)
                                \/ Range(x.value) \subseteq Keys(e.columns) \cup e.gone \cup gone
    BY <1>2, <1>4, <2>1
  <2>4. EditorSound([e EXCEPT !.foreignKeys = fks], gone)
    BY <1>2, <1>3, <2>2
  <2>5. EditorSound([e EXCEPT !.uniqueConstraints = us], gone)
    BY <1>2, <1>3, <2>3
  <2> QED BY <2>1, <2>4, <2>5
<1>7. ASSUME NEW name
      PROVE  /\ EditorSound([e EXCEPT !.foreignKeys = Delete(@, name)], gone)
             /\ EditorSound([e EXCEPT !.uniqueConstraints = Delete(@, name)], gone)
  <2>1. PICK fks, us : fks = Delete(e.foreignKeys, name) /\ us = Delete(e.uniqueConstraints, name)
    OBVIOUS
  <2>2. /\ fks \in ConstraintMap /\ \A x \in Range(fks) : x \in Range(e.foreignKeys)
        /\ us \in ConstraintMap /\ \A x \in Range(us) : x \in Range(e.uniqueConstraints)
    BY <1>2, <1>5, <2>1
  <2>4. EditorSound([e EXCEPT !.foreignKeys = fks], gone)
    BY <1>2, <1>3, <2>2
  <2>5. EditorSound([e EXCEPT !.uniqueConstraints = us], gone)
    BY <1>2, <1>3, <2>2
  <2> QED BY <2>1, <2>4, <2>5
<1>8. EditorSound(editor', gone) /\ history' = history
  <2>1. \/ \E cols \in EditorLists, given \in GivenNames \ Keys(editor.foreignKeys) :
             CallEditor([editor EXCEPT !.foreignKeys = Append(@, Entry(given, cols))])
        \/ \E name \in Keys(editor.foreignKeys) :
             CallEditor([editor EXCEPT !.foreignKeys = Delete(@, name)])
        \/ \E cols \in EditorLists,
              given \in {NoName} \cup (GivenNames \ Keys(editor.uniqueConstraints)) :
             CallEditor([editor EXCEPT !.uniqueConstraints = Append(@, Entry(given, cols))])
        \/ \E name \in Keys(editor.uniqueConstraints) \ {NoName} :
             CallEditor([editor EXCEPT !.uniqueConstraints = Delete(@, name)])
    BY Zenon DEF EditConstraint
  <2>2. ASSUME NEW u, CallEditor(u), EditorSound(u, gone)
        PROVE  EditorSound(editor', gone) /\ history' = history
    BY <2>2 DEF CallEditor
  <2>3. /\ \A cols \in EditorLists, given \in Name :
             EditorSound([editor EXCEPT !.foreignKeys = Append(@, Entry(given, cols))], gone)
        /\ \A cols \in EditorLists, given \in Name :
             EditorSound([editor EXCEPT !.uniqueConstraints = Append(@, Entry(given, cols))], gone)
        /\ \A name : EditorSound([editor EXCEPT !.foreignKeys = Delete(@, name)], gone)
        /\ \A name : EditorSound([editor EXCEPT !.uniqueConstraints = Delete(@, name)], gone)
    BY <1>1, <1>6, <1>7
  <2>4. /\ \A given \in GivenNames \ Keys(editor.foreignKeys) : given \in Name
        /\ \A given \in {NoName} \cup (GivenNames \ Keys(editor.uniqueConstraints)) : given \in Name
    BY GivenNamesAre
  <2> QED BY <2>1, <2>2, <2>3, <2>4, Zenon
<1> QED BY <1>1, <1>8

LEMMA OpenEditorKeeps ==
  ASSUME IInv, OpenEditor
  PROVE  EditorSound(editor, history.gone)'
<1>1. /\ table \in TableType /\ WellMade(table) /\ origin \in OriginType
      /\ Refers(table, Keys(table.columns) \cup history.gone)
  BY DEF IInv, TableInv, Consistent
<1>2. PICK e : e = [EditTable(table) EXCEPT !.origin = origin]
  OBVIOUS
<1>3. EditorSound(e, history.gone)
  BY <1>1, <1>2, EditTableIs
<1>4. editor' = e /\ history' = history
  BY <1>2 DEF OpenEditor
<1> QED BY <1>3, <1>4

(* A table put together refers to what its editor held. *)
LEMMA CreateKeeps ==
  ASSUME IInv, CreateFromEditor
  PROVE  IInv'
<1>1. PICK e, gone, made : e = editor /\ gone = history.gone /\ made = CreateTable(editor)
  OBVIOUS
<1>2. /\ EditorSound(e, gone) /\ e.gone \in SUBSET Columns /\ e.origin \in OriginType
  BY <1>1, EditorParts DEF IInv
<1>3. PICK cs : cs = Keys(e.columns) \cup e.gone \cup gone
  OBVIOUS
<1>4. made \in Making(e.columns, cs)
  BY <1>1, <1>2, <1>3, CreateTableIs DEF EditorSound
<1>5. editor' = NoEditor
  BY DEF CreateFromEditor
<1>6. EditorSound(editor, history.gone)'
  BY <1>5, NoEditorIs
<1>7. CASE made.threw
  <2>1. table' = table /\ origin' = origin /\ history' = history
    BY <1>1, <1>7, Zenon DEF CreateFromEditor
  <2> QED BY <1>6, <2>1 DEF IInv, TableInv
<1>8. CASE ~ made.threw
  <2>1. /\ table' = made.table
        /\ origin' = [c \in Columns |-> IF e.origin[c] = c THEN c ELSE NoColumn]
        /\ history' = [halfDone |-> FALSE, unindexed |-> FALSE, gone |-> gone \cup e.gone]
    BY <1>1, <1>8 DEF CreateFromEditor
  <2>2. /\ made.table \in TableType /\ WellMade(made.table) /\ made.table.columns = e.columns
        /\ Refers(made.table, cs) /\ IsIndexed(made.table) /\ KeyHeld(made.table)
    BY <1>4, <1>8 DEF Making, Outcome
  <2>3. gone \in SUBSET Columns
    BY <1>1 DEF IInv, TableInv, HistoryType
  <2>4. history' \in HistoryType /\ history'.gone = gone \cup e.gone
    BY <1>2, <2>1, <2>3 DEF HistoryType
  <2>5. origin' \in OriginType
    BY <2>1 DEF OriginType
  <2>6. Keys(made.table.columns) \cup history'.gone = cs
    BY <1>3, <2>2, <2>4
  <2>7. Consistent(made.table, history')
    BY <2>2, <2>6 DEF Consistent
  <2>8. TableInv'
    BY <2>1, <2>2, <2>4, <2>5, <2>7 DEF TableInv
  <2> QED BY <1>6, <2>8 DEF IInv
<1> QED BY <1>7, <1>8

LEMMA Initially ==
  ASSUME Init
  PROVE  IInv
<1>1. table \in OldTables /\ old = table
  BY DEF Init, TableInit
<1>2. /\ table \in TableType /\ WellMade(table)
      /\ Refers(table, Keys(table.columns)) /\ IsIndexed(table) /\ KeyAgrees(table)
  BY <1>1, OldTablesAssumption
<1>3. KeyHeld(table)
  BY <1>2, KeyAgreesIs
<1>4. history = [halfDone |-> FALSE, unindexed |-> FALSE, gone |-> {}]
  BY DEF Init, TableInit
<1>5. history \in HistoryType /\ history.gone = {}
  BY <1>4 DEF HistoryType
<1>6. origin \in OriginType
  BY DEF Init, TableInit, OriginType
<1>7. Keys(table.columns) \cup history.gone = Keys(table.columns)
  BY <1>5
<1>8. Consistent(table, history)
  BY <1>2, <1>3, <1>7 DEF Consistent
<1>9. EditorSound(editor, history.gone)
  BY NoEditorIs DEF Init
<1> QED BY <1>2, <1>5, <1>6, <1>8, <1>9 DEF IInv, TableInv

LEMMA Inductive ==
  ASSUME IInv, [Next]_vars
  PROVE  IInv'
<1>1. CASE UNCHANGED <<table, history, origin, editor>>
  BY <1>1 DEF IInv, TableInv
<1>2. CASE TableNext /\ UNCHANGED editor
  <2>1. TableInv' /\ history.gone \subseteq history'.gone
    BY <1>2, TableStepKeeps DEF IInv, TableStep
  <2>2. EditorSound(editor, history'.gone)
    BY <2>1, EditorSoundMore DEF IInv
  <2> QED BY <1>2, <2>1, <2>2 DEF IInv
<1>3. CASE EditorNext
  <2>1. CASE CreateFromEditor
    BY <2>1, CreateKeeps
  <2>2. CASE OpenEditor
    <3>1. UNCHANGED <<table, history, origin>>
      BY <2>2 DEF OpenEditor
    <3> QED BY <2>2, <3>1, OpenEditorKeeps DEF IInv, TableInv
  <2>3. ASSUME NEW u, CallEditor(u)
        PROVE  UNCHANGED <<table, history, origin>>
    BY <2>3 DEF CallEditor
  <2>4. CASE EditColumn
    <3>1. UNCHANGED <<table, history, origin>>
      BY <2>3, <2>4, Zenon DEF EditColumn
    <3> QED BY <2>4, <3>1, EditColumnKeeps DEF IInv, TableInv
  <2>5. CASE EditIndex
    <3>1. UNCHANGED <<table, history, origin>>
      BY <2>3, <2>5, Zenon DEF EditIndex
    <3> QED BY <2>5, <3>1, EditIndexKeeps DEF IInv, TableInv
  <2>6. CASE EditPrimaryKey
    <3>1. UNCHANGED <<table, history, origin>>
      BY <2>3, <2>6, Zenon DEF EditPrimaryKey
    <3> QED BY <2>6, <3>1, EditPrimaryKeyKeeps DEF IInv, TableInv
  <2>7. CASE EditConstraint
    <3>1. UNCHANGED <<table, history, origin>>
      BY <2>3, <2>7, Zenon DEF EditConstraint
    <3> QED BY <2>7, <3>1, EditConstraintKeeps DEF IInv, TableInv
  <2> QED BY <1>3, <2>1, <2>2, <2>4, <2>5, <2>6, <2>7 DEF EditorNext
<1>4. ASSUME Compare \/ ExecuteStatement \/ Interrupt \/ Finish \/ UNCHANGED vars
      PROVE  UNCHANGED <<table, history, origin, editor>>
  BY <1>4, Zenon DEF Compare, ExecuteStatement, Interrupt, Finish, vars, tableVars
<1>5. Edit => (TableNext /\ UNCHANGED editor) \/ EditorNext
  BY Zenon DEF Edit
<1> QED BY <1>1, <1>2, <1>3, <1>4, <1>5, Zenon DEF Next

(***************************************************************************)
(* The parts of a table stay in step through every sequence of calls of    *)
(* Table and TableEditor: what its indexes and constraints refer to are    *)
(* its columns, or columns that the application dropped or lost; foreign   *)
(* keys and unique constraints have their index and the primary key that   *)
(* is named is the one primary index, until a call throws half-way or, for *)
(* the former, the application drops an index.                             *)
(***************************************************************************)
THEOREM AlwaysTableConsistent == Spec => []TableConsistent
<1>1. Init => IInv
  BY Initially
<1>2. IInv /\ [Next]_vars => IInv'
  BY Inductive
<1>3. IInv => TableConsistent
  BY InvIsConsistent DEF IInv
<1> QED BY <1>1, <1>2, <1>3, PTL DEF Spec

-----------------------------------------------------------------------------
(* What create() gives back of a table that edit() took apart. *)

(* A table that can be given back. *)
IsWhole(t) ==
  t \in TableType /\ WellMade(t) /\ IsIndexed(t) /\ KeyHeld(t) /\ ColumnsOnce(t)

(* The first i entries of a map. *)
FirstOf(m, map, i) == Len(m) = i /\ \A j \in 1 .. i : m[j] = map[j]
Upto(map, i) == {map[j] : j \in 1 .. i}

(* What u has of t once the entries B of its indexes, i foreign keys and j *)
(* unique constraints were added; G is what it may have gained.            *)
Rebuilt(t, G, B, i, j, pk, u) ==
  /\ B \subseteq Range(u.indexes) /\ Range(u.indexes) \subseteq B \cup G
  /\ \A n \in 1 .. i : ServedByPrimaryKey(t, t.foreignKeys[n].value)
                         => GainedIndex(t.foreignKeys[n].value) \in Range(u.indexes)
  /\ FirstOf(u.foreignKeys, t.foreignKeys, i)
  /\ FirstOf(u.uniqueConstraints, t.uniqueConstraints, j)
  /\ u.primaryKeyName = pk

NameTaken(t, G) == \E x \in G : x.key \in Keys(t.indexes)

Rebuilds(t, G, B, i, j, pk, o) ==
  /\ o.threw => NameTaken(t, G)
  /\ ~ o.threw => Rebuilt(t, G, B, i, j, pk, o.table)

(* The next entry of a map is added behind the ones before it. *)
LEMMA NextOf ==
  ASSUME NEW K, NEW V, NEW map \in MapOf(K, V), Once(map), NEW i \in 1 .. Len(map),
         NEW m \in MapOf(K, V), FirstOf(m, map, i - 1), NEW x, x = map[i]
  PROVE  /\ x.key \notin Keys(m) /\ x.key \in K /\ x.value \in V /\ x \in Range(map)
         /\ x = Entry(x.key, x.value)
         /\ FirstOf(Put(m, x.key, x.value), map, i)
<1>1. PICK S : S = [key : K, value : V]
  OBVIOUS
<1>2. map \in Seq(S) /\ m \in Seq(S)
  BY <1>1 DEF MapOf
<1>3. PICK n \in Nat : Len(map) = n
  BY <1>2
<1>4. x \in S /\ x \in Range(map)
  BY <1>2, <1>3, Elements
<1>5. x.key \in K /\ x.value \in V /\ x = Entry(x.key, x.value)
  BY <1>1, <1>4 DEF Entry
<1>6. PICK l : l = i - 1 /\ l \in Nat /\ i = l + 1 /\ i \in Nat /\ i <= n
  BY <1>3
<1>7. /\ Len(m) = l /\ DOMAIN m = 1 .. l
      /\ \A j \in 1 .. l : m[j] = map[j]
  <2>1. Len(m) = l
    BY <1>6 DEF FirstOf
  <2>2. DOMAIN m = 1 .. Len(m)
    BY <1>2, Elements
  <2> QED BY <1>6, <2>1, <2>2 DEF FirstOf
<1>8. x.key \notin Keys(m)
  <2>1. SUFFICES ASSUME x.key \in Keys(m) PROVE FALSE
    OBVIOUS
  <2>2. PICK j \in 1 .. l : m[j].key = x.key
    BY <1>7, <2>1 DEF Keys, Range
  <2>3. map[j].key = map[i].key /\ j \in DOMAIN map /\ i \in DOMAIN map /\ j # i
    BY <1>2, <1>3, <1>6, <1>7, <2>2, Elements
  <2> QED BY <2>3 DEF Once
<1>9. PICK p : p = Put(m, x.key, x.value)
  OBVIOUS
<1>10. p = Append(m, x)
  BY <1>5, <1>8, <1>9 DEF Put
<1>11. /\ Len(p) = l + 1 /\ p[l + 1] = x
       /\ \A j \in 1 .. l : p[j] = m[j]
  BY <1>2, <1>4, <1>6, <1>7, <1>10, Appended
<1>12. \A j \in 1 .. i : p[j] = map[j]
  <2>1. ASSUME NEW j \in 1 .. i PROVE p[j] = map[j]
    <3>1. CASE j = i
      BY <3>1, <1>6, <1>11
    <3>2. CASE j # i
      <4>1. j \in 1 .. l
        BY <3>2, <1>6
      <4> QED BY <4>1, <1>7, <1>11
    <3> QED BY <3>1, <3>2
  <2> QED BY <2>1
<1> QED BY <1>4, <1>5, <1>6, <1>8, <1>9, <1>11, <1>12 DEF FirstOf

(* What an entry is made of. *)
LEMMA EntryKey ==
  ASSUME NEW k, NEW v
  PROVE  Entry(k, v).key = k /\ Entry(k, v).value = v
BY DEF Entry

LEMMA GainedIndexIs ==
  ASSUME NEW c, NEW pre, pre = <<"idx", "table">>
  PROVE  GainedIndex(c).key = pre \o c /\ GainedIndex(c).value = Index(c, FALSE, FALSE)
<1>1. PICK index : index = Index(c, FALSE, FALSE)
  OBVIOUS
<1>2. PICK k : k = pre \o c
  OBVIOUS
<1>3. GainedIndex(c) = Entry(k, index)
  BY <1>1, <1>2, Zenon DEF GainedIndex
<1>4. GainedIndex(c).key = k /\ GainedIndex(c).value = index
  BY <1>3, EntryKey
<1> QED BY <1>1, <1>2, <1>4, Zenon

LEMMA PrefixTells ==
  ASSUME NEW S, NEW pre \in Seq(S), NEW c \in Seq(S), NEW d \in Seq(S), pre \o c = pre \o d
  PROVE  c = d
<1>1. PICK p : p = pre \o c
  OBVIOUS
<1>2. PICK l \in Nat, m \in Nat, n \in Nat : Len(pre) = l /\ Len(c) = m /\ Len(d) = n
  OBVIOUS
<1>3. /\ Len(p) = Len(pre) + Len(c)
      /\ \A i \in 1 .. Len(pre) + Len(c) : p[i] = IF i <= Len(pre) THEN pre[i] ELSE c[i - Len(pre)]
  BY <1>1, ConcatProperties
<1>4. /\ Len(p) = Len(pre) + Len(d)
      /\ \A i \in 1 .. Len(pre) + Len(d) : p[i] = IF i <= Len(pre) THEN pre[i] ELSE d[i - Len(pre)]
  BY <1>1, ConcatProperties
<1>5. m = n
  BY <1>2, <1>3, <1>4
<1>6. ASSUME NEW i \in 1 .. m PROVE c[i] = d[i]
  <2>1. PICK j : j = i + l
    OBVIOUS
  <2>2. j \in 1 .. l + m /\ ~ j <= l /\ j - l = i
    BY <2>1, <1>2
  <2>3. p[j] = c[i]
    BY <2>2, <1>2, <1>3
  <2>4. p[j] = d[i]
    BY <2>2, <1>2, <1>4, <1>5
  <2> QED BY <2>3, <2>4
<1> QED BY <1>2, <1>5, <1>6

(* A generated name tells the columns it was generated from. *)
LEMMA NameTells ==
  ASSUME NEW c \in Seq(Columns), NEW d \in Seq(Columns),
         GainedIndex(c).key = GainedIndex(d).key
  PROVE  c = d
<1>1. PICK pre : pre = <<"idx", "table">>
  OBVIOUS
<1>2. PICK S : S = Columns \cup {pre[1], pre[2]}
  OBVIOUS
<1>3. pre \in Seq(S) /\ c \in Seq(S) /\ d \in Seq(S)
  BY <1>1, <1>2
<1>4. pre \o c = pre \o d
  BY <1>1, GainedIndexIs
<1> QED BY <1>3, <1>4, PrefixTells, Zenon

(* What create() has made so far, unless it threw: a sound table. *)
MadeSoFar(o) == o \in Outcome /\ (~ o.threw => WellMade(o.table))

LEMMA IndexGivenBack ==
  ASSUME NEW t, NEW map \in MapOf(Name, IndexType), Once(map), NEW i \in 1 .. Len(map),
         NEW x, x = map[i], x.key # NoName, ~ x.value.primary,
         Distinct(x.value.cols) = x.value.cols,
         NEW o, MadeSoFar(o), Rebuilds(t, {}, Upto(map, i - 1), 0, 0, NoName, o),
         NEW p, IsPart(p, "index", x)
  PROVE  Rebuilds(t, {}, Upto(map, i), 0, 0, NoName, Added(o, p))
<1>1. ~ o.threw
  BY DEF Rebuilds, NameTaken
<1>2. PICK u : u = o.table
  OBVIOUS
<1>3. u \in TableType /\ WellMade(u)
  BY <1>1, <1>2 DEF MadeSoFar, Outcome
<1>4. Rebuilt(t, {}, Upto(map, i - 1), 0, 0, NoName, u)
  BY <1>1, <1>2 DEF Rebuilds
<1>5. Range(u.indexes) = Upto(map, i - 1)
  BY <1>4 DEF Rebuilt
<1>6. PICK S : S = [key : Name, value : IndexType]
  OBVIOUS
<1>7. map \in Seq(S)
  BY <1>6 DEF MapOf
<1>8. PICK n \in Nat : Len(map) = n
  BY <1>7
<1>9. /\ DOMAIN map = 1 .. n /\ x \in S
  BY <1>7, <1>8, Elements
<1>10. PICK l : l = i - 1 /\ l \in Nat /\ i = l + 1 /\ i \in 1 .. n
  BY <1>8
<1>11. PICK name, index : name = x.key /\ index = x.value
  OBVIOUS
<1>12. name \in Names /\ index \in IndexType /\ x = Entry(name, index)
  <2>1. name \in Name /\ index \in IndexType /\ x = Entry(name, index)
    BY <1>6, <1>9, <1>11 DEF Entry
  <2> QED BY <2>1, <1>11 DEF Names
<1>13. name \notin Keys(u.indexes)
  <2>1. SUFFICES ASSUME NEW y \in Range(u.indexes), y.key = name PROVE FALSE
    BY DEF Keys
  <2>2. PICK j \in 1 .. l : y = map[j]
    BY <1>5, <1>10 DEF Upto
  <2>3. j \in DOMAIN map /\ i \in DOMAIN map /\ j # i
    BY <1>9, <1>10
  <2>4. map[j].key = map[i].key
    BY <2>1, <2>2, <1>11
  <2> QED BY <2>3, <2>4 DEF Once
<1>14. PICK a : a = AddIndexObject(u, name, index)
  OBVIOUS
<1>15. ~ a.threw /\ Grown(u, a.table, x)
  <2>1. /\ a.threw <=> name \in Keys(u.indexes)
        /\ ~ a.threw => Grown(u, a.table, Entry(name, index))
    BY <1>3, <1>11, <1>12, <1>14, AddIndexObjectIs
  <2> QED BY <2>1, <1>12, <1>13
<1>16. Added(o, p) = a
  <2>1. p.kind = "index" /\ p.name = name /\ p.value = index
    BY <1>11 DEF IsPart
  <2>2. AddPart(u, p) = a
    BY <2>1, <1>14, AddPartIs
  <2> QED BY <2>2, <1>1, <1>2 DEF Added
<1>17. Upto(map, i) = Upto(map, i - 1) \cup {x}
  <2>1. 1 .. i = (1 .. l) \cup {i}
    BY <1>10
  <2> QED BY <2>1, <1>10 DEF Upto
<1>18. PICK w : w = a.table
  OBVIOUS
<1>19. /\ Range(w.indexes) = Range(u.indexes) \cup {x}
       /\ w.foreignKeys = u.foreignKeys /\ w.uniqueConstraints = u.uniqueConstraints
       /\ w.primaryKeyName = u.primaryKeyName
  BY <1>11, <1>15, <1>18 DEF Grown
<1>20. Rebuilt(t, {}, Upto(map, i), 0, 0, NoName, w)
  BY <1>4, <1>5, <1>17, <1>19 DEF Rebuilt
<1> QED BY <1>15, <1>16, <1>18, <1>20 DEF Rebuilds

(* The entries of a table's indexes that edit() keeps as they are. *)
OrdinaryOf(t) == {x \in Range(t.indexes) : ~ x.value.primary}

(* A foreign key is served by what is there, or gains its index. *)
LEMMA ForeignKeyGivenBack ==
  ASSUME NEW t, IsWhole(t), NEW i \in 1 .. Len(t.foreignKeys), NEW x, x = t.foreignKeys[i],
         NEW o, MadeSoFar(o),
         Rebuilds(t, GainedIndexes(t), OrdinaryOf(t), i - 1, 0, NoName, o),
         NEW p, IsPart(p, "foreignKey", x)
  PROVE  Rebuilds(t, GainedIndexes(t), OrdinaryOf(t), i, 0, NoName, Added(o, p))
<1>1. PICK G, B : G = GainedIndexes(t) /\ B = OrdinaryOf(t)
  OBVIOUS
<1>2. CASE o.threw
  BY <1>2 DEF Added, Rebuilds
<1>3. CASE ~ o.threw
  <2>1. PICK u : u = o.table
    OBVIOUS
  <2>2. u \in TableType /\ WellMade(u)
    BY <1>3, <2>1 DEF MadeSoFar, Outcome
  <2>3. Rebuilt(t, G, B, i - 1, 0, NoName, u)
    BY <1>1, <1>3, <2>1 DEF Rebuilds
  <2>4. /\ t.foreignKeys \in MapOf(Name, Seq(Columns)) /\ Once(t.foreignKeys)
        /\ NoName \notin Keys(t.foreignKeys)
    BY TableParts, HasKeysIs DEF IsWhole, ConstraintMap
  <2>5. /\ u.foreignKeys \in MapOf(Name, Seq(Columns))
        /\ FirstOf(u.foreignKeys, t.foreignKeys, i - 1)
    BY <2>2, <2>3, TableParts DEF Rebuilt, ConstraintMap
  <2>6. PICK name, cols : name = x.key /\ cols = x.value
    OBVIOUS
  <2>7. PICK m : m = Put(u.foreignKeys, name, cols)
    OBVIOUS
  <2>8. /\ name \in Name /\ cols \in Seq(Columns) /\ x \in Range(t.foreignKeys)
        /\ FirstOf(m, t.foreignKeys, i)
    BY <2>4, <2>5, <2>6, <2>7, NextOf
  <2>9. name # NoName
    BY <2>4, <2>6, <2>8 DEF Keys
  <2>10. PICK v : v = [u EXCEPT !.foreignKeys = m]
    OBVIOUS
  <2>11. m \in ConstraintMap /\ HasKeys(m)
    BY <2>2, <2>7, <2>8, <2>9, TableParts, PutConstraint DEF Names
  <2>12. /\ v \in TableType /\ v.foreignKeys = m /\ v.uniqueConstraints = u.uniqueConstraints
         /\ v.indexes = u.indexes /\ v.primaryKeyName = u.primaryKeyName
    BY <2>2, <2>10, <2>11 DEF TableType
  <2>13. WellMade(v)
    BY <2>2, <2>11, <2>12, Zenon DEF WellMade
  <2>14. PICK a : a = AddImplicitForeignKeyIndex(v, cols)
    OBVIOUS
  <2>15. Added(o, p) = a
    <3>1. p.kind = "foreignKey" /\ p.name = name /\ p.value = cols
      BY <2>6 DEF IsPart
    <3>2. AddPart(u, p) = AddForeignKeyConstraint(u, cols, name)
      BY <3>1, AddPartIs
    <3>3. AddForeignKeyConstraint(u, cols, name) = a
      BY <2>7, <2>9, <2>10, <2>14, Zenon DEF AddForeignKeyConstraint, Named
    <3> QED BY <3>2, <3>3, <1>3, <2>1 DEF Added
  <2>16. Distinct(cols) = cols
    BY <2>6, <2>8 DEF IsWhole, ColumnsOnce, Values
  <2>17. /\ B \subseteq Range(u.indexes) /\ Range(u.indexes) \subseteq B \cup G
         /\ \A n \in 1 .. i - 1 : ServedByPrimaryKey(t, t.foreignKeys[n].value)
              => GainedIndex(t.foreignKeys[n].value) \in Range(u.indexes)
         /\ FirstOf(u.uniqueConstraints, t.uniqueConstraints, 0)
         /\ u.primaryKeyName = NoName
    BY <2>3 DEF Rebuilt
  <2>18. PICK g, index, gname : /\ g = GainedIndex(cols) /\ index = Index(cols, FALSE, FALSE)
                                /\ gname = <<"idx", "table">> \o cols
    OBVIOUS
  <2>19. /\ g.key = gname /\ g.value = index /\ g = Entry(gname, index)
         /\ index \in IndexType /\ index.cols = cols
         /\ index.unique = FALSE /\ index.primary = FALSE
    <3>1. g = Entry(gname, index)
      BY <2>18, Zenon DEF GainedIndex
    <3>2. /\ index \in IndexType /\ index.cols = cols
          /\ index.unique = FALSE /\ index.primary = FALSE
      BY <2>8, <2>16, <2>18, IndexIs
    <3> QED BY <3>1, <3>2, EntryKey
  <2>20. ASSUME ServedByPrimaryKey(t, cols) PROVE g \in G
    BY <2>20, <2>6, <2>8, <2>18, <1>1, Zenon DEF GainedIndexes, Values
  <2>21. ASSUME NEW y \in G
         PROVE  \E c \in Seq(Columns) : y = GainedIndex(c) /\ Distinct(c) = c
    <3>1. PICK c \in Values(t.foreignKeys) : y = GainedIndex(c)
      BY <1>1, Zenon DEF GainedIndexes
    <3>2. PICK z \in Range(t.foreignKeys) : c = z.value
      BY DEF Values
    <3>3. z \in [key : Name, value : Seq(Columns)]
      BY <2>4, Elements DEF MapOf
    <3>4. Distinct(c) = c
      BY DEF IsWhole, ColumnsOnce
    <3> QED BY <3>1, <3>2, <3>3, <3>4
  <2>23. \A y : IsFulfilledBy(index, y) <=> y.cols = cols
    BY <2>19 DEF IsFulfilledBy
  <2>24. ServedByPrimaryKey(t, cols) <=>
           /\ \E y \in Range(t.indexes) : y.value.cols = cols
           /\ \A y \in Range(t.indexes) : y.value.cols = cols => y.value.primary
    BY <2>18, <2>23 DEF ServedByPrimaryKey, Values
  <2>25. ASSUME NEW w, B \subseteq Range(w.indexes), Range(w.indexes) \subseteq B \cup G,
                Range(u.indexes) \subseteq Range(w.indexes),
                ServedByPrimaryKey(t, cols) => g \in Range(w.indexes),
                w.foreignKeys = m, w.uniqueConstraints = u.uniqueConstraints,
                w.primaryKeyName = NoName
         PROVE  Rebuilt(t, G, B, i, 0, NoName, w)
    <3>1. ASSUME NEW n \in 1 .. i, ServedByPrimaryKey(t, t.foreignKeys[n].value)
          PROVE  GainedIndex(t.foreignKeys[n].value) \in Range(w.indexes)
      <4>1. CASE n = i
        BY <4>1, <3>1, <2>6, <2>18, <2>25, Zenon
      <4>2. CASE n # i
        <5>1. t.foreignKeys \in Seq([key : Name, value : Seq(Columns)])
          BY <2>4 DEF MapOf
        <5>2. n \in 1 .. i - 1
          BY <4>2, <5>1
        <5> QED BY <5>2, <3>1, <2>17, <2>25
      <4> QED BY <4>1, <4>2
    <3> QED BY <3>1, <2>8, <2>17, <2>25 DEF Rebuilt
  <2>26. CASE \E y \in Values(v.indexes) : IsFulfilledBy(index, y)
    <3>1. a = Returns(v)
      BY <2>14, <2>18, <2>26, Zenon DEF AddImplicitForeignKeyIndex
    <3>2. a.threw = FALSE /\ a.table = v
      BY <3>1, <2>12, OutcomeIs
    <3>3. PICK y \in Range(u.indexes) : y.value.cols = cols
      BY <2>12, <2>23, <2>26 DEF Values
    <3>4. ASSUME ServedByPrimaryKey(t, cols) PROVE g \in Range(u.indexes)
      <4>1. y \notin B
        BY <3>3, <3>4, <2>24, <1>1 DEF OrdinaryOf
      <4>2. PICK c \in Seq(Columns) : y = GainedIndex(c) /\ Distinct(c) = c
        BY <4>1, <2>17, <2>21
      <4>3. y.value.cols = c
        <5>1. y.value = Index(c, FALSE, FALSE)
          BY <4>2, EntryKey DEF GainedIndex
        <5>2. y.value.cols = Distinct(c)
          BY <5>1 DEF Index
        <5> QED BY <5>2, <4>2
      <4> QED BY <4>2, <4>3, <3>3, <2>18
    <3>5. Rebuilt(t, G, B, i, 0, NoName, v)
      BY <3>4, <2>12, <2>17, <2>25
    <3> QED BY <3>2, <3>5, <2>15, <1>1 DEF Rebuilds
  <2>27. CASE ~ \E y \in Values(v.indexes) : IsFulfilledBy(index, y)
    <3>1. \A y \in Range(u.indexes) : y.value.cols # cols
      BY <2>12, <2>23, <2>27 DEF Values
    <3>2. ServedByPrimaryKey(t, cols)
      <4>1. \E y \in Range(t.indexes) : y.value.cols = cols
        <5>1. \A z \in Range(t.foreignKeys) :
                \E y \in Range(t.indexes) : y.value.cols = Distinct(z.value)
          BY IsIndexedIs DEF IsWhole
        <5> QED BY <5>1, <2>6, <2>8, <2>16
      <4>2. ASSUME NEW y \in Range(t.indexes), y.value.cols = cols PROVE y.value.primary
        BY <4>2, <3>1, <2>17, <1>1 DEF OrdinaryOf
      <4> QED BY <4>1, <4>2, <2>24
    <3>3. g \in G
      BY <3>2, <2>20
    <3>4. a = AddIndexObject(v, gname, index)
      <4>1. a = AddIndex(v, cols, NoName)
        BY <2>14, <2>18, <2>27, Zenon DEF AddImplicitForeignKeyIndex
      <4> QED BY <4>1, <2>18, Zenon DEF AddIndex, Named
    <3>5. gname \in Names
      <4>1. NoName \in Name
        BY DEF NoName, Name
      <4>2. Named(NoName, <<"idx", "table">> \o cols) \in Names
        BY <4>1, <2>8, NameIs
      <4> QED BY <4>2, <2>18, Zenon DEF Named
    <3>6. /\ a.threw <=> gname \in Keys(v.indexes)
          /\ ~ a.threw => Grown(v, a.table, Entry(gname, index))
      <4>1. Distinct(index.cols) = index.cols /\ ~ index.primary
        BY <2>16, <2>19
      <4> QED BY <4>1, <3>4, <3>5, <2>12, <2>13, <2>19, AddIndexObjectIs
    <3>7. CASE a.threw
      <4>1. PICK y \in Range(u.indexes) : y.key = gname
        BY <3>6, <3>7, <2>12 DEF Keys
      <4>2. y \notin G
        <5>1. SUFFICES ASSUME y \in G PROVE FALSE
          OBVIOUS
        <5>2. PICK c \in Seq(Columns) : y = GainedIndex(c)
          BY <5>1, <2>21
        <5>3. c = cols
          BY <5>2, <4>1, <2>8, <2>18, <2>19, NameTells
        <5> QED BY <5>2, <5>3, <3>1, <2>18, <2>19
      <4>3. y \in Range(t.indexes)
        BY <4>2, <2>17, <1>1 DEF OrdinaryOf
      <4>4. g.key \in Keys(t.indexes)
        BY <4>1, <4>3, <2>19 DEF Keys
      <4> QED BY <4>4, <3>3, <3>7, <2>15, <1>1 DEF Rebuilds, NameTaken
    <3>8. CASE ~ a.threw
      <4>1. PICK w : w = a.table
        OBVIOUS
      <4>2. /\ Range(w.indexes) = Range(u.indexes) \cup {g}
            /\ w.foreignKeys = m /\ w.uniqueConstraints = u.uniqueConstraints
            /\ w.primaryKeyName = NoName
        BY <3>6, <3>8, <4>1, <2>12, <2>17, <2>19 DEF Grown
      <4>3. Rebuilt(t, G, B, i, 0, NoName, w)
        BY <4>2, <3>3, <2>17, <2>25
      <4> QED BY <4>1, <4>3, <3>8, <2>15, <1>1 DEF Rebuilds
    <3> QED BY <3>7, <3>8
  <2> QED BY <2>26, <2>27
<1> QED BY <1>2, <1>3

(* What edit() keeps of the primary key. *)
KeyEntry(t) == Entry(t.primaryKeyName, Get(t.indexes, t.primaryKeyName).cols)

LEMMA PrimaryKeyGivenBack ==
  ASSUME NEW t, IsWhole(t), HasPrimaryKey(t), NEW i, NEW o, MadeSoFar(o),
         Rebuilds(t, GainedIndexes(t), OrdinaryOf(t), i, 0, NoName, o),
         NEW p, IsPart(p, "primaryKey", KeyEntry(t))
  PROVE  Rebuilds(t, GainedIndexes(t), Range(t.indexes), i, 0, t.primaryKeyName, Added(o, p))
<1>1. PICK G, B : G = GainedIndexes(t) /\ B = OrdinaryOf(t)
  OBVIOUS
<1>2. CASE o.threw
  BY <1>2 DEF Added, Rebuilds
<1>3. CASE ~ o.threw
  <2>1. PICK u : u = o.table
    OBVIOUS
  <2>2. u \in TableType /\ WellMade(u)
    BY <1>3, <2>1 DEF MadeSoFar, Outcome
  <2>3. Rebuilt(t, G, B, i, 0, NoName, u)
    BY <1>1, <1>3, <2>1 DEF Rebuilds
  <2>4. /\ B \subseteq Range(u.indexes) /\ Range(u.indexes) \subseteq B \cup G
        /\ u.primaryKeyName = NoName
    BY <2>3 DEF Rebuilt
  <2>5. /\ Once(t.indexes) /\ NoName \notin Keys(t.indexes)
        /\ \A x \in Range(t.indexes) :
             /\ Distinct(x.value.cols) = x.value.cols
             /\ x.value.primary => x.key = t.primaryKeyName /\ x.value.unique
    BY WellMadeIs DEF IsWhole
  <2>6. PICK q \in Range(t.indexes) : /\ q.key = t.primaryKeyName
                                      /\ q.value = Get(t.indexes, t.primaryKeyName)
    BY GetIs DEF HasPrimaryKey
  <2>7. PICK name, cols : name = q.key /\ cols = q.value.cols
    OBVIOUS
  <2>8. q \in [key : Name, value : IndexType]
    <3>1. t.indexes \in Seq([key : Name, value : IndexType])
      BY TableParts DEF IsWhole, MapOf
    <3> QED BY <3>1, Elements
  <2>9. /\ name \in Names /\ name \in Name /\ cols \in Seq(Columns)
    <3>1. name \in Name /\ cols \in Seq(Columns)
      BY <2>7, <2>8 DEF IndexType
    <3>2. name # NoName
      BY <2>5, <2>7 DEF Keys
    <3> QED BY <3>1, <3>2 DEF Names
  <2>10. q.value.primary
    <3>1. PICK r \in Range(t.indexes) : r.key = t.primaryKeyName /\ r.value.primary
      BY <2>6, <2>7, <2>9 DEF IsWhole, KeyHeld, Names
    <3>2. r = q
      BY <3>1, <2>5, <2>6, OnlyOne
    <3> QED BY <3>1, <3>2
  <2>11. PICK index : index = Index(cols, TRUE, TRUE)
    OBVIOUS
  <2>12. /\ index \in IndexType /\ index.cols = cols /\ index.unique = TRUE
         /\ index.primary = TRUE
    <3>1. /\ index \in IndexType /\ index.cols = Distinct(cols) /\ index.unique = TRUE
          /\ index.primary = TRUE
      BY <2>9, <2>11, IndexIs
    <3>2. Distinct(cols) = cols
      BY <2>5, <2>7
    <3> QED BY <3>1, <3>2
  <2>13. q.value = index
    <3>1. q.value.cols = cols /\ q.value.unique = TRUE /\ q.value.primary = TRUE
      <4>1. q.value.unique \in BOOLEAN /\ q.value.primary \in BOOLEAN
        BY <2>8 DEF IndexType
      <4> QED BY <4>1, <2>5, <2>7, <2>10
    <3> QED BY <3>1, <2>8, <2>12 DEF IndexType
  <2>14. q = Entry(name, index)
    BY <2>7, <2>8, <2>13 DEF Entry
  <2>15. Range(t.indexes) = B \cup {q}
    <3>1. ASSUME NEW x \in Range(t.indexes), x.value.primary PROVE x = q
      BY <3>1, <2>5, <2>6, OnlyOne
    <3> QED BY <3>1, <1>1 DEF OrdinaryOf
  <2>16. PICK v : v = [u EXCEPT !.primaryKeyName = name]
    OBVIOUS
  <2>17. /\ v \in TableType /\ SameParts(u, v) /\ v.primaryKeyName = name
    BY <2>2, <2>9, <2>16 DEF TableType, SameParts
  <2>18. NoName \notin Keys(u.indexes) /\ \A x \in Range(u.indexes) : ~ x.value.primary
    <3>1. /\ NoName \notin Keys(u.indexes)
          /\ \A x \in Range(u.indexes) : x.value.primary => x.key = NoName
      BY <2>2, <2>4, WellMadeIs
    <3> QED BY <3>1 DEF Keys
  <2>19. WellMade(v)
    BY <2>2, <2>17, <2>18, WellMadeIs DEF SameParts
  <2>20. PICK a : a = AddIndexObject(v, name, index)
    OBVIOUS
  <2>21. Added(o, p) = a
    <3>1. p.kind = "primaryKey" /\ p.name = name /\ p.value = cols
      BY <2>6, <2>7, EntryKey DEF IsPart, KeyEntry
    <3>2. AddPart(u, p) = SetPrimaryKey(u, cols, name)
      BY <3>1, AddPartIs
    <3>3. ~ HasPrimaryKey(u)
      BY <2>4, <2>18 DEF HasPrimaryKey
    <3>4. SetPrimaryKey(u, cols, name) = a
      <4>1. Named(name, Primary) = name
        BY <2>9 DEF Named, Names
      <4> QED BY <4>1, <3>3, <2>11, <2>16, <2>20, Zenon DEF SetPrimaryKey
    <3> QED BY <3>2, <3>4, <1>3, <2>1 DEF Added
  <2>22. /\ a.threw <=> name \in Keys(v.indexes)
         /\ ~ a.threw => Grown(v, a.table, q)
    <3>1. /\ Distinct(index.cols) = index.cols
          /\ index.primary => index.unique /\ \A x \in Range(v.indexes) : ~ x.value.primary
      BY <2>5, <2>7, <2>12, <2>17, <2>18 DEF SameParts
    <3> QED BY <3>1, <2>9, <2>12, <2>14, <2>17, <2>19, <2>20, AddIndexObjectIs
  <2>23. CASE a.threw
    <3>1. PICK x \in Range(u.indexes) : x.key = name
      BY <2>17, <2>22, <2>23 DEF SameParts, Keys
    <3>2. x \notin B
      <4>1. SUFFICES ASSUME x \in B PROVE FALSE
        OBVIOUS
      <4>2. x \in Range(t.indexes) /\ ~ x.value.primary
        BY <4>1, <1>1 DEF OrdinaryOf
      <4>3. x = q
        BY <4>2, <3>1, <2>5, <2>7, OnlyOne
      <4> QED BY <4>2, <4>3, <2>10
    <3>3. x \in G /\ x.key \in Keys(t.indexes)
      BY <3>1, <3>2, <2>4, <2>7 DEF Keys
    <3> QED BY <3>3, <2>21, <2>23, <1>1 DEF Rebuilds, NameTaken
  <2>24. CASE ~ a.threw
    <3>1. PICK w : w = a.table
      OBVIOUS
    <3>2. /\ Range(w.indexes) = Range(u.indexes) \cup {q}
          /\ w.foreignKeys = u.foreignKeys /\ w.uniqueConstraints = u.uniqueConstraints
          /\ w.primaryKeyName = t.primaryKeyName
      BY <2>6, <2>10, <2>17, <2>22, <2>24, <3>1 DEF Grown, SameParts
    <3>3. Rebuilt(t, G, Range(t.indexes), i, 0, t.primaryKeyName, w)
      BY <3>2, <2>3, <2>15 DEF Rebuilt
    <3> QED BY <3>1, <3>3, <2>21, <2>24, <1>1 DEF Rebuilds
  <2> QED BY <2>23, <2>24
<1> QED BY <1>2, <1>3

(* A unique constraint finds its index. *)
LEMMA UniqueGivenBack ==
  ASSUME NEW t, IsWhole(t), NEW i \in 1 .. Len(t.uniqueConstraints),
         NEW x, x = t.uniqueConstraints[i], NEW o, MadeSoFar(o), NEW n, NEW pk,
         Rebuilds(t, GainedIndexes(t), Range(t.indexes), n, i - 1, pk, o),
         NEW p, IsPart(p, "unique", x)
  PROVE  Rebuilds(t, GainedIndexes(t), Range(t.indexes), n, i, pk, Added(o, p))
<1>1. PICK G, B : G = GainedIndexes(t) /\ B = Range(t.indexes)
  OBVIOUS
<1>2. CASE o.threw
  BY <1>2 DEF Added, Rebuilds
<1>3. CASE ~ o.threw
  <2>1. PICK u : u = o.table
    OBVIOUS
  <2>2. u \in TableType /\ WellMade(u)
    BY <1>3, <2>1 DEF MadeSoFar, Outcome
  <2>3. Rebuilt(t, G, B, n, i - 1, pk, u)
    BY <1>1, <1>3, <2>1 DEF Rebuilds
  <2>4. /\ t.uniqueConstraints \in MapOf(Name, Seq(Columns)) /\ Once(t.uniqueConstraints)
        /\ NoName \notin Keys(t.uniqueConstraints)
    BY TableParts, HasKeysIs DEF IsWhole, ConstraintMap
  <2>5. /\ u.uniqueConstraints \in MapOf(Name, Seq(Columns))
        /\ FirstOf(u.uniqueConstraints, t.uniqueConstraints, i - 1)
    BY <2>2, <2>3, TableParts DEF Rebuilt, ConstraintMap
  <2>6. PICK name, cols : name = x.key /\ cols = x.value
    OBVIOUS
  <2>7. PICK m : m = Put(u.uniqueConstraints, name, cols)
    OBVIOUS
  <2>8. /\ name \in Name /\ cols \in Seq(Columns) /\ x \in Range(t.uniqueConstraints)
        /\ name \notin Keys(u.uniqueConstraints)
        /\ FirstOf(m, t.uniqueConstraints, i)
    BY <2>4, <2>5, <2>6, <2>7, NextOf
  <2>9. name # NoName
    BY <2>4, <2>6, <2>8 DEF Keys
  <2>10. PICK v : v = [u EXCEPT !.uniqueConstraints = m]
    OBVIOUS
  <2>11. m \in ConstraintMap
    BY <2>2, <2>7, <2>8, <2>9, TableParts, PutConstraint DEF Names
  <2>12. /\ v \in TableType /\ v.uniqueConstraints = m /\ v.foreignKeys = u.foreignKeys
         /\ v.indexes = u.indexes /\ v.primaryKeyName = u.primaryKeyName
    BY <2>2, <2>10, <2>11 DEF TableType
  <2>13. IsBacked(u, cols)
    <3>1. Distinct(cols) = cols
      BY <2>6, <2>8 DEF IsWhole, ColumnsOnce, Values
    <3>2. \A z \in Range(t.uniqueConstraints) :
            \E y \in Range(t.indexes) : y.value.unique /\ y.value.cols = Distinct(z.value)
      BY IsIndexedIs DEF IsWhole
    <3>3. PICK y \in Range(t.indexes) : y.value.unique /\ y.value.cols = cols
      BY <3>1, <3>2, <2>6, <2>8
    <3>4. y \in Range(u.indexes)
      BY <2>3, <1>1 DEF Rebuilt
    <3> QED BY <3>3, <3>4 DEF IsBacked, Values
  <2>14. Added(o, p) = Returns(v)
    <3>1. p.kind = "unique" /\ p.name = name /\ p.value = cols
      BY <2>6 DEF IsPart
    <3>2. AddPart(u, p) = AddUniqueConstraint(u, cols, name)
      BY <3>1, AddPartIs
    <3>3. Named(name, <<"uniq">> \o cols) = name
      BY <2>9, Zenon DEF Named
    <3>4. AddUniqueConstraint(u, cols, name) = Returns(v)
      BY <3>3, <2>7, <2>8, <2>10, <2>13, Zenon DEF AddUniqueConstraint
    <3> QED BY <3>2, <3>4, <1>3, <2>1 DEF Added
  <2>15. Rebuilt(t, G, B, n, i, pk, v)
    BY <2>3, <2>8, <2>12 DEF Rebuilt
  <2>16. Returns(v).threw = FALSE /\ Returns(v).table = v
    BY <2>12, OutcomeIs
  <2> QED BY <2>14, <2>15, <2>16, <1>1 DEF Rebuilds
<1> QED BY <1>2, <1>3

(* What edit() has taken apart. *)
LEMMA TakenApart ==
  ASSUME NEW t, IsWhole(t), NEW e, e = EditTable(t)
  PROVE  /\ e.columns = t.columns /\ e.foreignKeys = t.foreignKeys
         /\ e.uniqueConstraints = t.uniqueConstraints
         /\ e.indexes \in MapOf(Name, IndexType) /\ Once(e.indexes)
         /\ Range(e.indexes) = OrdinaryOf(t)
         /\ HasPrimaryKey(t) => e.primaryKey = <<KeyEntry(t)>>
         /\ ~ HasPrimaryKey(t) => /\ e.primaryKey = <<>> /\ t.primaryKeyName = NoName
                                  /\ OrdinaryOf(t) = Range(t.indexes)
<1>1. PICK is : is = IF HasPrimaryKey(t) THEN Ordinary(t.indexes) ELSE t.indexes
  OBVIOUS
<1>2. PICK pk : pk = IF HasPrimaryKey(t)
                     THEN <<Entry(t.primaryKeyName, Get(t.indexes, t.primaryKeyName).cols)>>
                     ELSE <<>>
  OBVIOUS
<1>3. /\ e.columns = t.columns /\ e.indexes = is /\ e.primaryKey = pk
      /\ e.foreignKeys = t.foreignKeys /\ e.uniqueConstraints = t.uniqueConstraints
  BY <1>1, <1>2 DEF EditTable, NoEditor
<1>4. t.indexes \in Seq([key : Name, value : IndexType])
  BY TableParts DEF IsWhole, MapOf
<1>5. Once(t.indexes) /\ \A x \in Range(t.indexes) : x.value.primary => x.key = t.primaryKeyName
  BY WellMadeIs DEF IsWhole
<1>6. CASE HasPrimaryKey(t)
  <2>1. /\ Ordinary(t.indexes) \in Seq([key : Name, value : IndexType])
        /\ Range(Ordinary(t.indexes)) = OrdinaryOf(t)
        /\ Once(Ordinary(t.indexes))
    BY <1>4, <1>5, OrdinaryIs DEF OrdinaryOf
  <2> QED BY <1>1, <1>2, <1>3, <1>6, <2>1 DEF MapOf, KeyEntry
<1>7. CASE ~ HasPrimaryKey(t)
  <2>1. \A x \in Range(t.indexes) : x.key # t.primaryKeyName
    BY <1>7 DEF HasPrimaryKey, Keys
  <2>2. OrdinaryOf(t) = Range(t.indexes)
    BY <2>1, <1>5 DEF OrdinaryOf
  <2>3. t.primaryKeyName = NoName
    BY <2>1 DEF IsWhole, KeyHeld
  <2> QED BY <1>1, <1>2, <1>3, <1>4, <1>5, <1>7, <2>2, <2>3 DEF MapOf
<1> QED BY <1>6, <1>7

(* The bare table has nothing yet. *)
LEMMA BareGivenBack ==
  ASSUME NEW t, NEW map, NEW o, o = Returns(Bare(t.columns))
  PROVE  Rebuilds(t, {}, Upto(map, 0), 0, 0, NoName, o)
<1>1. PICK u : u = Bare(t.columns)
  OBVIOUS
<1>2. /\ u.indexes = <<>> /\ u.foreignKeys = <<>> /\ u.uniqueConstraints = <<>>
      /\ u.primaryKeyName = NoName
  BY <1>1 DEF Bare
<1>3. o.table = u /\ o.threw = FALSE
  BY <1>1 DEF Returns
<1>4. Range(<<>>) = {} /\ Upto(map, 0) = {}
  BY DEF Range, Upto
<1>5. \A m : FirstOf(<<>>, m, 0)
  BY DEF FirstOf
<1>6. Rebuilt(t, {}, Upto(map, 0), 0, 0, NoName, u)
  BY <1>2, <1>4, <1>5 DEF Rebuilt
<1> QED BY <1>3, <1>6 DEF Rebuilds

(* A map whose first entries are all of another is that other.             *)
LEMMA FirstOfAll ==
  ASSUME NEW S, NEW map \in Seq(S), NEW m \in Seq(S), FirstOf(m, map, Len(map))
  PROVE  m = map
BY DEF FirstOf

LEMMA GivenBackWhole ==
  ASSUME NEW t, IsWhole(t), NEW u \in TableType, NEW i, Len(t.foreignKeys) = i,
         NEW j, Len(t.uniqueConstraints) = j,
         Rebuilt(t, GainedIndexes(t), Range(t.indexes), i, j, t.primaryKeyName, u)
  PROVE  /\ u.foreignKeys = t.foreignKeys
         /\ u.uniqueConstraints = t.uniqueConstraints
         /\ u.primaryKeyName = t.primaryKeyName
         /\ Range(u.indexes) = Range(t.indexes) \cup GainedIndexes(t)
<1>1. PICK S : S = [key : Name, value : Seq(Columns)]
  OBVIOUS
<1>2. /\ t.foreignKeys \in Seq(S) /\ t.uniqueConstraints \in Seq(S)
      /\ u.foreignKeys \in Seq(S) /\ u.uniqueConstraints \in Seq(S)
  BY <1>1 DEF IsWhole, TableType, ConstraintMap, MapOf
<1>3. /\ FirstOf(u.foreignKeys, t.foreignKeys, Len(t.foreignKeys))
      /\ FirstOf(u.uniqueConstraints, t.uniqueConstraints, Len(t.uniqueConstraints))
  BY DEF Rebuilt
<1>4. u.foreignKeys = t.foreignKeys /\ u.uniqueConstraints = t.uniqueConstraints
  BY <1>2, <1>3, FirstOfAll
<1>5. ASSUME NEW x \in GainedIndexes(t) PROVE x \in Range(u.indexes)
  <2>1. PICK c \in Values(t.foreignKeys) : ServedByPrimaryKey(t, c) /\ x = GainedIndex(c)
    BY Zenon DEF GainedIndexes
  <2>2. PICK z \in Range(t.foreignKeys) : c = z.value
    BY DEF Values
  <2>3. PICK n \in 1 .. i : z = t.foreignKeys[n]
    BY <1>2, <2>2, Elements
  <2> QED BY <2>1, <2>2, <2>3 DEF Rebuilt
<1> QED BY <1>4, <1>5 DEF Rebuilt

LEMMA GivenBack ==
  ASSUME NEW t, IsWhole(t), t.columns # <<>>, NEW gone, Refers(t, Keys(t.columns) \cup gone)
  PROVE  IsGivenBack(t)
<1>1. PICK e : e = EditTable(t)
  OBVIOUS
<1>2. PICK G, B, pkn : /\ G = GainedIndexes(t) /\ B = OrdinaryOf(t) /\ pkn = t.primaryKeyName
  OBVIOUS
<1>3. /\ e.columns = t.columns /\ e.foreignKeys = t.foreignKeys
      /\ e.uniqueConstraints = t.uniqueConstraints
      /\ e.indexes \in MapOf(Name, IndexType) /\ Once(e.indexes)
      /\ Range(e.indexes) = B
      /\ HasPrimaryKey(t) => e.primaryKey = <<KeyEntry(t)>>
      /\ ~ HasPrimaryKey(t) => e.primaryKey = <<>> /\ pkn = NoName /\ B = Range(t.indexes)
  BY <1>1, <1>2, TakenApart
<1>4. PICK cs : EditorHolds(e, cs)
  <2>1. PICK origin0 : origin0 = [x \in Columns |-> NoColumn]
    OBVIOUS
  <2>2. origin0 \in OriginType
    BY <2>1 DEF OriginType
  <2>3. PICK g : g = [EditTable(t) EXCEPT !.origin = origin0]
    OBVIOUS
  <2>4. EditorSound(g, gone)
    BY <2>2, <2>3, EditTableIs DEF IsWhole
  <2>5. /\ g.columns = e.columns /\ g.indexes = e.indexes /\ g.primaryKey = e.primaryKey
        /\ g.foreignKeys = e.foreignKeys /\ g.uniqueConstraints = e.uniqueConstraints
    BY <1>1, <2>3 DEF EditTable, NoEditor
  <2> QED BY <2>4, <2>5 DEF EditorSound, EditorHolds
<1>5. PICK s : s = PartsOf(e)
  OBVIOUS
<1>6. PICK f : /\ f[0] = Returns(Bare(e.columns)) /\ f[Len(s)] = CreateTable(e)
               /\ \A k \in 1 .. Len(s) : f[k] = Added(f[k - 1], s[k])
               /\ \A k \in 0 .. Len(s) : f[k] \in Making(e.columns, cs)
  BY <1>3, <1>4, <1>5, CreateOneByOne
<1>7. PICK a \in Nat, b \in Nat, c \in Nat, d \in Nat : PartsLaid(e, s, a, b, c, d)
  <2>1. PICK A, C : A = [key : Name, value : IndexType] /\ C = [key : Name, value : Seq(Columns)]
    OBVIOUS
  <2>2. /\ e.indexes \in Seq(A) /\ e.foreignKeys \in Seq(C) /\ e.primaryKey \in Seq(C)
        /\ e.uniqueConstraints \in Seq(C)
    BY <1>4, <2>1 DEF EditorHolds, ConstraintMap, MapOf
  <2> QED BY <1>5, <2>2, PartsAreLaid
<1>8. /\ Len(e.indexes) = a /\ a + Len(t.foreignKeys) = b
      /\ b + Len(e.primaryKey) = c /\ c + Len(t.uniqueConstraints) = d
  BY <1>3, <1>7 DEF PartsLaid
<1>9. /\ Len(s) = d /\ a <= b /\ b <= c /\ c <= d
      /\ \A i \in 1 .. a : IsPart(s[i], "index", e.indexes[i])
      /\ \A i \in a + 1 .. b : IsPart(s[i], "foreignKey", t.foreignKeys[i - a])
      /\ \A i \in b + 1 .. c : IsPart(s[i], "primaryKey", e.primaryKey[i - b])
      /\ \A i \in c + 1 .. d : IsPart(s[i], "unique", t.uniqueConstraints[i - c])
  BY <1>3, <1>7 DEF PartsLaid
<1>10. /\ f[0] = Returns(Bare(t.columns)) /\ f[d] = CreateTable(e)
       /\ \A k \in 1 .. d : f[k] = Added(f[k - 1], s[k])
  BY <1>3, <1>6, <1>9
<1>11. \A k \in 0 .. d : MadeSoFar(f[k]) /\ (~ f[k].threw => f[k].table.columns = t.columns)
  BY <1>3, <1>6, <1>9 DEF Making, MadeSoFar
<1>12. PICK n \in Nat, m \in Nat : Len(t.foreignKeys) = n /\ Len(t.uniqueConstraints) = m
  <2>1. PICK S : S = [key : Name, value : Seq(Columns)]
    OBVIOUS
  <2>2. t.foreignKeys \in Seq(S) /\ t.uniqueConstraints \in Seq(S)
    BY <2>1, TableParts DEF IsWhole, ConstraintMap, MapOf
  <2> QED BY <2>2
<1>13. a + n = b /\ c + m = d
  BY <1>8, <1>12
<1>14. Rebuilds(t, {}, Upto(e.indexes, a), 0, 0, NoName, f[a])
  <2>1. PICK T : T = {k \in 0 .. a : Rebuilds(t, {}, Upto(e.indexes, k), 0, 0, NoName, f[k])}
    OBVIOUS
  <2>2. 0 \in T
    BY <2>1, <1>10, BareGivenBack
  <2>3. ASSUME NEW k \in 1 .. a, k - 1 \in T PROVE k \in T
    <3>1. PICK x : x = e.indexes[k] /\ x \in Range(e.indexes)
      BY <1>3, <1>8, Elements DEF MapOf
    <3>2. /\ x.key # NoName /\ ~ x.value.primary /\ Distinct(x.value.cols) = x.value.cols
      BY <3>1, <1>4 DEF EditorHolds
    <3>3. /\ k - 1 \in 0 .. d /\ k \in 1 .. d /\ k \in 1 .. Len(e.indexes)
      BY <1>8, <1>9
    <3>4. Rebuilds(t, {}, Upto(e.indexes, k - 1), 0, 0, NoName, f[k - 1])
      BY <2>1, <2>3
    <3>5. IsPart(s[k], "index", x)
      BY <3>1, <1>9
    <3>6. PICK o, p : o = f[k - 1] /\ p = s[k]
      OBVIOUS
    <3>7. Rebuilds(t, {}, Upto(e.indexes, k), 0, 0, NoName, Added(o, p))
      BY <3>1, <3>2, <3>3, <3>4, <3>5, <3>6, <1>3, <1>11, IndexGivenBack
    <3> QED BY <3>3, <3>6, <3>7, <2>1, <1>10
  <2>4. \A k \in 0 .. a : k \in T
    BY <2>2, <2>3, UpTo
  <2>5. a \in T
    BY <2>4
  <2> QED BY <2>1, <2>5
<1>15. Rebuilds(t, G, B, 0, 0, NoName, f[a])
  <2>1. Upto(e.indexes, a) = B
    <3>1. DOMAIN e.indexes = 1 .. a
      BY <1>3, <1>8, Elements DEF MapOf
    <3> QED BY <3>1, <1>3 DEF Upto, Range
  <2>2. ~ f[a].threw /\ Rebuilt(t, {}, B, 0, 0, NoName, f[a].table)
    BY <2>1, <1>14 DEF Rebuilds, NameTaken
  <2>3. Rebuilt(t, G, B, 0, 0, NoName, f[a].table)
    BY <2>2 DEF Rebuilt
  <2> QED BY <2>2, <2>3 DEF Rebuilds
<1>16. Rebuilds(t, G, B, n, 0, NoName, f[b])
  <2>1. PICK T : T = {k \in 0 .. n : Rebuilds(t, G, B, k, 0, NoName, f[a + k])}
    OBVIOUS
  <2>2. 0 \in T
    BY <2>1, <1>12, <1>15
  <2>3. ASSUME NEW k \in 1 .. n, k - 1 \in T PROVE k \in T
    <3>1. PICK x : x = t.foreignKeys[k]
      OBVIOUS
    <3>2. PICK l : l = a + k /\ l - 1 = a + (k - 1) /\ l - a = k /\ l \in a + 1 .. b
                   /\ l - 1 \in 0 .. d /\ l \in 1 .. d
      BY <1>9, <1>12, <1>13
    <3>3. Rebuilds(t, G, B, k - 1, 0, NoName, f[l - 1])
      BY <2>1, <2>3, <3>2
    <3>4. IsPart(s[l], "foreignKey", x)
      BY <3>1, <3>2, <1>9
    <3>5. PICK o, p : o = f[l - 1] /\ p = s[l]
      OBVIOUS
    <3>6. k \in 1 .. Len(t.foreignKeys) /\ MadeSoFar(o)
      BY <3>2, <3>5, <1>11, <1>12
    <3>7. Rebuilds(t, G, B, k, 0, NoName, Added(o, p))
      BY <3>1, <3>3, <3>4, <3>5, <3>6, <1>2, ForeignKeyGivenBack
    <3> QED BY <3>2, <3>5, <3>7, <2>1, <1>10
  <2>4. \A k \in 0 .. n : k \in T
    BY <2>2, <2>3, UpTo
  <2>5. n \in T
    BY <2>4, <1>12
  <2> QED BY <2>1, <2>5, <1>13
<1>17. Rebuilds(t, G, Range(t.indexes), n, 0, pkn, f[c])
  <2>1. CASE HasPrimaryKey(t)
    <3>0. PICK x : x = KeyEntry(t)
      OBVIOUS
    <3>1. PICK y : y = e.primaryKey /\ Len(y) = 1 /\ y[1] = x
      <4>1. e.primaryKey = <<x>>
        BY <2>1, <3>0, <1>3, Zenon
      <4>2. Len(<<x>>) = 1 /\ <<x>>[1] = x
        OBVIOUS
      <4> QED BY <4>1, <4>2, Zenon
    <3>2. c - 1 = b /\ c - b = 1 /\ c \in b + 1 .. c /\ b \in 0 .. d /\ c \in 1 .. d
      BY <3>1, <1>8, <1>9
    <3>3. IsPart(s[c], "primaryKey", KeyEntry(t))
      BY <3>0, <3>1, <3>2, <1>9
    <3>4. PICK o, p : o = f[b] /\ p = s[c]
      OBVIOUS
    <3>5. Rebuilds(t, G, Range(t.indexes), n, 0, pkn, Added(o, p))
      BY <2>1, <3>2, <3>3, <3>4, <1>2, <1>11, <1>16, PrimaryKeyGivenBack
    <3> QED BY <3>2, <3>4, <3>5, <1>10
  <2>2. CASE ~ HasPrimaryKey(t)
    <3>1. Len(e.primaryKey) = 0
      BY <2>2, <1>3
    <3>2. c = b
      BY <3>1, <1>8
    <3> QED BY <2>2, <3>2, <1>3, <1>16
  <2> QED BY <2>1, <2>2
<1>18. Rebuilds(t, G, Range(t.indexes), n, m, pkn, f[d])
  <2>1. PICK T : T = {k \in 0 .. m : Rebuilds(t, G, Range(t.indexes), n, k, pkn, f[c + k])}
    OBVIOUS
  <2>2. 0 \in T
    BY <2>1, <1>12, <1>17
  <2>3. ASSUME NEW k \in 1 .. m, k - 1 \in T PROVE k \in T
    <3>1. PICK x : x = t.uniqueConstraints[k]
      OBVIOUS
    <3>2. PICK l : l = c + k /\ l - 1 = c + (k - 1) /\ l - c = k /\ l \in c + 1 .. d
                   /\ l - 1 \in 0 .. d /\ l \in 1 .. d
      BY <1>12, <1>13
    <3>3. Rebuilds(t, G, Range(t.indexes), n, k - 1, pkn, f[l - 1])
      BY <2>1, <2>3, <3>2
    <3>4. IsPart(s[l], "unique", x)
      BY <3>1, <3>2, <1>9
    <3>5. PICK o, p : o = f[l - 1] /\ p = s[l]
      OBVIOUS
    <3>6. k \in 1 .. Len(t.uniqueConstraints) /\ MadeSoFar(o)
      BY <3>2, <3>5, <1>11, <1>12
    <3>7. Rebuilds(t, G, Range(t.indexes), n, k, pkn, Added(o, p))
      BY <3>1, <3>3, <3>4, <3>5, <3>6, <1>2, UniqueGivenBack
    <3> QED BY <3>2, <3>5, <3>7, <2>1, <1>10
  <2>4. \A k \in 0 .. m : k \in T
    BY <2>2, <2>3, UpTo
  <2>5. m \in T
    BY <2>4, <1>12
  <2> QED BY <2>1, <2>5, <1>13
<1>19. PICK made, u : made = CreateTable(EditTable(t)) /\ u = made.table
  OBVIOUS
<1>20. made = f[d] /\ d \in 0 .. d
  BY <1>1, <1>10, <1>19
<1>21. CASE made.threw
  <2>1. \E x \in GainedIndexes(t) : x.key \in Keys(t.indexes)
    BY <1>2, <1>18, <1>20, <1>21 DEF Rebuilds, NameTaken
  <2> QED BY <2>1, <1>19, <1>21, Zenon DEF IsGivenBack
<1>22. CASE ~ made.threw
  <2>1. u \in TableType /\ u.columns = t.columns
    BY <1>11, <1>19, <1>20, <1>22 DEF MadeSoFar, Outcome
  <2>2. Rebuilt(t, G, Range(t.indexes), n, m, pkn, u)
    BY <1>18, <1>19, <1>20, <1>22 DEF Rebuilds
  <2>3. /\ u.foreignKeys = t.foreignKeys /\ u.uniqueConstraints = t.uniqueConstraints
        /\ u.primaryKeyName = t.primaryKeyName
        /\ Range(u.indexes) = Range(t.indexes) \cup GainedIndexes(t)
    BY <2>1, <2>2, <1>2, <1>12, GivenBackWhole
  <2> QED BY <2>1, <2>3, <1>19, <1>22, Zenon DEF IsGivenBack
<1> QED BY <1>21, <1>22

(***************************************************************************)
(* edit().create() gives back a table that has no call half done and no    *)
(* index dropped, whole: the same columns, constraints and primary key,    *)
(* and the same indexes, with one more for each foreign key that only the  *)
(* primary key serves; it throws only when the name of one of these is     *)
(* taken.                                                                  *)
(***************************************************************************)
THEOREM AlwaysRebuildKeeps == Spec => []RebuildKeeps
<1>1. Init => IInv
  BY Initially
<1>2. IInv /\ [Next]_vars => IInv'
  BY Inductive
<1>3. IInv => RebuildKeeps
  <2>1. SUFFICES ASSUME IInv, table.columns # <<>>, ~ history.halfDone, ~ history.unindexed,
                        ColumnsOnce(table)
                 PROVE  IsGivenBack(table)
    BY DEF RebuildKeeps
  <2>2. /\ table \in TableType /\ WellMade(table) /\ Consistent(table, history)
    BY <2>1 DEF IInv, TableInv
  <2>3. IsIndexed(table) /\ KeyHeld(table) /\ Refers(table, Keys(table.columns) \cup history.gone)
    BY <2>1, <2>2 DEF Consistent
  <2> QED BY <2>1, <2>2, <2>3, GivenBack DEF IsWhole
<1> QED BY <1>1, <1>2, <1>3, PTL DEF Spec
=============================================================================
