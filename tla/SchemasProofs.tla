---------------------------- MODULE SchemasProofs ----------------------------
(***************************************************************************)
(* What calls on a schema leave on the server, for every set of names,     *)
(* any number of calls and whatever other sessions do.  No call touches a  *)
(* table of another application: the statements of a schema are about its  *)
(* own tables, and drop no table with what depends on it.  And what was    *)
(* created on an empty server is dropped again, whole: Made says what      *)
(* statements have made, Undoes what the rest of a script takes away.      *)
(***************************************************************************)
EXTENDS Schemas, SequenceTheorems, FiniteSetTheorems, WellFoundedInduction, TLAPS

(* What schemas and the statements of their scripts are made of.           *)
Bases == {n.base : n \in TableNames}
Keys  == [of : TableNames, target : TableNames]
Ids   == [of : TableNames, column : Bases]

Definitions == [name : TableNames, fks : SUBSET Keys]

SchemaType ==
  [name : {NoNs, Own}, namespaces : SUBSET Namespaces, tables : Seq(Definitions),
   sequences : Seq(SequenceNames)]

Fields == {"namespaces", "tables", "sequences"}

Statements ==
  UNION { [op : {"createSchema"}, ns : Namespaces],
          [op : {"createSequence", "dropSequence"}, name : SequenceNames],
          [op : {"createTable"}, name : TableNames, indexes : SUBSET Ids, fks : SUBSET Keys],
          [op : {"createIndex", "dropForeignKey"}, name : TableNames, id : Ids],
          [op : {"addForeignKey"}, name : TableNames, fk : Keys],
          [op : {"dropTable"}, name : TableNames, cascade : {FALSE}] }

TypeInv ==
  /\ schema \in SchemaType
  /\ script \in Seq(Statements)
  /\ DOMAIN server = Fields

-----------------------------------------------------------------------------
(* Sequences of statements. *)

(* A set of numbers that is not empty has a least one.                     *)
LEMMA Least ==
  ASSUME NEW T \in SUBSET Nat, T # {}
  PROVE  \E y \in T : \A x \in T : y <= x
<1> DEFINE R == OpToRel(<, Nat)
<1>1. IsWellFoundedOn(R, Nat)
  BY NatLessThanWellFounded, Zenon
<1>2. R = {p \in Nat \X Nat : p[1] < p[2]}
  BY DEF OpToRel
<1> HIDE DEF R
<1>3. PICK y \in T : \A x \in T : <<x, y>> \notin R
  BY <1>1, WFMin, Zenon
<1>4. ASSUME NEW x \in T, x < y PROVE FALSE
  <2>1. <<x, y>> \in R
    BY <1>2, <1>4
  <2> QED BY <1>3, <2>1
<1> QED BY <1>4

(* What holds of no steps and is kept by each holds of them all.  Stated   *)
(* for the sets of the k up to which something holds.                      *)
LEMMA UpTo ==
  ASSUME NEW n \in Nat, NEW T, 0 \in T, \A k \in 1 .. n : k - 1 \in T => k \in T
  PROVE  \A k \in 0 .. n : k \in T
<1> DEFINE U == {k \in 0 .. n : k \notin T}
<1>1. ASSUME U # {} PROVE FALSE
  <2>1. U \in SUBSET Nat
    OBVIOUS
  <2>2. PICK k \in U : \A x \in U : k <= x
    BY <1>1, <2>1, Least, Zenon
  <2>3. k \in 1 .. n /\ k - 1 \in 0 .. n /\ ~ k <= k - 1
    OBVIOUS
  <2>4. k - 1 \notin U
    BY <2>2, <2>3
  <2> QED BY <2>3, <2>4
<1> QED BY <1>1

(* Sequences are flattened one by one.                                     *)
LEMMA FlattenOneByOne ==
  ASSUME NEW S, NEW seqs \in Seq(Seq(S))
  PROVE  \E f \in [0 .. Len(seqs) -> Seq(S)] :
           /\ f[0] = <<>> /\ f[Len(seqs)] = FlattenSeq(seqs)
           /\ \A i \in 1 .. Len(seqs) : f[i] = f[i - 1] \o seqs[i]
<1> DEFINE n == Len(seqs)
           Step(f, i) == IF i = 1 THEN seqs[i] ELSE f[i - 1] \o seqs[i]
           Upto(f, k) == f \in [1 .. k -> Seq(S)] /\ \A i \in 1 .. k : f[i] = Step(f, i)
           T == {k \in Nat : \E f : Upto(f, k)}
<1>1. n \in Nat /\ \A i \in 1 .. n : seqs[i] \in Seq(S)
  OBVIOUS
<1>2. n \in T
  <2>1. 0 \in T
    <3>1. Upto(<<>>, 0)
      OBVIOUS
    <3> QED BY <3>1
  <2>2. ASSUME NEW k \in 1 .. n, k - 1 \in T PROVE k \in T
    <3>1. k \in Nat /\ k - 1 \in Nat
      BY <1>1
    <3>2. PICK f : Upto(f, k - 1)
      BY <2>2
    <3> DEFINE g == [i \in 1 .. k |-> IF i = k THEN Step(f, k) ELSE f[i]]
    <3>3. Step(f, k) \in Seq(S)
      <4>1. CASE k = 1
        BY <4>1, <1>1
      <4>2. CASE k # 1
        <5>1. f[k - 1] \in Seq(S) /\ seqs[k] \in Seq(S)
          BY <4>2, <3>1, <3>2, <1>1
        <5> QED BY <5>1, <4>2
      <4> QED BY <4>1, <4>2
    <3>4. g \in [1 .. k -> Seq(S)]
      <4>1. ASSUME NEW i \in 1 .. k, i # k PROVE f[i] \in Seq(S)
        <5>1. i \in 1 .. k - 1
          BY <4>1, <3>1
        <5> QED BY <5>1, <3>2
      <4> HIDE DEF Step
      <4> QED BY <4>1, <3>3
    <3>5. ASSUME NEW i \in 1 .. k PROVE g[i] = Step(g, i)
      <4>1. CASE i = 1
        <5>1. CASE k = 1
          BY <5>1, <4>1
        <5>2. CASE k # 1
          <6>1. 1 \in 1 .. k - 1 /\ 1 \in 1 .. k
            BY <5>2, <3>1
          <6>2. f[1] = seqs[1]
            BY <6>1, <3>2
          <6> QED BY <6>1, <6>2, <5>2, <4>1
        <5> QED BY <5>1, <5>2
      <4>2. CASE i # 1 /\ i # k
        <5>1. i \in 1 .. k - 1 /\ i - 1 \in 1 .. k /\ i - 1 # k
          BY <4>2, <3>1
        <5>2. f[i] = f[i - 1] \o seqs[i]
          BY <5>1, <4>2, <3>2
        <5> QED BY <5>1, <5>2, <4>2
      <4>3. CASE i # 1 /\ i = k
        <5>1. i - 1 \in 1 .. k /\ i - 1 # k
          BY <4>3, <3>1
        <5> QED BY <5>1, <4>3
      <4> QED BY <4>1, <4>2, <4>3
    <3>6. Upto(g, k)
      BY <3>4, <3>5
    <3> QED BY <3>1, <3>6
  <2> HIDE DEF T
  <2>3. \A k \in 0 .. n : k \in T
    BY <1>1, <2>1, <2>2, UpTo
  <2> QED BY <2>3, <1>1
<1>3. PICK f : Upto(f, n)
  BY <1>2
<1>4. CASE n = 0
  <2>1. FlattenSeq(seqs) = seqs /\ seqs = <<>>
    BY <1>4 DEF FlattenSeq
  <2> DEFINE g == [i \in 0 .. n |-> <<>>]
  <2>2. g \in [0 .. n -> Seq(S)] /\ g[0] = <<>> /\ g[n] = FlattenSeq(seqs)
    BY <1>4, <2>1
  <2>3. \A i \in 1 .. n : FALSE
    BY <1>4
  <2> HIDE DEF g
  <2> QED BY <2>2, <2>3, Zenon
<1>5. CASE n # 0
  <2> DEFINE Whole(h) == [i \in 1 .. Len(seqs) |-> IF i = 1 THEN seqs[i] ELSE h[i - 1] \o seqs[i]]
             flat == CHOOSE h : h = Whole(h)
             g == [i \in 0 .. n |-> IF i = 0 THEN <<>> ELSE flat[i]]
             U == {k \in 0 .. n : g[k] \in Seq(S)}
  <2>1. f = Whole(f)
    BY <1>3
  <2>2. flat = Whole(flat)
    BY <2>1, Zenon
  <2>3. FlattenSeq(seqs) = flat[Len(seqs)]
    BY <1>5, Zenon DEF FlattenSeq
  <2> HIDE DEF flat
  <2>4. \A i \in 1 .. n : flat[i] = Step(flat, i)
    BY <2>2
  <2>5. \A i \in 1 .. n : g[i] = flat[i] /\ (i # 1 => g[i - 1] = flat[i - 1])
    BY <1>1
  <2>6. ASSUME NEW k \in 1 .. n, g[k - 1] \in Seq(S)
        PROVE  g[k] \in Seq(S) /\ g[k] = g[k - 1] \o seqs[k]
    <3>1. CASE k = 1
      <4>1. g[k] = seqs[k] /\ g[k - 1] = <<>> /\ seqs[k] \in Seq(S)
        BY <3>1, <2>4, <1>1
      <4> QED BY <4>1, ConcatEmptySeq
    <3>2. CASE k # 1
      <4>1. g[k] = g[k - 1] \o seqs[k]
        BY <3>2, <2>4, <2>5
      <4>2. seqs[k] \in Seq(S)
        BY <1>1
      <4> HIDE DEF g
      <4>3. g[k - 1] \o seqs[k] \in Seq(S)
        BY <4>2, <2>6, ConcatProperties
      <4> QED BY <4>1, <4>3
    <3> QED BY <3>1, <3>2
  <2>7. \A k \in 0 .. n : k \in U
    <3>1. 0 \in U
      BY <1>1
    <3>2. ASSUME NEW k \in 1 .. n, k - 1 \in U PROVE k \in U
      <4>1. k \in 0 .. n
        BY <1>1
      <4> HIDE DEF g
      <4> QED BY <4>1, <3>2, <2>6
    <3> HIDE DEF U
    <3> QED BY <3>1, <3>2, <1>1, UpTo
  <2>8. g \in [0 .. n -> Seq(S)]
    BY <2>7
  <2>9. g[0] = <<>> /\ g[n] = FlattenSeq(seqs)
    BY <2>3, <1>1, <1>5
  <2>10. \A i \in 1 .. n : g[i] = g[i - 1] \o seqs[i]
    <3>1. \A i \in 1 .. n : g[i - 1] \in Seq(S)
      BY <2>7
    <3> QED BY <3>1, <2>6
  <2> HIDE DEF g
  <2> QED BY <2>8, <2>9, <2>10
<1> QED BY <1>4, <1>5

LEMMA FlattenType ==
  ASSUME NEW S, NEW seqs \in Seq(Seq(S))
  PROVE  FlattenSeq(seqs) \in Seq(S)
<1>1. PICK n : n = Len(seqs) /\ n \in Nat
  OBVIOUS
<1>2. PICK f \in [0 .. n -> Seq(S)] : f[n] = FlattenSeq(seqs)
  BY <1>1, FlattenOneByOne, ZenonT(60)
<1> QED BY <1>1, <1>2

(* What is in two sequences, one after the other, and how often.           *)
LEMMA Joined ==
  ASSUME NEW S, NEW p \in Seq(S), NEW q \in Seq(S)
  PROVE  /\ p \o q \in Seq(S) /\ ToSet(p \o q) = ToSet(p) \cup ToSet(q)
         /\ IsInjective(p) /\ IsInjective(q) /\ ToSet(p) \cap ToSet(q) = {} => IsInjective(p \o q)
<1>9. PICK m \in Nat : Len(p) = m
  OBVIOUS
<1>10. PICK n \in Nat : Len(q) = n
  OBVIOUS
<1>11. PICK s : s = p \o q
  OBVIOUS
<1>1. s = p \o q /\ Len(p) = m /\ Len(q) = n
  BY <1>9, <1>10, <1>11
<1>2. /\ s \in Seq(S) /\ Len(s) = m + n
      /\ \A i \in 1 .. m + n : s[i] = IF i <= m THEN p[i] ELSE q[i - m]
  BY <1>1, ConcatProperties
<1>3. DOMAIN s = 1 .. m + n /\ DOMAIN p = 1 .. m /\ DOMAIN q = 1 .. n
  BY <1>1, <1>2
<1>4. ASSUME NEW i \in DOMAIN s
      PROVE  \/ i <= m /\ i \in DOMAIN p /\ s[i] = p[i]
             \/ i > m /\ i - m \in DOMAIN q /\ s[i] = q[i - m]
  BY <1>2, <1>3
<1>5. ToSet(s) \subseteq ToSet(p) \cup ToSet(q)
  BY <1>4 DEF ToSet
<1>6. ToSet(p) \subseteq ToSet(s)
  <2>1. ASSUME NEW i \in DOMAIN p PROVE i \in DOMAIN s /\ s[i] = p[i]
    BY <1>2, <1>3
  <2> QED BY <2>1 DEF ToSet
<1>7. ToSet(q) \subseteq ToSet(s)
  <2>1. ASSUME NEW i \in DOMAIN q PROVE i + m \in DOMAIN s /\ s[i + m] = q[i]
    <3>1. i + m \in 1 .. m + n /\ ~ i + m <= m /\ (i + m) - m = i
      BY <1>3
    <3> QED BY <3>1, <1>2, <1>3
  <2> QED BY <2>1 DEF ToSet
<1>8. ASSUME IsInjective(p), IsInjective(q), ToSet(p) \cap ToSet(q) = {}
      PROVE  IsInjective(s)
  <2> SUFFICES ASSUME NEW i \in DOMAIN s, NEW j \in DOMAIN s, s[i] = s[j] PROVE i = j
    BY DEF IsInjective
  <2>1. i \in Nat /\ j \in Nat
    BY <1>3
  <2>2. CASE i \in DOMAIN p /\ s[i] = p[i] /\ j \in DOMAIN p /\ s[j] = p[j]
    BY <2>2, <1>8 DEF IsInjective
  <2>3. CASE /\ i - m \in DOMAIN q /\ s[i] = q[i - m]
             /\ j - m \in DOMAIN q /\ s[j] = q[j - m]
    <3>1. i - m = j - m
      BY <2>3, <1>8 DEF IsInjective
    <3> QED BY <3>1, <2>1
  <2>4. CASE i \in DOMAIN p /\ s[i] = p[i] /\ j - m \in DOMAIN q /\ s[j] = q[j - m]
    BY <2>4, <1>8 DEF ToSet
  <2>5. CASE j \in DOMAIN p /\ s[j] = p[j] /\ i - m \in DOMAIN q /\ s[i] = q[i - m]
    BY <2>5, <1>8 DEF ToSet
  <2> QED BY <1>4, <2>2, <2>3, <2>4, <2>5
<1> QED BY <1>1, <1>2, <1>5, <1>6, <1>7, <1>8

(* What is in sequences that are flattened, and that it is there once.     *)
LEMMA FlattenElements ==
  ASSUME NEW S, NEW seqs \in Seq(Seq(S))
  PROVE  \A x : x \in ToSet(FlattenSeq(seqs)) <=> \E i \in DOMAIN seqs : x \in ToSet(seqs[i])
<1>1. PICK n \in Nat : n = Len(seqs) /\ DOMAIN seqs = 1 .. n /\ \A i \in 1 .. n : seqs[i] \in Seq(S)
  OBVIOUS
<1>2. PICK f \in [0 .. n -> Seq(S)] : /\ f[0] = <<>> /\ f[n] = FlattenSeq(seqs)
                                      /\ \A i \in 1 .. n : f[i] = f[i - 1] \o seqs[i]
  BY <1>1, FlattenOneByOne, ZenonT(60)
<1> DEFINE T == {k \in 0 .. n : \A x : x \in ToSet(f[k]) <=> \E i \in 1 .. k : x \in ToSet(seqs[i])}
<1>3. 0 \in T
  BY <1>2 DEF ToSet
<1>4. ASSUME NEW k \in 1 .. n, k - 1 \in T PROVE k \in T
  <2>0. k - 1 \in 0 .. n
    BY <1>1
  <2>1. f[k - 1] \in Seq(S) /\ seqs[k] \in Seq(S) /\ f[k] = f[k - 1] \o seqs[k]
    BY <2>0, <1>1, <1>2
  <2>2. ToSet(f[k]) = ToSet(f[k - 1]) \cup ToSet(seqs[k])
    BY <2>1, Joined
  <2>3. \A i : i \in 1 .. k <=> i \in 1 .. k - 1 \/ i = k
    BY <1>1
  <2>4. \A x : x \in ToSet(f[k]) <=> \E i \in 1 .. k : x \in ToSet(seqs[i])
    BY <2>2, <2>3, <1>4
  <2>5. k \in 0 .. n
    BY <1>1
  <2> QED BY <2>4, <2>5
<1> HIDE DEF T
<1>5. \A k \in 0 .. n : k \in T
  BY <1>3, <1>4, UpTo
<1>6. n \in T
  BY <1>5, <1>1
<1> QED BY <1>1, <1>2, <1>6 DEF T

LEMMA FlattenOnce ==
  ASSUME NEW S, NEW seqs \in Seq(Seq(S)), \A i \in DOMAIN seqs : IsInjective(seqs[i]),
         \A i, j \in DOMAIN seqs : i # j => ToSet(seqs[i]) \cap ToSet(seqs[j]) = {}
  PROVE  IsInjective(FlattenSeq(seqs))
<1>1. PICK n \in Nat : n = Len(seqs) /\ DOMAIN seqs = 1 .. n /\ \A i \in 1 .. n : seqs[i] \in Seq(S)
  OBVIOUS
<1>2. PICK f \in [0 .. n -> Seq(S)] : /\ f[0] = <<>> /\ f[n] = FlattenSeq(seqs)
                                      /\ \A i \in 1 .. n : f[i] = f[i - 1] \o seqs[i]
  BY <1>1, FlattenOneByOne, ZenonT(60)
<1> DEFINE T == {k \in 0 .. n : /\ IsInjective(f[k])
                                /\ \A x \in ToSet(f[k]) : \E i \in 1 .. k : x \in ToSet(seqs[i])}
<1>3. 0 \in T
  BY <1>2 DEF ToSet, IsInjective
<1>4. ASSUME NEW k \in 1 .. n, k - 1 \in T PROVE k \in T
  <2>0. k - 1 \in 0 .. n
    BY <1>1
  <2>1. f[k - 1] \in Seq(S) /\ seqs[k] \in Seq(S) /\ f[k] = f[k - 1] \o seqs[k]
    BY <2>0, <1>1, <1>2
  <2>2. \A i : i \in 1 .. k <=> i \in 1 .. k - 1 \/ i = k
    BY <1>1
  <2>3. ToSet(f[k - 1]) \cap ToSet(seqs[k]) = {}
    <3>1. ASSUME NEW i \in 1 .. k - 1 PROVE ToSet(seqs[i]) \cap ToSet(seqs[k]) = {}
      <4>1. i \in 1 .. n /\ i # k
        BY <1>1
      <4> QED BY <4>1, <1>1
    <3> QED BY <3>1, <1>4
  <2>4. IsInjective(f[k])
    <3>1. IsInjective(f[k - 1]) /\ IsInjective(seqs[k])
      BY <1>1, <1>4
    <3>2. IsInjective(f[k - 1] \o seqs[k])
      BY <3>1, <2>1, <2>3, Joined
    <3> QED BY <3>2, <2>1
  <2>5. \A x \in ToSet(f[k]) : \E i \in 1 .. k : x \in ToSet(seqs[i])
    <3>1. ToSet(f[k]) = ToSet(f[k - 1]) \cup ToSet(seqs[k])
      BY <2>1, Joined
    <3> QED BY <3>1, <2>2, <1>4
  <2>6. k \in 0 .. n
    BY <1>1
  <2> QED BY <2>4, <2>5, <2>6
<1> HIDE DEF T
<1>5. \A k \in 0 .. n : k \in T
  BY <1>3, <1>4, UpTo
<1>6. n \in T
  BY <1>5, <1>1
<1> QED BY <1>2, <1>6 DEF T

(* The elements of a finite set in some order.                             *)
LEMMA SetToSeqType ==
  ASSUME NEW S, IsFiniteSet(S)
  PROVE  SetToSeq(S) \in Seq(S) /\ ToSet(SetToSeq(S)) = S /\ IsInjective(SetToSeq(S))
<1>1. PICK n \in Nat : n = Cardinality(S) /\ ExistsBijection(1 .. n, S)
  BY FS_CardinalityType
<1>2. PICK f : f \in Bijection(1 .. n, S)
  BY <1>1, Zenon DEF ExistsBijection
<1>3. f \in [1 .. n -> S] /\ IsInjective(f)
  BY <1>2 DEF Bijection, Injection, IsInjective
<1>4. PICK s : s = SetToSeq(S)
  OBVIOUS
<1>5. s \in [1 .. n -> S] /\ IsInjective(s)
  BY <1>1, <1>3, <1>4, Zenon DEF SetToSeq
<1>6. S \subseteq ToSet(s)
  <2>1. s \in Injection(1 .. n, S)
    BY <1>5, Zenon DEF Injection, IsInjective
  <2>2. Cardinality(1 .. n) = n /\ IsFiniteSet(1 .. n)
    BY FS_Interval
  <2>3. s \in Surjection(1 .. n, S)
    BY <1>1, <2>1, <2>2, FS_Injection
  <2> QED BY <2>3, <1>5 DEF Surjection, ToSet
<1>7. s \in Seq(S) /\ ToSet(s) \subseteq S
  BY <1>5 DEF ToSet
<1> QED BY <1>4, <1>5, <1>6, <1>7

-----------------------------------------------------------------------------
(* The statements of a schema are about its own names. *)

LEMMA ImageFinite ==
  ASSUME NEW S, IsFiniteSet(S), NEW T, NEW f \in [S -> T]
  PROVE  IsFiniteSet({f[x] : x \in S})
<1> DEFINE R == {f[x] : x \in S}
           g == [x \in S |-> f[x]]
<1>1. g \in Surjection(S, R)
  BY DEF Surjection
<1> QED BY <1>1, FS_Surjection

LEMMA KeysFinite == IsFiniteSet(Keys)
<1>1. IsFiniteSet(TableNames)
  BY SchemasAssumption
<1>2. IsFiniteSet(TableNames \X TableNames)
  BY <1>1, FS_Product
<1> DEFINE Key(p) == [of |-> p[1], target |-> p[2]]
<1>3. Keys = {Key(p) : p \in TableNames \X TableNames}
  <2>1. ASSUME NEW k \in Keys PROVE k \in {Key(p) : p \in TableNames \X TableNames}
    <3>1. k = Key(<<k.of, k.target>>) /\ <<k.of, k.target>> \in TableNames \X TableNames
      BY DEF Keys
    <3> QED BY <3>1
  <2>2. ASSUME NEW p \in TableNames \X TableNames PROVE Key(p) \in Keys
    BY DEF Keys
  <2> QED BY <2>1, <2>2
<1>7. PICK f : f = [p \in TableNames \X TableNames |-> Key(p)]
  OBVIOUS
<1>6. f \in [TableNames \X TableNames -> Keys]
  BY <1>3, <1>7
<1>4. IsFiniteSet({f[p] : p \in TableNames \X TableNames})
  BY <1>2, <1>6, ImageFinite
<1>5. {f[p] : p \in TableNames \X TableNames} = {Key(p) : p \in TableNames \X TableNames}
  BY <1>7
<1> QED BY <1>3, <1>4, <1>5

LEMMA NamespacesFinite == IsFiniteSet(Namespaces)
<1>1. IsFiniteSet(TableNames \cup SequenceNames)
  BY SchemasAssumption, FS_Union
<1>2. PICK names, f : names = TableNames \cup SequenceNames /\ f = [n \in names |-> n.ns]
  OBVIOUS
<1>3. IsFiniteSet({f[n] : n \in names})
  <2>1. PICK T : T = {n.ns : n \in names}
    OBVIOUS
  <2>2. f \in [names -> T]
    BY <1>2, <2>1
  <2>3. IsFiniteSet(names)
    BY <1>1, <1>2
  <2> QED BY <2>2, <2>3, ImageFinite
<1>4. {f[n] : n \in names} = {n.ns : n \in TableNames \cup SequenceNames}
  BY <1>2
<1> QED BY <1>3, <1>4, FS_Subset DEF Namespaces

LEMMA IdType ==
  ASSUME NEW fk \in Keys
  PROVE  ForeignKeyId(fk) \in Ids
BY DEF Keys, Ids, Bases, ForeignKeyId

LEMMA NameStatements ==
  /\ \A n \in SequenceNames :
       CreateSequenceSQL(n) \in Statements /\ DropSequenceSQL(n) \in Statements
  /\ \A ns \in Namespaces : CreateSchemaSQL(ns) \in Statements
BY DEF CreateSequenceSQL, DropSequenceSQL, CreateSchemaSQL, Statements

(* The statements of one table.                                            *)
LEMMA TableStatements ==
  ASSUME NEW t \in Definitions, NEW p
  PROVE  /\ BuildCreateTableSQL(p, t) \in Seq(Statements)
         /\ CreateForeignKeysSQL(t) \in Seq(Statements)
         /\ DropForeignKeysSQL(t) \in Seq(Statements)
         /\ DropTableSQL(t.name) \in Statements
<1>1. t.name \in TableNames /\ t.fks \in SUBSET Keys
  BY DEF Definitions
<1>2. ForeignKeysOf(t) \in Seq(Keys)
  <2>1. IsFiniteSet(t.fks)
    BY <1>1, KeysFinite, FS_Subset
  <2>2. ForeignKeysOf(t) \in Seq(t.fks)
    BY <2>1, SetToSeqType DEF ForeignKeysOf
  <2> QED BY <1>1, <2>2
<1>3. PICK fks \in Seq(Keys) : fks = ForeignKeysOf(t)
  BY <1>2
<1>4. \A i \in DOMAIN fks : fks[i] \in Keys /\ ForeignKeyId(fks[i]) \in Ids
  BY IdType
<1>5. CreateTableSQL(p, t) \in Statements
  <2>1. {ForeignKeyId(fk) : fk \in t.fks} \in SUBSET Ids
    BY <1>1, IdType
  <2> QED BY <1>1, <2>1 DEF CreateTableSQL, Statements
<1>6. CreateIndexesSQL(t) \in Seq(Statements)
  <2>1. \A i \in DOMAIN fks : CreateIndexSQL(t, fks[i]) \in Statements
    BY <1>1, <1>4 DEF CreateIndexSQL, Statements
  <2>2. CreateIndexesSQL(t) = [i \in DOMAIN fks |-> CreateIndexSQL(t, fks[i])]
    BY <1>3 DEF CreateIndexesSQL
  <2> QED BY <2>1, <2>2
<1>7. CreateForeignKeysSQL(t) \in Seq(Statements)
  <2>1. \A i \in DOMAIN fks : CreateForeignKeySQL(t, fks[i]) \in Statements
    BY <1>1, <1>4 DEF CreateForeignKeySQL, Statements
  <2>2. CreateForeignKeysSQL(t) = [i \in DOMAIN fks |-> CreateForeignKeySQL(t, fks[i])]
    BY <1>3 DEF CreateForeignKeysSQL
  <2> QED BY <2>1, <2>2
<1>8. DropForeignKeysSQL(t) \in Seq(Statements)
  <2>1. \A i \in DOMAIN fks : DropForeignKeySQL(t, fks[i]) \in Statements
    BY <1>1, <1>4 DEF DropForeignKeySQL, Statements
  <2>2. DropForeignKeysSQL(t) = [i \in DOMAIN fks |-> DropForeignKeySQL(t, fks[i])]
    BY <1>3 DEF DropForeignKeysSQL
  <2> QED BY <2>1, <2>2
<1>9. DropTableSQL(t.name) \in Statements
  BY <1>1 DEF DropTableSQL, Statements
<1>10. BuildCreateTableSQL(p, t) \in Seq(Statements)
  <2>1. <<CreateTableSQL(p, t)>> \in Seq(Statements)
    BY <1>5
  <2> QED BY <2>1, <1>6 DEF BuildCreateTableSQL
<1> QED BY <1>7, <1>8, <1>9, <1>10

(* Those of the schema.                                                    *)
LEMMA ToSqlType ==
  ASSUME NEW s \in SchemaType, NEW p
  PROVE  ToSql(p, s) \in Seq(Statements)
<1>1. PICK tables \in Seq(Definitions), sequences \in Seq(SequenceNames) :
        tables = s.tables /\ sequences = s.sequences
  BY DEF SchemaType
<1>2. ASSUME NEW q PROVE FlattenSeq([i \in DOMAIN tables |-> BuildCreateTableSQL(q, tables[i])]) \in Seq(Statements)
  <2>1. \A i \in DOMAIN tables : BuildCreateTableSQL(q, tables[i]) \in Seq(Statements)
    BY TableStatements
  <2>2. [i \in DOMAIN tables |-> BuildCreateTableSQL(q, tables[i])] \in Seq(Seq(Statements))
    BY <2>1, SMTT(30)
  <2> QED BY <2>2, FlattenType
<1>3. FlattenSeq([i \in DOMAIN tables |-> CreateForeignKeysSQL(tables[i])]) \in Seq(Statements)
  <2>1. \A i \in DOMAIN tables : CreateForeignKeysSQL(tables[i]) \in Seq(Statements)
    BY TableStatements
  <2>2. [i \in DOMAIN tables |-> CreateForeignKeysSQL(tables[i])] \in Seq(Seq(Statements))
    BY <2>1, SMTT(30)
  <2> QED BY <2>2, FlattenType
<1>4. CreateTablesSQL(p, tables) \in Seq(Statements)
  <2>1. PICK a, b, d :
          /\ a = FlattenSeq([i \in DOMAIN tables |-> BuildCreateTableSQL("sqlite", tables[i])])
          /\ b = FlattenSeq([i \in DOMAIN tables |-> BuildCreateTableSQL(p, tables[i])])
          /\ d = FlattenSeq([i \in DOMAIN tables |-> CreateForeignKeysSQL(tables[i])])
    OBVIOUS
  <2>2. CreateTablesSQL(p, tables) = IF p = "sqlite" THEN a ELSE b \o d
    BY <2>1, Zenon DEF CreateTablesSQL, SQLiteCreateTablesSQL
  <2>3. a \in Seq(Statements) /\ b \in Seq(Statements) /\ d \in Seq(Statements)
    BY <2>1, <1>2, <1>3, Zenon
  <2> QED BY <2>2, <2>3
<1>5. [i \in DOMAIN sequences |-> CreateSequenceSQL(sequences[i])] \in Seq(Statements)
  <2>1. \A i \in DOMAIN sequences : CreateSequenceSQL(sequences[i]) \in Statements
    BY NameStatements
  <2> QED BY <2>1
<1>6. PICK namespaces : namespaces = SetToSeq(s.namespaces)
  OBVIOUS
<1>7. [i \in DOMAIN namespaces |-> CreateSchemaSQL(namespaces[i])] \in Seq(Statements)
  <2>1. s.namespaces \in SUBSET Namespaces
    BY DEF SchemaType
  <2>2. namespaces \in Seq(s.namespaces)
    BY <1>6, <2>1, NamespacesFinite, FS_Subset, SetToSeqType
  <2>3. \A i \in DOMAIN namespaces : CreateSchemaSQL(namespaces[i]) \in Statements
    BY <2>1, <2>2, NameStatements
  <2> QED BY <2>2, <2>3, SMTT(30)
<1> QED BY <1>1, <1>4, <1>5, <1>6, <1>7 DEF ToSql

LEMMA ToDropSqlType ==
  ASSUME NEW s \in SchemaType, NEW p
  PROVE  ToDropSql(p, s) \in Seq(Statements)
<1>1. PICK tables \in Seq(Definitions), sequences \in Seq(SequenceNames) :
        tables = s.tables /\ sequences = s.sequences
  BY DEF SchemaType
<1>2. [i \in DOMAIN tables |-> DropTableSQL(tables[i].name)] \in Seq(Statements)
  <2>1. \A i \in DOMAIN tables : DropTableSQL(tables[i].name) \in Statements
    BY TableStatements
  <2> QED BY <2>1
<1>3. FlattenSeq([i \in DOMAIN tables |-> DropForeignKeysSQL(tables[i])]) \in Seq(Statements)
  <2>1. \A i \in DOMAIN tables : DropForeignKeysSQL(tables[i]) \in Seq(Statements)
    BY TableStatements
  <2>2. [i \in DOMAIN tables |-> DropForeignKeysSQL(tables[i])] \in Seq(Seq(Statements))
    BY <2>1, SMTT(30)
  <2> QED BY <2>2, FlattenType
<1>4. DropTablesSQL(p, tables) \in Seq(Statements)
  BY <1>2, <1>3 DEF DropTablesSQL, SQLiteDropTablesSQL
<1>5. [i \in DOMAIN sequences |-> DropSequenceSQL(sequences[i])] \in Seq(Statements)
  <2>1. \A i \in DOMAIN sequences : DropSequenceSQL(sequences[i]) \in Statements
    BY NameStatements
  <2> QED BY <2>1
<1> QED BY <1>1, <1>4, <1>5 DEF ToDropSql

-----------------------------------------------------------------------------
(* The calls. *)

LEMMA RemoveAtType ==
  ASSUME NEW S, NEW s \in Seq(S), NEW i \in DOMAIN s
  PROVE  RemoveAt(s, i) \in Seq(S)
<1>1. i \in Nat /\ i >= 1 /\ i <= Len(s) /\ Len(s) \in Nat
  OBVIOUS
<1>2. SubSeq(s, 1, i - 1) \in Seq(S)
  <2>1. \A j \in 1 .. i - 1 : s[j] \in S
    BY <1>1
  <2> QED BY <1>1, <2>1
<1>3. SubSeq(s, i + 1, Len(s)) \in Seq(S)
  <2>1. \A j \in i + 1 .. Len(s) : s[j] \in S
    BY <1>1
  <2> QED BY <1>1, <2>1
<1> QED BY <1>2, <1>3 DEF RemoveAt

(* The calls on the schema keep to its names.                              *)
LEMMA EditsKeep ==
  ASSUME TypeInv,
         \/ \E ns \in Namespaces : CreateNamespace(ns)
         \/ \E n \in TableNames, to \in TableNames : AddTable(n, {to}) \/ AddForeignKey(n, to)
         \/ \E n \in TableNames : AddTable(n, {}) \/ DropTable(n)
         \/ \E old \in TableNames, new \in TableNames : RenameTable(old, new)
         \/ \E n \in SequenceNames : AddSequence(n) \/ DropSequence(n)
  PROVE  schema' \in SchemaType /\ script' = script /\ server' = server
<1>1. PICK s : s = schema /\ s \in SchemaType
  BY DEF TypeInv
<1>2. PICK namespaces \in SUBSET Namespaces, tables \in Seq(Definitions), sequences \in Seq(SequenceNames) :
        s.namespaces = namespaces /\ s.tables = tables /\ s.sequences = sequences
  BY <1>1 DEF SchemaType
<1>3. ASSUME NEW ns \in SUBSET Namespaces PROVE [s EXCEPT !.namespaces = ns] \in SchemaType
  BY <1>1, <1>3 DEF SchemaType
<1>4. ASSUME NEW ts \in Seq(Definitions) PROVE [s EXCEPT !.tables = ts] \in SchemaType
  BY <1>1 DEF SchemaType
<1>5. ASSUME NEW qs \in Seq(SequenceNames) PROVE [s EXCEPT !.sequences = qs] \in SchemaType
  BY <1>1 DEF SchemaType
<1>6. ASSUME NEW n \in TableNames \cup SequenceNames PROVE WithNamespaceOf(n, s) \in SUBSET Namespaces
  BY <1>2 DEF WithNamespaceOf, Namespaces
<1>7. ASSUME NEW ns \in Namespaces, CreateNamespace(ns)
      PROVE  schema' \in SchemaType /\ script' = script /\ server' = server
  <2>1. schema' = [s EXCEPT !.namespaces = s.namespaces \cup {ns}]
    BY <1>1, <1>7 DEF CreateNamespace, Edited
  <2>2. s.namespaces \cup {ns} \in SUBSET Namespaces
    BY <1>2
  <2>3. schema' \in SchemaType
    BY <2>1, <2>2, <1>3
  <2> QED BY <2>3, <1>7 DEF CreateNamespace, Edited
<1>8. ASSUME NEW n \in TableNames, NEW targets \in SUBSET TableNames, AddTable(n, targets)
      PROVE  schema' \in SchemaType /\ script' = script /\ server' = server
  <2>1. Table(n, targets) \in Definitions
    BY DEF Table, ForeignKey, Definitions, Keys
  <2>2. PICK ts \in Seq(Definitions), ns \in SUBSET Namespaces :
          schema' = [s EXCEPT !.namespaces = ns, !.tables = ts]
    <3>1. schema' = [s EXCEPT !.namespaces = WithNamespaceOf(n, s),
                              !.tables = IF n \in NamesOf(tables) THEN tables
                                         ELSE Append(tables, Table(n, targets))]
      BY <1>1, <1>2, <1>8 DEF AddTable, Edited
    <3>2. Append(tables, Table(n, targets)) \in Seq(Definitions)
      BY <2>1
    <3> QED BY <3>1, <3>2, <1>6
  <2> QED BY <2>2, <1>1, <1>8 DEF AddTable, Edited, SchemaType
<1>9. ASSUME NEW n \in TableNames, NEW to \in TableNames, AddForeignKey(n, to)
      PROVE  schema' \in SchemaType /\ script' = script /\ server' = server
  <2>1. PICK i \in DOMAIN tables :
          schema' = [s EXCEPT !.tables[i].fks = s.tables[i].fks \cup {ForeignKey(n, to)}]
    BY <1>1, <1>2, <1>9 DEF AddForeignKey, Edited
  <2>2. PICK t : t = [tables[i] EXCEPT !.fks = tables[i].fks \cup {ForeignKey(n, to)}]
    OBVIOUS
  <2>3. t \in Definitions
    <3>1. tables[i] \in Definitions /\ ForeignKey(n, to) \in Keys
      BY DEF ForeignKey, Keys
    <3> QED BY <2>2, <3>1 DEF Definitions
  <2>4. [tables EXCEPT ![i] = t] \in Seq(Definitions)
    BY <2>3
  <2>5. schema' = [s EXCEPT !.tables = [tables EXCEPT ![i] = t]]
    BY <2>1, <2>2, <1>2
  <2>6. schema' \in SchemaType
    BY <2>4, <2>5, <1>4
  <2> QED BY <2>6, <1>9 DEF AddForeignKey, Edited
<1>10. ASSUME NEW n \in TableNames, DropTable(n)
       PROVE  schema' \in SchemaType /\ script' = script /\ server' = server
  <2>1. PICK i \in DOMAIN tables : schema' = [s EXCEPT !.tables = RemoveAt(tables, i)]
    BY <1>1, <1>2, <1>10 DEF DropTable, Edited
  <2> QED BY <2>1, <1>4, RemoveAtType, <1>10 DEF DropTable, Edited
<1>11. ASSUME NEW old \in TableNames, NEW new \in TableNames, RenameTable(old, new)
       PROVE  schema' \in SchemaType /\ script' = script /\ server' = server
  <2>1. PICK i \in DOMAIN tables :
          schema' = [s EXCEPT !.tables = Append(RemoveAt(tables, i), [tables[i] EXCEPT !.name = new])]
    BY <1>1, <1>2, <1>11 DEF RenameTable, Edited
  <2>2. [tables[i] EXCEPT !.name = new] \in Definitions
    <3>1. tables[i] \in Definitions
      OBVIOUS
    <3> QED BY <3>1 DEF Definitions
  <2>3. Append(RemoveAt(tables, i), [tables[i] EXCEPT !.name = new]) \in Seq(Definitions)
    BY <2>2, RemoveAtType
  <2> QED BY <2>1, <2>3, <1>4, <1>11 DEF RenameTable, Edited
<1>12. ASSUME NEW n \in SequenceNames, AddSequence(n)
       PROVE  schema' \in SchemaType /\ script' = script /\ server' = server
  <2>1. PICK qs \in Seq(SequenceNames), ns \in SUBSET Namespaces :
          schema' = [s EXCEPT !.namespaces = ns, !.sequences = qs]
    <3>1. schema' = [s EXCEPT !.namespaces = WithNamespaceOf(n, s),
                              !.sequences = IF Contains(sequences, n) THEN sequences
                                            ELSE Append(sequences, n)]
      BY <1>1, <1>2, <1>12 DEF AddSequence, Edited
    <3>2. PICK qs \in Seq(SequenceNames) :
            qs = IF Contains(sequences, n) THEN sequences ELSE Append(sequences, n)
      <4>1. Append(sequences, n) \in Seq(SequenceNames)
        OBVIOUS
      <4> QED BY <4>1, Zenon
    <3> QED BY <3>1, <3>2, <1>6
  <2> QED BY <2>1, <1>1, <1>12 DEF AddSequence, Edited, SchemaType
<1>13. ASSUME NEW n \in SequenceNames, DropSequence(n)
       PROVE  schema' \in SchemaType /\ script' = script /\ server' = server
  <2>1. PICK i \in DOMAIN sequences : schema' = [s EXCEPT !.sequences = RemoveAt(sequences, i)]
    BY <1>1, <1>2, <1>13 DEF DropSequence, Edited
  <2> QED BY <2>1, <1>5, RemoveAtType, <1>13 DEF DropSequence, Edited
<1>14. \A n \in TableNames : {} \in SUBSET TableNames /\ {n} \in SUBSET TableNames
  OBVIOUS
<1> QED BY <1>7, <1>8, <1>9, <1>10, <1>11, <1>12, <1>13, <1>14, Zenon

(* A name of the application is not that of the other's table.             *)
LEMMA ResolvedOwn ==
  ASSUME NEW n \in TableNames
  PROVE  Resolved(n) # Foreign
<1>1. {"ns", "base"} = DOMAIN n
  BY SchemasAssumption
<1>2. CASE n.ns = NoNs
  BY <1>1, <1>2, SchemasAssumption DEF Resolved
<1>3. CASE n.ns # NoNs
  BY <1>3, SchemasAssumption DEF Resolved
<1> QED BY <1>2, <1>3

(* A statement of the schema leaves the tables of others.                  *)
LEMMA StatementKeeps ==
  ASSUME DOMAIN server = Fields, NEW st \in Statements, Accepts(st), server' = After(st),
         NEW t, t.name = Foreign
  PROVE  DOMAIN server' = Fields /\ (t \in server.tables => t \in server'.tables)
<1>1. ASSUME NEW n \in TableNames, Has(n)
      PROVE  t # ServerTable(n)
  <2>1. \E u \in server.tables : u.name = Resolved(n)
    BY <1>1 DEF Has, ServerNames
  <2>2. ServerTable(n).name = Resolved(n)
    BY <2>1, Zenon DEF ServerTable
  <2> QED BY <2>2, ResolvedOwn
<1>2. ASSUME NEW n \in TableNames, Has(n), NEW u, server' = Changed(n, u)
      PROVE  DOMAIN server' = Fields /\ (t \in server.tables => t \in server'.tables)
  BY <1>1, <1>2 DEF Changed
<1>3. CASE st \in [op : {"createSchema"}, ns : Namespaces]
  <2>1. server' = [server EXCEPT !.namespaces = @ \cup {st.ns}]
    BY <1>3 DEF After
  <2> QED BY <2>1
<1>4. CASE st \in [op : {"createSequence", "dropSequence"}, name : SequenceNames]
  <2>1. PICK x : server' = [server EXCEPT !.sequences = x]
    BY <1>4 DEF After
  <2> QED BY <2>1
<1>5. CASE st \in [op : {"createTable"}, name : TableNames, indexes : SUBSET Ids, fks : SUBSET Keys]
  <2>1. PICK u : server' = [server EXCEPT !.tables = server.tables \cup {u}]
    BY <1>5 DEF After
  <2> QED BY <2>1
<1>6. CASE st \in [op : {"createIndex", "dropForeignKey"}, name : TableNames, id : Ids]
  <2>1. st.name \in TableNames /\ Has(st.name)
    BY <1>6 DEF Accepts
  <2>2. PICK u : server' = Changed(st.name, u)
    BY <1>6 DEF After
  <2> QED BY <2>1, <2>2, <1>2
<1>7. CASE st \in [op : {"addForeignKey"}, name : TableNames, fk : Keys]
  <2>1. st.name \in TableNames /\ Has(st.name)
    BY <1>7 DEF Accepts
  <2>2. PICK u : server' = Changed(st.name, u)
    BY <1>7 DEF After
  <2> QED BY <2>1, <2>2, <1>2
<1>8. CASE st \in [op : {"dropTable"}, name : TableNames, cascade : {FALSE}]
  <2>1. server' = [server EXCEPT !.tables = WithoutTable(Resolved(st.name), FALSE)]
    BY <1>8 DEF After
  <2>2. st.name \in TableNames
    BY <1>8
  <2>3. t \in server.tables => t \in WithoutTable(Resolved(st.name), FALSE)
    BY <2>2, ResolvedOwn DEF WithoutTable
  <2> QED BY <2>1, <2>3 DEF Fields
<1> QED BY <1>3, <1>4, <1>5, <1>6, <1>7, <1>8 DEF Statements

-----------------------------------------------------------------------------
(* What statements make of an empty server. *)

Of(op, D) == {st \in D : st.op = op}

NamesIn(D) == {Resolved(st.name) : st \in D}

(* No two statements of D are about one name.                              *)
EachNamed(D) == \A a, b \in D : Resolved(a.name) = Resolved(b.name) => a = b

HasFk(t, id) == \E fk \in t.fks : fk.id = id

(* The statements of D give the table of this name this foreign key.       *)
Adds(D, n, id) ==
  \/ \E st \in Of("createTable", D) :
       Resolved(st.name) = n /\ \E fk \in st.fks : ForeignKeyId(fk) = id
  \/ \E st \in Of("addForeignKey", D) : Resolved(st.name) = n /\ ForeignKeyId(st.fk) = id

TablesOnce(tables) ==
  /\ \A t \in tables : DOMAIN t = {"name", "indexes", "fks"}
  /\ \A t, u \in tables : t.name = u.name => t = u

(* The tables, and the sequences, are those that the statements of D have  *)
(* made.                                                                   *)
MadeTables(D, tables) ==
  /\ TablesOnce(tables)
  /\ {t.name : t \in tables} = NamesIn(Of("createTable", D))
  /\ EachNamed(Of("createTable", D))
  /\ NamesIn(Of("addForeignKey", D)) \subseteq NamesIn(Of("createTable", D))
  /\ \A t \in tables : \A id : HasFk(t, id) <=> Adds(D, t.name, id)

MadeSequences(D, sequences) ==
  /\ sequences = NamesIn(Of("createSequence", D))
  /\ EachNamed(Of("createSequence", D))

Made(D, s) == MadeTables(D, s.tables) /\ MadeSequences(D, s.sequences)

(* A table is replaced by one of the same name.                            *)
LEMMA ReplacedOnce ==
  ASSUME NEW T, TablesOnce(T), NEW t \in T,
         NEW u, DOMAIN u = {"name", "indexes", "fks"}, u.name = t.name
  PROVE  /\ TablesOnce((T \ {t}) \cup {u})
         /\ {v.name : v \in (T \ {t}) \cup {u}} = {v.name : v \in T}
BY DEF TablesOnce

(* One more statement, by its kind.                                        *)
LEMMA OneMore ==
  ASSUME NEW D, NEW st, NEW op
  PROVE  /\ st.op = op => Of(op, D \cup {st}) = Of(op, D) \cup {st}
         /\ st.op # op => Of(op, D \cup {st}) = Of(op, D)
BY DEF Of

LEMMA OneMoreName ==
  ASSUME NEW D, NEW st
  PROVE  /\ NamesIn(D \cup {st}) = NamesIn(D) \cup {Resolved(st.name)}
         /\ EachNamed(D) /\ Resolved(st.name) \notin NamesIn(D) => EachNamed(D \cup {st})
BY DEF NamesIn, EachNamed

LEMMA SequencesOneMore ==
  ASSUME NEW D, NEW Q, MadeSequences(D, Q), NEW st
  PROVE  /\ st.op # "createSequence" => MadeSequences(D \cup {st}, Q)
         /\ st.op = "createSequence" /\ Resolved(st.name) \notin Q
              => MadeSequences(D \cup {st}, Q \cup {Resolved(st.name)})
<1>1. PICK E : E = Of("createSequence", D \cup {st})
  OBVIOUS
<1>2. CASE st.op # "createSequence"
  <2>1. E = Of("createSequence", D)
    BY <1>1, <1>2, OneMore
  <2> QED BY <2>1, <1>1, <1>2 DEF MadeSequences
<1>3. CASE st.op = "createSequence"
  <2>1. E = Of("createSequence", D) \cup {st}
    BY <1>1, <1>3, OneMore
  <2> QED BY <2>1, <1>1, <1>3, OneMoreName DEF MadeSequences
<1> QED BY <1>2, <1>3

LEMMA TablesAsBefore ==
  ASSUME NEW D, NEW T, MadeTables(D, T), NEW st, st.op \notin {"createTable", "addForeignKey"}
  PROVE  MadeTables(D \cup {st}, T)
<1>1. /\ Of("createTable", D \cup {st}) = Of("createTable", D)
      /\ Of("addForeignKey", D \cup {st}) = Of("addForeignKey", D)
  BY OneMore
<1>2. \A n, id : Adds(D \cup {st}, n, id) <=> Adds(D, n, id)
  BY <1>1 DEF Adds
<1> QED BY <1>1, <1>2 DEF MadeTables

LEMMA TableCreated ==
  ASSUME NEW D, NEW T, MadeTables(D, T), NEW st, st.op = "createTable",
         Resolved(st.name) \notin {t.name : t \in T},
         NEW u, DOMAIN u = {"name", "indexes", "fks"}, u.name = Resolved(st.name),
         \A id : HasFk(u, id) <=> \E fk \in st.fks : ForeignKeyId(fk) = id
  PROVE  MadeTables(D \cup {st}, T \cup {u})
<1>1. /\ Of("createTable", D \cup {st}) = Of("createTable", D) \cup {st}
      /\ Of("addForeignKey", D \cup {st}) = Of("addForeignKey", D)
  BY OneMore
<1>2. PICK C, F : C = Of("createTable", D) /\ F = Of("addForeignKey", D)
  OBVIOUS
<1>3. Resolved(st.name) \notin NamesIn(C) /\ Resolved(st.name) \notin NamesIn(F)
  BY <1>2 DEF MadeTables
<1>4. TablesOnce(T \cup {u})
  BY DEF MadeTables, TablesOnce
<1>5. {t.name : t \in T \cup {u}} = NamesIn(C \cup {st}) /\ EachNamed(C \cup {st})
  <2>1. {t.name : t \in T \cup {u}} = {t.name : t \in T} \cup {Resolved(st.name)}
    OBVIOUS
  <2> QED BY <2>1, <1>2, <1>3, OneMoreName DEF MadeTables
<1>6. NamesIn(F) \subseteq NamesIn(C \cup {st})
  BY <1>2, OneMoreName DEF MadeTables
<1>7. ASSUME NEW t \in T \cup {u}, NEW id PROVE HasFk(t, id) <=> Adds(D \cup {st}, t.name, id)
  <2>1. CASE t \in T
    <3>1. t.name # Resolved(st.name)
      BY <2>1
    <3>2. Adds(D \cup {st}, t.name, id) <=> Adds(D, t.name, id)
      BY <3>1, <1>1 DEF Adds
    <3> QED BY <3>2, <2>1 DEF MadeTables
  <2>2. CASE t = u
    <3>1. \A a \in C : Resolved(a.name) # u.name
      BY <1>3 DEF NamesIn
    <3>2. \A a \in F : Resolved(a.name) # u.name
      BY <1>3 DEF NamesIn
    <3>3. Adds(D \cup {st}, u.name, id) <=> \E fk \in st.fks : ForeignKeyId(fk) = id
      BY <3>1, <3>2, <1>1, <1>2 DEF Adds
    <3> QED BY <3>3, <2>2
  <2> QED BY <2>1, <2>2
<1> QED BY <1>1, <1>2, <1>4, <1>5, <1>6, <1>7 DEF MadeTables

LEMMA ForeignKeyAdded ==
  ASSUME NEW D, NEW T, MadeTables(D, T), NEW st, st.op = "addForeignKey",
         NEW t \in T, t.name = Resolved(st.name),
         NEW u, DOMAIN u = {"name", "indexes", "fks"}, u.name = t.name,
         \A id : HasFk(u, id) <=> HasFk(t, id) \/ ForeignKeyId(st.fk) = id
  PROVE  MadeTables(D \cup {st}, (T \ {t}) \cup {u})
<1>1. /\ Of("createTable", D \cup {st}) = Of("createTable", D)
      /\ Of("addForeignKey", D \cup {st}) = Of("addForeignKey", D) \cup {st}
  BY OneMore
<1>2. PICK C, F : C = Of("createTable", D) /\ F = Of("addForeignKey", D)
  OBVIOUS
<1>3. PICK V : V = (T \ {t}) \cup {u}
  OBVIOUS
<1>4. TablesOnce(V) /\ {v.name : v \in V} = {v.name : v \in T}
  BY <1>3, ReplacedOnce DEF MadeTables
<1>5. NamesIn(F \cup {st}) \subseteq NamesIn(C)
  <2>1. Resolved(st.name) \in NamesIn(C)
    BY <1>2 DEF MadeTables
  <2> QED BY <2>1, <1>2, OneMoreName DEF MadeTables
<1>6. ASSUME NEW v \in V, NEW id PROVE HasFk(v, id) <=> Adds(D \cup {st}, v.name, id)
  <2>1. Adds(D \cup {st}, v.name, id)
          <=> Adds(D, v.name, id) \/ (Resolved(st.name) = v.name /\ ForeignKeyId(st.fk) = id)
    <3> DEFINE P(a) == Resolved(a.name) = v.name /\ ForeignKeyId(a.fk) = id
               Created == \E a \in C : Resolved(a.name) = v.name /\ \E fk \in a.fks : ForeignKeyId(fk) = id
    <3>1. (\E a \in F \cup {st} : P(a)) <=> (\E a \in F : P(a)) \/ P(st)
      OBVIOUS
    <3>2. Adds(D \cup {st}, v.name, id) <=> Created \/ \E a \in F \cup {st} : P(a)
      BY <1>1, <1>2, Zenon DEF Adds
    <3>3. Adds(D, v.name, id) <=> Created \/ \E a \in F : P(a)
      BY <1>2, Zenon DEF Adds
    <3> QED BY <3>1, <3>2, <3>3, Zenon
  <2>2. CASE v = u
    <3>1. HasFk(t, id) <=> Adds(D, t.name, id)
      BY DEF MadeTables
    <3>2. HasFk(u, id) <=> HasFk(t, id) \/ ForeignKeyId(st.fk) = id
      OBVIOUS
    <3>3. v.name = t.name
      BY <2>2
    <3>4. (Adds(D, v.name, id) <=> Adds(D, t.name, id)) /\ (HasFk(v, id) <=> HasFk(u, id))
      BY <2>2, <3>3, Zenon
    <3>5. Resolved(st.name) = v.name
      BY <3>3
    <3> QED BY <3>1, <3>2, <3>4, <3>5, <2>1, Zenon
  <2>3. CASE v # u
    <3>1. v \in T /\ v # t
      BY <2>3, <1>3
    <3>2. v.name # Resolved(st.name)
      BY <3>1 DEF MadeTables, TablesOnce
    <3>3. HasFk(v, id) <=> Adds(D, v.name, id)
      BY <3>1 DEF MadeTables
    <3> QED BY <3>2, <3>3, <2>1, Zenon
  <2> QED BY <2>2, <2>3
<1>7. MadeTables(D \cup {st}, V)
  BY <1>1, <1>2, <1>4, <1>5, <1>6 DEF MadeTables
<1> QED BY <1>3, <1>7

(* A table is replaced by one with the same name and foreign keys.         *)
LEMMA TableReplaced ==
  ASSUME NEW D, NEW T, MadeTables(D, T), NEW t \in T,
         NEW u, DOMAIN u = {"name", "indexes", "fks"}, u.name = t.name, u.fks = t.fks
  PROVE  MadeTables(D, (T \ {t}) \cup {u})
<1>1. PICK V : V = (T \ {t}) \cup {u}
  OBVIOUS
<1>2. TablesOnce(V) /\ {v.name : v \in V} = {v.name : v \in T}
  BY <1>1, ReplacedOnce DEF MadeTables
<1>3. ASSUME NEW v \in V, NEW id PROVE HasFk(v, id) <=> Adds(D, v.name, id)
  <2>1. CASE v = u
    <3>1. HasFk(t, id) <=> Adds(D, t.name, id)
      BY DEF MadeTables
    <3> QED BY <3>1, <2>1 DEF HasFk
  <2>2. CASE v # u
    BY <2>2, <1>1 DEF MadeTables
  <2> QED BY <2>1, <2>2
<1>4. MadeTables(D, V)
  BY <1>2, <1>3 DEF MadeTables
<1> QED BY <1>1, <1>4

LEMMA ServerTableIs ==
  ASSUME NEW n, Has(n)
  PROVE  ServerTable(n) \in server.tables /\ ServerTable(n).name = Resolved(n)
<1>1. \E t \in server.tables : t.name = Resolved(n)
  BY DEF Has, ServerNames
<1> QED BY <1>1, Zenon DEF ServerTable

Creates == {"createSchema", "createSequence", "createTable", "createIndex", "addForeignKey"}

(* Each statement that the server accepts is one more that made it.        *)
LEMMA StatementMakes ==
  ASSUME NEW D, Made(D, server), DOMAIN server = Fields,
         NEW st, st.op \in Creates, Accepts(st), server' = After(st)
  PROVE  Made(D \cup {st}, server')
<1>1. PICK s, T, Q : s = server /\ s.tables = T /\ s.sequences = Q
  OBVIOUS
<1>2. MadeTables(D, T) /\ MadeSequences(D, Q) /\ DOMAIN s = Fields
  BY <1>1 DEF Made
<1>3. CASE st.op = "createSchema"
  <2>1. server' = [s EXCEPT !.namespaces = s.namespaces \cup {st.ns}]
    BY <1>1, <1>3 DEF After
  <2>2. server'.tables = T /\ server'.sequences = Q
    BY <2>1, <1>1, <1>2 DEF Fields
  <2> QED BY <2>2, <1>2, <1>3, TablesAsBefore, SequencesOneMore DEF Made
<1>4. CASE st.op = "createSequence"
  <2>1. server' = [s EXCEPT !.sequences = Q \cup {Resolved(st.name)}]
    BY <1>1, <1>4 DEF After
  <2>2. server'.tables = T /\ server'.sequences = Q \cup {Resolved(st.name)}
    BY <2>1, <1>1, <1>2 DEF Fields
  <2>3. Resolved(st.name) \notin Q
    BY <1>1, <1>4 DEF Accepts
  <2> QED BY <2>2, <2>3, <1>2, <1>4, TablesAsBefore, SequencesOneMore DEF Made
<1>5. CASE st.op = "createTable"
  <2>1. PICK u : u = [name |-> Resolved(st.name), indexes |-> st.indexes,
                      fks |-> {OnServer(fk) : fk \in st.fks}]
    OBVIOUS
  <2>2. server' = [s EXCEPT !.tables = T \cup {u}]
    BY <2>1, <1>1, <1>5 DEF After
  <2>3. server'.tables = T \cup {u} /\ server'.sequences = Q
    BY <2>2, <1>1, <1>2 DEF Fields
  <2>4. Resolved(st.name) \notin {t.name : t \in T}
    BY <1>1, <1>5 DEF Accepts, Has, ServerNames
  <2>5. DOMAIN u = {"name", "indexes", "fks"} /\ u.name = Resolved(st.name)
    BY <2>1
  <2>6. \A id : HasFk(u, id) <=> \E fk \in st.fks : ForeignKeyId(fk) = id
    <3>1. \A fk : OnServer(fk).id = ForeignKeyId(fk)
      BY DEF OnServer
    <3>2. u.fks = {OnServer(fk) : fk \in st.fks}
      BY <2>1
    <3> QED BY <3>1, <3>2 DEF HasFk
  <2>7. MadeTables(D \cup {st}, T \cup {u})
    BY <2>4, <2>5, <2>6, <1>2, <1>5, TableCreated
  <2> QED BY <2>3, <2>7, <1>2, <1>5, SequencesOneMore DEF Made
<1>6. CASE st.op = "createIndex"
  <2>1. PICK t \in T : t = ServerTable(st.name) /\ t.name = Resolved(st.name)
    BY <1>1, <1>6, ServerTableIs DEF Accepts
  <2>2. PICK u : u = [t EXCEPT !.indexes = t.indexes \cup {st.id}]
    OBVIOUS
  <2>3. server' = [s EXCEPT !.tables = (T \ {t}) \cup {u}]
    BY <2>1, <2>2, <1>1, <1>6 DEF After, Changed
  <2>4. server'.tables = (T \ {t}) \cup {u} /\ server'.sequences = Q
    BY <2>3, <1>1, <1>2 DEF Fields
  <2>5. DOMAIN t = {"name", "indexes", "fks"}
    BY <1>2 DEF MadeTables, TablesOnce
  <2>6. DOMAIN u = {"name", "indexes", "fks"} /\ u.name = t.name /\ u.fks = t.fks
    BY <2>2, <2>5
  <2>7. MadeTables(D \cup {st}, T)
    BY <1>2, <1>6, TablesAsBefore
  <2>8. MadeTables(D \cup {st}, (T \ {t}) \cup {u})
    BY <2>6, <2>7, TableReplaced
  <2> QED BY <2>4, <2>8, <1>2, <1>6, SequencesOneMore DEF Made
<1>7. CASE st.op = "addForeignKey"
  <2>1. PICK t \in T : t = ServerTable(st.name) /\ t.name = Resolved(st.name)
    BY <1>1, <1>7, ServerTableIs DEF Accepts
  <2>2. PICK u : u = [t EXCEPT !.fks = t.fks \cup {OnServer(st.fk)}]
    OBVIOUS
  <2>3. server' = [s EXCEPT !.tables = (T \ {t}) \cup {u}]
    BY <2>1, <2>2, <1>1, <1>7 DEF After, Changed
  <2>4. server'.tables = (T \ {t}) \cup {u} /\ server'.sequences = Q
    BY <2>3, <1>1, <1>2 DEF Fields
  <2>5. DOMAIN t = {"name", "indexes", "fks"}
    BY <1>2 DEF MadeTables, TablesOnce
  <2>6. /\ DOMAIN u = {"name", "indexes", "fks"} /\ u.name = t.name
        /\ u.fks = t.fks \cup {OnServer(st.fk)}
    BY <2>2, <2>5
  <2>7. \A id : HasFk(u, id) <=> HasFk(t, id) \/ ForeignKeyId(st.fk) = id
    <3>1. OnServer(st.fk).id = ForeignKeyId(st.fk)
      BY DEF OnServer
    <3> QED BY <2>6, <3>1 DEF HasFk
  <2>8. MadeTables(D \cup {st}, (T \ {t}) \cup {u})
    BY <2>1, <2>6, <2>7, <1>2, <1>7, ForeignKeyAdded
  <2> QED BY <2>4, <2>8, <1>2, <1>7, SequencesOneMore DEF Made
<1> QED BY <1>3, <1>4, <1>5, <1>6, <1>7 DEF Creates

-----------------------------------------------------------------------------
(* What statements take from a server, until nothing is left. *)

Drops == {"dropSequence", "dropForeignKey", "dropTable"}

(* The tables, and the sequences, are those that the statements of L drop, *)
(* each once, and with its foreign keys where these are dropped before.    *)
LeftForeignKeys(L, tables) ==
  /\ NamesIn(Of("dropForeignKey", L)) \subseteq NamesIn(Of("dropTable", L))
  /\ \A t \in tables : \A id :
       HasFk(t, id) <=> \E st \in Of("dropForeignKey", L) : Resolved(st.name) = t.name /\ st.id = id
  /\ \A a, b \in Of("dropForeignKey", L) :
       Resolved(a.name) = Resolved(b.name) /\ a.id = b.id => a = b

LeftTables(L, tables) ==
  /\ TablesOnce(tables)
  /\ {t.name : t \in tables} = NamesIn(Of("dropTable", L))
  /\ EachNamed(Of("dropTable", L))
  /\ platform # "sqlite" => LeftForeignKeys(L, tables)
  /\ platform = "sqlite" => Of("dropForeignKey", L) = {}

LeftSequences(L, sequences) ==
  /\ sequences = NamesIn(Of("dropSequence", L))
  /\ EachNamed(Of("dropSequence", L))

(* Tables come after all else.                                             *)
TablesLast(statements) ==
  \A i, j \in DOMAIN statements :
    i < j /\ statements[i].op = "dropTable" => statements[j].op = "dropTable"

Undoes(statements, s) ==
  /\ IsInjective(statements) /\ TablesLast(statements)
  /\ \A i \in DOMAIN statements : statements[i].op \in Drops
  /\ LeftTables(ToSet(statements), s.tables)
  /\ LeftSequences(ToSet(statements), s.sequences)

(* One statement less.                                                     *)
LEMMA OneLess ==
  ASSUME NEW L, NEW st \in L, NEW op
  PROVE  /\ st.op = op => Of(op, L \ {st}) = Of(op, L) \ {st}
         /\ st.op # op => Of(op, L \ {st}) = Of(op, L)
BY DEF Of

LEMMA OneLessName ==
  ASSUME NEW L, NEW st \in L, EachNamed(L)
  PROVE  NamesIn(L \ {st}) = NamesIn(L) \ {Resolved(st.name)} /\ EachNamed(L \ {st})
BY DEF NamesIn, EachNamed

LEMMA HeadAndTail ==
  ASSUME NEW S, NEW s \in Seq(S), s # <<>>, IsInjective(s)
  PROVE  /\ Head(s) \in ToSet(s) /\ ToSet(Tail(s)) = ToSet(s) \ {Head(s)}
         /\ IsInjective(Tail(s)) /\ Head(s) = s[1]
         /\ \A i \in DOMAIN Tail(s) : i + 1 \in DOMAIN s /\ Tail(s)[i] = s[i + 1]
         /\ \A x \in ToSet(s) \ {Head(s)} : \E i \in DOMAIN s : i > 1 /\ s[i] = x
<1>10. PICK n \in Nat : Len(s) = n
  OBVIOUS
<1>11. PICK r : r = Tail(s)
  OBVIOUS
<1>1. /\ Len(s) = n /\ DOMAIN s = 1 .. n /\ r = Tail(s)
      /\ n >= 1 /\ Head(s) = s[1] /\ 1 \in DOMAIN s
  BY <1>10, <1>11
<1>2. DOMAIN r = 1 .. n - 1 /\ \A i \in 1 .. n - 1 : r[i] = s[i + 1]
  BY <1>1, HeadTailProperties
<1>3. \A i \in 1 .. n - 1 : i + 1 \in 1 .. n /\ i + 1 # 1
  BY <1>1
<1>4. ASSUME NEW i \in 1 .. n, i # 1 PROVE i > 1 /\ i - 1 \in 1 .. n - 1 /\ r[i - 1] = s[i]
  <2>1. i - 1 \in 1 .. n - 1 /\ (i - 1) + 1 = i /\ i > 1
    BY <1>4, <1>1
  <2> QED BY <2>1, <1>2
<1>5. ToSet(r) \subseteq ToSet(s) \ {s[1]}
  BY <1>1, <1>2, <1>3 DEF ToSet, IsInjective
<1>6. ToSet(s) \ {s[1]} \subseteq ToSet(r)
  <2>1. ASSUME NEW x \in ToSet(s), x # s[1] PROVE x \in ToSet(r)
    <3>1. PICK i \in 1 .. n : x = s[i]
      BY <1>1 DEF ToSet
    <3>2. i - 1 \in DOMAIN r /\ r[i - 1] = x
      BY <3>1, <2>1, <1>2, <1>4
    <3> QED BY <3>2 DEF ToSet
  <2> QED BY <2>1
<1>7. IsInjective(r)
  <2> SUFFICES ASSUME NEW i \in 1 .. n - 1, NEW j \in 1 .. n - 1, r[i] = r[j] PROVE i = j
    BY <1>2 DEF IsInjective
  <2>1. i + 1 = j + 1
    BY <1>1, <1>2, <1>3 DEF IsInjective
  <2> QED BY <2>1
<1>8. \A x \in ToSet(s) \ {s[1]} : \E i \in DOMAIN s : i > 1 /\ s[i] = x
  BY <1>1, <1>4 DEF ToSet
<1>9. s[1] \in ToSet(s)
  BY <1>1 DEF ToSet
<1> QED BY <1>1, <1>2, <1>3, <1>5, <1>6, <1>7, <1>8, <1>9

LEMMA SequencesOneLess ==
  ASSUME NEW L, NEW Q, LeftSequences(L, Q), NEW st \in L
  PROVE  /\ st.op # "dropSequence" => LeftSequences(L \ {st}, Q)
         /\ st.op = "dropSequence" =>
              Resolved(st.name) \in Q /\ LeftSequences(L \ {st}, Q \ {Resolved(st.name)})
<1>1. PICK E, F : E = Of("dropSequence", L) /\ F = Of("dropSequence", L \ {st})
  OBVIOUS
<1>2. Q = NamesIn(E) /\ EachNamed(E)
  BY <1>1 DEF LeftSequences
<1>3. CASE st.op # "dropSequence"
  <2>1. F = E
    BY <1>1, <1>3, OneLess
  <2> QED BY <2>1, <1>1, <1>2, <1>3 DEF LeftSequences
<1>4. CASE st.op = "dropSequence"
  <2>1. F = E \ {st} /\ st \in E
    BY <1>1, <1>4, OneLess DEF Of
  <2>2. NamesIn(F) = NamesIn(E) \ {Resolved(st.name)} /\ EachNamed(F)
    BY <2>1, <1>2, OneLessName
  <2>3. Resolved(st.name) \in NamesIn(E)
    BY <2>1 DEF NamesIn
  <2> QED BY <2>2, <2>3, <1>1, <1>2, <1>4 DEF LeftSequences
<1> QED BY <1>3, <1>4

LEMMA SequenceLess ==
  ASSUME NEW L, NEW T, LeftTables(L, T), NEW st \in L, st.op = "dropSequence"
  PROVE  LeftTables(L \ {st}, T)
<1>1. /\ Of("dropTable", L \ {st}) = Of("dropTable", L)
      /\ Of("dropForeignKey", L \ {st}) = Of("dropForeignKey", L)
  BY OneLess
<1> QED BY <1>1 DEF LeftTables, LeftForeignKeys

(* Only the last statements are about tables: they have no foreign keys.   *)
LEMMA TableLess ==
  ASSUME NEW L, NEW T, LeftTables(L, T), NEW st \in L, st.op = "dropTable",
         Of("dropForeignKey", L) = {}
  PROVE  /\ \E t \in T : t.name = Resolved(st.name)
         /\ platform # "sqlite" => \A t \in T : t.fks = {}
         /\ LeftTables(L \ {st}, {t \in T : t.name # Resolved(st.name)})
<1>1. PICK C, E, U : /\ C = Of("dropTable", L) /\ E = Of("dropTable", L \ {st})
                     /\ U = {t \in T : t.name # Resolved(st.name)}
  OBVIOUS
<1>2. E = C \ {st} /\ st \in C
  BY <1>1, OneLess DEF Of
<1>3. {t.name : t \in T} = NamesIn(C) /\ EachNamed(C)
  BY <1>1 DEF LeftTables
<1>4. NamesIn(E) = NamesIn(C) \ {Resolved(st.name)} /\ EachNamed(E)
  BY <1>2, <1>3, OneLessName
<1>5. {t.name : t \in U} = NamesIn(E)
  BY <1>1, <1>3, <1>4
<1>6. Of("dropForeignKey", L \ {st}) = {}
  BY OneLess
<1>7. \E t \in T : t.name = Resolved(st.name)
  <2>1. Resolved(st.name) \in NamesIn(C)
    BY <1>2 DEF NamesIn
  <2> QED BY <2>1, <1>3
<1>8. ASSUME platform # "sqlite", NEW t \in T PROVE t.fks = {}
  <2>1. \A id : ~ HasFk(t, id)
    BY <1>8 DEF LeftTables, LeftForeignKeys
  <2> QED BY <2>1 DEF HasFk
<1>9. TablesOnce(U)
  BY <1>1 DEF LeftTables, TablesOnce
<1>10. platform # "sqlite" => \A t \in U : \A id : ~ HasFk(t, id)
  BY <1>1, <1>8 DEF HasFk
<1>11. LeftTables(L \ {st}, U)
  <2>1. NamesIn(Of("dropForeignKey", L \ {st})) = {}
    BY <1>6 DEF NamesIn
  <2> QED BY <2>1, <1>1, <1>4, <1>5, <1>6, <1>9, <1>10 DEF LeftTables, LeftForeignKeys
<1> QED BY <1>1, <1>7, <1>8, <1>11

(* The table whose foreign key is dropped is there.                        *)
LEMMA TableOfForeignKey ==
  ASSUME NEW L, NEW T, LeftTables(L, T), NEW st \in L, st.op = "dropForeignKey"
  PROVE  platform # "sqlite" /\ \E t \in T : t.name = Resolved(st.name)
<1>5. PICK F : F = Of("dropForeignKey", L)
  OBVIOUS
<1>1. F = Of("dropForeignKey", L) /\ st \in F
  BY <1>5 DEF Of
<1>2. platform # "sqlite"
  BY <1>1 DEF LeftTables
<1>3. Resolved(st.name) \in NamesIn(F)
  BY <1>1 DEF NamesIn
<1>4. Resolved(st.name) \in {t.name : t \in T}
  BY <1>1, <1>2, <1>3 DEF LeftTables, LeftForeignKeys
<1> QED BY <1>2, <1>4

LEMMA ForeignKeyLess ==
  ASSUME NEW L, NEW T, LeftTables(L, T), NEW st \in L, st.op = "dropForeignKey",
         NEW t \in T, t.name = Resolved(st.name),
         NEW u, DOMAIN u = {"name", "indexes", "fks"}, u.name = t.name,
         \A id : HasFk(u, id) <=> HasFk(t, id) /\ id # st.id
  PROVE  HasFk(t, st.id) /\ LeftTables(L \ {st}, (T \ {t}) \cup {u})
<1>1. PICK C, F : C = Of("dropTable", L) /\ F = Of("dropForeignKey", L)
  OBVIOUS
<1>2. /\ Of("dropTable", L \ {st}) = C /\ Of("dropForeignKey", L \ {st}) = F \ {st}
      /\ st \in F
  BY <1>1, OneLess DEF Of
<1>3. platform # "sqlite"
  BY <1>1, <1>2 DEF LeftTables
<1>4. /\ TablesOnce(T) /\ {v.name : v \in T} = NamesIn(C) /\ EachNamed(C)
      /\ NamesIn(F) \subseteq NamesIn(C)
      /\ \A v \in T : \A id : HasFk(v, id) <=> \E a \in F : Resolved(a.name) = v.name /\ a.id = id
      /\ \A a, b \in F : Resolved(a.name) = Resolved(b.name) /\ a.id = b.id => a = b
  BY <1>1, <1>3 DEF LeftTables, LeftForeignKeys
<1>11. PICK U : U = (T \ {t}) \cup {u}
  OBVIOUS
<1>14. TablesOnce(U) /\ {v.name : v \in U} = NamesIn(C)
  <2>1. TablesOnce((T \ {t}) \cup {u}) /\ {v.name : v \in (T \ {t}) \cup {u}} = {v.name : v \in T}
    BY <1>4, ReplacedOnce
  <2> QED BY <2>1, <1>4, <1>11
<1>15. HasFk(t, st.id)
  BY <1>2, <1>4, Zenon
<1>17. \A v \in U : \A id :
        HasFk(v, id) <=> \E a \in F \ {st} : Resolved(a.name) = v.name /\ a.id = id
  <2> SUFFICES ASSUME NEW v \in U, NEW id
               PROVE  HasFk(v, id) <=> \E a \in F \ {st} : Resolved(a.name) = v.name /\ a.id = id
    OBVIOUS
  <2>1. CASE v = u
    <3>1. HasFk(t, id) <=> \E a \in F : Resolved(a.name) = t.name /\ a.id = id
      BY <1>4
    <3>2. \A a \in F \ {st} : Resolved(a.name) = t.name => a.id # st.id
      BY <1>2, <1>4, Zenon
    <3>3. HasFk(v, id) <=> HasFk(t, id) /\ id # st.id
      BY <2>1, Zenon
    <3>4. CASE id = st.id
      BY <3>2, <3>3, <3>4, <2>1, Zenon
    <3>5. CASE id # st.id
      <4>1. \A a \in F : a.id = id => a \in F \ {st}
        BY <3>5
      <4>2. \A a \in F \ {st} : a \in F
        OBVIOUS
      <4> QED BY <4>1, <4>2, <3>1, <3>3, <3>5, <2>1, Zenon
    <3> QED BY <3>4, <3>5
  <2>2. CASE v # u
    <3>1. v \in T /\ v # t
      BY <2>2, <1>11
    <3>2. v.name # Resolved(st.name)
      BY <3>1, <1>4 DEF TablesOnce
    <3>3. HasFk(v, id) <=> \E a \in F : Resolved(a.name) = v.name /\ a.id = id
      BY <3>1, <1>4
    <3>4. \A a \in F : Resolved(a.name) = v.name => a \in F \ {st}
      BY <3>2
    <3>5. \A a \in F \ {st} : a \in F
      OBVIOUS
    <3> QED BY <3>3, <3>4, <3>5, Zenon
  <2> QED BY <2>1, <2>2
<1>18. NamesIn(F \ {st}) \subseteq NamesIn(C)
  BY <1>4 DEF NamesIn
<1>19. \A a, b \in F \ {st} : Resolved(a.name) = Resolved(b.name) /\ a.id = b.id => a = b
  BY <1>4
<1>20. LeftTables(L \ {st}, U)
  <2>1. PICK M : M = L \ {st}
    OBVIOUS
  <2>2. Of("dropTable", M) = C /\ Of("dropForeignKey", M) = F \ {st}
    BY <2>1, <1>2
  <2>3. LeftForeignKeys(M, U)
    <3>1. NamesIn(Of("dropForeignKey", M)) \subseteq NamesIn(Of("dropTable", M))
      BY <2>2, <1>18
    <3>2. \A v \in U : \A id :
            HasFk(v, id) <=> \E a \in Of("dropForeignKey", M) : Resolved(a.name) = v.name /\ a.id = id
      BY <2>2, <1>17
    <3>3. \A a, b \in Of("dropForeignKey", M) :
            Resolved(a.name) = Resolved(b.name) /\ a.id = b.id => a = b
      BY <2>2, <1>19
    <3> QED BY <3>1, <3>2, <3>3, Zenon DEF LeftForeignKeys
  <2>4. {v.name : v \in U} = NamesIn(Of("dropTable", M)) /\ EachNamed(Of("dropTable", M))
    BY <2>2, <1>4, <1>14
  <2>5. LeftTables(M, U)
    BY <2>3, <2>4, <1>3, <1>14, Zenon DEF LeftTables
  <2> QED BY <2>1, <2>5
<1> QED BY <1>11, <1>15, <1>20

(* The statement that drops a table leaves what depends on it alone.       *)
LEMMA DropsAlone ==
  ASSUME NEW st \in Statements, st.op = "dropTable"
  PROVE  st.cascade = FALSE
<1>1. \/ st \in [op : {"createSchema"}, ns : Namespaces]
      \/ st \in [op : {"createSequence", "dropSequence"}, name : SequenceNames]
      \/ st \in [op : {"createTable"}, name : TableNames, indexes : SUBSET Ids, fks : SUBSET Keys]
      \/ st \in [op : {"createIndex", "dropForeignKey"}, name : TableNames, id : Ids]
      \/ st \in [op : {"addForeignKey"}, name : TableNames, fk : Keys]
      \/ st \in [op : {"dropTable"}, name : TableNames, cascade : {FALSE}]
  BY DEF Statements
<1>2. st \in [op : {"dropTable"}, name : TableNames, cascade : {FALSE}]
  BY <1>1
<1> QED BY <1>2

(* The server accepts each statement, and the others undo what it leaves.  *)
LEMMA StatementUndoes ==
  ASSUME script \in Seq(Statements), script # <<>>, Undoes(script, server),
         DOMAIN server = Fields, platform' = platform
  PROVE  /\ Accepts(Head(script))
         /\ server' = After(Head(script)) => Undoes(Tail(script), server')
<1>1. PICK s, T, Q : s = server /\ s.tables = T /\ s.sequences = Q
  OBVIOUS
<1>12. PICK R \in Seq(Statements) : R = script
  OBVIOUS
<1>13. PICK L, st : L = ToSet(R) /\ st = Head(R)
  OBVIOUS
<1>2. R = script /\ L = ToSet(R) /\ st = Head(R)
  BY <1>12, <1>13
<1>3. /\ R # <<>> /\ IsInjective(R) /\ TablesLast(R) /\ \A i \in DOMAIN R : R[i].op \in Drops
      /\ LeftTables(L, T) /\ LeftSequences(L, Q) /\ DOMAIN s = Fields
  BY <1>1, <1>2 DEF Undoes
<1>4. /\ st \in L /\ ToSet(Tail(R)) = L \ {st} /\ IsInjective(Tail(R)) /\ st = R[1]
      /\ \A i \in DOMAIN Tail(R) : i + 1 \in DOMAIN R /\ Tail(R)[i] = R[i + 1]
      /\ \A x \in L \ {st} : \E i \in DOMAIN R : i > 1 /\ R[i] = x
  BY <1>2, <1>3, HeadAndTail
<1>5. 1 \in DOMAIN R /\ st \in Statements /\ st.op \in Drops
  <2>1. 1 \in DOMAIN R
    BY <1>3
  <2> QED BY <2>1, <1>3, <1>4
<1>6. TablesLast(Tail(R)) /\ \A i \in DOMAIN Tail(R) : Tail(R)[i].op \in Drops
  <2>1. \A i, j \in DOMAIN Tail(R) : i < j => i + 1 < j + 1
    OBVIOUS
  <2> QED BY <2>1, <1>3, <1>4 DEF TablesLast
<1>7. ASSUME LeftTables(L \ {st}, server'.tables), LeftSequences(L \ {st}, server'.sequences)
      PROVE  Undoes(Tail(script), server')
  BY <1>2, <1>4, <1>6, <1>7 DEF Undoes
<1>8. ASSUME NEW x, NEW y, server' = [s EXCEPT !.tables = x]
      PROVE  server'.tables = x /\ server'.sequences = Q
  BY <1>1, <1>3, <1>8 DEF Fields
<1>9. CASE st.op = "dropSequence"
  <2>1. Resolved(st.name) \in Q /\ LeftSequences(L \ {st}, Q \ {Resolved(st.name)})
    BY <1>3, <1>4, <1>9, SequencesOneLess
  <2>2. LeftTables(L \ {st}, T)
    BY <1>3, <1>4, <1>9, SequenceLess
  <2>3. Accepts(st)
    BY <2>1, <1>1, <1>9 DEF Accepts
  <2>4. ASSUME server' = After(st) PROVE Undoes(Tail(script), server')
    <3>1. server' = [s EXCEPT !.sequences = Q \ {Resolved(st.name)}]
      BY <2>4, <1>1, <1>9 DEF After
    <3>2. server'.tables = T /\ server'.sequences = Q \ {Resolved(st.name)}
      BY <3>1, <1>1, <1>3 DEF Fields
    <3> QED BY <3>2, <2>1, <2>2, <1>7
  <2> QED BY <2>3, <2>4, <1>2
<1>10. CASE st.op = "dropForeignKey"
  <2>1. platform # "sqlite" /\ \E t \in T : t.name = Resolved(st.name)
    BY <1>3, <1>4, <1>10, TableOfForeignKey
  <2>2. Has(st.name)
    BY <2>1, <1>1 DEF Has, ServerNames
  <2>3. PICK t \in T : t = ServerTable(st.name) /\ t.name = Resolved(st.name)
    BY <2>2, <1>1, ServerTableIs
  <2>4. PICK u : u = [t EXCEPT !.fks = {fk \in t.fks : fk.id # st.id}]
    OBVIOUS
  <2>8. DOMAIN t = {"name", "indexes", "fks"}
    BY <1>3 DEF LeftTables, TablesOnce
  <2>9. DOMAIN u = {"name", "indexes", "fks"} /\ u.name = t.name
    BY <2>4, <2>8
  <2>10. \A id : HasFk(u, id) <=> HasFk(t, id) /\ id # st.id
    <3>1. u.fks = {fk \in t.fks : fk.id # st.id}
      BY <2>4, <2>8
    <3> QED BY <3>1 DEF HasFk
  <2>5. HasFk(t, st.id) /\ LeftTables(L \ {st}, (T \ {t}) \cup {u})
    BY <2>3, <2>9, <2>10, <1>3, <1>4, <1>10, ForeignKeyLess
  <2>6. Accepts(st)
    <3>1. st.id \in FkIds({t})
      BY <2>5 DEF FkIds, HasFk
    <3> QED BY <3>1, <2>2, <2>3, <1>10 DEF Accepts
  <2>7. ASSUME server' = After(st) PROVE Undoes(Tail(script), server')
    <3>1. server' = [s EXCEPT !.tables = (T \ {t}) \cup {u}]
      BY <2>3, <2>4, <2>7, <1>1, <1>10 DEF After, Changed
    <3>2. server'.tables = (T \ {t}) \cup {u} /\ server'.sequences = Q
      BY <3>1, <1>8
    <3>3. LeftSequences(L \ {st}, Q)
      BY <1>3, <1>4, <1>10, SequencesOneLess
    <3> QED BY <3>2, <3>3, <2>5, <1>7
  <2> QED BY <2>6, <2>7, <1>2
<1>11. CASE st.op = "dropTable"
  <2>1. Of("dropForeignKey", L) = {}
    <3>1. \A x \in L \ {st} : x.op = "dropTable"
      BY <1>3, <1>4, <1>5, <1>11 DEF TablesLast
    <3> QED BY <3>1, <1>11 DEF Of
  <2>2. PICK U : U = {t \in T : t.name # Resolved(st.name)}
    OBVIOUS
  <2>3. /\ \E t \in T : t.name = Resolved(st.name)
        /\ platform # "sqlite" => \A t \in T : t.fks = {}
        /\ LeftTables(L \ {st}, U)
    BY <2>1, <2>2, <1>3, <1>4, <1>11, TableLess
  <2>4. st.cascade = FALSE
    BY <1>5, <1>11, DropsAlone
  <2>5. Accepts(st)
    <3>1. Has(st.name)
      BY <2>3, <1>1 DEF Has, ServerNames
    <3>2. platform # "sqlite" => Referrers(Resolved(st.name)) = {}
      BY <2>3, <1>1 DEF Referrers
    <3> QED BY <3>1, <3>2, <1>11 DEF Accepts
  <2>6. ASSUME server' = After(st) PROVE Undoes(Tail(script), server')
    <3>1. WithoutTable(Resolved(st.name), st.cascade) = U
      BY <2>2, <2>4, <1>1 DEF WithoutTable
    <3>2. server' = [s EXCEPT !.tables = U]
      BY <3>1, <2>6, <1>1, <1>11 DEF After
    <3>3. server'.tables = U /\ server'.sequences = Q
      BY <3>2, <1>8
    <3>4. LeftSequences(L \ {st}, Q)
      BY <1>3, <1>4, <1>11, SequencesOneLess
    <3> QED BY <3>3, <3>4, <2>3, <1>7
  <2> QED BY <2>5, <2>6, <1>2
<1> QED BY <1>5, <1>9, <1>10, <1>11 DEF Drops

-----------------------------------------------------------------------------
(* What is in the statements of a schema. *)

(* Each name once, and no table has two foreign keys on one column.        *)
KeysApart(t) == \A fk, gk \in t.fks : fk.target.base = gk.target.base => fk = gk

Declared(s) ==
  /\ \A i, j \in DOMAIN s.tables : s.tables[i].name = s.tables[j].name => i = j
  /\ IsInjective(s.sequences)
  /\ \A i \in DOMAIN s.tables : KeysApart(s.tables[i])

LEMMA KeyStatements ==
  ASSUME NEW t \in Definitions
  PROVE  /\ \A x : x \in ToSet(CreateIndexesSQL(t)) <=> \E fk \in t.fks : x = CreateIndexSQL(t, fk)
         /\ \A x : x \in ToSet(CreateForeignKeysSQL(t)) <=> \E fk \in t.fks : x = CreateForeignKeySQL(t, fk)
         /\ \A x : x \in ToSet(DropForeignKeysSQL(t)) <=> \E fk \in t.fks : x = DropForeignKeySQL(t, fk)
         /\ KeysApart(t) => IsInjective(DropForeignKeysSQL(t))
<1>1. IsFiniteSet(t.fks)
  <2>1. t.fks \in SUBSET Keys
    BY DEF Definitions
  <2> QED BY <2>1, KeysFinite, FS_Subset
<1>2. PICK fks : fks = ForeignKeysOf(t)
  OBVIOUS
<1>3. fks \in Seq(t.fks) /\ ToSet(fks) = t.fks /\ IsInjective(fks)
  BY <1>1, <1>2, SetToSeqType DEF ForeignKeysOf
<1>4. \A fk : fk \in t.fks <=> \E i \in DOMAIN fks : fk = fks[i]
  BY <1>3 DEF ToSet
<1>5. PICK c, a, d : /\ c = CreateIndexesSQL(t) /\ a = CreateForeignKeysSQL(t)
                     /\ d = DropForeignKeysSQL(t)
  OBVIOUS
<1>6. c = [i \in DOMAIN fks |-> CreateIndexSQL(t, fks[i])]
  BY <1>2, <1>5 DEF CreateIndexesSQL
<1>7. a = [i \in DOMAIN fks |-> CreateForeignKeySQL(t, fks[i])]
  BY <1>2, <1>5 DEF CreateForeignKeysSQL
<1>8. d = [i \in DOMAIN fks |-> DropForeignKeySQL(t, fks[i])]
  BY <1>2, <1>5 DEF DropForeignKeysSQL
<1>9. \A x : x \in ToSet(c) <=> \E fk \in t.fks : x = CreateIndexSQL(t, fk)
  BY <1>4, <1>6 DEF ToSet
<1>10. \A x : x \in ToSet(a) <=> \E fk \in t.fks : x = CreateForeignKeySQL(t, fk)
  BY <1>4, <1>7 DEF ToSet
<1>11. \A x : x \in ToSet(d) <=> \E fk \in t.fks : x = DropForeignKeySQL(t, fk)
  BY <1>4, <1>8 DEF ToSet
<1>12. ASSUME KeysApart(t) PROVE IsInjective(d)
  <2> SUFFICES ASSUME NEW i \in DOMAIN fks, NEW j \in DOMAIN fks, d[i] = d[j] PROVE i = j
    BY <1>8 DEF IsInjective
  <2>1. fks[i] \in t.fks /\ fks[j] \in t.fks
    BY <1>4
  <2>2. \A k \in DOMAIN fks : d[k].id.column = fks[k].target.base
    BY <1>8 DEF DropForeignKeySQL, ForeignKeyId
  <2>3. fks[i] = fks[j]
    BY <2>1, <2>2, <1>12 DEF KeysApart
  <2> QED BY <2>3, <1>3 DEF IsInjective
<1> QED BY <1>5, <1>9, <1>10, <1>11, <1>12

LEMMA CreateElements ==
  ASSUME NEW s \in SchemaType, NEW p
  PROVE  \A x : x \in ToSet(ToSql(p, s)) <=>
           \/ SupportsSchemas(p) /\ \E ns \in s.namespaces : x = CreateSchemaSQL(ns)
           \/ \E n \in ToSet(s.sequences) : x = CreateSequenceSQL(n)
           \/ \E t \in ToSet(s.tables) : x = CreateTableSQL(p, t)
           \/ p # "mysql" /\ \E t \in ToSet(s.tables) : \E fk \in t.fks : x = CreateIndexSQL(t, fk)
           \/ p # "sqlite" /\ \E t \in ToSet(s.tables) : \E fk \in t.fks : x = CreateForeignKeySQL(t, fk)
<1>1. PICK tables \in Seq(Definitions), sequences \in Seq(SequenceNames) :
        tables = s.tables /\ sequences = s.sequences
  BY DEF SchemaType
<1>2. PICK b, a, n, q :
        /\ b = [i \in DOMAIN tables |-> BuildCreateTableSQL(p, tables[i])]
        /\ a = [i \in DOMAIN tables |-> CreateForeignKeysSQL(tables[i])]
        /\ n = IF SupportsSchemas(p)
               THEN LET namespaces == SetToSeq(s.namespaces)
                    IN  [i \in DOMAIN namespaces |-> CreateSchemaSQL(namespaces[i])]
               ELSE <<>>
        /\ q = [i \in DOMAIN sequences |-> CreateSequenceSQL(sequences[i])]
  OBVIOUS
<1>3. b \in Seq(Seq(Statements)) /\ a \in Seq(Seq(Statements))
  <2>1. \A i \in DOMAIN tables : /\ BuildCreateTableSQL(p, tables[i]) \in Seq(Statements)
                                 /\ CreateForeignKeysSQL(tables[i]) \in Seq(Statements)
    BY TableStatements
  <2>2. PICK k \in Nat : Len(tables) = k
    OBVIOUS
  <2>3. DOMAIN tables = 1 .. k
    BY <2>2
  <2>4. b \in [1 .. k -> Seq(Statements)]
    BY <2>1, <2>3, <1>2
  <2>5. a \in [1 .. k -> Seq(Statements)]
    BY <2>1, <2>3, <1>2
  <2> QED BY <2>4, <2>5
<1>4. FlattenSeq(b) \in Seq(Statements) /\ FlattenSeq(a) \in Seq(Statements)
  BY <1>3, FlattenType
<1>5. q \in Seq(Statements)
  <2>1. \A i \in DOMAIN sequences : CreateSequenceSQL(sequences[i]) \in Statements
    BY NameStatements
  <2> QED BY <2>1, <1>2
<1>6. /\ n \in Seq(Statements)
      /\ \A x : x \in ToSet(n) <=>
           SupportsSchemas(p) /\ \E ns \in s.namespaces : x = CreateSchemaSQL(ns)
  <2>1. PICK m : m = SetToSeq(s.namespaces)
    OBVIOUS
  <2>2. s.namespaces \in SUBSET Namespaces
    BY DEF SchemaType
  <2>3. m \in Seq(s.namespaces) /\ ToSet(m) = s.namespaces
    BY <2>1, <2>2, NamespacesFinite, FS_Subset, SetToSeqType
  <2>4. CASE SupportsSchemas(p)
    <3>1. n = [i \in DOMAIN m |-> CreateSchemaSQL(m[i])]
      BY <2>1, <2>4, <1>2
    <3>2. \A i \in DOMAIN m : CreateSchemaSQL(m[i]) \in Statements
      BY <2>2, <2>3, NameStatements
    <3>3. n \in Seq(Statements)
      BY <2>3, <3>1, <3>2, SMTT(30)
    <3>4. \A ns : ns \in s.namespaces <=> \E i \in DOMAIN m : ns = m[i]
      BY <2>3 DEF ToSet
    <3>5. \A x : x \in ToSet(n) <=> \E ns \in s.namespaces : x = CreateSchemaSQL(ns)
      BY <3>1, <3>4 DEF ToSet
    <3> QED BY <3>3, <3>5, <2>4
  <2>5. CASE ~ SupportsSchemas(p)
    <3>1. n = <<>>
      BY <2>5, <1>2
    <3>2. n \in Seq(Statements) /\ ToSet(n) = {}
      BY <3>1 DEF ToSet
    <3> QED BY <3>2, <2>5
  <2> QED BY <2>4, <2>5
<1>7. PICK c : c = CreateTablesSQL(p, tables)
  OBVIOUS
<1>8. /\ p = "sqlite" => c = FlattenSeq(b)
      /\ p # "sqlite" => c = FlattenSeq(b) \o FlattenSeq(a)
  BY <1>2, <1>7, Zenon DEF CreateTablesSQL, SQLiteCreateTablesSQL
<1>9. c \in Seq(Statements) /\ \A x : x \in ToSet(c) <=>
        x \in ToSet(FlattenSeq(b)) \/ (p # "sqlite" /\ x \in ToSet(FlattenSeq(a)))
  <2>1. CASE p = "sqlite"
    BY <2>1, <1>4, <1>8
  <2>2. CASE p # "sqlite"
    <3>1. /\ FlattenSeq(b) \o FlattenSeq(a) \in Seq(Statements)
          /\ ToSet(FlattenSeq(b) \o FlattenSeq(a)) = ToSet(FlattenSeq(b)) \cup ToSet(FlattenSeq(a))
      BY <1>4, Joined
    <3>2. c = FlattenSeq(b) \o FlattenSeq(a)
      BY <2>2, <1>8
    <3> QED BY <2>2, <3>1, <3>2
  <2> QED BY <2>1, <2>2
<1>10. \A t : t \in ToSet(tables) <=> \E i \in DOMAIN tables : t = tables[i]
  BY DEF ToSet
<1>11. ASSUME NEW t \in Definitions, NEW x
       PROVE  x \in ToSet(BuildCreateTableSQL(p, t)) <=>
                \/ x = CreateTableSQL(p, t)
                \/ p # "mysql" /\ \E fk \in t.fks : x = CreateIndexSQL(t, fk)
  <2>1. PICK r : r = IF p = "mysql" THEN <<>> ELSE CreateIndexesSQL(t)
    OBVIOUS
  <2>2. PICK u : u = <<CreateTableSQL(p, t)>>
    OBVIOUS
  <2>3. BuildCreateTableSQL(p, t) = u \o r
    BY <2>1, <2>2 DEF BuildCreateTableSQL
  <2>4. PICK S : S = {CreateTableSQL(p, t)} \cup ToSet(CreateIndexesSQL(t))
    OBVIOUS
  <2>5. u \in Seq(S) /\ ToSet(u) = {CreateTableSQL(p, t)}
    BY <2>2, <2>4 DEF ToSet
  <2>6. r \in Seq(S) /\ \A y : y \in ToSet(r) <=> p # "mysql" /\ \E fk \in t.fks : y = CreateIndexSQL(t, fk)
    <3>1. CASE p = "mysql"
      <4>1. r = <<>>
        BY <2>1, <3>1
      <4>2. r \in Seq(S) /\ ToSet(r) = {}
        BY <4>1 DEF ToSet
      <4> QED BY <4>2, <3>1
    <3>2. CASE p # "mysql"
      <4>1. r = CreateIndexesSQL(t)
        BY <2>1, <3>2
      <4>2. PICK fks : fks = ForeignKeysOf(t)
        OBVIOUS
      <4>3. fks \in Seq(t.fks)
        <5>1. t.fks \in SUBSET Keys
          BY DEF Definitions
        <5> QED BY <5>1, <4>2, KeysFinite, FS_Subset, SetToSeqType DEF ForeignKeysOf
      <4>4. r = [i \in DOMAIN fks |-> CreateIndexSQL(t, fks[i])]
        BY <4>1, <4>2 DEF CreateIndexesSQL
      <4>5. r \in Seq(ToSet(r))
        <5>1. \A i \in DOMAIN fks : r[i] \in ToSet(r)
          BY <4>4 DEF ToSet
        <5> QED BY <5>1, <4>3, <4>4
      <4>6. ToSet(r) \subseteq S
        BY <4>1, <2>4
      <4> QED BY <4>1, <4>5, <4>6, <3>2, KeyStatements
    <3> QED BY <3>1, <3>2
  <2>7. ToSet(u \o r) = ToSet(u) \cup ToSet(r)
    BY <2>5, <2>6, Joined
  <2> QED BY <2>3, <2>5, <2>6, <2>7
<1>12. \A x : x \in ToSet(FlattenSeq(b)) <=>
         \/ \E t \in ToSet(tables) : x = CreateTableSQL(p, t)
         \/ p # "mysql" /\ \E t \in ToSet(tables) : \E fk \in t.fks : x = CreateIndexSQL(t, fk)
  <2>1. \A x : x \in ToSet(FlattenSeq(b)) <=> \E i \in DOMAIN b : x \in ToSet(b[i])
    BY <1>3, FlattenElements
  <2>2. DOMAIN b = DOMAIN tables /\ \A i \in DOMAIN tables : b[i] = BuildCreateTableSQL(p, tables[i])
    BY <1>2
  <2>3. \A i \in DOMAIN tables : tables[i] \in Definitions
    OBVIOUS
  <2>4. ASSUME NEW i \in DOMAIN tables, NEW x
        PROVE  x \in ToSet(b[i]) <=>
                 \/ x = CreateTableSQL(p, tables[i])
                 \/ p # "mysql" /\ \E fk \in tables[i].fks : x = CreateIndexSQL(tables[i], fk)
    BY <2>2, <2>3, <1>11
  <2> QED BY <2>1, <2>2, <2>4, <1>10
<1>13. \A x : x \in ToSet(FlattenSeq(a)) <=>
         \E t \in ToSet(tables) : \E fk \in t.fks : x = CreateForeignKeySQL(t, fk)
  <2>1. \A x : x \in ToSet(FlattenSeq(a)) <=> \E i \in DOMAIN a : x \in ToSet(a[i])
    BY <1>3, FlattenElements
  <2>2. DOMAIN a = DOMAIN tables /\ \A i \in DOMAIN tables : a[i] = CreateForeignKeysSQL(tables[i])
    BY <1>2
  <2>3. \A i \in DOMAIN tables : tables[i] \in Definitions
    OBVIOUS
  <2>4. ASSUME NEW i \in DOMAIN tables, NEW x
        PROVE  x \in ToSet(a[i]) <=> \E fk \in tables[i].fks : x = CreateForeignKeySQL(tables[i], fk)
    BY <2>2, <2>3, KeyStatements
  <2> QED BY <2>1, <2>2, <2>4, <1>10
<1>14. \A x : x \in ToSet(q) <=> \E m \in ToSet(sequences) : x = CreateSequenceSQL(m)
  <2>1. \A m : m \in ToSet(sequences) <=> \E i \in DOMAIN sequences : m = sequences[i]
    BY DEF ToSet
  <2> QED BY <2>1, <1>2 DEF ToSet
<1>15. ToSql(p, s) = (n \o q) \o c
  BY <1>1, <1>2, <1>7, Zenon DEF ToSql
<1>16. \A x : x \in ToSet((n \o q) \o c) <=> x \in ToSet(n) \/ x \in ToSet(q) \/ x \in ToSet(c)
  <2>1. n \o q \in Seq(Statements) /\ ToSet(n \o q) = ToSet(n) \cup ToSet(q)
    BY <1>5, <1>6, Joined
  <2>3. PICK w : w = n \o q
    OBVIOUS
  <2>4. w \in Seq(Statements) /\ c \in Seq(Statements)
    BY <2>1, <2>3, <1>9
  <2>5. ToSet(w \o c) = ToSet(w) \cup ToSet(c)
    BY <2>4, Joined
  <2>2. ToSet((n \o q) \o c) = ToSet(n \o q) \cup ToSet(c)
    BY <2>3, <2>5
  <2> QED BY <2>1, <2>2
<1> QED BY <1>1, <1>6, <1>9, <1>12, <1>13, <1>14, <1>15, <1>16, Zenon

LEMMA TablesAfter ==
  ASSUME NEW S, NEW p \in Seq(S), NEW q \in Seq(S),
         \A i \in DOMAIN p : p[i].op # "dropTable", TablesLast(q)
  PROVE  TablesLast(p \o q)
<1>1. PICK m \in Nat : Len(p) = m
  OBVIOUS
<1>2. PICK n \in Nat : Len(q) = n
  OBVIOUS
<1>3. PICK s : s = p \o q
  OBVIOUS
<1>4. /\ s \in Seq(S) /\ Len(s) = m + n
      /\ \A i \in 1 .. m + n : s[i] = IF i <= m THEN p[i] ELSE q[i - m]
  BY <1>1, <1>2, <1>3, ConcatProperties
<1>5. DOMAIN s = 1 .. m + n /\ DOMAIN p = 1 .. m /\ DOMAIN q = 1 .. n
  BY <1>1, <1>2, <1>4
<1>6. ASSUME NEW i \in DOMAIN s, NEW j \in DOMAIN s, i < j, s[i].op = "dropTable"
      PROVE  s[j].op = "dropTable"
  <2>1. i > m /\ i - m \in DOMAIN q /\ s[i] = q[i - m]
    <3>1. CASE i <= m
      BY <3>1, <1>4, <1>5, <1>6
    <3>2. CASE ~ i <= m
      BY <3>2, <1>4, <1>5
    <3> QED BY <3>1, <3>2
  <2>2. j - m \in DOMAIN q /\ s[j] = q[j - m] /\ i - m < j - m
    BY <2>1, <1>4, <1>5, <1>6
  <2> QED BY <2>1, <2>2, <1>6 DEF TablesLast
<1>7. TablesLast(s)
  BY <1>6 DEF TablesLast
<1> QED BY <1>3, <1>7

(* The statements that drop a schema: what they are, each of them once,    *)
(* the tables last.                                                        *)
LEMMA DropElements ==
  ASSUME NEW s \in SchemaType, Declared(s), NEW p
  PROVE  /\ \A x : x \in ToSet(ToDropSql(p, s)) <=>
              \/ \E n \in ToSet(s.sequences) : x = DropSequenceSQL(n)
              \/ p # "sqlite" /\ \E t \in ToSet(s.tables) : \E fk \in t.fks : x = DropForeignKeySQL(t, fk)
              \/ \E t \in ToSet(s.tables) : x = DropTableSQL(t.name)
         /\ IsInjective(ToDropSql(p, s)) /\ TablesLast(ToDropSql(p, s))
<1>1. PICK tables \in Seq(Definitions), sequences \in Seq(SequenceNames) :
        tables = s.tables /\ sequences = s.sequences
  BY DEF SchemaType
<1>2. PICK q, d, r :
        /\ q = [i \in DOMAIN sequences |-> DropSequenceSQL(sequences[i])]
        /\ d = [i \in DOMAIN tables |-> DropForeignKeysSQL(tables[i])]
        /\ r = [i \in DOMAIN tables |-> DropTableSQL(tables[i].name)]
  OBVIOUS
<1>3. /\ \A i, j \in DOMAIN tables : tables[i].name = tables[j].name => i = j
      /\ IsInjective(sequences) /\ \A i \in DOMAIN tables : KeysApart(tables[i])
  BY <1>1 DEF Declared
<1>4. \A t : t \in ToSet(tables) <=> \E i \in DOMAIN tables : t = tables[i]
  BY DEF ToSet
<1>5. \A m : m \in ToSet(sequences) <=> \E i \in DOMAIN sequences : m = sequences[i]
  BY DEF ToSet
<1>6. PICK k \in Nat : Len(tables) = k
  OBVIOUS
<1>7. DOMAIN tables = 1 .. k
  BY <1>6
<1>8. /\ q \in Seq(Statements) /\ IsInjective(q)
      /\ \A x : x \in ToSet(q) <=> \E n \in ToSet(sequences) : x = DropSequenceSQL(n)
  <2>1. \A i \in DOMAIN sequences : DropSequenceSQL(sequences[i]) \in Statements
    BY NameStatements
  <2>6. PICK m \in Nat : Len(sequences) = m
    OBVIOUS
  <2>7. q \in [1 .. m -> Statements]
    <3>1. DOMAIN sequences = 1 .. m
      BY <2>6
    <3> QED BY <3>1, <2>1, <1>2
  <2>2. q \in Seq(Statements)
    BY <2>7
  <2>3. \A i \in DOMAIN sequences : q[i].name = sequences[i]
    BY <1>2 DEF DropSequenceSQL
  <2>4. IsInjective(q)
    BY <2>3, <1>2, <1>3 DEF IsInjective
  <2>5. \A x : x \in ToSet(q) <=> \E n \in ToSet(sequences) : x = DropSequenceSQL(n)
    BY <1>2, <1>5 DEF ToSet
  <2> QED BY <2>2, <2>4, <2>5
<1>9. /\ r \in Seq(Statements) /\ IsInjective(r)
      /\ \A x : x \in ToSet(r) <=> \E t \in ToSet(tables) : x = DropTableSQL(t.name)
  <2>1. \A i \in DOMAIN tables : DropTableSQL(tables[i].name) \in Statements
    BY TableStatements
  <2>2. r \in Seq(Statements)
    BY <2>1, <1>2
  <2>3. \A i \in DOMAIN tables : r[i].name = tables[i].name
    BY <1>2 DEF DropTableSQL
  <2>4. IsInjective(r)
    BY <2>3, <1>2, <1>3 DEF IsInjective
  <2>5. \A x : x \in ToSet(r) <=> \E t \in ToSet(tables) : x = DropTableSQL(t.name)
    BY <1>2, <1>4 DEF ToSet
  <2> QED BY <2>2, <2>4, <2>5
<1>10. d \in Seq(Seq(Statements)) /\ DOMAIN d = DOMAIN tables
  <2>1. \A i \in DOMAIN tables : DropForeignKeysSQL(tables[i]) \in Seq(Statements)
    BY TableStatements
  <2>2. d \in [1 .. k -> Seq(Statements)]
    BY <2>1, <1>2, <1>7
  <2> QED BY <2>2, <1>7
<1>11. ASSUME NEW i \in DOMAIN tables, NEW x
       PROVE  x \in ToSet(d[i]) <=> \E fk \in tables[i].fks : x = DropForeignKeySQL(tables[i], fk)
  <2>1. tables[i] \in Definitions /\ d[i] = DropForeignKeysSQL(tables[i])
    BY <1>2
  <2> QED BY <2>1, KeyStatements
<1>12. PICK f : f = FlattenSeq(d)
  OBVIOUS
<1>13. f \in Seq(Statements)
  BY <1>10, <1>12, FlattenType
<1>14. \A x : x \in ToSet(f) <=>
         \E t \in ToSet(tables) : \E fk \in t.fks : x = DropForeignKeySQL(t, fk)
  <2>1. \A x : x \in ToSet(f) <=> \E i \in DOMAIN d : x \in ToSet(d[i])
    BY <1>10, <1>12, FlattenElements
  <2> QED BY <2>1, <1>4, <1>10, <1>11
<1>15. IsInjective(f)
  <2>1. ASSUME NEW i \in DOMAIN d PROVE IsInjective(d[i])
    <3>1. tables[i] \in Definitions /\ d[i] = DropForeignKeysSQL(tables[i]) /\ KeysApart(tables[i])
      BY <1>2, <1>3
    <3> QED BY <3>1, KeyStatements
  <2>2. ASSUME NEW i \in DOMAIN d, NEW j \in DOMAIN d, i # j
        PROVE  ToSet(d[i]) \cap ToSet(d[j]) = {}
    <3>1. \A x \in ToSet(d[i]) : x.name = tables[i].name
      BY <1>10, <1>11 DEF DropForeignKeySQL
    <3>2. \A x \in ToSet(d[j]) : x.name = tables[j].name
      BY <1>10, <1>11 DEF DropForeignKeySQL
    <3>3. tables[i].name # tables[j].name
      BY <2>2, <1>3, <1>10
    <3> QED BY <3>1, <3>2, <3>3
  <2> QED BY <2>1, <2>2, <1>10, <1>12, FlattenOnce
<1>16. PICK c : c = DropTablesSQL(p, tables)
  OBVIOUS
<1>17. (p = "sqlite" => c = r) /\ (p # "sqlite" => c = f \o r)
  BY <1>2, <1>12, <1>16, Zenon DEF DropTablesSQL, SQLiteDropTablesSQL
<1>18. \A i \in DOMAIN r : r[i].op = "dropTable"
  BY <1>2 DEF DropTableSQL
<1>19. TablesLast(r)
  BY <1>18 DEF TablesLast
<1>20. /\ c \in Seq(Statements) /\ IsInjective(c) /\ TablesLast(c)
       /\ \A x : x \in ToSet(c) <=> (p # "sqlite" /\ x \in ToSet(f)) \/ x \in ToSet(r)
  <2>1. CASE p = "sqlite"
    BY <2>1, <1>9, <1>17, <1>19
  <2>2. CASE p # "sqlite"
    <3>1. \A x \in ToSet(f) : x.op = "dropForeignKey"
      BY <1>14 DEF DropForeignKeySQL
    <3>2. \A x \in ToSet(r) : x.op = "dropTable"
      BY <1>9 DEF DropTableSQL
    <3>3. ToSet(f) \cap ToSet(r) = {}
      BY <3>1, <3>2
    <3>4. /\ f \o r \in Seq(Statements) /\ ToSet(f \o r) = ToSet(f) \cup ToSet(r)
          /\ IsInjective(f \o r)
      BY <3>3, <1>9, <1>13, <1>15, Joined
    <3>5. \A i \in DOMAIN f : f[i].op # "dropTable"
      BY <3>1 DEF ToSet
    <3>6. TablesLast(f \o r)
      BY <3>5, <1>9, <1>13, <1>19, TablesAfter
    <3> QED BY <2>2, <3>4, <3>6, <1>17
  <2> QED BY <2>1, <2>2
<1>21. ToDropSql(p, s) = q \o c
  BY <1>1, <1>2, <1>16, Zenon DEF ToDropSql
<1>22. /\ ToSet(q \o c) = ToSet(q) \cup ToSet(c)
       /\ IsInjective(q \o c) /\ TablesLast(q \o c)
  <2>1. \A x \in ToSet(q) : x.op = "dropSequence"
    BY <1>8 DEF DropSequenceSQL
  <2>2. \A x \in ToSet(c) : x.op # "dropSequence"
    BY <1>9, <1>14, <1>20 DEF DropTableSQL, DropForeignKeySQL
  <2>3. ToSet(q) \cap ToSet(c) = {}
    BY <2>1, <2>2
  <2>4. ToSet(q \o c) = ToSet(q) \cup ToSet(c) /\ IsInjective(q \o c)
    BY <2>3, <1>8, <1>20, Joined
  <2>5. \A i \in DOMAIN q : q[i].op # "dropTable"
    BY <2>1 DEF ToSet
  <2>6. TablesLast(q \o c)
    BY <2>5, <1>8, <1>20, TablesAfter
  <2> QED BY <2>4, <2>6
<1>23. \A x : x \in ToSet(q \o c) <=>
         \/ \E n \in ToSet(sequences) : x = DropSequenceSQL(n)
         \/ p # "sqlite" /\ \E t \in ToSet(tables) : \E fk \in t.fks : x = DropForeignKeySQL(t, fk)
         \/ \E t \in ToSet(tables) : x = DropTableSQL(t.name)
  <2>1. \A x : x \in ToSet(q \o c) <=> x \in ToSet(q) \/ x \in ToSet(c)
    BY <1>22
  <2> QED BY <2>1, <1>8, <1>9, <1>14, <1>20, Zenon
<1> QED BY <1>1, <1>21, <1>22, <1>23

(* What the statements of a schema have made of an empty server is what    *)
(* the statements that drop the schema undo.                               *)
LEMMA MadeIsUndone ==
  ASSUME NEW s \in SchemaType, Declared(s), Made(ToSet(ToSql(platform, s)), server)
  PROVE  Undoes(ToDropSql(platform, s), server)
<1>1. PICK D, L, T, Q : /\ D = ToSet(ToSql(platform, s)) /\ L = ToSet(ToDropSql(platform, s))
                        /\ T = server.tables /\ Q = server.sequences
  OBVIOUS
<1>2. PICK tables \in Seq(Definitions), sequences \in Seq(SequenceNames) :
        tables = s.tables /\ sequences = s.sequences
  BY DEF SchemaType
<1>3. PICK B, N : B = ToSet(tables) /\ N = ToSet(sequences)
  OBVIOUS
<1>4. MadeTables(D, T) /\ MadeSequences(D, Q)
  BY <1>1 DEF Made
<1>5. \A x : x \in D <=>
        \/ SupportsSchemas(platform) /\ \E ns \in s.namespaces : x = CreateSchemaSQL(ns)
        \/ \E n \in N : x = CreateSequenceSQL(n)
        \/ \E t \in B : x = CreateTableSQL(platform, t)
        \/ platform # "mysql" /\ \E t \in B : \E fk \in t.fks : x = CreateIndexSQL(t, fk)
        \/ platform # "sqlite" /\ \E t \in B : \E fk \in t.fks : x = CreateForeignKeySQL(t, fk)
  <2>1. ToSet(s.tables) = B /\ ToSet(s.sequences) = N
    BY <1>2, <1>3
  <2>2. \A x : x \in ToSet(ToSql(platform, s)) <=>
           \/ SupportsSchemas(platform) /\ \E ns \in s.namespaces : x = CreateSchemaSQL(ns)
           \/ \E n \in ToSet(s.sequences) : x = CreateSequenceSQL(n)
           \/ \E t \in ToSet(s.tables) : x = CreateTableSQL(platform, t)
           \/ platform # "mysql" /\ \E t \in ToSet(s.tables) : \E fk \in t.fks : x = CreateIndexSQL(t, fk)
           \/ platform # "sqlite" /\ \E t \in ToSet(s.tables) : \E fk \in t.fks : x = CreateForeignKeySQL(t, fk)
    BY CreateElements
  <2> QED BY <2>1, <2>2, <1>1
<1>6. /\ \A x : x \in L <=>
           \/ \E n \in N : x = DropSequenceSQL(n)
           \/ platform # "sqlite" /\ \E t \in B : \E fk \in t.fks : x = DropForeignKeySQL(t, fk)
           \/ \E t \in B : x = DropTableSQL(t.name)
      /\ IsInjective(ToDropSql(platform, s)) /\ TablesLast(ToDropSql(platform, s))
  <2>1. ToSet(s.tables) = B /\ ToSet(s.sequences) = N
    BY <1>2, <1>3
  <2>2. \A x : x \in ToSet(ToDropSql(platform, s)) <=>
           \/ \E n \in ToSet(s.sequences) : x = DropSequenceSQL(n)
           \/ platform # "sqlite" /\ \E t \in ToSet(s.tables) : \E fk \in t.fks : x = DropForeignKeySQL(t, fk)
           \/ \E t \in ToSet(s.tables) : x = DropTableSQL(t.name)
    BY DropElements
  <2>3. IsInjective(ToDropSql(platform, s)) /\ TablesLast(ToDropSql(platform, s))
    BY DropElements
  <2> QED BY <2>1, <2>2, <2>3, <1>1
<1>7. \A t, u \in B : t.name = u.name => t = u
  BY <1>2, <1>3 DEF Declared, ToSet
<1>8. \A t \in B : KeysApart(t) /\ t.name \in TableNames
  <2>1. \A i \in DOMAIN tables : tables[i] \in Definitions /\ KeysApart(tables[i])
    BY <1>2 DEF Declared
  <2>2. \A t \in B : t \in Definitions /\ KeysApart(t)
    BY <2>1, <1>3 DEF ToSet
  <2> QED BY <2>2 DEF Definitions
<1>9. /\ \A x : x \in Of("createSequence", D) <=> \E n \in N : x = CreateSequenceSQL(n)
      /\ \A x : x \in Of("createTable", D) <=> \E t \in B : x = CreateTableSQL(platform, t)
  BY <1>5 DEF Of, CreateSchemaSQL, CreateSequenceSQL, CreateTableSQL, CreateIndexSQL, CreateForeignKeySQL
<1>10. \A x : x \in Of("addForeignKey", D) <=>
         platform # "sqlite" /\ \E t \in B : \E fk \in t.fks : x = CreateForeignKeySQL(t, fk)
  BY <1>5 DEF Of, CreateSchemaSQL, CreateSequenceSQL, CreateTableSQL, CreateIndexSQL, CreateForeignKeySQL
<1>11. /\ \A x : x \in Of("dropSequence", L) <=> \E n \in N : x = DropSequenceSQL(n)
       /\ \A x : x \in Of("dropTable", L) <=> \E t \in B : x = DropTableSQL(t.name)
       /\ \A x : x \in Of("dropForeignKey", L) <=>
            platform # "sqlite" /\ \E t \in B : \E fk \in t.fks : x = DropForeignKeySQL(t, fk)
       /\ \A x \in L : x.op \in Drops
  BY <1>6 DEF Of, DropSequenceSQL, DropTableSQL, DropForeignKeySQL, Drops
<1>12. /\ \A n : CreateSequenceSQL(n).name = n /\ DropSequenceSQL(n).name = n /\ DropTableSQL(n).name = n
       /\ \A t : CreateTableSQL(platform, t).name = t.name
       /\ \A t, fk : /\ CreateForeignKeySQL(t, fk).name = t.name /\ CreateForeignKeySQL(t, fk).fk = fk
                     /\ DropForeignKeySQL(t, fk).name = t.name
                     /\ DropForeignKeySQL(t, fk).id = ForeignKeyId(fk)
  BY DEF CreateSequenceSQL, CreateTableSQL, CreateForeignKeySQL, DropSequenceSQL, DropTableSQL, DropForeignKeySQL
<1>13. LeftSequences(L, Q)
  <2>1. \A x : x \in NamesIn(Of("createSequence", D)) <=> \E n \in N : x = Resolved(n)
    BY <1>9, <1>12, SMTT(60) DEF NamesIn
  <2>2. \A x : x \in NamesIn(Of("dropSequence", L)) <=> \E n \in N : x = Resolved(n)
    BY <1>11, <1>12, SMTT(60) DEF NamesIn
  <2>3. \A m, n \in N : Resolved(m) = Resolved(n) => m = n
    <3> SUFFICES ASSUME NEW m \in N, NEW n \in N, Resolved(m) = Resolved(n) PROVE m = n
      OBVIOUS
    <3>1. CreateSequenceSQL(m) \in Of("createSequence", D) /\ CreateSequenceSQL(n) \in Of("createSequence", D)
      BY <1>9
    <3>2. CreateSequenceSQL(m) = CreateSequenceSQL(n)
      BY <3>1, <1>4, <1>12 DEF MadeSequences, EachNamed
    <3> QED BY <3>2, <1>12
  <2>4. EachNamed(Of("dropSequence", L))
    BY <2>3, <1>11, <1>12 DEF EachNamed
  <2>5. NamesIn(Of("createSequence", D)) = NamesIn(Of("dropSequence", L))
    BY <2>1, <2>2
  <2> QED BY <2>4, <2>5, <1>4 DEF LeftSequences, MadeSequences
<1>14. \A t, u \in B : Resolved(t.name) = Resolved(u.name) => t = u
  <2> SUFFICES ASSUME NEW t \in B, NEW u \in B, Resolved(t.name) = Resolved(u.name) PROVE t = u
    OBVIOUS
  <2>1. CreateTableSQL(platform, t) \in Of("createTable", D) /\ CreateTableSQL(platform, u) \in Of("createTable", D)
    BY <1>9
  <2>2. CreateTableSQL(platform, t) = CreateTableSQL(platform, u)
    BY <2>1, <1>4, <1>12 DEF MadeTables, EachNamed
  <2> QED BY <2>2, <1>7, <1>12
<1>15. EachNamed(Of("dropTable", L))
  BY <1>11, <1>12, <1>14 DEF EachNamed
<1>16. \A x : x \in NamesIn(Of("dropTable", L)) <=> \E t \in B : x = Resolved(t.name)
  BY <1>11, <1>12 DEF NamesIn
<1>17. {t.name : t \in T} = NamesIn(Of("dropTable", L))
  <2>1. \A x : x \in NamesIn(Of("createTable", D)) <=> \E t \in B : x = Resolved(t.name)
    BY <1>9, <1>12 DEF NamesIn
  <2>2. NamesIn(Of("createTable", D)) = NamesIn(Of("dropTable", L))
    BY <2>1, <1>16
  <2> QED BY <2>2, <1>4 DEF MadeTables
<1>18. ASSUME platform # "sqlite" PROVE LeftForeignKeys(L, T)
  <2>1. NamesIn(Of("dropForeignKey", L)) \subseteq NamesIn(Of("dropTable", L))
    <3>1. \A x \in NamesIn(Of("dropForeignKey", L)) : \E t \in B : x = Resolved(t.name)
      BY <1>11, <1>12 DEF NamesIn
    <3> QED BY <3>1, <1>16
  <2>2. ASSUME NEW t \in T, NEW id
        PROVE  HasFk(t, id) <=> \E st \in Of("dropForeignKey", L) : Resolved(st.name) = t.name /\ st.id = id
    <3>1. HasFk(t, id) <=> Adds(D, t.name, id)
      BY <1>4 DEF MadeTables
    <3>2. \A st \in Of("createTable", D) : st.fks = {}
      BY <1>9, <1>18 DEF CreateTableSQL
    <3>3. Adds(D, t.name, id) <=>
            \E st \in Of("addForeignKey", D) : Resolved(st.name) = t.name /\ ForeignKeyId(st.fk) = id
      BY <3>2 DEF Adds
    <3>4. (\E st \in Of("addForeignKey", D) : Resolved(st.name) = t.name /\ ForeignKeyId(st.fk) = id)
            <=> \E u \in B : \E fk \in u.fks : Resolved(u.name) = t.name /\ ForeignKeyId(fk) = id
      BY <1>10, <1>12, <1>18
    <3>5. (\E st \in Of("dropForeignKey", L) : Resolved(st.name) = t.name /\ st.id = id)
            <=> \E u \in B : \E fk \in u.fks : Resolved(u.name) = t.name /\ ForeignKeyId(fk) = id
      BY <1>11, <1>12, <1>18
    <3> QED BY <3>1, <3>3, <3>4, <3>5, Zenon
  <2>3. ASSUME NEW a \in Of("dropForeignKey", L), NEW b \in Of("dropForeignKey", L),
               Resolved(a.name) = Resolved(b.name), a.id = b.id
        PROVE  a = b
    <3>6. PICK t \in B : \E fk \in t.fks : a = DropForeignKeySQL(t, fk)
      BY <1>11
    <3>7. PICK u \in B : \E gk \in u.fks : b = DropForeignKeySQL(u, gk)
      BY <1>11
    <3>1. PICK fk \in t.fks : a = DropForeignKeySQL(t, fk)
      BY <3>6
    <3>2. PICK gk \in u.fks : b = DropForeignKeySQL(u, gk)
      BY <3>7
    <3>3. t = u
      BY <3>1, <3>2, <2>3, <1>12, <1>14
    <3>4. fk.target.base = gk.target.base
      <4>1. ForeignKeyId(fk) = ForeignKeyId(gk)
        BY <3>1, <3>2, <2>3, <1>12
      <4> QED BY <4>1 DEF ForeignKeyId
    <3>5. fk = gk
      BY <3>3, <3>4, <1>8 DEF KeysApart
    <3> QED BY <3>1, <3>2, <3>3, <3>5
  <2> QED BY <2>1, <2>2, <2>3, Zenon DEF LeftForeignKeys
<1>19. platform = "sqlite" => Of("dropForeignKey", L) = {}
  BY <1>11
<1>20. LeftTables(L, T)
  <2>1. TablesOnce(T)
    BY <1>4 DEF MadeTables
  <2> QED BY <2>1, <1>15, <1>17, <1>18, <1>19, Zenon DEF LeftTables
<1>21. \A i \in DOMAIN ToDropSql(platform, s) : ToDropSql(platform, s)[i].op \in Drops
  <2>1. \A i \in DOMAIN ToDropSql(platform, s) : ToDropSql(platform, s)[i] \in L
    BY <1>1, Zenon DEF ToSet
  <2> QED BY <2>1, <1>11, Zenon
<1> QED BY <1>1, <1>6, <1>13, <1>20, <1>21, Zenon DEF Undoes

LEMMA InitKeeps == Init => TypeInv
<1> SUFFICES ASSUME Init PROVE TypeInv
  OBVIOUS
<1>1. schema \in SchemaType
  <2>1. PICK m \in {NoNs, Own} :
          schema = [name |-> m, namespaces |-> {}, tables |-> <<>>, sequences |-> <<>>]
    BY DEF Init
  <2> QED BY <2>1 DEF SchemaType
<1>2. script \in Seq(Statements)
  BY DEF Init
<1> QED BY <1>1, <1>2 DEF Init, TypeInv, EmptyServer, Fields

(* The tables of others, in each step.                                     *)
LEMMA NextKeepsOthers ==
  ASSUME TypeInv, [Next]_vars
  PROVE  TypeInv' /\ \A t \in server.tables : t.name = Foreign => t \in server'.tables
<1> DEFINE Kept == \A t \in server.tables : t.name = Foreign => t \in server'.tables
           Scripted == /\ DOMAIN server' = Fields /\ Kept
                       /\ script' \in Seq(Statements) /\ schema' = schema
<1>1. /\ schema \in SchemaType /\ script \in Seq(Statements) /\ DOMAIN server = Fields
  BY DEF TypeInv
<1>2. ASSUME schema' \in SchemaType, script' = script, server' = server
      PROVE  TypeInv' /\ Kept
  BY <1>1, <1>2 DEF TypeInv
<1>3. ASSUME Scripted PROVE TypeInv' /\ Kept
  BY <1>1, <1>3 DEF TypeInv
<1>4. ASSUME NEW st \in Statements, Accepts(st), server' = After(st)
      PROVE  DOMAIN server' = Fields /\ Kept
  <2>1. ASSUME NEW t, t.name = Foreign
        PROVE  DOMAIN server' = Fields /\ (t \in server.tables => t \in server'.tables)
    BY <2>1, <1>1, <1>4, StatementKeeps
  <2>2. [name |-> Foreign].name = Foreign
    OBVIOUS
  <2> QED BY <2>1, <2>2
<1>5. ASSUME NEW kind, NEW supported, NEW sql \in Seq(Statements), Start(kind, supported, sql)
      PROVE  Scripted
  <2>1. script' = IF supported THEN sql ELSE <<>>
    BY <1>5 DEF Start
  <2>2. script' \in Seq(Statements)
    <3>1. script' \in {sql, <<>>}
      BY <2>1, Zenon
    <3>2. <<>> \in Seq(Statements)
      OBVIOUS
    <3> QED BY <3>1, <3>2
  <2> QED BY <2>2, <1>1, <1>5 DEF Start
<1>6. CASE CreateSchemaObjects
  BY <1>1, <1>3, <1>5, <1>6, ToSqlType, Zenon DEF CreateSchemaObjects
<1>7. CASE DropSchemaObjects
  BY <1>1, <1>3, <1>5, <1>7, ToDropSqlType, Zenon DEF DropSchemaObjects
<1>8. CASE ExecuteStatement
  <2>1. Head(script) \in Statements /\ Tail(script) \in Seq(Statements)
    BY <1>1, <1>8 DEF ExecuteStatement
  <2>2. CASE Accepts(Head(script))
    <3>1. server' = After(Head(script)) /\ script' = Tail(script) /\ schema' = schema
      BY <1>8, <2>2, Zenon DEF ExecuteStatement
    <3> QED BY <3>1, <2>1, <2>2, <1>3, <1>4
  <2>3. CASE ~ Accepts(Head(script))
    <3>1. server' = server /\ script' = <<>> /\ schema' = schema
      BY <1>8, <2>3, Zenon DEF ExecuteStatement
    <3> QED BY <3>1, <1>1, <1>3
  <2> QED BY <2>2, <2>3
<1>9. CASE LoseConnection
  BY <1>1, <1>3, <1>9 DEF LoseConnection
<1>10. ASSUME NEW n \in TableNames, CreateElsewhere(n) PROVE Scripted
  <2> DEFINE st == [op |-> "createTable", name |-> Foreign, indexes |-> {},
                    fks |-> {ForeignKey(Foreign, [n EXCEPT !.ns = NoNs])}]
  <2>1. server' = After(st) /\ script' = script /\ schema' = schema
    BY <1>10, Zenon DEF CreateElsewhere, Elsewhere
  <2>2. PICK u : server' = [server EXCEPT !.tables = server.tables \cup {u}]
    BY <2>1 DEF After
  <2> QED BY <2>1, <2>2, <1>1 DEF Fields
<1>11. ASSUME NEW n \in TableNames, DropElsewhere(n) PROVE Scripted
  <2>1. DropTableSQL(n) \in Statements
    BY DEF DropTableSQL, Statements
  <2>2. /\ Accepts(DropTableSQL(n)) /\ server' = After(DropTableSQL(n))
        /\ script' = script /\ schema' = schema
    BY <1>11, Zenon DEF DropElsewhere, Elsewhere
  <2> QED BY <2>1, <2>2, <1>1, <1>4
<1>12. CASE UNCHANGED vars
  BY <1>2, <1>1, <1>12 DEF vars
<1>13. CASE \/ \E ns \in Namespaces : CreateNamespace(ns)
            \/ \E n \in TableNames, to \in TableNames : AddTable(n, {to}) \/ AddForeignKey(n, to)
            \/ \E n \in TableNames : AddTable(n, {}) \/ DropTable(n)
            \/ \E old \in TableNames, new \in TableNames : RenameTable(old, new)
            \/ \E n \in SequenceNames : AddSequence(n) \/ DropSequence(n)
  BY <1>2, <1>13, EditsKeep, Zenon
<1>14. CASE \E n \in TableNames : CreateElsewhere(n) \/ DropElsewhere(n)
  BY <1>3, <1>10, <1>11, <1>14, Zenon
<1> HIDE DEF Kept, Scripted
<1> QED BY <1>6, <1>7, <1>8, <1>9, <1>12, <1>13, <1>14, Zenon DEF Next, Kept

(* No call on a schema takes a table of another application with it, nor   *)
(* that table's foreign keys: whatever the schemas are and whoever else    *)
(* creates and drops tables meanwhile.                                     *)
THEOREM AlwaysOthersKept == Spec => OthersKept
<1>1. TypeInv /\ [Next]_vars => TypeInv'
  BY NextKeepsOthers
<1>2. TypeInv /\ [Next]_vars =>
        [\A t \in server.tables : t.name = Foreign => t \in server'.tables]_vars
  BY NextKeepsOthers
<1> QED BY <1>1, <1>2, InitKeeps, PTL DEF Spec, OthersKept

-----------------------------------------------------------------------------
(* What dropSchemaObjects() takes away. *)

(* A sequence without one of its elements.                                 *)
LEMMA Removed ==
  ASSUME NEW S, NEW s \in Seq(S), NEW i \in DOMAIN s
  PROVE  \E m \in Nat :
           /\ DOMAIN s = 1 .. m /\ DOMAIN RemoveAt(s, i) = 1 .. m - 1
           /\ \A j \in 1 .. m - 1 : RemoveAt(s, i)[j] = IF j < i THEN s[j] ELSE s[j + 1]
<1>1. PICK m \in Nat : Len(s) = m
  OBVIOUS
<1>2. DOMAIN s = 1 .. m /\ i \in 1 .. m
  BY <1>1
<1>3. PICK a : a = SubSeq(s, 1, i - 1)
  OBVIOUS
<1>4. PICK b : b = SubSeq(s, i + 1, m)
  OBVIOUS
<1>5. a \in Seq(S) /\ Len(a) = i - 1 /\ \A j \in 1 .. i - 1 : a[j] = s[j]
  BY <1>1, <1>2, <1>3
<1>6. b \in Seq(S) /\ Len(b) = m - i /\ \A j \in 1 .. m - i : b[j] = s[i + j]
  BY <1>1, <1>2, <1>4
<1>7. PICK r : r = a \o b
  OBVIOUS
<1>8. /\ r \in Seq(S) /\ Len(r) = (i - 1) + (m - i)
      /\ \A j \in 1 .. (i - 1) + (m - i) : r[j] = IF j <= i - 1 THEN a[j] ELSE b[j - (i - 1)]
  BY <1>5, <1>6, <1>7, ConcatProperties
<1>9. (i - 1) + (m - i) = m - 1
  BY <1>2
<1>10. ASSUME NEW j \in 1 .. m - 1 PROVE r[j] = IF j < i THEN s[j] ELSE s[j + 1]
  <2>1. CASE j < i
    <3>1. j \in 1 .. i - 1 /\ j <= i - 1
      BY <2>1, <1>2
    <3> QED BY <3>1, <2>1, <1>5, <1>8, <1>9
  <2>2. CASE ~ j < i
    <3>1. j - (i - 1) \in 1 .. m - i /\ ~ j <= i - 1 /\ i + (j - (i - 1)) = j + 1
      BY <2>2, <1>2
    <3> QED BY <3>1, <2>2, <1>6, <1>8, <1>9
  <2> QED BY <2>1, <2>2
<1>11. DOMAIN r = 1 .. m - 1
  BY <1>8, <1>9
<1>12. RemoveAt(s, i) = r
  BY <1>1, <1>3, <1>4, <1>7 DEF RemoveAt
<1> QED BY <1>2, <1>10, <1>11, <1>12

LEMMA RemovedKeeps ==
  ASSUME NEW S, NEW s \in Seq(S), NEW i \in DOMAIN s, NEW r, r = RemoveAt(s, i)
  PROVE  /\ \A j \in DOMAIN r : \E k \in DOMAIN s : r[j] = s[k]
         /\ IsInjective(s) => IsInjective(r)
         /\ (\A j, k \in DOMAIN s : s[j].name = s[k].name => j = k)
              => \A j, k \in DOMAIN r : r[j].name = r[k].name => j = k
<1>1. PICK m \in Nat :
        /\ DOMAIN s = 1 .. m /\ DOMAIN r = 1 .. m - 1
        /\ \A j \in 1 .. m - 1 : r[j] = IF j < i THEN s[j] ELSE s[j + 1]
  BY Removed
<1>2. PICK f : f = [j \in 1 .. m - 1 |-> IF j < i THEN j ELSE j + 1]
  OBVIOUS
<1>3. \A j \in 1 .. m - 1 : f[j] \in 1 .. m /\ r[j] = s[f[j]]
  <2>1. i \in 1 .. m
    BY <1>1
  <2> QED BY <2>1, <1>1, <1>2
<1>4. \A j, k \in 1 .. m - 1 : f[j] = f[k] => j = k
  <2>1. i \in 1 .. m
    BY <1>1
  <2> QED BY <2>1, <1>2
<1>5. \A j \in DOMAIN r : \E k \in DOMAIN s : r[j] = s[k]
  BY <1>1, <1>3
<1>6. IsInjective(s) => IsInjective(r)
  BY <1>1, <1>3, <1>4 DEF IsInjective
<1>7. (\A j, k \in DOMAIN s : s[j].name = s[k].name => j = k)
        => \A j, k \in DOMAIN r : r[j].name = r[k].name => j = k
  BY <1>1, <1>3, <1>4
<1> QED BY <1>5, <1>6, <1>7

(* Tables that are declared each once, with one more.                      *)
DeclaredTables(ts) ==
  /\ \A i, j \in DOMAIN ts : ts[i].name = ts[j].name => i = j
  /\ \A i \in DOMAIN ts : KeysApart(ts[i])

LEMMA DeclaredOneMore ==
  ASSUME NEW ts \in Seq(Definitions), DeclaredTables(ts), NEW t \in Definitions, KeysApart(t),
         \A i \in DOMAIN ts : ts[i].name # t.name
  PROVE  DeclaredTables(Append(ts, t))
<1>1. PICK m \in Nat : Len(ts) = m
  OBVIOUS
<1>2. PICK u : u = Append(ts, t)
  OBVIOUS
<1>3. /\ DOMAIN ts = 1 .. m /\ DOMAIN u = 1 .. m + 1 /\ u[m + 1] = t
      /\ \A i \in 1 .. m : u[i] = ts[i]
  <2>1. u \in Seq(Definitions) /\ Len(u) = m + 1
    BY <1>1, <1>2, AppendProperties
  <2>2. \A i \in 1 .. m : u[i] = ts[i]
    BY <1>1, <1>2, AppendProperties
  <2>3. u[m + 1] = t
    BY <1>1, <1>2, AppendProperties
  <2> QED BY <2>1, <2>2, <2>3, <1>1
<1>4. \A i \in 1 .. m + 1 : i \in 1 .. m \/ i = m + 1
  OBVIOUS
<1>5. \A i, j \in DOMAIN u : u[i].name = u[j].name => i = j
  <2> SUFFICES ASSUME NEW i \in 1 .. m + 1, NEW j \in 1 .. m + 1, u[i].name = u[j].name PROVE i = j
    BY <1>3
  <2>1. CASE i \in 1 .. m /\ j \in 1 .. m
    BY <2>1, <1>3 DEF DeclaredTables
  <2>2. CASE i = m + 1 /\ j \in 1 .. m
    BY <2>2, <1>3
  <2>3. CASE j = m + 1 /\ i \in 1 .. m
    BY <2>3, <1>3
  <2>4. CASE i = m + 1 /\ j = m + 1
    BY <2>4
  <2> QED BY <2>1, <2>2, <2>3, <2>4, <1>4
<1>6. \A i \in DOMAIN u : KeysApart(u[i])
  <2> SUFFICES ASSUME NEW i \in 1 .. m + 1 PROVE KeysApart(u[i])
    BY <1>3
  <2>1. CASE i \in 1 .. m
    BY <2>1, <1>3 DEF DeclaredTables
  <2>2. CASE i = m + 1
    BY <2>2, <1>3
  <2> QED BY <2>1, <2>2, <1>4
<1> QED BY <1>2, <1>5, <1>6 DEF DeclaredTables

LEMMA DeclaredIs ==
  ASSUME NEW s
  PROVE  Declared(s) <=> DeclaredTables(s.tables) /\ IsInjective(s.sequences)
BY Zenon DEF Declared, DeclaredTables

(* The calls on the schema, which come before all others, declare each     *)
(* name once.                                                              *)
LEMMA EditsDeclare ==
  ASSUME TypeInv, Declared(schema),
         \/ \E ns \in Namespaces : CreateNamespace(ns)
         \/ \E n \in TableNames, to \in TableNames : AddTable(n, {to}) \/ AddForeignKey(n, to)
         \/ \E n \in TableNames : AddTable(n, {}) \/ DropTable(n)
         \/ \E old \in TableNames, new \in TableNames : RenameTable(old, new)
         \/ \E n \in SequenceNames : AddSequence(n) \/ DropSequence(n)
  PROVE  Declared(schema') /\ calls = 0 /\ UNCHANGED <<platform, script, call, calls>>
<1> DEFINE Goal == Declared(schema') /\ calls = 0 /\ UNCHANGED <<platform, script, call, calls>>
<1>1. PICK s : s = schema /\ s \in SchemaType
  BY DEF TypeInv
<1>2. PICK tables \in Seq(Definitions), sequences \in Seq(SequenceNames) :
        s.tables = tables /\ s.sequences = sequences
  BY <1>1 DEF SchemaType
<1>3. DeclaredTables(tables) /\ IsInjective(sequences)
  <2>1. Declared(s)
    BY <1>1
  <2> QED BY <2>1, <1>2, DeclaredIs
<1>4. ASSUME NEW r, Edited(r), DeclaredTables(r.tables), IsInjective(r.sequences) PROVE Goal
  BY <1>4, DeclaredIs DEF Edited, Editing
<1>5. DOMAIN s = {"name", "namespaces", "tables", "sequences"}
  BY <1>1 DEF SchemaType
<1>6. ASSUME NEW ns \in Namespaces, CreateNamespace(ns) PROVE Goal
  <2>1. PICK r : r = [s EXCEPT !.namespaces = s.namespaces \cup {ns}]
    OBVIOUS
  <2>2. Edited(r)
    BY <2>1, <1>1, <1>6 DEF CreateNamespace
  <2>3. r.tables = tables /\ r.sequences = sequences
    BY <2>1, <1>2, <1>5
  <2> QED BY <2>2, <2>3, <1>3, <1>4
<1>7. ASSUME NEW n \in TableNames, NEW targets \in SUBSET TableNames, NEW x, targets = {} \/ targets = {x},
             AddTable(n, targets)
      PROVE  Goal
  <2>1. PICK ts : ts = IF n \in NamesOf(tables) THEN tables ELSE Append(tables, Table(n, targets))
    OBVIOUS
  <2>2. PICK r : r = [s EXCEPT !.namespaces = WithNamespaceOf(n, s), !.tables = ts]
    OBVIOUS
  <2>3. Edited(r)
    BY <2>1, <2>2, <1>1, <1>2, <1>7 DEF AddTable
  <2>4. r.tables = ts /\ r.sequences = sequences
    BY <2>2, <1>2, <1>5
  <2>5. DeclaredTables(ts)
    <3>1. CASE n \in NamesOf(tables)
      BY <3>1, <2>1, <1>3
    <3>2. CASE n \notin NamesOf(tables)
      <4>1. Table(n, targets) \in Definitions
        BY DEF Table, ForeignKey, Definitions, Keys
      <4>2. KeysApart(Table(n, targets)) /\ Table(n, targets).name = n
        BY <1>7 DEF Table, ForeignKey, KeysApart
      <4>3. \A i \in DOMAIN tables : tables[i].name # n
        BY <3>2 DEF NamesOf, ToSet
      <4>4. DeclaredTables(Append(tables, Table(n, targets)))
        BY <4>1, <4>2, <4>3, <1>3, DeclaredOneMore
      <4> QED BY <4>4, <3>2, <2>1
    <3> QED BY <3>1, <3>2
  <2> QED BY <2>3, <2>4, <2>5, <1>3, <1>4
<1>8. ASSUME NEW n \in TableNames, NEW to \in TableNames, AddForeignKey(n, to) PROVE Goal
  <2>1. PICK i \in DOMAIN tables :
          /\ \A fk \in tables[i].fks : fk.target.base # to.base
          /\ Edited([s EXCEPT !.tables[i].fks = s.tables[i].fks \cup {ForeignKey(n, to)}])
    BY <1>1, <1>2, <1>8 DEF AddForeignKey
  <2>2. PICK t : t = [tables[i] EXCEPT !.fks = tables[i].fks \cup {ForeignKey(n, to)}]
    OBVIOUS
  <2>3. tables[i] \in Definitions
    OBVIOUS
  <2>4. t.name = tables[i].name /\ t.fks = tables[i].fks \cup {ForeignKey(n, to)}
    BY <2>2, <2>3 DEF Definitions
  <2>5. KeysApart(t)
    <3>1. ForeignKey(n, to).target.base = to.base
      BY DEF ForeignKey
    <3>2. KeysApart(tables[i])
      BY <1>3 DEF DeclaredTables
    <3> QED BY <3>1, <3>2, <2>1, <2>4 DEF KeysApart
  <2>6. PICK ts : ts = [tables EXCEPT ![i] = t]
    OBVIOUS
  <2>7. DOMAIN ts = DOMAIN tables /\ ts[i] = t /\ \A j \in DOMAIN tables : j # i => ts[j] = tables[j]
    BY <2>6
  <2>8. DeclaredTables(ts)
    <3>1. \A j \in DOMAIN ts : ts[j].name = tables[j].name
      BY <2>4, <2>7
    <3>2. \A j \in DOMAIN ts : KeysApart(ts[j])
      BY <2>5, <2>7, <1>3 DEF DeclaredTables
    <3> QED BY <3>1, <3>2, <2>7, <1>3 DEF DeclaredTables
  <2>9. PICK r : r = [s EXCEPT !.tables = ts]
    OBVIOUS
  <2>10. r = [s EXCEPT !.tables[i].fks = s.tables[i].fks \cup {ForeignKey(n, to)}]
    BY <2>2, <2>6, <2>9, <1>2
  <2>11. Edited(r)
    BY <2>1, <2>10
  <2>12. r.tables = ts /\ r.sequences = sequences
    BY <2>9, <1>2, <1>5
  <2> QED BY <2>8, <2>11, <2>12, <1>3, <1>4
<1>9. ASSUME NEW n \in TableNames, DropTable(n) PROVE Goal
  <2>1. PICK i \in DOMAIN tables : Edited([s EXCEPT !.tables = RemoveAt(tables, i)])
    BY <1>1, <1>2, <1>9 DEF DropTable
  <2>2. PICK ts : ts = RemoveAt(tables, i)
    OBVIOUS
  <2>3. PICK r : r = [s EXCEPT !.tables = ts]
    OBVIOUS
  <2>4. Edited(r) /\ r.tables = ts /\ r.sequences = sequences
    BY <2>1, <2>2, <2>3, <1>2, <1>5
  <2>5. DeclaredTables(ts)
    BY <2>2, <1>3, RemovedKeeps DEF DeclaredTables
  <2> QED BY <2>4, <2>5, <1>3, <1>4
<1>10. ASSUME NEW old \in TableNames, NEW new \in TableNames, RenameTable(old, new) PROVE Goal
  <2>1. PICK i \in DOMAIN tables :
          Edited([s EXCEPT !.tables = Append(RemoveAt(tables, i), [tables[i] EXCEPT !.name = new])])
    BY <1>1, <1>2, <1>10 DEF RenameTable
  <2>2. PICK ts : ts = RemoveAt(tables, i)
    OBVIOUS
  <2>3. PICK t : t = [tables[i] EXCEPT !.name = new]
    OBVIOUS
  <2>4. PICK r : r = [s EXCEPT !.tables = Append(ts, t)]
    OBVIOUS
  <2>5. Edited(r) /\ r.tables = Append(ts, t) /\ r.sequences = sequences
    BY <2>1, <2>2, <2>3, <2>4, <1>2, <1>5
  <2>6. tables[i] \in Definitions
    OBVIOUS
  <2>7. t \in Definitions /\ t.name = new /\ t.fks = tables[i].fks
    BY <2>3, <2>6 DEF Definitions
  <2>8. ts \in Seq(Definitions) /\ DeclaredTables(ts)
    BY <2>2, <1>3, RemovedKeeps, RemoveAtType DEF DeclaredTables
  <2>9. KeysApart(t)
    BY <2>7, <1>3 DEF KeysApart, DeclaredTables
  <2>10. \A j \in DOMAIN ts : ts[j].name # new
    <3>1. \A k \in DOMAIN tables : tables[k].name # new
      BY <1>1, <1>2, <1>10 DEF RenameTable, NamesOf, ToSet
    <3>2. \A j \in DOMAIN ts : \E k \in DOMAIN tables : ts[j] = tables[k]
      BY <2>2, RemovedKeeps
    <3> QED BY <3>1, <3>2
  <2>11. DeclaredTables(Append(ts, t))
    BY <2>7, <2>8, <2>9, <2>10, DeclaredOneMore
  <2> QED BY <2>5, <2>11, <1>3, <1>4
<1>11. ASSUME NEW n \in SequenceNames, AddSequence(n) PROVE Goal
  <2>1. PICK qs : qs = IF Contains(sequences, n) THEN sequences ELSE Append(sequences, n)
    OBVIOUS
  <2>2. PICK r : r = [s EXCEPT !.namespaces = WithNamespaceOf(n, s), !.sequences = qs]
    OBVIOUS
  <2>3. Edited(r) /\ r.tables = tables /\ r.sequences = qs
    BY <2>1, <2>2, <1>1, <1>2, <1>5, <1>11 DEF AddSequence
  <2>4. IsInjective(qs)
    <3>1. CASE Contains(sequences, n)
      BY <3>1, <2>1, <1>3
    <3>2. CASE ~ Contains(sequences, n)
      <4>1. PICK m \in Nat : Len(sequences) = m
        OBVIOUS
      <4>2. qs = Append(sequences, n)
        BY <3>2, <2>1
      <4>3. qs \in Seq(SequenceNames) /\ Len(qs) = m + 1
        BY <4>1, <4>2, AppendProperties
      <4>4. (\A i \in 1 .. m : qs[i] = sequences[i]) /\ qs[m + 1] = n
        BY <4>1, <4>2, AppendProperties
      <4>5. \A i \in 1 .. m : sequences[i] # n
        BY <3>2, <4>1 DEF Contains
      <4>6. DOMAIN qs = 1 .. m + 1 /\ DOMAIN sequences = 1 .. m
        BY <4>1, <4>3
      <4>7. \A i \in 1 .. m + 1 : i \in 1 .. m \/ i = m + 1
        OBVIOUS
      <4> QED BY <4>4, <4>5, <4>6, <4>7, <1>3 DEF IsInjective
    <3> QED BY <3>1, <3>2
  <2> QED BY <2>3, <2>4, <1>3, <1>4
<1>12. ASSUME NEW n \in SequenceNames, DropSequence(n) PROVE Goal
  <2>1. PICK i \in DOMAIN sequences : Edited([s EXCEPT !.sequences = RemoveAt(sequences, i)])
    BY <1>1, <1>2, <1>12 DEF DropSequence
  <2>2. PICK qs : qs = RemoveAt(sequences, i)
    OBVIOUS
  <2>3. PICK r : r = [s EXCEPT !.sequences = qs]
    OBVIOUS
  <2>4. Edited(r) /\ r.tables = tables /\ r.sequences = qs
    BY <2>1, <2>2, <2>3, <1>2, <1>5
  <2>5. IsInjective(qs)
    BY <2>2, <1>3, RemovedKeeps
  <2> QED BY <2>4, <2>5, <1>3, <1>4
<1>13. \A n \in TableNames : {} \in SUBSET TableNames /\ {n} \in SUBSET TableNames
  OBVIOUS
<1>14. ASSUME NEW n \in TableNames, AddTable(n, {}) PROVE Goal
  BY <1>7, <1>13, <1>14, Zenon
<1>15. ASSUME NEW n \in TableNames, NEW to \in TableNames, AddTable(n, {to}) PROVE Goal
  BY <1>7, <1>13, <1>15, Zenon
<1> HIDE DEF Goal
<1>16. Goal
  BY <1>6, <1>8, <1>9, <1>10, <1>11, <1>12, <1>14, <1>15, Zenon
<1> QED BY <1>16 DEF Goal

(* The call in progress: a createSchemaObjects() on an empty server has    *)
(* made what its statements say, and a dropSchemaObjects() after it takes  *)
(* that away.                                                              *)
Creating ==
  call.kind = "create" /\ call.base = "empty" /\ call.status \in {"running", "done"} =>
    /\ schema.sequences = <<>> \/ CreatesSequences(platform)
    /\ \E D : D \cup ToSet(script) = ToSet(ToSql(platform, schema)) /\ Made(D, server)

Dropping ==
  call.kind = "drop" /\ call.base = "whole" =>
    call.status \in {"running", "done"} /\ Undoes(script, server)

CallSound ==
  /\ DOMAIN call = {"kind", "base", "status"}
  /\ calls \in Nat /\ (calls = 0 => call.kind = "none")
  /\ call.status # "running" => script = <<>>
  /\ Creating /\ Dropping

IInv == TypeInv /\ Declared(schema) /\ CallSound

LEMMA InitSound == Init => IInv
<1> SUFFICES ASSUME Init PROVE IInv
  OBVIOUS
<1>1. PICK m : schema = [name |-> m, namespaces |-> {}, tables |-> <<>>, sequences |-> <<>>]
  BY DEF Init
<1>2. Declared(schema)
  BY <1>1 DEF Declared, IsInjective
<1>3. CallSound
  BY DEF Init, CallSound, Creating, Dropping
<1> QED BY <1>2, <1>3, InitKeeps DEF IInv

(* An empty server is what no statements have made.                        *)
LEMMA NothingMade == ASSUME server = EmptyServer PROVE Made({}, server)
<1>1. server.tables = {} /\ server.sequences = {}
  BY DEF EmptyServer
<1>2. \A op : Of(op, {}) = {}
  BY DEF Of
<1>3. NamesIn({}) = {} /\ EachNamed({})
  BY DEF NamesIn, EachNamed
<1>4. MadeTables({}, {})
  BY <1>2, <1>3 DEF MadeTables, TablesOnce
<1>5. MadeSequences({}, {})
  BY <1>2, <1>3 DEF MadeSequences
<1> QED BY <1>1, <1>4, <1>5 DEF Made

LEMMA CreatesOnly ==
  ASSUME NEW s \in SchemaType, NEW p, NEW st \in ToSet(ToSql(p, s))
  PROVE  st.op \in Creates
BY CreateElements DEF CreateSchemaSQL, CreateSequenceSQL, CreateTableSQL, CreateIndexSQL, CreateForeignKeySQL, Creates

(* A call of the schema manager.                                           *)
LEMMA StartSound ==
  ASSUME IInv, NEW kind, NEW supported, NEW sql, Start(kind, supported, sql),
         kind = "create" => /\ sql = ToSql(platform, schema)
                            /\ supported <=> schema.sequences = <<>> \/ CreatesSequences(platform),
         kind = "drop" => /\ sql = ToDropSql(platform, schema)
                          /\ supported <=> schema.sequences = <<>> \/ SupportsSequences(platform),
         kind \in {"create", "drop"}
  PROVE  CallSound'
<1>1. /\ script = <<>> /\ calls' = calls + 1
      /\ script' = IF supported THEN sql ELSE <<>>
      /\ call' = [kind |-> kind, base |-> Base,
                  status |-> IF ~supported THEN "unsupported" ELSE IF sql = <<>> THEN "done" ELSE "running"]
      /\ platform' = platform /\ schema' = schema /\ server' = server
  BY Zenon DEF Start, Calling
<1>2. DOMAIN call' = {"kind", "base", "status"} /\ call'.kind = kind /\ call'.base = Base
  BY <1>1
<1>3. calls' \in Nat /\ calls' # 0
  BY <1>1 DEF IInv, CallSound
<1>4. /\ ~ supported => call'.status = "unsupported" /\ script' = <<>>
      /\ supported => script' = sql
      /\ supported /\ sql = <<>> => call'.status = "done"
      /\ supported /\ sql # <<>> => call'.status = "running"
  <2>1. CASE supported
    <3>1. call' = [kind |-> kind, base |-> Base, status |-> IF sql = <<>> THEN "done" ELSE "running"]
      BY <2>1, <1>1, Zenon
    <3>2. script' = sql
      BY <2>1, <1>1, Zenon
    <3> QED BY <3>1, <3>2, <2>1
  <2>2. CASE ~ supported
    <3>1. call' = [kind |-> kind, base |-> Base, status |-> "unsupported"]
      BY <2>2, <1>1, Zenon
    <3>2. script' = <<>>
      BY <2>2, <1>1, Zenon
    <3> QED BY <3>1, <3>2, <2>2
  <2> QED BY <2>1, <2>2
<1>5. call'.status # "running" => script' = <<>>
  BY <1>4
<1>6. Creating'
  <2> SUFFICES ASSUME kind = "create", Base = "empty", call'.status \in {"running", "done"}
               PROVE  /\ schema'.sequences = <<>> \/ CreatesSequences(platform')
                      /\ \E D : D \cup ToSet(script') = ToSet(ToSql(platform', schema')) /\ Made(D, server')
    BY <1>2 DEF Creating
  <2>1. supported
    BY <1>4
  <2>2. schema.sequences = <<>> \/ CreatesSequences(platform)
    BY <2>1
  <2>3. script' = ToSql(platform, schema)
    BY <2>1, <1>4
  <2>4. server = EmptyServer
    BY DEF Base
  <2>5. Made({}, server')
    BY <2>4, <1>1, NothingMade
  <2>6. {} \cup ToSet(script') = ToSet(ToSql(platform', schema'))
    BY <2>3, <1>1
  <2>7. \E D : D \cup ToSet(script') = ToSet(ToSql(platform', schema')) /\ Made(D, server')
    BY <2>5, <2>6, Zenon
  <2> QED BY <2>2, <2>7, <1>1
<1>7. Dropping'
  <2> SUFFICES ASSUME kind = "drop", Base = "whole"
               PROVE  call'.status \in {"running", "done"} /\ Undoes(script, server)'
    BY <1>2 DEF Dropping
  <2>1. call.kind = "create" /\ call.base = "empty" /\ call.status = "done"
    BY DEF Base
  <2>2. /\ schema.sequences = <<>> \/ CreatesSequences(platform)
        /\ \E D : D \cup ToSet(script) = ToSet(ToSql(platform, schema)) /\ Made(D, server)
    BY <2>1 DEF IInv, CallSound, Creating
  <2>3. Made(ToSet(ToSql(platform, schema)), server)
    <3>1. PICK D : D \cup ToSet(script) = ToSet(ToSql(platform, schema)) /\ Made(D, server)
      BY <2>2
    <3>2. ToSet(script) = {}
      BY <1>1 DEF ToSet
    <3>3. D = ToSet(ToSql(platform, schema))
      BY <3>1, <3>2
    <3> QED BY <3>1, <3>3
  <2>4. supported
    BY <2>2 DEF CreatesSequences, SupportsSequences
  <2>5. call'.status \in {"running", "done"} /\ script' = ToDropSql(platform, schema)
    BY <2>4, <1>4
  <2>6. PICK s \in SchemaType : s = schema
    BY DEF IInv, TypeInv
  <2>7. Declared(s) /\ Made(ToSet(ToSql(platform, s)), server)
    BY <2>3, <2>6 DEF IInv
  <2>8. Undoes(ToDropSql(platform, s), server)
    BY <2>7, MadeIsUndone
  <2>9. Undoes(script', server)
    BY <2>5, <2>6, <2>8
  <2>10. Undoes(script', server')
    BY <2>9, <1>1 DEF Undoes, LeftTables
  <2>11. Undoes(script, server)'
    BY <2>10, <1>1 DEF Undoes, LeftTables
  <2> QED BY <2>5, <2>11
<1> QED BY <1>2, <1>3, <1>5, <1>6, <1>7 DEF CallSound

(* A statement of the call in progress.                                    *)
LEMMA ExecuteSound ==
  ASSUME IInv, ExecuteStatement
  PROVE  CallSound'
<1> DEFINE st == Head(script)
<1>1. /\ script # <<>> /\ script \in Seq(Statements)
      /\ platform' = platform /\ schema' = schema /\ calls' = calls
  BY DEF ExecuteStatement, IInv, TypeInv
<1>2. /\ DOMAIN call = {"kind", "base", "status"} /\ calls \in Nat /\ (calls = 0 => call.kind = "none")
      /\ call.status = "running" /\ Creating /\ Dropping
  BY <1>1 DEF IInv, CallSound
<1>3. st \in ToSet(script) /\ ToSet(script) = {st} \cup ToSet(Tail(script))
  <2>1. PICK R \in Seq(Statements) : R = script /\ R # <<>>
    BY <1>1
  <2>2. PICK n \in Nat : Len(R) = n
    OBVIOUS
  <2>3. /\ DOMAIN R = 1 .. n /\ 1 \in 1 .. n /\ Head(R) = R[1]
        /\ DOMAIN Tail(R) = 1 .. n - 1 /\ \A i \in 1 .. n - 1 : Tail(R)[i] = R[i + 1]
    BY <2>1, <2>2, HeadTailProperties
  <2>4. \A i \in 1 .. n - 1 : i + 1 \in 1 .. n
    OBVIOUS
  <2>5. \A i \in 1 .. n : i # 1 => i - 1 \in 1 .. n - 1 /\ (i - 1) + 1 = i
    OBVIOUS
  <2>6. ToSet(R) \subseteq {R[1]} \cup ToSet(Tail(R))
    <3> SUFFICES ASSUME NEW x \in ToSet(R), x # R[1]
                 PROVE  x \in ToSet(Tail(R))
      OBVIOUS
    <3>1. PICK i \in 1 .. n : x = R[i]
      BY <2>3 DEF ToSet
    <3>2. PICK j \in 1 .. n - 1 : j = i - 1 /\ j + 1 = i
      BY <3>1, <2>5
    <3>3. j \in DOMAIN Tail(R) /\ Tail(R)[j] = x
      BY <3>1, <3>2, <2>3
    <3> QED BY <3>3 DEF ToSet
  <2>7. {R[1]} \cup ToSet(Tail(R)) \subseteq ToSet(R)
    BY <2>3, <2>4 DEF ToSet
  <2> QED BY <2>1, <2>3, <2>6, <2>7
<1>4. CASE ~ Accepts(st)
  <2>1. script' = <<>> /\ call' = [call EXCEPT !.status = "failed"] /\ server' = server
    BY <1>4, Zenon DEF ExecuteStatement
  <2>2. /\ DOMAIN call' = {"kind", "base", "status"} /\ call'.kind = call.kind /\ call'.base = call.base
        /\ call'.status = "failed"
    BY <2>1, <1>2
  <2>3. ~ (call.kind = "drop" /\ call.base = "whole")
    BY <1>1, <1>2, <1>4, StatementUndoes DEF Dropping, IInv, TypeInv
  <2>4. Creating' /\ Dropping'
    BY <2>2, <2>3 DEF Creating, Dropping
  <2> QED BY <2>1, <2>2, <2>4, <1>1, <1>2 DEF CallSound
<1>5. CASE Accepts(st)
  <2>1. /\ server' = After(st) /\ script' = Tail(script)
        /\ call' = IF Tail(script) = <<>> THEN [call EXCEPT !.status = "done"] ELSE call
    BY <1>5, Zenon DEF ExecuteStatement
  <2>2. /\ DOMAIN call' = {"kind", "base", "status"} /\ call'.kind = call.kind /\ call'.base = call.base
        /\ call'.status \in {"running", "done"} /\ (call'.status # "running" => script' = <<>>)
    <3>1. CASE Tail(script) = <<>>
      <4>1. call' = [call EXCEPT !.status = "done"] /\ script' = <<>>
        BY <3>1, <2>1, Zenon
      <4> QED BY <4>1, <1>2
    <3>2. CASE Tail(script) # <<>>
      <4>1. call' = call
        BY <3>2, <2>1, Zenon
      <4> QED BY <4>1, <1>2
    <3> QED BY <3>1, <3>2
  <2>3. Creating'
    <3> SUFFICES ASSUME call.kind = "create", call.base = "empty"
                 PROVE  /\ schema'.sequences = <<>> \/ CreatesSequences(platform')
                        /\ \E D : D \cup ToSet(script') = ToSet(ToSql(platform', schema')) /\ Made(D, server')
      BY <2>2 DEF Creating
    <3>1. /\ schema.sequences = <<>> \/ CreatesSequences(platform)
          /\ \E D : D \cup ToSet(script) = ToSet(ToSql(platform, schema)) /\ Made(D, server)
      BY <1>2 DEF Creating
    <3>2. PICK D : D \cup ToSet(script) = ToSet(ToSql(platform, schema)) /\ Made(D, server)
      BY <3>1
    <3>3. st.op \in Creates
      <4>1. st \in ToSet(ToSql(platform, schema))
        BY <3>2, <1>3
      <4>2. schema \in SchemaType
        BY DEF IInv, TypeInv
      <4> HIDE DEF st
      <4> QED BY <4>1, <4>2, CreatesOnly
    <3>4. PICK x : x = st
      OBVIOUS
    <3>5. Made(D \cup {x}, server')
      <4>1. x.op \in Creates /\ Accepts(x) /\ server' = After(x)
        BY <3>3, <3>4, <2>1, <1>5
      <4>2. DOMAIN server = Fields
        BY DEF IInv, TypeInv
      <4> QED BY <4>1, <4>2, <3>2, StatementMakes
    <3>6. (D \cup {x}) \cup ToSet(script') = ToSet(ToSql(platform', schema'))
      <4>1. ToSet(script) = {x} \cup ToSet(script')
        BY <3>4, <2>1, <1>3
      <4>2. ToSet(ToSql(platform', schema')) = D \cup ToSet(script)
        BY <3>2, <1>1
      <4> QED BY <4>1, <4>2
    <3>7. \E E : E \cup ToSet(script') = ToSet(ToSql(platform', schema')) /\ Made(E, server')
      BY <3>5, <3>6, Zenon
    <3> QED BY <3>1, <3>7, <1>1
  <2>4. Dropping'
    <3> SUFFICES ASSUME call.kind = "drop", call.base = "whole"
                 PROVE  call'.status \in {"running", "done"} /\ Undoes(script, server)'
      BY <2>2 DEF Dropping
    <3>1. Undoes(script, server) /\ DOMAIN server = Fields
      BY <1>2 DEF Dropping, IInv, TypeInv
    <3>2. Undoes(Tail(script), server')
      BY <3>1, <2>1, <1>1, StatementUndoes
    <3>3. script' = Tail(script)
      BY <2>1
    <3>4. Undoes(script, server)'
      BY <3>2, <3>3, <1>1 DEF Undoes, LeftTables
    <3> QED BY <3>4, <2>2
  <2> QED BY <2>2, <2>3, <2>4, <1>1, <1>2 DEF CallSound
<1> QED BY <1>4, <1>5

(* Each step.                                                              *)
LEMMA NextSound ==
  ASSUME IInv, [Next]_vars
  PROVE  IInv'
<1>1. TypeInv'
  BY NextKeepsOthers DEF IInv
<1>2. ASSUME schema' = schema, CallSound' PROVE IInv'
  BY <1>1, <1>2 DEF IInv
<1>3. /\ DOMAIN call = {"kind", "base", "status"} /\ calls \in Nat
      /\ (calls = 0 => call.kind = "none") /\ (call.status # "running" => script = <<>>)
  BY DEF IInv, CallSound
<1>4. CASE \/ \E ns \in Namespaces : CreateNamespace(ns)
           \/ \E n \in TableNames, to \in TableNames : AddTable(n, {to}) \/ AddForeignKey(n, to)
           \/ \E n \in TableNames : AddTable(n, {}) \/ DropTable(n)
           \/ \E old \in TableNames, new \in TableNames : RenameTable(old, new)
           \/ \E n \in SequenceNames : AddSequence(n) \/ DropSequence(n)
  <2>1. Declared(schema') /\ calls = 0 /\ UNCHANGED <<platform, script, call, calls>>
    BY <1>4, EditsDeclare, Zenon DEF IInv
  <2>2. CallSound'
    BY <2>1, <1>3 DEF CallSound, Creating, Dropping
  <2> QED BY <2>1, <2>2, <1>1 DEF IInv
<1>5. CASE CreateSchemaObjects
  <2>1. PICK supported : supported = (schema.sequences = <<>> \/ CreatesSequences(platform))
    OBVIOUS
  <2>2. Start("create", supported, ToSql(platform, schema))
    BY <2>1, <1>5, Zenon DEF CreateSchemaObjects
  <2>3. CallSound' 
    BY <2>1, <2>2, StartSound, Zenon
  <2>4. schema' = schema
    BY <2>2 DEF Start
  <2> QED BY <2>3, <2>4, <1>2
<1>6. CASE DropSchemaObjects
  <2>1. PICK supported : supported = (schema.sequences = <<>> \/ SupportsSequences(platform))
    OBVIOUS
  <2>2. Start("drop", supported, ToDropSql(platform, schema))
    BY <2>1, <1>6, Zenon DEF DropSchemaObjects
  <2>3. CallSound'
    BY <2>1, <2>2, StartSound, Zenon
  <2>4. schema' = schema
    BY <2>2 DEF Start
  <2> QED BY <2>3, <2>4, <1>2
<1>7. CASE ExecuteStatement
  BY <1>2, <1>7, ExecuteSound DEF ExecuteStatement
<1>8. ASSUME call'.base = "other", DOMAIN call' = DOMAIN call, call'.kind = call.kind,
             call'.status # "running" => script' = <<>>, calls' \in Nat, calls' >= calls, schema' = schema
      PROVE  IInv'
  <2>1. calls' = 0 => calls = 0
    BY <1>3, <1>8
  <2>2. Creating' /\ Dropping'
    BY <1>8 DEF Creating, Dropping
  <2>3. CallSound'
    BY <2>1, <2>2, <1>3, <1>8 DEF CallSound
  <2> QED BY <2>3, <1>2, <1>8
<1>9. CASE LoseConnection
  <2>1. /\ script' = <<>> /\ call' = [call EXCEPT !.status = "failed", !.base = "other"]
        /\ schema' = schema /\ calls' = calls
    BY <1>9 DEF LoseConnection
  <2> QED BY <2>1, <1>3, <1>8
<1>10. ASSUME NEW st, Elsewhere(st) PROVE IInv'
  <2>1. /\ calls' = calls + 1 /\ call' = [call EXCEPT !.base = "other"]
        /\ script' = script /\ schema' = schema
    BY <1>10 DEF Elsewhere
  <2> QED BY <2>1, <1>3, <1>8
<1>11. CASE \E n \in TableNames : CreateElsewhere(n) \/ DropElsewhere(n)
  BY <1>10, <1>11, Zenon DEF CreateElsewhere, DropElsewhere
<1>12. CASE UNCHANGED vars
  <2>1. /\ platform' = platform /\ schema' = schema /\ server' = server /\ script' = script
        /\ call' = call /\ calls' = calls
    BY <1>12 DEF vars
  <2>2. Creating' /\ Dropping'
    <3>1. Creating /\ Dropping
      BY DEF IInv, CallSound
    <3> QED BY <3>1, <2>1 DEF Creating, Dropping, Undoes, LeftTables, LeftForeignKeys
  <2>3. CallSound'
    BY <2>1, <2>2, <1>3 DEF CallSound
  <2> QED BY <2>1, <2>3, <1>2
<1> QED BY <1>4, <1>5, <1>6, <1>7, <1>9, <1>11, <1>12, Zenon DEF Next

(* dropSchemaObjects() takes away whole what createSchemaObjects() has     *)
(* made of the same schema on an empty server: every statement is          *)
(* accepted, whatever refers to what, and no table and no sequence is      *)
(* left.                                                                   *)
THEOREM AlwaysDropsWhatItCreated == Spec => []DropsWhatItCreated
<1>1. ASSUME IInv PROVE DropsWhatItCreated
  <2> SUFFICES ASSUME call.kind = "drop", call.base = "whole"
               PROVE  /\ call.status \in {"running", "done"}
                      /\ call.status = "done" => server.tables = {} /\ server.sequences = {}
    BY Zenon DEF DropsWhatItCreated
  <2>1. call.status \in {"running", "done"} /\ Undoes(script, server)
    BY <1>1 DEF IInv, CallSound, Dropping
  <2>2. ASSUME call.status = "done" PROVE server.tables = {} /\ server.sequences = {}
    <3>1. script = <<>>
      BY <2>2, <1>1 DEF IInv, CallSound
    <3>2. ToSet(script) = {}
      BY <3>1 DEF ToSet
    <3>3. LeftTables({}, server.tables) /\ LeftSequences({}, server.sequences)
      BY <2>1, <3>2 DEF Undoes
    <3>4. \A op : NamesIn(Of(op, {})) = {}
      BY DEF NamesIn, Of
    <3>5. server.sequences = {}
      BY <3>3, <3>4 DEF LeftSequences
    <3>6. {t.name : t \in server.tables} = {}
      BY <3>3, <3>4 DEF LeftTables
    <3>7. server.tables = {}
      BY <3>6
    <3> QED BY <3>5, <3>7
  <2> QED BY <2>1, <2>2
<1>2. IInv /\ [Next]_vars => IInv'
  BY NextSound
<1> QED BY <1>1, <1>2, InitSound, PTL DEF Spec

=============================================================================
