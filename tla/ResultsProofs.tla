---------------------------- MODULE ResultsProofs ----------------------------
(***************************************************************************)
(* Whoever is told that a result has no more rows has missed none: for     *)
(* every answer, adapter and mode, and any number of generators that share *)
(* the cursor.  The rows that an adapter makes are folds over the columns, *)
(* which the first part describes step by step.                            *)
(***************************************************************************)
EXTENDS Results, SequenceTheorems, WellFoundedInduction, TLAPS

(* What an entry adds to an object. *)
Added(obj, e, gathers) ==
  Put(obj, e.key, IF gathers /\ e.key \in Keys(obj) THEN Get(obj, e.key) \o e.value ELSE e.value)

-----------------------------------------------------------------------------
(* Folds. *)

(* A set of numbers that is not empty has a least one.                     *)
LEMMA Least ==
  ASSUME NEW T \in SUBSET Nat, T # {}
  PROVE  \E y \in T : \A x \in T : y <= x
<1> DEFINE R == OpToRel(<, Nat)
<1>1. IsWellFoundedOn(R, Nat)
  BY NatLessThanWellFounded, Zenon
<1>2. R = {p \in Nat \X Nat : p[1] < p[2]}
  BY DEF OpToRel
<1> HIDE DEF R
<1>3. PICK y \in T : \A x \in T : <<x, y>> \notin R
  BY <1>1, WFMin, Zenon
<1>4. ASSUME NEW x \in T, x < y PROVE FALSE
  <2>1. <<x, y>> \in R
    BY <1>2, <1>4
  <2> QED BY <1>3, <2>1
<1> QED BY <1>4

(* The greatest element of a set of numbers up to k that has k.            *)
LEMMA MaxIs ==
  ASSUME NEW k \in Nat, NEW s \in SUBSET (1 .. k), k \in s
  PROVE  Max(s) = k
<1>1. \A y \in s : k >= y
  OBVIOUS
<1>2. Max(s) \in s /\ \A y \in s : Max(s) >= y
  BY <1>1, Zenon DEF Max
<1>3. PICK m : m = Max(s)
  OBVIOUS
<1>4. m \in s /\ m >= k /\ k >= m
  BY <1>1, <1>2, <1>3
<1>5. m \in Nat
  BY <1>4
<1> QED BY <1>3, <1>4, <1>5

(* FromEntries() adds the entries one by one.                              *)
LEMMA OneByOne ==
  ASSUME NEW n \in Nat, NEW entries, DOMAIN entries = 1 .. n, NEW gathers
  PROVE  \E f : /\ f[0] = <<>> /\ f[n] = FromEntries(entries, gathers)
                /\ \A k \in 1 .. n : f[k] = Added(f[k - 1], entries[k], gathers)
<1> DEFINE Step(g, s) ==
             IF s = {} THEN <<>> ELSE Added(g[s \ {Max(s)}], entries[Max(s)], gathers)
           Upto(g, k) == g = [s \in SUBSET (1 .. k) |-> Step(g, s)]
           T == {k \in Nat : k <= n /\ ~ \E g : Upto(g, k)}
<1>1. ASSUME T # {} PROVE FALSE
  <2>1. PICK k \in T : \A x \in T : k <= x
    BY <1>1, Least, Zenon
  <2>2. k \in Nat /\ k <= n
    OBVIOUS
  <2>3. k # 0
    <3>1. PICK g : g = [s \in SUBSET (1 .. 0) |-> <<>>]
      OBVIOUS
    <3>2. \A s \in SUBSET (1 .. 0) : s = {}
      OBVIOUS
    <3>3. Upto(g, 0)
      BY <3>1, <3>2
    <3> QED BY <3>3, <2>1
  <2>4. k - 1 \in Nat /\ ~ k <= k - 1 /\ k - 1 <= n
    BY <2>2, <2>3
  <2>5. k - 1 \notin T
    BY <2>1, <2>4
  <2>6. PICK g : Upto(g, k - 1)
    BY <2>4, <2>5
  <2> DEFINE h == [s \in SUBSET (1 .. k) |->
                     IF k \in s THEN Added(g[s \ {k}], entries[k], gathers) ELSE g[s]]
  <2>7. ASSUME NEW s \in SUBSET (1 .. k) PROVE h[s] = Step(h, s)
    <3>1. CASE k \in s
      <4>1. Max(s) = k
        BY <2>2, <3>1, MaxIs
      <4>2. s \ {k} \in SUBSET (1 .. k)
        OBVIOUS
      <4>3. h[s \ {k}] = g[s \ {k}]
        BY <4>2
      <4>4. h[s] = Added(g[s \ {k}], entries[k], gathers)
        BY <3>1
      <4> QED BY <4>1, <4>3, <4>4, <3>1, Zenon
    <3>2. CASE k \notin s
      <4>1. s \in SUBSET (1 .. k - 1)
        BY <3>2, <2>2
      <4>2. h[s] = g[s] /\ g[s] = Step(g, s)
        <5>1. h[s] = g[s]
          BY <3>2
        <5>2. g[s] = Step(g, s)
          BY <2>6, <4>1, Zenon
        <5> QED BY <5>1, <5>2
      <4>3. h[s \ {Max(s)}] = g[s \ {Max(s)}]
        <5>1. s \ {Max(s)} \in SUBSET (1 .. k) /\ k \notin s \ {Max(s)}
          BY <3>2
        <5> QED BY <5>1
      <4> QED BY <4>2, <4>3, Zenon
    <3> QED BY <3>1, <3>2
  <2>8. Upto(h, k)
    BY <2>7, Zenon
  <2> QED BY <2>1, <2>8, Zenon
<1>2. PICK g : Upto(g, n)
  <2>1. n \notin T
    BY <1>1
  <2> HIDE DEF Upto
  <2> QED BY <2>1
<1> DEFINE iter == CHOOSE g1 : Upto(g1, n)
<1>3. Upto(iter, n)
  BY <1>2, Zenon
<1>4. FromEntries(entries, gathers) = iter[1 .. n]
  BY Zenon DEF FromEntries, FoldLeft, MapThenFoldSet, Added
<1>5. iter = [s \in SUBSET (1 .. n) |-> Step(iter, s)]
  BY <1>3, Zenon
<1> HIDE DEF iter
<1>6. iter[1 .. 0] = <<>>
  <2>1. 1 .. 0 = {} /\ {} \in SUBSET (1 .. n)
    OBVIOUS
  <2>2. iter[{}] = Step(iter, {})
    BY <1>5, <2>1, Zenon
  <2> QED BY <2>1, <2>2
<1>7. ASSUME NEW k \in 1 .. n
      PROVE  iter[1 .. k] = Added(iter[1 .. k - 1], entries[k], gathers)
  <2>1. k \in Nat /\ k \in 1 .. k /\ 1 .. k \in SUBSET (1 .. n) /\ 1 .. k # {}
    OBVIOUS
  <2>2. Max(1 .. k) = k
    BY <2>1, MaxIs
  <2>3. (1 .. k) \ {k} = 1 .. k - 1
    BY <2>1
  <2>4. iter[1 .. k] = Step(iter, 1 .. k)
    BY <1>5, <2>1, Zenon
  <2>5. Step(iter, 1 .. k) = Added(iter[(1 .. k) \ {Max(1 .. k)}], entries[Max(1 .. k)], gathers)
    BY <2>1, Zenon
  <2> QED BY <2>2, <2>3, <2>4, <2>5, Zenon
<1>8. PICK f : f = [k \in 0 .. n |-> iter[1 .. k]]
  OBVIOUS
<1>9. f[0] = <<>> /\ f[n] = FromEntries(entries, gathers)
  BY <1>4, <1>6, <1>8
<1>10. ASSUME NEW k \in 1 .. n PROVE f[k] = Added(f[k - 1], entries[k], gathers)
  <2>1. k - 1 \in 0 .. n /\ k \in 0 .. n
    OBVIOUS
  <2>2. f[k - 1] = iter[1 .. k - 1] /\ f[k] = iter[1 .. k]
    BY <2>1, <1>8
  <2> QED BY <2>2, <1>7
<1> QED BY <1>9, <1>10

(* What holds of no entries and is kept by each holds of them all.  Stated *)
(* for the sets of the k up to which something holds.                      *)
LEMMA UpTo ==
  ASSUME NEW n \in Nat, NEW T, 0 \in T, \A k \in 1 .. n : k - 1 \in T => k \in T
  PROVE  \A k \in 0 .. n : k \in T
<1> DEFINE U == {k \in 0 .. n : k \notin T}
<1>1. ASSUME U # {} PROVE FALSE
  <2>1. U \in SUBSET Nat
    OBVIOUS
  <2>2. PICK k \in U : \A x \in U : k <= x
    BY <1>1, <2>1, Least, Zenon
  <2>3. k \in 1 .. n /\ k - 1 \in 0 .. n /\ ~ k <= k - 1
    OBVIOUS
  <2>4. k - 1 \notin U
    BY <2>2, <2>3
  <2> QED BY <2>3, <2>4
<1> QED BY <1>1

-----------------------------------------------------------------------------
(* Objects. *)

(* An object is a sequence of entries, whatever their keys and values.     *)
IsSequence(obj) == obj \in Seq(Range(obj))

LEMMA EntryIs ==
  ASSUME NEW k, NEW v
  PROVE  Entry(k, v).key = k /\ Entry(k, v).value = v
BY DEF Entry

LEMMA NoEntries == IsSequence(<<>>)
BY DEF IsSequence

LEMMA PutObject ==
  ASSUME NEW obj, IsSequence(obj), NEW k, NEW v
  PROVE  /\ IsSequence(Put(obj, k, v)) /\ Put(obj, k, v) # <<>>
         /\ Entry(k, v) \in Range(Put(obj, k, v))
         /\ \A e \in Range(obj) : e.key # k => e \in Range(Put(obj, k, v))
<1>1. DOMAIN obj = 1 .. Len(obj) /\ Len(obj) \in Nat
  BY DEF IsSequence
<1>2. CASE k \in Keys(obj)
  <2>1. PICK i \in DOMAIN obj : obj[i].key = k
    BY <1>2 DEF Keys, Range
  <2>2. PICK p : p = [j \in DOMAIN obj |-> IF obj[j].key = k THEN Entry(k, v) ELSE obj[j]]
    OBVIOUS
  <2>3. Put(obj, k, v) = p
    BY <1>2, <2>2 DEF Put
  <2>4. DOMAIN p = 1 .. Len(obj) /\ p[i] = Entry(k, v)
    BY <1>1, <2>1, <2>2
  <2>5. \A j \in 1 .. Len(obj) : p[j] \in Range(p)
    BY <2>4 DEF Range
  <2>6. p \in Seq(Range(p))
    BY <1>1, <2>2, <2>4, <2>5
  <2>7. ASSUME NEW e \in Range(obj), e.key # k PROVE e \in Range(p)
    <3>1. PICK j \in DOMAIN obj : obj[j] = e
      BY DEF Range
    <3>2. p[j] = e
      BY <2>2, <2>7, <3>1
    <3> QED BY <3>2, <2>5, <1>1
  <2> QED BY <1>1, <2>1, <2>3, <2>4, <2>5, <2>6, <2>7 DEF IsSequence
<1>3. CASE k \notin Keys(obj)
  <2>1. PICK e, p, m : e = Entry(k, v) /\ p = Append(obj, e) /\ m = Len(obj)
    OBVIOUS
  <2>2. Put(obj, k, v) = p
    BY <1>3, <2>1 DEF Put
  <2>3. DOMAIN p = 1 .. m + 1 /\ p[m + 1] = e /\ \A j \in 1 .. m : p[j] = obj[j]
    BY <2>1 DEF IsSequence
  <2>4. m + 1 \in 1 .. m + 1 /\ m \in Nat
    BY <1>1, <2>1
  <2>5. Range(p) = Range(obj) \cup {e}
    BY <1>1, <2>1, <2>3, <2>4 DEF Range
  <2>6. p \in Seq(Range(p))
    <3>1. obj \in Seq(Range(obj) \cup {e})
      BY DEF IsSequence
    <3> QED BY <3>1, <2>1, <2>5
  <2>7. p # <<>>
    BY <2>3, <2>4
  <2> QED BY <2>1, <2>2, <2>5, <2>6, <2>7 DEF IsSequence
<1> QED BY <1>2, <1>3

(* Of any entries an object can be made, and it is not empty if they are   *)
(* not.                                                                    *)
LEMMA EntriesObject ==
  ASSUME NEW n \in Nat, NEW entries, DOMAIN entries = 1 .. n, NEW gathers
  PROVE  /\ IsSequence(FromEntries(entries, gathers))
         /\ FromEntries(entries, gathers) = <<>> <=> n = 0
<1>1. PICK f : /\ f[0] = <<>> /\ f[n] = FromEntries(entries, gathers)
               /\ \A k \in 1 .. n : f[k] = Added(f[k - 1], entries[k], gathers)
  BY OneByOne
<1> DEFINE T == {k \in Nat : IsSequence(f[k]) /\ (k # 0 => f[k] # <<>>)}
<1>2. 0 \in T
  BY <1>1, NoEntries
<1>3. ASSUME NEW k \in 1 .. n, k - 1 \in T PROVE k \in T
  <2>1. IsSequence(f[k - 1])
    BY <1>3
  <2>2. PICK v : f[k] = Put(f[k - 1], entries[k].key, v)
    BY <1>1 DEF Added
  <2> QED BY <2>1, <2>2, PutObject
<1> HIDE DEF T
<1>4. n \in T
  <2>1. \A k \in 1 .. n : k - 1 \in T => k \in T
    BY <1>3
  <2>2. \A k \in 0 .. n : k \in T
    BY <1>2, <2>1, UpTo
  <2> QED BY <2>2
<1> QED BY <1>4, <1>1 DEF T

(* Entries whose keys differ make an object of just these.                 *)
LEMMA DistinctEntries ==
  ASSUME NEW n \in Nat, NEW entries, DOMAIN entries = 1 .. n, NEW gathers,
         \A i, j \in 1 .. n : i # j => entries[i].key # entries[j].key
  PROVE  FromEntries(entries, gathers) = [i \in 1 .. n |-> Entry(entries[i].key, entries[i].value)]
<1> DEFINE Only(k) == [i \in 1 .. k |-> Entry(entries[i].key, entries[i].value)]
<1>1. PICK f : /\ f[0] = <<>> /\ f[n] = FromEntries(entries, gathers)
               /\ \A k \in 1 .. n : f[k] = Added(f[k - 1], entries[k], gathers)
  BY OneByOne
<1> DEFINE T == {k \in Nat : f[k] = Only(k)}
<1>2. 0 \in T
  BY <1>1
<1>3. ASSUME NEW k \in 1 .. n, k - 1 \in T PROVE k \in T
  <2>1. PICK obj : obj = f[k - 1] /\ obj = Only(k - 1)
    BY <1>3
  <2>2. k \in Nat /\ k - 1 \in Nat /\ (k - 1) + 1 = k
    OBVIOUS
  <2>3. entries[k].key \notin Keys(obj)
    <3>1. ASSUME NEW i \in 1 .. k - 1 PROVE obj[i].key # entries[k].key
      <4>1. i \in 1 .. n /\ i # k
        BY <2>2
      <4>2. obj[i].key = entries[i].key
        BY <2>1 DEF Entry
      <4> QED BY <4>1, <4>2
    <3> QED BY <2>1, <3>1 DEF Keys, Range
  <2>4. f[k] = Append(obj, Entry(entries[k].key, entries[k].value))
    BY <1>1, <2>1, <2>3 DEF Added, Put
  <2>5. Append(obj, Entry(entries[k].key, entries[k].value)) = Only(k)
    <3>1. PICK e : e = Entry(entries[k].key, entries[k].value)
      OBVIOUS
    <3>2. obj \in Seq(Range(obj)) /\ Len(obj) = k - 1
      <4>1. DOMAIN obj = 1 .. k - 1 /\ \A i \in 1 .. k - 1 : obj[i] \in Range(obj)
        BY <2>1 DEF Range
      <4>2. obj = [i \in 1 .. k - 1 |-> obj[i]]
        BY <2>1
      <4> QED BY <2>2, <4>1, <4>2
    <3>3. Append(obj, e) = [i \in 1 .. k |-> IF i = k THEN e ELSE obj[i]]
      <4>1. PICK p : p = Append(obj, e)
        OBVIOUS
      <4>2. p \in Seq(Range(obj) \cup {e}) /\ Len(p) = k
        BY <2>2, <3>2, <4>1
      <4>3. \A i \in 1 .. k : p[i] = IF i = k THEN e ELSE obj[i]
        BY <2>2, <3>2, <4>1
      <4>4. p = [i \in 1 .. k |-> p[i]]
        BY <4>2
      <4> QED BY <4>1, <4>3, <4>4
    <3>4. \A i \in 1 .. k : i # k => obj[i] = Entry(entries[i].key, entries[i].value)
      BY <2>1, <2>2
    <3> QED BY <3>1, <3>3, <3>4
  <2> QED BY <2>2, <2>4, <2>5
<1> HIDE DEF T, Only
<1>4. n \in T
  <2>1. \A k \in 1 .. n : k - 1 \in T => k \in T
    BY <1>3
  <2>2. \A k \in 0 .. n : k \in T
    BY <1>2, <2>1, UpTo
  <2> QED BY <2>2
<1> QED BY <1>4, <1>1 DEF T, Only

(* The last entry of a key stays.                                          *)
LEMMA LastStays ==
  ASSUME NEW n \in Nat, NEW entries, DOMAIN entries = 1 .. n, NEW i \in 1 .. n,
         \A j \in i + 1 .. n : entries[j].key # entries[i].key, NEW gathers, gathers = FALSE
  PROVE  Entry(entries[i].key, entries[i].value) \in Range(FromEntries(entries, gathers))
<1>1. PICK f : /\ f[0] = <<>> /\ f[n] = FromEntries(entries, gathers)
               /\ \A k \in 1 .. n : f[k] = Added(f[k - 1], entries[k], gathers)
  BY OneByOne
<1>2. PICK e : e = Entry(entries[i].key, entries[i].value) /\ e.key = entries[i].key
  BY EntryIs
<1> DEFINE T == {k \in Nat : IsSequence(f[k]) /\ (k >= i => e \in Range(f[k]))}
<1>3. 0 \in T
  BY <1>1, NoEntries
<1>4. ASSUME NEW k \in 1 .. n, k - 1 \in T PROVE k \in T
  <2>1. IsSequence(f[k - 1]) /\ (k - 1 >= i => e \in Range(f[k - 1]))
    BY <1>4
  <2>2. f[k] = Put(f[k - 1], entries[k].key, entries[k].value)
    BY <1>1 DEF Added
  <2>3. IsSequence(f[k])
    BY <2>1, <2>2, PutObject
  <2>4. CASE k = i
    BY <2>1, <2>2, <2>3, <2>4, <1>2, PutObject
  <2>5. CASE k > i
    <3>1. e.key # entries[k].key /\ k - 1 >= i
      BY <2>5, <1>2
    <3> QED BY <3>1, <2>1, <2>2, <2>3, PutObject
  <2>6. CASE k < i
    BY <2>3, <2>6
  <2> QED BY <2>4, <2>5, <2>6
<1> HIDE DEF T
<1>5. n \in T
  <2>1. \A k \in 1 .. n : k - 1 \in T => k \in T
    BY <1>4
  <2>2. \A k \in 0 .. n : k \in T
    BY <1>3, <2>1, UpTo
  <2> QED BY <2>2
<1> QED BY <1>5, <1>1, <1>2 DEF T

-----------------------------------------------------------------------------
(* What the adapters make of an answer. *)

(* The object that has some keys and their values in that order.           *)
Made(keys, values) == [j \in DOMAIN keys |-> Entry(keys[j], values[j])]

Sized(columns, row) == /\ columns \in Seq(STRING) /\ row \in Seq(Seq(STRING))
                       /\ Len(row) = Len(columns)

LEMMA SequenceIs ==
  ASSUME NEW n \in Nat, NEW s, s = [i \in 1 .. n |-> s[i]]
  PROVE  IsSequence(s) /\ Len(s) = n /\ DOMAIN s = 1 .. n
<1>1. DOMAIN s = 1 .. n /\ \A i \in 1 .. n : s[i] \in Range(s)
  BY DEF Range
<1>2. s \in [1 .. n -> Range(s)]
  BY <1>1
<1>3. s \in Seq(Range(s))
  BY <1>2
<1> QED BY <1>1, <1>3 DEF IsSequence

LEMMA AnswerType ==
  ASSUME answer \in Answers
  PROVE  /\ answer.columns \in Seq(STRING) /\ answer.rows \in Seq(Seq(Seq(STRING)))
         /\ \A i \in DOMAIN answer.rows : Sized(answer.columns, answer.rows[i])
         /\ answer.rows # <<>> => answer.affected = Len(answer.rows)
BY ResultsAssumption DEF Sized

(* Keys that differ make an object of just these, of any package.          *)
LEMMA MadeOf ==
  ASSUME NEW keys, NEW n \in Nat, DOMAIN keys = 1 .. n, ~ Repeats(keys), NEW values, NEW gathers
  PROVE  /\ FromEntries(Made(keys, values), gathers) = Made(keys, values)
         /\ \A j \in 1 .. n : Get(Made(keys, values), keys[j]) = values[j]
<1>1. PICK obj : obj = Made(keys, values)
  OBVIOUS
<1>2. DOMAIN obj = 1 .. n /\ \A j \in 1 .. n : obj[j] = Entry(keys[j], values[j])
  BY <1>1 DEF Made
<1>3. \A i, j \in 1 .. n : i # j => keys[i] # keys[j]
  BY DEF Repeats
<1>4. \A j \in 1 .. n : obj[j].key = keys[j] /\ obj[j].value = values[j]
  BY <1>2, EntryIs
<1>5. FromEntries(obj, gathers) = [i \in 1 .. n |-> Entry(obj[i].key, obj[i].value)]
  BY <1>2, <1>3, <1>4, DistinctEntries
<1>6. [i \in 1 .. n |-> Entry(obj[i].key, obj[i].value)] = obj
  BY <1>1, <1>4 DEF Made
<1>7. ASSUME NEW j \in 1 .. n PROVE Get(obj, keys[j]) = values[j]
  <2>1. obj[j] \in Range(obj) /\ obj[j].key = keys[j]
    BY <1>2, <1>4 DEF Range
  <2>2. ASSUME NEW e \in Range(obj), e.key = keys[j] PROVE e = obj[j]
    <3>1. PICK i \in 1 .. n : e = obj[i]
      BY <1>2 DEF Range
    <3>2. i = j
      BY <1>3, <1>4, <2>2, <3>1
    <3> QED BY <3>1, <3>2
  <2>3. (CHOOSE e \in Range(obj) : e.key = keys[j]) = obj[j]
    BY <2>1, <2>2
  <2> QED BY <2>3, <1>4 DEF Get
<1> QED BY <1>1, <1>5, <1>6, <1>7

(* Its pairs, and those that are left when the first key is deleted.       *)
LEMMA MadePairs ==
  ASSUME NEW keys, NEW n \in Nat, DOMAIN keys = 1 .. n, ~ Repeats(keys), NEW values
  PROVE  /\ Pairs(Made(keys, values)) = {<<keys[j], values[j]>> : j \in 1 .. n}
         /\ n # 0 => Pairs(Delete(Made(keys, values), keys[1]))
                       = {<<keys[j], values[j]>> : j \in 2 .. n}
<1>1. PICK obj : obj = Made(keys, values)
  OBVIOUS
<1>2. DOMAIN obj = 1 .. n /\ \A j \in 1 .. n : obj[j] = Entry(keys[j], values[j])
  BY <1>1 DEF Made
<1>3. \A j \in 1 .. n : obj[j].key = keys[j] /\ obj[j].value = values[j]
  BY <1>2, EntryIs
<1>4. Pairs(obj) = {<<keys[j], values[j]>> : j \in 1 .. n}
  BY <1>2, <1>3 DEF Pairs, Range
<1>5. ASSUME n # 0 PROVE Pairs(Delete(obj, keys[1])) = {<<keys[j], values[j]>> : j \in 2 .. n}
  <2>1. 1 \in 1 .. n /\ keys[1] \in Keys(obj)
    BY <1>2, <1>3, <1>5 DEF Keys, Range
  <2>2. \A i \in DOMAIN obj : obj[i].key = keys[1] => i = 1
    BY <1>2, <1>3, <2>1 DEF Repeats
  <2>3. (CHOOSE i \in DOMAIN obj : obj[i].key = keys[1]) = 1
    BY <1>2, <1>3, <2>1, <2>2
  <2>4. PICK rest : rest = RemoveAt(obj, 1)
    OBVIOUS
  <2>5. Delete(obj, keys[1]) = rest
    BY <2>1, <2>3, <2>4 DEF Delete
  <2>6. DOMAIN rest = 1 .. n - 1 /\ \A j \in 1 .. n - 1 : rest[j] = obj[j + 1]
    <3>1. obj = [i \in 1 .. n |-> obj[i]]
      BY <1>1, <1>2 DEF Made
    <3>2. obj \in Seq(Range(obj)) /\ Len(obj) = n
      BY <3>1, SequenceIs DEF IsSequence
    <3>3. SubSeq(obj, 1, 1 - 1) = <<>>
      BY <3>2
    <3>4. PICK tail : tail = SubSeq(obj, 2, n)
      OBVIOUS
    <3>5. tail \in Seq(Range(obj)) /\ Len(tail) = n - 1 /\ \A j \in 1 .. n - 1 : tail[j] = obj[j + 1]
      BY <3>2, <3>4, <1>5
    <3>6. rest = <<>> \o tail
      BY <2>4, <3>2, <3>3, <3>4 DEF RemoveAt
    <3>7. rest = tail
      BY <3>5, <3>6
    <3> QED BY <3>5, <3>7
  <2>7. Pairs(rest) = {<<keys[j], values[j]>> : j \in 2 .. n}
    <3>1. ASSUME NEW j \in 2 .. n PROVE <<keys[j], values[j]>> \in Pairs(rest)
      <4>1. j - 1 \in 1 .. n - 1 /\ (j - 1) + 1 = j /\ j \in 1 .. n
        OBVIOUS
      <4>2. rest[j - 1] = obj[j] /\ obj[j] \in Range(rest)
        BY <2>6, <4>1 DEF Range
      <4> QED BY <4>1, <4>2, <1>3 DEF Pairs
    <3>2. ASSUME NEW p \in Pairs(rest) PROVE \E j \in 2 .. n : p = <<keys[j], values[j]>>
      <4>1. PICK i \in 1 .. n - 1 : p = <<rest[i].key, rest[i].value>>
        BY <2>6 DEF Pairs, Range
      <4>2. i + 1 \in 2 .. n /\ i + 1 \in 1 .. n
        OBVIOUS
      <4> QED BY <4>1, <4>2, <2>6, <1>3
    <3> QED BY <3>1, <3>2 DEF Pairs
  <2> QED BY <2>5, <2>7
<1> QED BY <1>1, <1>4, <1>5

(* Every row becomes an object, that is empty if there are no columns.     *)
LEMMA RowsMade ==
  ASSUME answer \in Answers, RowsRead
  PROVE  /\ IsSequence(ToRows) /\ Len(ToRows) = Len(answer.rows)
         /\ DOMAIN ToRows = DOMAIN answer.rows
         /\ \A i \in DOMAIN ToRows :
              /\ IsSequence(ToRows[i])
              /\ ToRows[i] = <<>> <=> answer.columns = <<>>
              /\ ~ Ambiguous => ToRows[i] = Made(answer.columns, answer.rows[i])
<1>1. PICK n, m : n = Len(answer.columns) /\ m = Len(answer.rows)
  OBVIOUS
<1>2. /\ n \in Nat /\ m \in Nat /\ DOMAIN answer.columns = 1 .. n /\ DOMAIN answer.rows = 1 .. m
      /\ answer.columns = <<>> <=> n = 0
  BY <1>1, AnswerType
<1>3. PICK rows : rows = ToRows
  OBVIOUS
<1>4. DOMAIN rows = 1 .. m /\ \A i \in 1 .. m : rows[i] = ObjectOf(answer.columns, answer.rows[i])
  BY <1>2, <1>3 DEF ToRows
<1>5. rows = [i \in 1 .. m |-> rows[i]]
  BY <1>2, <1>3 DEF ToRows
<1>6. ASSUME NEW i \in 1 .. m
      PROVE  /\ IsSequence(rows[i])
             /\ rows[i] = <<>> <=> answer.columns = <<>>
             /\ ~ Ambiguous => rows[i] = Made(answer.columns, answer.rows[i])
  <2>1. rows[i] = FromEntries(Made(answer.columns, answer.rows[i]), driver = "mssql")
    BY <1>4 DEF ObjectOf, Made
  <2>a. PICK gathers : gathers = (driver = "mssql")
    BY Zenon
  <2>b. PICK keys, values : keys = answer.columns /\ values = answer.rows[i]
    OBVIOUS
  <2>2. rows[i] = FromEntries(Made(keys, values), gathers)
    BY <2>1, <2>a, <2>b, Zenon
  <2>3. DOMAIN keys = 1 .. n /\ DOMAIN Made(keys, values) = 1 .. n
    BY <1>2, <2>b DEF Made
  <2>4. IsSequence(rows[i]) /\ (rows[i] = <<>> <=> n = 0)
    <3>1. PICK e : e = Made(keys, values)
      OBVIOUS
    <3>2. DOMAIN e = 1 .. n /\ rows[i] = FromEntries(e, gathers)
      BY <2>2, <2>3, <3>1
    <3>3. IsSequence(FromEntries(e, gathers)) /\ (FromEntries(e, gathers) = <<>> <=> n = 0)
      BY <3>2, <1>2, EntriesObject, Zenon
    <3> QED BY <3>2, <3>3
  <2>5. ~ Ambiguous => rows[i] = Made(keys, values)
    <3>1. ASSUME ~ Repeats(keys) PROVE FromEntries(Made(keys, values), gathers) = Made(keys, values)
      BY <3>1, <2>3, <1>2, MadeOf, Zenon
    <3>2. ~ Ambiguous => ~ Repeats(keys)
      BY <2>b DEF Ambiguous
    <3> QED BY <3>1, <3>2, <2>2
  <2> QED BY <2>b, <2>4, <2>5, <1>2
<1>7. IsSequence(rows) /\ Len(rows) = m
  BY <1>2, <1>5, SequenceIs
<1> QED BY <1>1, <1>2, <1>3, <1>4, <1>6, <1>7

LEMMA NamesOf ==
  ASSUME NEW obj, IsSequence(obj)
  PROVE  /\ IsSequence(Names(obj)) /\ Len(Names(obj)) = Len(obj)
         /\ Names(obj) = <<>> <=> obj = <<>>
<1>1. PICK n : n = Len(obj) /\ n \in Nat /\ DOMAIN obj = 1 .. n
  BY DEF IsSequence
<1>2. PICK names : names = Names(obj)
  OBVIOUS
<1>3. names = [i \in 1 .. n |-> names[i]]
  BY <1>1, <1>2 DEF Names
<1>4. IsSequence(names) /\ Len(names) = n
  BY <1>1, <1>3, SequenceIs
<1>5. (names = <<>> <=> n = 0) /\ (obj = <<>> <=> n = 0)
  BY <1>1, <1>4 DEF IsSequence
<1> QED BY <1>1, <1>2, <1>4, <1>5

LEMMA NamesOfMade ==
  ASSUME NEW keys \in Seq(STRING), NEW values
  PROVE  Names(Made(keys, values)) = keys
<1>1. PICK obj : obj = Made(keys, values)
  OBVIOUS
<1>2. DOMAIN obj = DOMAIN keys /\ \A j \in DOMAIN keys : obj[j] = Entry(keys[j], values[j])
  BY <1>1 DEF Made
<1>3. \A j \in DOMAIN keys : obj[j].key = keys[j]
  BY <1>2, EntryIs
<1>4. Names(obj) = [j \in DOMAIN keys |-> keys[j]]
  BY <1>2, <1>3 DEF Names
<1> QED BY <1>1, <1>4

(* The columns that the adapters describe, and those that their results    *)
(* take from a row.                                                        *)
LEMMA DistinctIs ==
  ASSUME answer \in Answers
  PROVE  /\ IsSequence(Distinct(answer.columns))
         /\ Distinct(answer.columns) = <<>> <=> answer.columns = <<>>
         /\ ~ Ambiguous => Distinct(answer.columns) = answer.columns
<1>1. PICK keys, n : keys = answer.columns /\ n = Len(keys)
  OBVIOUS
<1>2. keys \in Seq(STRING) /\ n \in Nat /\ DOMAIN keys = 1 .. n /\ (keys = <<>> <=> n = 0)
  BY <1>1, AnswerType
<1>3. PICK gathers : gathers = (driver = "mssql")
  BY Zenon
<1>4. PICK e, obj : e = Made(keys, keys) /\ obj = FromEntries(e, gathers)
  OBVIOUS
<1>5. ObjectOf(keys, keys) = obj
  BY <1>3, <1>4, Zenon DEF ObjectOf, Made
<1>6. DOMAIN e = 1 .. n
  BY <1>2, <1>4 DEF Made
<1>7. IsSequence(obj) /\ (obj = <<>> <=> n = 0)
  BY <1>2, <1>4, <1>6, EntriesObject, Zenon
<1>8. Distinct(keys) = Names(obj)
  BY <1>5, Zenon DEF Distinct
<1>9. ASSUME ~ Ambiguous PROVE Names(obj) = keys
  <2>1. ~ Repeats(keys)
    BY <1>1, <1>9 DEF Ambiguous
  <2>2. obj = Made(keys, keys)
    BY <2>1, <1>2, <1>4, MadeOf, Zenon
  <2> QED BY <2>2, <1>2, NamesOfMade
<1>10. IsSequence(Names(obj)) /\ (Names(obj) = <<>> <=> n = 0)
  BY <1>7, NamesOf
<1> QED BY <1>1, <1>2, <1>8, <1>9, <1>10

LEMMA ToColumnsIs ==
  ASSUME answer \in Answers, driver \in Drivers, RowsRead
  PROVE  /\ IsSequence(ToColumns(ToRows))
         /\ ~ Ambiguous => \/ ToColumns(ToRows) = answer.columns
                           \/ driver = "sqlite3" /\ answer.rows = <<>>
<1>1. PICK keys, rows : keys = answer.columns /\ rows = ToRows
  OBVIOUS
<1>2. CASE driver \in {"pg", "mysql2"}
  <2>1. ToColumns(rows) = keys /\ keys \in Seq(STRING)
    BY <1>1, <1>2, AnswerType DEF ToColumns
  <2>2. IsSequence(keys)
    BY <2>1 DEF IsSequence, Range
  <2> QED BY <1>1, <2>1, <2>2
<1>3. CASE driver = "mssql"
  <2>1. ToColumns(rows) = Distinct(keys)
    BY <1>1, <1>3 DEF ToColumns
  <2> QED BY <1>1, <2>1, DistinctIs
<1>4. CASE driver = "sqlite3"
  <2>1. CASE rows = <<>>
    <3>1. ToColumns(rows) = <<>>
      BY <2>1, <1>4 DEF ToColumns
    <3>2. answer.rows = <<>>
      BY <1>1, <2>1, RowsMade, AnswerType
    <3> QED BY <1>1, <1>4, <3>1, <3>2, NoEntries
  <2>2. CASE rows # <<>>
    <3>1. ToColumns(rows) = Names(rows[1])
      BY <2>2, <1>4 DEF ToColumns
    <3>2. 1 \in DOMAIN rows /\ 1 \in DOMAIN answer.rows
      BY <1>1, <2>2, RowsMade DEF IsSequence
    <3>3. IsSequence(rows[1]) /\ (~ Ambiguous => rows[1] = Made(keys, answer.rows[1]))
      BY <1>1, <3>2, RowsMade
    <3>4. ~ Ambiguous => Names(rows[1]) = keys
      BY <1>1, <3>3, AnswerType, NamesOfMade
    <3> QED BY <1>1, <3>1, <3>3, <3>4, NamesOf
  <2> QED BY <2>1, <2>2
<1> QED BY <1>2, <1>3, <1>4, ResultsAssumption

LEMMA ColumnsMade ==
  ASSUME answer \in Answers, driver \in Drivers, RowsRead,
         result.columns = ToColumns(ToRows), NEW i \in DOMAIN ToRows
  PROVE  /\ IsSequence(ColumnsFromRow(ToRows[i]))
         /\ answer.columns # <<>> => ColumnsFromRow(ToRows[i]) # <<>>
         /\ ~ Ambiguous => ColumnsFromRow(ToRows[i]) = answer.columns
<1>1. PICK keys, rows : keys = answer.columns /\ rows = ToRows
  OBVIOUS
<1>2. /\ IsSequence(rows[i]) /\ (rows[i] = <<>> <=> keys = <<>>)
      /\ ~ Ambiguous => rows[i] = Made(keys, answer.rows[i])
  BY <1>1, RowsMade
<1>3. ToRows # <<>> /\ answer.rows # <<>>
  BY RowsMade
<1>4. CASE result.columns # <<>>
  <2>1. ColumnsFromRow(rows[i]) = ToColumns(ToRows) /\ ToColumns(ToRows) # <<>>
    BY <1>4 DEF ColumnsFromRow
  <2> QED BY <1>1, <1>3, <2>1, ToColumnsIs
<1>5. CASE result.columns = <<>>
  <2>1. ColumnsFromRow(rows[i]) = Names(rows[i])
    BY <1>5 DEF ColumnsFromRow
  <2>2. ~ Ambiguous => Names(rows[i]) = keys
    BY <1>1, <1>2, AnswerType, NamesOfMade
  <2> QED BY <1>1, <1>2, <2>1, <2>2, NamesOf
<1> QED BY <1>4, <1>5

-----------------------------------------------------------------------------
(* What a fetch makes of a row. *)

(* The converters do what is promised of a value.                          *)
LEMMA Converted == \A cell : ConvertValue(cell) = Promised(cell)
BY DEF ConvertValue, Promised, EmptyToNull, RightTrim, NULL, Empty, Blanks, Padded, Trimmed

LEMMA MergedIs == Ambiguous => Merged
<1>1. ASSUME NEW i \in DOMAIN answer.columns, NEW j \in DOMAIN answer.columns,
             i # j, answer.columns[i] = answer.columns[j]
      PROVE  Merged
  <2>1. DOMAIN WantedNames = DOMAIN answer.columns /\ WantedNames[i] = WantedNames[j]
    BY <1>1 DEF WantedNames
  <2> QED BY <1>1, <2>1 DEF Merged, Repeats
<1> QED BY <1>1 DEF Ambiguous, Repeats

LEMMA NumericIs ==
  ASSUME answer \in Answers, driver \in Drivers, RowsRead, ~ Ambiguous,
         result.columns = ToColumns(ToRows), NEW i \in DOMAIN ToRows
  PROVE  /\ Numeric(ToRows[i]) = answer.rows[i]
         /\ ConvertNumeric(Numeric(ToRows[i])) = Wanted(i)
<1>1. PICK keys, row, n : keys = answer.columns /\ row = answer.rows[i] /\ n = Len(keys)
  OBVIOUS
<1>2. keys \in Seq(STRING) /\ row \in Seq(Seq(STRING)) /\ Len(row) = n /\ n \in Nat
  BY <1>1, AnswerType, RowsMade DEF Sized
<1>3. ToRows[i] = Made(keys, row) /\ ColumnsFromRow(ToRows[i]) = keys
  BY <1>1, RowsMade, ColumnsMade
<1>4. ~ Repeats(keys) /\ DOMAIN keys = 1 .. n
  BY <1>1, <1>2 DEF Ambiguous
<1>5. \A j \in 1 .. n : Get(Made(keys, row), keys[j]) = row[j]
  BY <1>2, <1>4, MadeOf
<1>6. Numeric(ToRows[i]) = [j \in 1 .. n |-> row[j]]
  BY <1>3, <1>4, <1>5 DEF Numeric
<1>7. Numeric(ToRows[i]) = row
  BY <1>2, <1>6
<1>8. ConvertNumeric(row) = [j \in 1 .. n |-> Promised(row[j])]
  BY <1>2, Converted DEF ConvertNumeric
<1>9. Wanted(i) = [j \in 1 .. n |-> Promised(row[j])]
  BY <1>1, <1>4 DEF Wanted
<1> QED BY <1>1, <1>7, <1>8, <1>9

LEMMA RowConverted ==
  ASSUME answer \in Answers, RowsRead, ~ Merged, NEW i \in DOMAIN ToRows
  PROVE  /\ ConvertRow(ToRows[i]) = Made(WantedNames, Wanted(i))
         /\ DOMAIN WantedNames = DOMAIN answer.columns /\ Len(WantedNames) = Len(answer.columns)
<1>1. PICK keys, row, n, names :
        keys = answer.columns /\ row = answer.rows[i] /\ n = Len(keys) /\ names = WantedNames
  OBVIOUS
<1>2. keys \in Seq(STRING) /\ row \in Seq(Seq(STRING)) /\ Len(row) = n /\ n \in Nat
  BY <1>1, AnswerType, RowsMade DEF Sized
<1>3. DOMAIN keys = 1 .. n
  BY <1>2, <1>1
<1>4. PICK obj : obj = ToRows[i] /\ obj = Made(keys, row)
  BY <1>1, RowsMade, MergedIs
<1>5. DOMAIN obj = 1 .. n /\ \A j \in 1 .. n : obj[j].key = keys[j] /\ obj[j].value = row[j]
  BY <1>3, <1>4, EntryIs DEF Made
<1>6. names = [j \in 1 .. n |-> ConvertColumnName(keys[j])]
  BY <1>1, <1>3 DEF WantedNames
<1>7. Wanted(i) = [j \in 1 .. n |-> Promised(row[j])]
  BY <1>1, <1>3 DEF Wanted
<1>8. PICK made : made = Made(names, Wanted(i))
  OBVIOUS
<1>9. made = [j \in DOMAIN obj |-> Entry(ConvertColumnName(obj[j].key), ConvertValue(obj[j].value))]
  BY <1>5, <1>6, <1>7, <1>8, Converted DEF Made
<1>10. ConvertRow(obj) = FromEntries(made, FALSE)
  BY <1>9, Zenon DEF ConvertRow
<1>11. DOMAIN names = 1 .. n /\ ~ Repeats(names)
  BY <1>1, <1>6 DEF Merged
<1>12. FromEntries(made, FALSE) = made
  BY <1>2, <1>8, <1>11, MadeOf, Zenon
<1>13. Len(names) = n
  <2>1. names = [j \in 1 .. n |-> names[j]]
    BY <1>6
  <2> QED BY <2>1, <1>2, SequenceIs
<1> QED BY <1>1, <1>3, <1>4, <1>8, <1>10, <1>11, <1>12, <1>13

LEMMA FetchedIs ==
  ASSUME answer \in Answers, driver \in Drivers, RowsRead, answer.columns # <<>>,
         result.columns = ToColumns(ToRows), result.rows = ToRows,
         NEW i \in DOMAIN ToRows, NEW as \in Kinds
  PROVE  Fetched(as, ToRows[i]).as = as /\ IsRow(Fetched(as, ToRows[i]), i)
<1>1. PICK obj, item, cells :
        obj = ToRows[i] /\ item = Fetched(as, obj) /\ cells = ConvertNumeric(Numeric(obj))
  OBVIOUS
<1>2. item.as = as
  BY <1>1 DEF Fetched, Item
<1>3. i \in DOMAIN answer.rows
  BY RowsMade
<1>4. ASSUME ~ Ambiguous PROVE cells = Wanted(i)
  BY <1>1, <1>4, NumericIs
<1>5. PICK names, n : names = WantedNames /\ n = Len(answer.columns)
  OBVIOUS
<1>6. n \in Nat /\ DOMAIN answer.columns = 1 .. n /\ 1 \in 1 .. n /\ n # 0
  BY <1>5, AnswerType
<1>7. DOMAIN Wanted(i) = 1 .. n
  BY <1>6 DEF Wanted
<1>8. CASE as = "numeric"
  <2>1. item.value = cells
    BY <1>1, <1>8 DEF Fetched, Item
  <2> QED BY <1>1, <1>2, <1>3, <1>4, <1>8, <2>1 DEF IsRow
<1>9. CASE as = "one"
  <2>1. item.value = SubSeq(cells, 1, 1)
    BY <1>1, <1>9 DEF Fetched, Item
  <2>2. ASSUME ~ Ambiguous PROVE SubSeq(cells, 1, 1) = <<Wanted(i)[1]>>
    <3>1. cells = [j \in 1 .. n |-> cells[j]]
      BY <1>4, <2>2, <1>7 DEF Wanted
    <3>2. cells \in Seq(Range(cells)) /\ Len(cells) = n
      BY <3>1, <1>6, SequenceIs DEF IsSequence
    <3>3. SubSeq(cells, 1, 1) = <<cells[1]>>
      <4>1. PICK first : first = SubSeq(cells, 1, 1)
        OBVIOUS
      <4>2. first \in Seq(Range(cells)) /\ Len(first) = 1 /\ first[1] = cells[1]
        BY <3>2, <4>1, <1>6
      <4>3. PICK other : other = <<cells[1]>>
        OBVIOUS
      <4>4. other \in Seq(Range(cells)) /\ Len(other) = 1 /\ other[1] = cells[1]
        BY <4>3, <3>1, <1>6 DEF Range
      <4>5. first = other
        BY <4>2, <4>4
      <4> QED BY <4>1, <4>3, <4>5
    <3> QED BY <3>3, <1>4, <2>2
  <2> QED BY <1>1, <1>2, <1>3, <1>9, <2>1, <2>2 DEF IsRow
<1>10. CASE as = "keyValue"
  <2>1. item.value = <<<<Text(cells[1])>>, cells[2]>>
    BY <1>1, <1>10 DEF Fetched, Item
  <2> QED BY <1>1, <1>2, <1>3, <1>4, <1>10, <2>1 DEF IsRow
<1>11. ASSUME ~ Merged
       PROVE  /\ ConvertRow(obj) = Made(names, Wanted(i)) /\ DOMAIN names = 1 .. n /\ Len(names) = n
              /\ ~ Repeats(names)
  BY <1>1, <1>5, <1>6, <1>11, RowConverted DEF Merged
<1>12. CASE as = "associative"
  <2>1. item.value = ConvertRow(obj)
    BY <1>1, <1>12 DEF Fetched, Item
  <2>2. ASSUME ~ Merged PROVE Pairs(item.value) = WantedPairs(i, 1)
    <3>a. DOMAIN names = 1 .. n /\ ~ Repeats(names)
      BY <1>11, <2>2
    <3>1. Pairs(Made(names, Wanted(i))) = {<<names[j], Wanted(i)[j]>> : j \in 1 .. n}
      BY <1>6, <3>a, MadePairs
    <3>2. WantedPairs(i, 1) = {<<names[j], Wanted(i)[j]>> : j \in 1 .. n}
      BY <1>5, <1>11, <2>2 DEF WantedPairs
    <3> QED BY <2>1, <3>1, <3>2, <1>11, <2>2
  <2> QED BY <1>1, <1>2, <1>3, <1>12, <2>2 DEF IsRow
<1>13. CASE as = "indexed"
  <2>1. item.value = <<<<Text(Get(ConvertRow(obj), ColumnName(1)))>>,
                        Delete(ConvertRow(obj), ColumnName(1))>>
    BY <1>1, <1>13 DEF Fetched, Item
  <2>2. ASSUME ~ Merged
        PROVE  item.value[1] = <<Text(Wanted(i)[1])>> /\ Pairs(item.value[2]) = WantedPairs(i, 2)
    <3>1. ColumnName(1) = names[1]
      <4>1. result.rows # <<>> /\ 1 \in DOMAIN ToRows
        BY RowsMade DEF IsSequence
      <4>2. ColumnsFromRow(ToRows[1]) = answer.columns
        BY <4>1, <2>2, MergedIs, ColumnsMade
      <4>3. ColumnName(1) = ConvertColumnName(answer.columns[1])
        BY <4>1, <4>2 DEF ColumnName
      <4> QED BY <4>3, <1>5, <1>6 DEF WantedNames
    <3>2. Get(Made(names, Wanted(i)), names[1]) = Wanted(i)[1]
      BY <1>6, <1>11, <2>2, MadeOf
    <3>a. DOMAIN names = 1 .. n /\ ~ Repeats(names)
      BY <1>11, <2>2
    <3>3. Pairs(Delete(Made(names, Wanted(i)), names[1])) = {<<names[j], Wanted(i)[j]>> : j \in 2 .. n}
      BY <1>6, <3>a, MadePairs, ZenonT(60)
    <3>4. WantedPairs(i, 2) = {<<names[j], Wanted(i)[j]>> : j \in 2 .. n}
      BY <1>5, <1>11, <2>2 DEF WantedPairs
    <3>5. PICK key, rest : /\ item.value = <<<<Text(key)>>, rest>>
                          /\ key = Wanted(i)[1] /\ rest = Delete(Made(names, Wanted(i)), names[1])
      BY <2>1, <3>1, <3>2, <1>11, <2>2
    <3>6. item.value[1] = <<Text(key)>> /\ item.value[2] = rest
      BY <3>5
    <3>7. Pairs(rest) = WantedPairs(i, 2)
      BY <3>3, <3>4, <3>5, Zenon
    <3> QED BY <3>5, <3>6, <3>7
  <2> QED BY <1>1, <1>2, <1>3, <1>13, <2>2 DEF IsRow
<1> QED BY <1>1, <1>2, <1>8, <1>9, <1>10, <1>12, <1>13 DEF Kinds

-----------------------------------------------------------------------------
(* The invariant. *)

(* A result that has its rows, or was freed.                               *)
Present(r) ==
  /\ r \in [rows : {ToRows, <<>>}, columns : {ToColumns(ToRows)}, cursor : Nat,
            affected : {IF ToRows # <<>> THEN Len(ToRows) ELSE answer.affected}]
  /\ r.cursor \in 1 .. Len(r.rows) + 1

Left(r) == Len(r.rows) + 1 - r.cursor

(* Where the rows that were delivered can be counted: nobody took the rest *)
(* as an object.                                                           *)
Countable(d) ==
  answer.columns # <<>> /\ RowsRead /\ \A k \in DOMAIN d : ~ ByKey(d[k])

CountOf(d, r) == Len(d) + Left(r) = Len(ToRows)

FaithfulOf(d) ==
  \A k \in DOMAIN d :
    (\A j \in 1..k : ~ ByKey(d[j])) => answer.columns = <<>> \/ IsRow(d[k], k)

KeptOf(d) ==
  \A k \in DOMAIN d :
    /\ ByKey(d[k]) /\ ~ Merged /\ RowsRead /\ answer.columns # <<>>
    /\ \A j \in 1..(k - 1) : ~ ByKey(d[j])
    => \A i \in k..Len(answer.rows) :
         (\A j \in (i + 1)..Len(answer.rows) : Text(Wanted(j)[1]) # Text(Wanted(i)[1])) =>
           \E e \in Range(d[k].value) :
             /\ e.key = Text(Wanted(i)[1])
             /\ IF d[k].as = "byKey" THEN e.value = Wanted(i)[2]
                ELSE Pairs(e.value) = WantedPairs(i, 2)

(* Why a reader may be refused for want of keys.                           *)
MayRefuse ==
  ~ RowsRead \/ Ambiguous \/ Len(answer.columns) < 2 \/ (driver = "sqlite3" /\ answer.rows = <<>>)

ReadersType ==
  /\ reader \in [Readers -> [as : Kinds \cup {"none"}, at : {"none", "created", "suspended", "done"}]]
  /\ \A r \in Readers : reader[r].at \in {"created", "suspended"} => reader[r].as \in Kinds

NothingYet ==
  /\ result = NoResult /\ delivered = <<>> /\ ~ ended /\ ~ cut /\ ~ refused
  /\ \A r \in Readers : reader[r].at = "none"

IInv ==
  /\ answer \in Answers /\ driver \in Drivers
  /\ ReadersType
  /\ IsSequence(delivered)
  /\ NothingYet \/ Present(result)
  /\ cut => result.rows = <<>>
  /\ Present(result) /\ ~ cut /\ Countable(delivered) =>
       CountOf(delivered, result) /\ (ended => Left(result) = 0)
  /\ refused => MayRefuse
  /\ Faithful /\ KeysKept

(* The answer and what is wanted of it stay as they are.                   *)
LEMMA RowsSame ==
  ASSUME Same
  PROVE  ToRows' = ToRows /\ ToColumns(ToRows)' = ToColumns(ToRows)
<1>1. ToRows' = ToRows
  BY DEF Same, ToRows, RowsRead, ObjectOf
<1> QED BY <1>1 DEF Same, ToColumns, Distinct, ObjectOf

LEMMA WantedSame ==
  ASSUME Same
  PROVE  /\ \A i : Wanted(i)' = Wanted(i)
         /\ Ambiguous' = Ambiguous /\ Merged' = Merged /\ RowsRead' = RowsRead
         /\ \A i, from : WantedPairs(i, from)' = WantedPairs(i, from)
<1>1. answer' = answer /\ mode' = mode /\ driver' = driver
  BY DEF Same
<1>2. ASSUME NEW c PROVE Promised(c)' = Promised(c)
  BY <1>1 DEF Promised
<1>3. ASSUME NEW i PROVE Wanted(i)' = Wanted(i)
  BY <1>1 DEF Wanted, Promised
<1>4. ASSUME NEW n PROVE ConvertColumnName(n)' = ConvertColumnName(n)
  BY <1>1 DEF ConvertColumnName
<1>5. WantedNames' = WantedNames
  BY <1>1 DEF WantedNames, ConvertColumnName
<1>6. Ambiguous' = Ambiguous /\ RowsRead' = RowsRead
  BY <1>1 DEF Ambiguous, RowsRead
<1>7. Merged' = Merged
  BY <1>5 DEF Merged
<1>8. ASSUME NEW i, NEW from PROVE WantedPairs(i, from)' = WantedPairs(i, from)
  BY <1>3, <1>5 DEF WantedPairs
<1> QED BY <1>3, <1>6, <1>7, <1>8

LEMMA FaithfulSame ==
  ASSUME Same, NEW d, delivered' = d, FaithfulOf(d)
  PROVE Faithful'
<1>1. ASSUME NEW k \in DOMAIN d, \A j \in 1 .. k : ~ ByKey(d[j])
      PROVE answer'.columns = <<>> \/ IsRow(delivered[k], k)'
  <2>1. answer.columns = <<>> \/ IsRow(d[k], k)
    BY <1>1 DEF FaithfulOf
  <2>2. answer' = answer /\ delivered' = d
    BY DEF Same
  <2>3. /\ Wanted(k)' = Wanted(k) /\ Ambiguous' = Ambiguous /\ Merged' = Merged
        /\ WantedPairs(k, 1)' = WantedPairs(k, 1) /\ WantedPairs(k, 2)' = WantedPairs(k, 2)
    BY WantedSame, Zenon
  <2> QED BY <2>1, <2>2, <2>3 DEF IsRow
<1> QED BY <1>1, Zenon DEF Faithful

LEMMA KeptSame ==
  ASSUME Same, NEW d, delivered' = d, cut' \/ KeptOf(d)
  PROVE KeysKept'
<1>1. answer' = answer /\ delivered' = d
  BY DEF Same
<1>2. ASSUME NEW k \in DOMAIN delivered', ByKey(delivered'[k]), ~ Merged', ~ cut', RowsRead',
             answer'.columns # <<>>, \A j \in 1 .. (k - 1) : ~ ByKey(delivered'[j]),
             NEW i \in k .. Len(answer'.rows),
             \A j \in (i + 1) .. Len(answer'.rows) : (Text(Wanted(j)[1]) # Text(Wanted(i)[1]))'
      PROVE  (\E e \in Range(delivered[k].value) :
               /\ e.key = Text(Wanted(i)[1])
               /\ IF delivered[k].as = "byKey" THEN e.value = Wanted(i)[2]
                  ELSE Pairs(e.value) = WantedPairs(i, 2))'
  <2>a. Merged' = Merged /\ RowsRead' = RowsRead
    BY WantedSame, Zenon
  <2>b. /\ k \in DOMAIN d /\ ByKey(d[k]) /\ ~ Merged /\ RowsRead /\ answer.columns # <<>>
        /\ \A j \in 1 .. (k - 1) : ~ ByKey(d[j])
        /\ i \in k .. Len(answer.rows)
    BY <2>a, <1>1, <1>2
  <2>1. \A j \in (i + 1) .. Len(answer.rows) : Text(Wanted(j)[1]) # Text(Wanted(i)[1])
    <3>1. ASSUME NEW j \in (i + 1) .. Len(answer.rows)
          PROVE  Text(Wanted(j)[1]) # Text(Wanted(i)[1])
      <4>1. Wanted(i)' = Wanted(i) /\ Wanted(j)' = Wanted(j)
        BY WantedSame, Zenon
      <4> QED BY <4>1, <1>1, <1>2
    <3> QED BY <3>1
  <2>2. \E e \in Range(d[k].value) :
             /\ e.key = Text(Wanted(i)[1])
             /\ IF d[k].as = "byKey" THEN e.value = Wanted(i)[2]
                ELSE Pairs(e.value) = WantedPairs(i, 2)
    BY <2>1, <2>b, <1>2 DEF KeptOf
  <2>3. Wanted(i)' = Wanted(i) /\ WantedPairs(i, 2)' = WantedPairs(i, 2)
    BY WantedSame, Zenon
  <2> QED BY <2>2, <2>3, <1>1
<1> QED BY <1>2, Zenon DEF KeysKept
LEMMA RowsType ==
  ASSUME answer \in Answers
  PROVE  /\ IsSequence(ToRows) /\ Len(ToRows) \in Nat
         /\ ToRows # <<>> => RowsRead
<1>1. CASE RowsRead
  BY <1>1, RowsMade DEF IsSequence
<1>2. CASE ~ RowsRead
  <2>1. ToRows = <<>>
    BY <1>2 DEF ToRows
  <2> QED BY <2>1, NoEntries
<1> QED BY <1>1, <1>2

LEMMA ResultIs ==
  ASSUME answer \in Answers, NEW r, Present(r)
  PROVE  /\ r # NoResult /\ IsSequence(r.rows) /\ Len(r.rows) \in Nat
         /\ r.cursor \in Nat /\ 1 <= r.cursor /\ r.cursor <= Len(r.rows) + 1
         /\ Left(r) \in Nat
         /\ r.rows # <<>> => r.rows = ToRows /\ RowsRead
<1>1. IsSequence(r.rows) /\ Len(r.rows) \in Nat /\ (r.rows # <<>> => r.rows = ToRows /\ RowsRead)
  BY RowsType, NoEntries DEF Present
<1>2. r.cursor \in Nat /\ 1 <= r.cursor /\ r.cursor <= Len(r.rows) + 1
  BY <1>1 DEF Present
<1>3. r # NoResult
  BY <1>2 DEF NoResult
<1> QED BY <1>1, <1>2, <1>3 DEF Left

LEMMA PresentSame ==
  ASSUME Same, NEW r, result' = r, Present(r)
  PROVE  Present(result)'
BY RowsSame DEF Present, Same

(* What has to be shown of a step, of the values that it leaves.           *)
LEMMA Preserved ==
  ASSUME IInv, Same, ReadersType',
         NEW d, delivered' = d, IsSequence(d),
         NEW r, result' = r, Present(r),
         cut' => r.rows = <<>>,
         Countable(d) /\ ~ cut' => CountOf(d, r) /\ (ended' => Left(r) = 0),
         refused' => refused \/ MayRefuse,
         FaithfulOf(d), cut' \/ KeptOf(d)
  PROVE  IInv'
<1>1. answer' = answer /\ driver' = driver /\ answer \in Answers /\ driver \in Drivers
  BY DEF Same, IInv
<1>2. Present(result)'
  BY PresentSame
<1>3. IsSequence(delivered)' /\ (cut' => result'.rows = <<>>)
  BY DEF IsSequence
<1>4. ToRows' = ToRows /\ RowsRead' = RowsRead /\ Ambiguous' = Ambiguous
  BY RowsSame, WantedSame, Zenon
<1>5. (Present(result) /\ ~ cut /\ Countable(delivered) =>
         CountOf(delivered, result) /\ (ended => Left(result) = 0))'
  <2>1. Countable(delivered)' => Countable(d)
    BY <1>1, <1>4 DEF Countable
  <2>2. CountOf(d, r) => CountOf(delivered, result)'
    BY <1>4 DEF CountOf, Left
  <2>3. Left(r) = 0 => Left(result)' = 0
    BY DEF Left
  <2> QED BY <2>1, <2>2, <2>3
<1>6. (refused => MayRefuse)'
  <2>1. MayRefuse' <=> MayRefuse
    BY <1>1, <1>4 DEF MayRefuse
  <2>2. refused => MayRefuse
    BY DEF IInv
  <2> QED BY <2>1, <2>2
<1>7. Faithful' /\ KeysKept'
  BY FaithfulSame, KeptSame
<1> QED BY <1>1, <1>2, <1>3, <1>5, <1>6, <1>7 DEF IInv

-----------------------------------------------------------------------------
(* Rows that are delivered. *)

(* A row of an answer with columns has a first one, and the columns that   *)
(* a result counts are those of the answer.                                *)
LEMMA NeverUndefined ==
  ASSUME answer \in Answers, driver \in Drivers, RowsRead, answer.columns # <<>>,
         result.columns = ToColumns(ToRows), NEW i \in DOMAIN ToRows
  PROVE  Numeric(ToRows[i]) # <<>>
<1>1. PICK columns : columns = ColumnsFromRow(ToRows[i]) /\ IsSequence(columns) /\ columns # <<>>
  BY ColumnsMade
<1>2. 1 \in DOMAIN columns
  BY <1>1 DEF IsSequence
<1>3. DOMAIN Numeric(ToRows[i]) = DOMAIN columns
  BY <1>1 DEF Numeric
<1> QED BY <1>2, <1>3

LEMMA Counts ==
  ASSUME answer \in Answers, driver \in Drivers, Present(result)
  PROVE  /\ result.rows # <<>> /\ answer.columns # <<>> => ColumnCount \in Nat /\ ColumnCount > 0
         /\ \/ ~ RowsRead \/ Ambiguous
            \/ driver = "sqlite3" /\ answer.rows = <<>>
            \/ ColumnCount = Len(answer.columns)
<1>1. result.columns = ToColumns(ToRows) /\ (result.rows # <<>> => result.rows = ToRows /\ RowsRead)
  BY ResultIs DEF Present
<1>2. CASE result.rows = <<>>
  <2>1. ColumnCount = Len(ToColumns(ToRows))
    BY <1>1, <1>2 DEF ColumnCount
  <2> QED BY <1>2, <2>1, ToColumnsIs
<1>3. CASE result.rows # <<>>
  <2>1. 1 \in DOMAIN ToRows
    BY <1>1, <1>3, RowsType DEF IsSequence
  <2>2. PICK columns : columns = ColumnsFromRow(ToRows[1])
    OBVIOUS
  <2>3. ColumnCount = Len(columns)
    BY <1>1, <1>3, <2>2 DEF ColumnCount
  <2>4. /\ IsSequence(columns)
        /\ answer.columns # <<>> => columns # <<>>
        /\ ~ Ambiguous => columns = answer.columns
    BY <1>1, <1>3, <2>1, <2>2, ColumnsMade
  <2>5. Len(columns) \in Nat /\ (columns # <<>> => Len(columns) > 0)
    BY <2>4 DEF IsSequence
  <2> QED BY <2>3, <2>4, <2>5
<1> QED BY <1>2, <1>3

(* Where there are no columns nothing is promised of what is delivered.    *)
LEMMA NoColumns ==
  ASSUME answer.columns = <<>>, NEW d
  PROVE  ~ Countable(d) /\ FaithfulOf(d) /\ KeptOf(d) /\ (answer \in Answers => MayRefuse)
BY DEF Countable, FaithfulOf, KeptOf, MayRefuse

(* What is left of the rows. *)
LEMMA RestIs ==
  ASSUME answer \in Answers, Present(result)
  PROVE  /\ IsSequence(Rest) /\ Len(Rest) = Left(result) /\ DOMAIN Rest = 1 .. Left(result)
         /\ \A m \in 1 .. Left(result) : /\ Rest[m] = result.rows[result.cursor + m - 1]
                                         /\ result.cursor + m - 1 \in DOMAIN result.rows
<1>1. PICK rows, c, n : rows = result.rows /\ c = result.cursor /\ n = Len(rows)
  OBVIOUS
<1>2. IsSequence(rows) /\ n \in Nat /\ c \in Nat /\ 1 <= c /\ c <= n + 1
  BY <1>1, ResultIs
<1>3. PICK rest : rest = SubSeq(rows, c, n)
  OBVIOUS
<1>4. /\ rest \in Seq(Range(rows)) /\ Len(rest) = n + 1 - c
      /\ \A m \in 1 .. n + 1 - c : rest[m] = rows[c + m - 1]
  BY <1>1, <1>2, <1>3 DEF IsSequence
<1>5. IsSequence(rest)
  BY <1>4 DEF IsSequence, Range
<1>6. \A m \in 1 .. n + 1 - c : c + m - 1 \in 1 .. n
  BY <1>2
<1>7. DOMAIN rows = 1 .. n /\ DOMAIN rest = 1 .. n + 1 - c
  BY <1>1, <1>2, <1>4 DEF IsSequence
<1> QED BY <1>1, <1>3, <1>4, <1>5, <1>6, <1>7 DEF Rest, Left

LEMMA FetchedAs ==
  ASSUME NEW as, NEW obj PROVE Fetched(as, obj).as = as
BY DEF Fetched, Item

(* d is what was delivered, and after it the next c rows, fetched.         *)
Longer(d, as, c) ==
  /\ IsSequence(d) /\ Len(d) = Len(delivered) + c
  /\ \A k \in 1 .. Len(delivered) : d[k] = delivered[k]
  /\ \A m \in 1 .. c : d[Len(delivered) + m] = Fetched(as, result.rows[result.cursor + m - 1])

LEMMA Grows ==
  ASSUME IInv, Present(result), NEW as \in Kinds, NEW c \in Nat, c <= Left(result),
         NEW d, Longer(d, as, c)
  PROVE  /\ answer.columns # <<>> => FaithfulOf(d)
         /\ cut \/ KeptOf(d)
         /\ Countable(d) => Countable(delivered)
<1>1. PICK n : n = Len(delivered) /\ n \in Nat /\ DOMAIN delivered = 1 .. n
  BY DEF IInv, IsSequence
<1>2. /\ DOMAIN d = 1 .. n + c
      /\ \A k \in 1 .. n : d[k] = delivered[k]
      /\ \A m \in 1 .. c : d[n + m] = Fetched(as, result.rows[result.cursor + m - 1])
  <2>1. IsSequence(d) /\ Len(d) = n + c
    BY <1>1 DEF Longer
  <2>2. DOMAIN d = 1 .. n + c
    BY <2>1 DEF IsSequence
  <2> QED BY <1>1, <2>2 DEF Longer
<1>3. ASSUME NEW m \in 1 .. c PROVE ~ ByKey(d[n + m])
  <2>1. d[n + m].as = as
    BY <1>2, FetchedAs
  <2> QED BY <2>1 DEF ByKey, Kinds
<1>4. answer \in Answers /\ driver \in Drivers /\ Faithful /\ KeysKept
  BY DEF IInv
<1>5. Countable(d) => Countable(delivered)
  BY <1>1, <1>2 DEF Countable
<1>6. ASSUME answer.columns # <<>>,
             NEW k \in 1 .. n + c, \A j \in 1 .. k : ~ ByKey(d[j])
      PROVE  IsRow(d[k], k)
  <2>1. CASE k <= n
    <3>1. k \in DOMAIN delivered /\ \A j \in 1 .. k : ~ ByKey(delivered[j])
      BY <1>1, <1>2, <1>6, <2>1
    <3>2. d[k] = delivered[k]
      BY <1>1, <1>2, <2>1
    <3> QED BY <3>1, <3>2, <1>4, <1>6 DEF Faithful
  <2>2. CASE k > n
    <3>1. PICK m \in 1 .. c : k = n + m
      <4>1. k - n \in 1 .. c /\ k = n + (k - n)
        BY <1>1, <1>6, <2>2
      <4> QED BY <4>1
    <3>2. \A j \in 1 .. n : ~ ByKey(delivered[j])
      BY <1>1, <1>2, <1>6, <2>2
    <3>3. result.rows # <<>>
      <4>1. Left(result) # 0
        BY <3>1, ResultIs, <1>4
      <4>2. ASSUME result.rows = <<>> PROVE Left(result) = 0
        BY <1>4, <4>2, ResultIs DEF Left
      <4> QED BY <4>1, <4>2
    <3>4. result.rows = ToRows /\ RowsRead /\ ~ cut /\ result.columns = ToColumns(ToRows)
      BY <3>3, <1>4, ResultIs DEF IInv, Present
    <3>5. Countable(delivered)
      BY <1>1, <1>6, <3>2, <3>4 DEF Countable
    <3>6. n + Left(result) = Len(ToRows)
      BY <1>1, <3>4, <3>5 DEF IInv, CountOf
    <3>7. result.cursor + m - 1 = k /\ k \in 1 .. Len(ToRows)
      <4>1. result.cursor \in Nat /\ Len(ToRows) \in Nat /\ Left(result) = Len(ToRows) + 1 - result.cursor
        BY <1>4, <3>4, ResultIs DEF Left
      <4>2. result.cursor = n + 1
        BY <1>1, <3>6, <4>1
      <4>3. m <= Left(result)
        BY <3>1, <4>1
      <4> QED BY <1>1, <3>1, <3>6, <4>1, <4>2, <4>3
    <3>8. k \in DOMAIN ToRows
      BY <3>7, <1>4, RowsType DEF IsSequence
    <3>9. d[k] = Fetched(as, ToRows[k])
      BY <1>2, <3>1, <3>4, <3>7
    <3> QED BY <3>4, <3>8, <3>9, <1>4, <1>6, FetchedIs
  <2> QED BY <1>1, <2>1, <2>2
<1>7. answer.columns # <<>> => FaithfulOf(d)
  BY <1>2, <1>6 DEF FaithfulOf
<1>8. ASSUME ~ cut PROVE KeptOf(d)
  <2>1. ASSUME NEW k \in DOMAIN d, ByKey(d[k]) PROVE k \in 1 .. n
    <3>1. CASE k > n
      <4>1. k - n \in 1 .. c /\ k = n + (k - n)
        BY <1>1, <1>2, <3>1
      <4> QED BY <4>1, <1>3, <2>1
    <3> QED BY <1>1, <1>2, <3>1
  <2>2. \A k \in 1 .. n : \A j \in 1 .. (k - 1) : d[j] = delivered[j]
    BY <1>1, <1>2
  <2> QED BY <1>1, <1>2, <1>4, <1>8, <2>1, <2>2 DEF KeysKept, KeptOf
<1> QED BY <1>5, <1>7, <1>8

LEMMA AnySequence ==
  ASSUME NEW S, NEW s \in Seq(S) PROVE IsSequence(s)
BY DEF IsSequence, Range

LEMMA AppendIs ==
  ASSUME NEW s, IsSequence(s), NEW e, NEW t, t = Append(s, e)
  PROVE  /\ IsSequence(t) /\ Len(t) = Len(s) + 1 /\ t[Len(s) + 1] = e
         /\ \A k \in 1 .. Len(s) : t[k] = s[k]
<1>a. Len(s) \in Nat
  BY DEF IsSequence
<1>1. PICK n : n = Len(s) /\ n \in Nat
  BY <1>a
<1>2. s \in Seq(Range(s) \cup {e})
  BY DEF IsSequence
<1>3. /\ t \in Seq(Range(s) \cup {e}) /\ Len(t) = n + 1
      /\ \A k \in 1 .. n : t[k] = s[k]
      /\ t[n + 1] = e
  BY <1>1, <1>2
<1>4. IsSequence(t)
  BY <1>3, AnySequence, Zenon
<1> QED BY <1>1, <1>3, <1>4

LEMMA JoinIs ==
  ASSUME NEW s, IsSequence(s), NEW t, IsSequence(t), NEW u, u = s \o t
  PROVE  /\ IsSequence(u) /\ Len(u) = Len(s) + Len(t)
         /\ \A k \in 1 .. Len(s) : u[k] = s[k]
         /\ \A m \in 1 .. Len(t) : u[Len(s) + m] = t[m]
<1>a. Len(s) \in Nat /\ Len(t) \in Nat
  BY DEF IsSequence
<1>1. PICK n, l : n = Len(s) /\ n \in Nat /\ l = Len(t) /\ l \in Nat
  BY <1>a
<1>2. PICK S : S = Range(s) \cup Range(t)
  OBVIOUS
<1>3. s \in Seq(S) /\ t \in Seq(S)
  BY <1>2 DEF IsSequence
<1>4. u \in Seq(S) /\ Len(u) = n + l
  BY <1>1, <1>3
<1>5. \A k \in 1 .. n + l : u[k] = IF k <= n THEN s[k] ELSE t[k - n]
  BY <1>1, <1>3
<1>6. ASSUME NEW m \in 1 .. l PROVE u[n + m] = t[m]
  <2>1. n + m \in 1 .. n + l /\ ~ n + m <= n /\ (n + m) - n = m
    BY <1>1
  <2> QED BY <2>1, <1>5
<1>7. \A k \in 1 .. n : u[k] = s[k]
  BY <1>1, <1>5
<1>8. IsSequence(u)
  BY <1>4, AnySequence, Zenon
<1> QED BY <1>1, <1>4, <1>6, <1>7, <1>8

LEMMA Moved ==
  ASSUME answer \in Answers, Present(result), NEW c \in Nat, c <= Left(result)
  PROVE  /\ Present([result EXCEPT !.cursor = @ + c])
         /\ Left([result EXCEPT !.cursor = @ + c]) = Left(result) - c
         /\ [result EXCEPT !.cursor = @ + c].rows = result.rows
<1>1. PICK r : r = [result EXCEPT !.cursor = @ + c]
  OBVIOUS
<1>2. /\ r.rows = result.rows /\ r.columns = result.columns /\ r.affected = result.affected
      /\ r.cursor = result.cursor + c
      /\ r = [rows |-> r.rows, columns |-> r.columns, cursor |-> r.cursor, affected |-> r.affected]
  BY <1>1 DEF Present
<1>3. /\ result.cursor \in Nat /\ 1 <= result.cursor /\ Len(result.rows) \in Nat
      /\ Left(result) = Len(result.rows) + 1 - result.cursor
  BY ResultIs DEF Left
<1>4. r.cursor \in Nat /\ r.cursor \in 1 .. Len(r.rows) + 1
  BY <1>2, <1>3
<1>5. Present(r)
  BY <1>2, <1>4 DEF Present
<1>6. Left(r) = Left(result) - c
  BY <1>2, <1>3 DEF Left
<1> QED BY <1>1, <1>2, <1>5, <1>6

LEMMA FreedIs ==
  ASSUME answer \in Answers, Present(result)
  PROVE  Present(Freed(result)) /\ Freed(result).rows = <<>> /\ Left(Freed(result)) = 0
<1>1. PICK r : r = Freed(result)
  OBVIOUS
<1>2. /\ r.rows = <<>> /\ r.columns = result.columns /\ r.affected = result.affected /\ r.cursor = 1
      /\ r = [rows |-> r.rows, columns |-> r.columns, cursor |-> r.cursor, affected |-> r.affected]
  BY <1>1 DEF Present, Freed
<1>3. Len(r.rows) = 0
  BY <1>2
<1>4. Present(r)
  BY <1>2, <1>3 DEF Present
<1> QED BY <1>1, <1>2, <1>3, <1>4 DEF Left

(* The invariant says the same of what was delivered.                      *)
LEMMA AsItWas ==
  ASSUME IInv
  PROVE  /\ answer \in Answers /\ driver \in Drivers /\ IsSequence(delivered)
         /\ FaithfulOf(delivered) /\ (cut \/ KeptOf(delivered))
         /\ result # NoResult => Present(result)
         /\ ~ Present(result) => NothingYet
BY DEF IInv, NothingYet, Faithful, KeysKept, FaithfulOf, KeptOf

LEMMA InitInv == Init => IInv
<1> SUFFICES ASSUME Init PROVE IInv
  OBVIOUS
<1>1. ReadersType /\ NothingYet
  BY DEF Init, ReadersType, NothingYet
<1>2. ~ Present(result)
  BY <1>1 DEF NothingYet, Present, NoResult
<1>3. IsSequence(delivered) /\ Faithful /\ KeysKept
  BY NoEntries DEF Init, Faithful, KeysKept
<1> QED BY <1>1, <1>2, <1>3 DEF Init, IInv

LEMMA ExecuteStep == IInv /\ Execute => IInv'
<1> SUFFICES ASSUME IInv, Execute PROVE IInv'
  OBVIOUS
<1>1. result = NoResult /\ NothingYet
  <2>1. result = NoResult
    BY DEF Execute
  <2> QED BY <2>1, AsItWas, ResultIs
<1>2. PICK r : r = ToDriverResult /\ result' = r
  BY DEF Execute
<1>3. Len(ToRows) \in Nat /\ IsSequence(ToRows)
  BY AsItWas, RowsType
<1>4. Present(r) /\ Left(r) = Len(ToRows)
  BY <1>2, <1>3 DEF ToDriverResult, Present, Left
<1>5. ReadersType' /\ Same /\ UNCHANGED <<delivered, ended, cut, refused>>
  BY DEF Execute, IInv, ReadersType
<1>6. CountOf(delivered, r)
  BY <1>1, <1>3, <1>4 DEF CountOf, NothingYet
<1> QED BY <1>1, <1>2, <1>4, <1>5, <1>6, AsItWas, Preserved DEF NothingYet

LEMMA FreeStep == IInv /\ Free => IInv'
<1> SUFFICES ASSUME IInv, Free PROVE IInv'
  OBVIOUS
<1>1. Present(result) /\ cut' /\ Same /\ UNCHANGED <<reader, delivered, ended, refused>>
  BY AsItWas DEF Free
<1>2. PICK r : r = Freed(result) /\ result' = r
  BY DEF Free
<1>3. Present(r) /\ r.rows = <<>>
  BY <1>1, <1>2, AsItWas, FreedIs
<1>4. ReadersType'
  BY <1>1 DEF IInv, ReadersType
<1> QED BY <1>1, <1>2, <1>3, <1>4, AsItWas, Preserved

(* A step that delivers nothing, or delivers rows.                         *)
LEMMA Delivers ==
  ASSUME IInv, Present(result), Same, ReadersType', UNCHANGED cut,
         NEW as \in Kinds, NEW c \in Nat, c <= Left(result),
         result' = [result EXCEPT !.cursor = @ + c],
         NEW d, delivered' = d, IsSequence(d), answer.columns # <<>> => Longer(d, as, c),
         ended' => ended \/ c = Left(result),
         refused' => refused \/ MayRefuse
  PROVE  IInv'
<1>1. answer \in Answers
  BY AsItWas
<1>2. PICK r : r = [result EXCEPT !.cursor = @ + c] /\ result' = r
  OBVIOUS
<1>3. Present(r) /\ Left(r) = Left(result) - c /\ r.rows = result.rows
  BY <1>1, <1>2, Moved
<1>4. cut' => r.rows = <<>>
  BY <1>3 DEF IInv
<1>5. CASE answer.columns = <<>>
  BY <1>2, <1>3, <1>4, <1>5, NoColumns, Preserved
<1>6. CASE answer.columns # <<>>
  <2>1. Longer(d, as, c)
    BY <1>6
  <2>2. FaithfulOf(d) /\ (cut \/ KeptOf(d)) /\ (Countable(d) => Countable(delivered))
    BY <1>6, <2>1, Grows
  <2>3. ASSUME Countable(d), ~ cut PROVE CountOf(d, r) /\ (ended' => Left(r) = 0)
    <3>1. Len(delivered) + Left(result) = Len(ToRows) /\ (ended => Left(result) = 0)
      BY <2>2, <2>3 DEF IInv, CountOf
    <3>2. Len(d) = Len(delivered) + c /\ Len(delivered) \in Nat /\ Left(result) \in Nat
      BY <2>1, <1>1, ResultIs DEF Longer, IInv, IsSequence
    <3> QED BY <3>1, <3>2, <1>3 DEF CountOf
  <2> QED BY <1>2, <1>3, <1>4, <2>2, <2>3, Preserved
<1> QED BY <1>5, <1>6

(* The next row, and that fetchOne() takes a row of an answer with columns *)
(* for one that has something.                                             *)
LEMMA NextRow ==
  ASSUME IInv, Present(result), NEW m \in 1 .. Left(result)
  PROVE  /\ result.rows # <<>> /\ Rest[m] = result.rows[result.cursor + m - 1]
         /\ answer.columns # <<>> => Numeric(Rest[m]) # <<>>
<1>1. /\ answer \in Answers /\ driver \in Drivers
      /\ Rest[m] = result.rows[result.cursor + m - 1]
      /\ result.cursor + m - 1 \in DOMAIN result.rows
  BY AsItWas, RestIs
<1>2. result.rows # <<>>
  BY <1>1
<1>3. result.rows = ToRows /\ RowsRead /\ result.columns = ToColumns(ToRows)
  BY <1>1, <1>2, ResultIs DEF Present
<1> QED BY <1>1, <1>2, <1>3, NeverUndefined

LEMMA FetchStep ==
  ASSUME IInv, NEW as \in {"numeric", "associative", "one"}, Fetch(as)
  PROVE  IInv'
<1>1. Present(result) /\ Same /\ UNCHANGED <<reader, cut, refused>> /\ as \in Kinds
  BY AsItWas DEF Fetch, Kinds
<1>2. ReadersType'
  BY <1>1 DEF IInv, ReadersType
<1>3. /\ answer \in Answers /\ IsSequence(delivered) /\ Left(result) \in Nat
      /\ Left(result) = Len(result.rows) + 1 - result.cursor
      /\ Len(result.rows) \in Nat /\ result.cursor \in Nat
  BY <1>1, AsItWas, ResultIs DEF Left
<1>4. CASE HasRow
  <2>1. 1 <= Left(result) /\ 1 \in 1 .. Left(result)
    BY <1>3, <1>4 DEF HasRow
  <2>2. Row = Rest[1] /\ Row = result.rows[result.cursor + 1 - 1]
    <3>1. result.cursor + 1 - 1 = result.cursor
      BY <1>3
    <3>2. Rest[1] = result.rows[result.cursor + 1 - 1]
      BY <2>1, <1>1, NextRow
    <3> QED BY <3>1, <3>2 DEF Row
  <2>3. answer.columns # <<>> => ~ Undefined(as, Row)
    BY <2>1, <2>2, <1>1, NextRow DEF Undefined
  <2>4. PICK d : /\ delivered' = d
                 /\ d = IF Undefined(as, Row) THEN delivered ELSE Append(delivered, Fetched(as, Row))
    BY <1>4 DEF Fetch
  <2>5. result' = [result EXCEPT !.cursor = @ + 1] /\ UNCHANGED ended
    BY <1>4 DEF Fetch
  <2>6. IsSequence(d)
    BY <2>4, <1>3, AppendIs
  <2>7. ASSUME answer.columns # <<>> PROVE Longer(d, as, 1)
    <3>1. PICK e : e = Fetched(as, Row)
      OBVIOUS
    <3>2. d = Append(delivered, e)
      BY <2>3, <2>4, <2>7, <3>1
    <3>3. /\ Len(d) = Len(delivered) + 1 /\ d[Len(delivered) + 1] = e
          /\ \A k \in 1 .. Len(delivered) : d[k] = delivered[k]
      BY <3>2, <1>3, AppendIs
    <3>4. \A m \in 1 .. 1 : m = 1
      OBVIOUS
    <3> QED BY <2>2, <2>6, <3>1, <3>3, <3>4 DEF Longer
  <2> QED BY <1>1, <1>2, <2>1, <2>4, <2>5, <2>6, <2>7, Delivers
<1>5. CASE ~ HasRow
  <2>1. ended' /\ UNCHANGED <<delivered, result>>
    BY <1>5 DEF Fetch
  <2>2. Left(result) = 0
    BY <1>3, <1>5 DEF HasRow
  <2>3. PICK d, r : d = delivered /\ r = result
    OBVIOUS
  <2>4. cut' => r.rows = <<>>
    BY <1>1, <2>3 DEF IInv
  <2>5. Countable(d) /\ ~ cut' => CountOf(d, r) /\ (ended' => Left(r) = 0)
    BY <1>1, <2>2, <2>3 DEF IInv
  <2> QED BY <1>1, <1>2, <2>1, <2>3, <2>4, <2>5, AsItWas, Preserved
<1> QED BY <1>4, <1>5

(* What SelectInSeq() finds. *)
LEMMA MinIs ==
  ASSUME NEW n \in Nat, NEW T \in SUBSET (1 .. n), T # {}
  PROVE  Min(T) \in T /\ (1 \in T => Min(T) = 1)
<1>1. PICK y \in T : \A x \in T : y <= x
  <2>1. T \in SUBSET Nat
    OBVIOUS
  <2> QED BY <2>1, Least, Zenon
<1>2. Min(T) \in T /\ \A x \in T : Min(T) <= x
  BY <1>1, Zenon DEF Min
<1>3. PICK m : m = Min(T) /\ m \in T /\ \A x \in T : m <= x
  BY <1>2, Zenon
<1>4. 1 \in T => m = 1
  BY <1>3
<1> QED BY <1>3, <1>4

LEMMA FetchAllStep ==
  ASSUME IInv, NEW as \in {"numeric", "associative", "one"}, FetchAll(as)
  PROVE  IInv'
<1> DEFINE T == {i \in 1 .. Len(Rest) : Undefined(as, Rest[i])}
           Ends == IF T # {} THEN Min(T) ELSE 0
<1>1. result # NoResult /\ Same /\ UNCHANGED <<reader, cut, refused>> /\ ended' /\ as \in Kinds
  BY DEF FetchAll, Kinds
<1>2. PICK ends, read, items, d :
        /\ ends = Ends
        /\ read = IF ends = 0 THEN Rest ELSE SubSeq(Rest, 1, ends - 1)
        /\ items = [i \in DOMAIN read |-> Fetched(as, read[i])]
        /\ d = delivered \o items /\ delivered' = d
        /\ result' = [result EXCEPT !.cursor = @ + Len(read) + IF ends = 0 THEN 0 ELSE 1]
  BY DEF FetchAll, SelectInSeq
<1>3. Present(result) /\ answer \in Answers /\ IsSequence(delivered)
  BY <1>1, AsItWas
<1>4. PICK n : n = Left(result) /\ n \in Nat /\ Len(Rest) = n /\ DOMAIN Rest = 1 .. n /\ IsSequence(Rest)
  BY <1>3, ResultIs, RestIs
<1>5. ends \in 0 .. n /\ (T = {} => ends = 0)
  <2>1. T \in SUBSET (1 .. n)
    BY <1>4
  <2>2. T # {} => Min(T) \in 1 .. n
    BY <2>1, <1>4, MinIs
  <2> HIDE DEF T
  <2> QED BY <1>2, <1>4, <2>2
<1>6. PICK l : l = (IF ends = 0 THEN n ELSE ends - 1) /\ l \in Nat
  BY <1>4, <1>5
<1>7. IsSequence(read) /\ Len(read) = l
  <2>1. CASE ends = 0
    BY <2>1, <1>2, <1>4, <1>6
  <2>2. CASE ends # 0
    <3>1. read = SubSeq(Rest, 1, l) /\ l <= n
      <4> HIDE DEF T, Ends
      <4>1. l = ends - 1 /\ read = SubSeq(Rest, 1, ends - 1)
        BY <2>2, <1>2, <1>6
      <4> QED BY <4>1, <1>4, <1>5
    <3>2. read \in Seq(Range(Rest)) /\ Len(read) = l
      BY <3>1, <1>4, <1>6 DEF IsSequence
    <3> QED BY <3>2 DEF IsSequence, Range
  <2> QED BY <2>1, <2>2
<1>8. IsSequence(items) /\ Len(items) = l /\ DOMAIN items = 1 .. l
  <2>1. DOMAIN read = 1 .. l
    BY <1>7 DEF IsSequence
  <2>2. items = [i \in 1 .. l |-> items[i]]
    BY <2>1, <1>2
  <2> QED BY <2>2, <1>6, SequenceIs
<1>9. PICK c : c = l + (IF ends = 0 THEN 0 ELSE 1) /\ c \in Nat /\ c <= n
  BY <1>4, <1>5, <1>6
<1>10. result' = [result EXCEPT !.cursor = @ + c]
  <2>1. result.cursor + Len(read) + (IF ends = 0 THEN 0 ELSE 1) = result.cursor + c
    BY <1>3, <1>6, <1>7, <1>9, ResultIs
  <2>2. result' = [result EXCEPT !.cursor = result.cursor + Len(read) + (IF ends = 0 THEN 0 ELSE 1)]
    BY <1>2
  <2>3. result' = [result EXCEPT !.cursor = result.cursor + c]
    BY <2>1, <2>2, Zenon
  <2> QED BY <2>3
<1>11. IsSequence(d)
  BY <1>2, <1>3, <1>8, JoinIs
<1>12. ReadersType'
  BY <1>1 DEF IInv, ReadersType
<1>13. CASE answer.columns = <<>>
  <2>1. Present([result EXCEPT !.cursor = @ + c]) /\ [result EXCEPT !.cursor = @ + c].rows = result.rows
    BY <1>3, <1>4, <1>9, Moved
  <2>2. PICK r : r = [result EXCEPT !.cursor = @ + c] /\ result' = r
    BY <1>10
  <2>3. cut' => r.rows = <<>>
    BY <1>1, <2>1, <2>2 DEF IInv
  <2> QED BY <1>1, <1>2, <1>11, <1>12, <1>13, <2>1, <2>2, <2>3, NoColumns, Preserved
<1>14. CASE answer.columns # <<>>
  <2>1. T = {}
    BY <1>3, <1>4, <1>14, NextRow DEF Undefined
  <2>2. ends = 0 /\ l = n /\ c = n /\ read = Rest
    <3> HIDE DEF T, Ends
    <3>1. ends = 0
      BY <2>1, <1>5
    <3> QED BY <3>1, <1>2, <1>4, <1>6, <1>9
  <2>3. Longer(d, as, c)
    <3>1. /\ Len(d) = Len(delivered) + c
          /\ \A k \in 1 .. Len(delivered) : d[k] = delivered[k]
          /\ \A m \in 1 .. c : d[Len(delivered) + m] = items[m]
      <4> HIDE DEF T, Ends
      <4>1. d = delivered \o items /\ Len(items) = c
        BY <1>2, <1>8, <2>2
      <4>2. PICK s, u : s = delivered /\ u = s \o items /\ IsSequence(s)
        BY <1>3
      <4>3. /\ Len(u) = Len(s) + Len(items)
            /\ \A k \in 1 .. Len(s) : u[k] = s[k]
            /\ \A m \in 1 .. Len(items) : u[Len(s) + m] = items[m]
        <5>1. IsSequence(s) /\ IsSequence(items) /\ u = s \o items
          BY <4>2, <1>8
        <5>2. Len(u) = Len(s) + Len(items)
          BY <5>1, JoinIs
        <5>3. \A k \in 1 .. Len(s) : u[k] = s[k]
          BY <5>1, JoinIs
        <5>4. \A m \in 1 .. Len(items) : u[Len(s) + m] = items[m]
          BY <5>1, JoinIs
        <5> QED BY <5>2, <5>3, <5>4
      <4> QED BY <4>1, <4>2, <4>3
    <3>2. ASSUME NEW m \in 1 .. c PROVE items[m] = Fetched(as, result.rows[result.cursor + m - 1])
      <4>1. items[m] = Fetched(as, Rest[m])
        BY <1>2, <1>4, <2>2
      <4>2. Rest[m] = result.rows[result.cursor + m - 1]
        BY <1>3, <1>4, <2>2, NextRow
      <4> QED BY <4>1, <4>2
    <3> QED BY <1>11, <3>1, <3>2 DEF Longer
  <2> HIDE DEF T
  <2> QED BY <1>1, <1>2, <1>3, <1>4, <1>9, <1>10, <1>11, <1>12, <2>2, <2>3, Delivers
<1> QED BY <1>13, <1>14

(* An object by keys has the last of the rows of every key.                *)
LEMMA ByKeyKept ==
  ASSUME IInv, Present(result), ~ cut, Countable(delivered), ~ Merged,
         NEW as \in {"keyValue", "indexed"}, NEW byKey,
         byKey = LastOfKeys([m \in DOMAIN Rest |-> Fetched(as, Rest[m]).value]),
         NEW i \in Len(delivered) + 1 .. Len(answer.rows),
         \A j \in i + 1 .. Len(answer.rows) : Text(Wanted(j)[1]) # Text(Wanted(i)[1])
  PROVE  \E e \in Range(byKey) :
           /\ e.key = Text(Wanted(i)[1])
           /\ IF as = "keyValue" THEN e.value = Wanted(i)[2] ELSE Pairs(e.value) = WantedPairs(i, 2)
<1>1. /\ answer \in Answers /\ driver \in Drivers /\ answer.columns # <<>> /\ RowsRead
      /\ Len(delivered) \in Nat /\ result.columns = ToColumns(ToRows)
  BY AsItWas DEF Countable, IsSequence, Present
<1>2. PICK n, c, N : /\ n = Left(result) /\ c = result.cursor /\ N = Len(answer.rows)
                     /\ n \in Nat /\ c \in Nat /\ N \in Nat /\ Len(ToRows) = N
                     /\ Len(delivered) + n = N
  <2>1. Len(delivered) + Left(result) = Len(ToRows) /\ Len(ToRows) = Len(answer.rows)
    BY <1>1, RowsMade DEF IInv, CountOf
  <2>2. Left(result) \in Nat /\ result.cursor \in Nat /\ Len(ToRows) \in Nat
    BY <1>1, ResultIs, RowsType
  <2> QED BY <2>1, <2>2
<1>3. result.rows = ToRows
  <2>1. n # 0
    BY <1>1, <1>2
  <2>2. ASSUME result.rows = <<>> PROVE n = 0
    BY <1>1, <1>2, <2>2, ResultIs DEF Left
  <2> QED BY <1>1, <2>1, <2>2, ResultIs
<1>4. n = N + 1 - c /\ c = Len(delivered) + 1
  <2>1. Left(result) = Len(ToRows) + 1 - result.cursor
    BY <1>3 DEF Left
  <2>2. n = N + 1 - c
    BY <2>1, <1>2
  <2>3. PICK l : l = Len(delivered) /\ l \in Nat
    BY <1>1
  <2>4. n \in Nat /\ c \in Nat /\ N \in Nat /\ l + n = N
    BY <2>3, <1>2
  <2>5. c = l + 1
    BY <2>2, <2>3, <2>4
  <2> QED BY <2>2, <2>3, <2>5
<1>5. DOMAIN Rest = 1 .. n /\ \A m \in 1 .. n : Rest[m] = ToRows[c + m - 1] /\ c + m - 1 \in DOMAIN ToRows
  BY <1>1, <1>2, <1>3, RestIs
<1>6. PICK entries :
        entries = [m \in 1 .. n |-> Entry(Fetched(as, Rest[m]).value[1][1], Fetched(as, Rest[m]).value[2])]
  OBVIOUS
<1>7. byKey = FromEntries(entries, FALSE)
  <2>1. PICK values : values = [m \in DOMAIN Rest |-> Fetched(as, Rest[m]).value]
    OBVIOUS
  <2>2. entries = [m \in DOMAIN values |-> Entry(values[m][1][1], values[m][2])]
    BY <2>1, <1>5, <1>6
  <2>3. byKey = LastOfKeys(values)
    BY <2>1
  <2> QED BY <2>2, <2>3, Zenon DEF LastOfKeys
<1>8. ASSUME NEW m \in 1 .. n
      PROVE  /\ c + m - 1 \in 1 .. N
             /\ entries[m].key = Text(Wanted(c + m - 1)[1])
             /\ IF as = "keyValue" THEN entries[m].value = Wanted(c + m - 1)[2]
                ELSE Pairs(entries[m].value) = WantedPairs(c + m - 1, 2)
  <2>1. PICK x : x = c + m - 1 /\ x \in DOMAIN ToRows /\ Rest[m] = ToRows[x]
    BY <1>5
  <2>2. PICK item : item = Fetched(as, Rest[m]) /\ item.as = as /\ IsRow(item, x)
    <3>1. as \in Kinds
      BY DEF Kinds
    <3> QED BY <1>1, <1>3, <2>1, <3>1, FetchedIs
  <2>3. entries[m].key = item.value[1][1] /\ entries[m].value = item.value[2]
    <3>1. entries[m] = Entry(item.value[1][1], item.value[2])
      BY <1>6, <2>2
    <3>2. PICK key, value : key = item.value[1][1] /\ value = item.value[2]
      OBVIOUS
    <3> QED BY <3>1, <3>2, EntryIs
  <2>4. ~ Ambiguous
    BY MergedIs
  <2>5. CASE as = "keyValue"
    <3>1. item.value = <<<<Text(Wanted(x)[1])>>, Wanted(x)[2]>>
      BY <2>2, <2>4, <2>5 DEF IsRow
    <3>2. item.value[1][1] = Text(Wanted(x)[1]) /\ item.value[2] = Wanted(x)[2]
      BY <3>1
    <3> QED BY <1>1, <1>2, <2>1, <2>3, <2>5, <3>2, RowsMade
  <2>6. CASE as = "indexed"
    <3>1. item.value[1] = <<Text(Wanted(x)[1])>> /\ Pairs(item.value[2]) = WantedPairs(x, 2)
      BY <2>2, <2>6 DEF IsRow
    <3>2. item.value[1][1] = Text(Wanted(x)[1])
      BY <3>1
    <3> QED BY <1>1, <1>2, <2>1, <2>3, <2>6, <3>1, <3>2, RowsMade
  <2> QED BY <2>5, <2>6
<1>9. PICK m : m = i - c + 1 /\ m \in 1 .. n /\ c + m - 1 = i
  <2>1. i \in c .. N
    BY <1>2, <1>4
  <2>2. n \in Nat /\ c \in Nat /\ N \in Nat /\ n = N + 1 - c
    BY <1>2, <1>4
  <2>3. i - c + 1 \in 1 .. n /\ c + (i - c + 1) - 1 = i
    BY <2>1, <2>2
  <2> QED BY <2>3
<1>10. ASSUME NEW l \in m + 1 .. n PROVE entries[l].key # entries[m].key
  <2>1. l \in 1 .. n /\ c + l - 1 \in i + 1 .. N
    <3>1. i \in c .. N
      BY <1>2, <1>4
    <3>2. n \in Nat /\ c \in Nat /\ N \in Nat /\ n = N + 1 - c /\ m = i - c + 1
      BY <1>2, <1>4, <1>9
    <3> QED BY <3>1, <3>2
  <2>2. entries[l].key = Text(Wanted(c + l - 1)[1]) /\ entries[m].key = Text(Wanted(i)[1])
    BY <2>1, <1>8, <1>9
  <2> QED BY <2>1, <2>2, <1>2
<1>11. PICK e : e = Entry(entries[m].key, entries[m].value) /\ e \in Range(byKey)
  <2>1. DOMAIN entries = 1 .. n
    BY <1>6
  <2>2. Entry(entries[m].key, entries[m].value) \in Range(FromEntries(entries, FALSE))
    BY <2>1, <1>2, <1>9, <1>10, LastStays
  <2> QED BY <2>2, <1>7
<1>12. e.key = entries[m].key /\ e.value = entries[m].value
  BY <1>11, EntryIs
<1> QED BY <1>8, <1>9, <1>11, <1>12

LEMMA FetchByKeyStep ==
  ASSUME IInv, NEW as \in {"keyValue", "indexed"}, FetchByKey(as)
  PROVE  IInv'
<1>1. /\ Present(result) /\ Same /\ UNCHANGED <<reader, cut>>
      /\ answer \in Answers /\ driver \in Drivers /\ IsSequence(delivered)
  BY AsItWas DEF FetchByKey
<1>2. ReadersType'
  BY <1>1 DEF IInv, ReadersType
<1>3. PICK values, byKey :
        values = [m \in DOMAIN Rest |-> Fetched(as, Rest[m]).value] /\ byKey = LastOfKeys(values)
  OBVIOUS
<1>4. PICK n : n = Left(result) /\ n \in Nat /\ DOMAIN Rest = 1 .. n /\ (Rest = <<>> <=> n = 0)
  BY <1>1, ResultIs, RestIs
<1>5. byKey = <<>> <=> n = 0
  <2>1. PICK entries : entries = [m \in DOMAIN values |-> Entry(values[m][1][1], values[m][2])]
    OBVIOUS
  <2>2. DOMAIN entries = 1 .. n
    BY <1>3, <1>4, <2>1
  <2>3. byKey = FromEntries(entries, FALSE)
    BY <1>3, <2>1 DEF LastOfKeys
  <2> QED BY <2>2, <2>3, <1>4, EntriesObject
<1>6. PICK r : r = [result EXCEPT !.cursor = @ + n]
  OBVIOUS
<1>7. Present(r) /\ Left(r) = 0 /\ r.rows = result.rows /\ r = [result EXCEPT !.cursor = Len(result.rows) + 1]
  <2>1. result.cursor + n = Len(result.rows) + 1
    BY <1>1, <1>4, ResultIs DEF Left
  <2>2. r = [result EXCEPT !.cursor = Len(result.rows) + 1]
    BY <1>6, <2>1
  <2> QED BY <1>1, <1>4, <1>6, <2>2, Moved
<1>8. cut' => r.rows = <<>>
  BY <1>1, <1>7 DEF IInv
<1>9. CASE NeedsKey(as)
  <2>1. UNCHANGED <<delivered, result, ended>>
    BY <1>9 DEF FetchByKey
  <2>2. MayRefuse
    <3>1. ColumnCount < 2
      BY <1>9 DEF NeedsKey
    <3> QED BY <1>1, <3>1, Counts DEF MayRefuse
  <2>3. PICK d, r1 : d = delivered /\ r1 = result
    OBVIOUS
  <2>4. Countable(d) /\ ~ cut' => CountOf(d, r1) /\ (ended' => Left(r1) = 0)
    BY <1>1, <2>1, <2>3 DEF IInv
  <2>5. cut' => r1.rows = <<>>
    BY <1>1, <2>3 DEF IInv
  <2> QED BY <1>1, <1>2, <2>1, <2>2, <2>3, <2>4, <2>5, AsItWas, Preserved
<1>10. CASE ~ NeedsKey(as) /\ ~ Named(as) /\ Rest # <<>>
  <2>1. result' = r /\ UNCHANGED <<delivered, ended>>
    BY <1>7, <1>10 DEF FetchByKey
  <2>2. answer.columns = <<>>
    <3>1. ~ ColumnCount > 0
      BY <1>10 DEF Named
    <3>2. 1 \in 1 .. Left(result)
      BY <1>4, <1>10
    <3>3. result.rows # <<>>
      BY <1>1, <3>2, NextRow
    <3> QED BY <1>1, <3>1, <3>3, Counts
  <2>3. PICK d : d = delivered
    OBVIOUS
  <2> QED BY <1>1, <1>2, <1>7, <1>8, <2>1, <2>2, <2>3, NoColumns, Preserved
<1>11. CASE ~ NeedsKey(as) /\ ~ (~ Named(as) /\ Rest # <<>>)
  <2>1. /\ result' = r /\ ended' /\ UNCHANGED refused
        /\ delivered' = IF byKey = <<>> THEN delivered ELSE Append(delivered, Item(WholeOf[as], byKey))
    BY <1>3, <1>7, <1>11 DEF FetchByKey
  <2>2. CASE byKey = <<>>
    <3>1. PICK d : d = delivered
      OBVIOUS
    <3>2. delivered' = d /\ n = 0
      BY <2>1, <2>2, <3>1, <1>5
    <3>3. Countable(d) /\ ~ cut' => CountOf(d, r)
      BY <1>1, <1>4, <1>7, <3>1, <3>2 DEF IInv, CountOf
    <3> QED BY <1>1, <1>2, <1>7, <1>8, <2>1, <3>1, <3>2, <3>3, AsItWas, Preserved
  <2>3. CASE byKey # <<>>
    <3>1. PICK item, d, l : item = Item(WholeOf[as], byKey) /\ d = Append(delivered, item) /\ l = Len(delivered)
      OBVIOUS
    <3>2. /\ IsSequence(d) /\ Len(d) = l + 1 /\ DOMAIN d = 1 .. l + 1 /\ l \in Nat
          /\ d[l + 1] = item /\ \A k \in 1 .. l : d[k] = delivered[k]
          /\ DOMAIN delivered = 1 .. l
      <4>1. /\ IsSequence(d) /\ Len(d) = l + 1 /\ d[l + 1] = item
            /\ \A k \in 1 .. l : d[k] = delivered[k]
        <5>0. IsSequence(delivered) /\ d = Append(delivered, item)
          BY <3>1, <1>1
        <5>1. IsSequence(d)
          BY <5>0, AppendIs
        <5>2. /\ Len(d) = Len(delivered) + 1 /\ d[Len(delivered) + 1] = item
              /\ \A k \in 1 .. Len(delivered) : d[k] = delivered[k]
          BY <5>0, AppendIs
        <5> QED BY <5>1, <5>2, <3>1
      <4>2. l \in Nat /\ DOMAIN delivered = 1 .. l
        BY <3>1, <1>1 DEF IsSequence
      <4>3. DOMAIN d = 1 .. l + 1
        BY <4>1 DEF IsSequence
      <4> QED BY <4>1, <4>2, <4>3
    <3>3. /\ item.value = byKey /\ ByKey(item)
          /\ item.as = IF as = "keyValue" THEN "byKey" ELSE "byIndex"
      <4>1. item.value = byKey /\ item.as = WholeOf[as]
        BY <3>1 DEF Item
      <4>2. WholeOf[as] = IF as = "keyValue" THEN "byKey" ELSE "byIndex"
        <5>1. CASE as = "keyValue"
          BY <5>1 DEF WholeOf
        <5>2. CASE as = "indexed"
          BY <5>2 DEF WholeOf
        <5> QED BY <5>1, <5>2
      <4> QED BY <4>1, <4>2 DEF ByKey
    <3>4. ~ Countable(d)
      BY <3>2, <3>3 DEF Countable
    <3>5. FaithfulOf(d)
      <4>1. ASSUME NEW k \in 1 .. l + 1, \A j \in 1 .. k : ~ ByKey(d[j])
            PROVE  answer.columns = <<>> \/ IsRow(d[k], k)
        <5>1. k \in 1 .. l
          BY <3>2, <3>3, <4>1
        <5>2. k \in DOMAIN delivered /\ \A j \in 1 .. k : ~ ByKey(delivered[j])
          BY <5>1, <3>2, <4>1
        <5> QED BY <5>1, <5>2, <3>2 DEF IInv, Faithful
      <4> QED BY <4>1, <3>2 DEF FaithfulOf
    <3>6. cut' \/ KeptOf(d)
      <4> SUFFICES ASSUME ~ cut PROVE KeptOf(d)
        BY <1>1
      <4>1. ASSUME NEW k \in 1 .. l + 1, ByKey(d[k]), ~ Merged, RowsRead, answer.columns # <<>>,
                   \A j \in 1 .. (k - 1) : ~ ByKey(d[j]),
                   NEW i \in k .. Len(answer.rows),
                   \A j \in (i + 1) .. Len(answer.rows) : Text(Wanted(j)[1]) # Text(Wanted(i)[1])
            PROVE  \E e \in Range(d[k].value) :
                     /\ e.key = Text(Wanted(i)[1])
                     /\ IF d[k].as = "byKey" THEN e.value = Wanted(i)[2]
                        ELSE Pairs(e.value) = WantedPairs(i, 2)
        <5>1. CASE k \in 1 .. l
          <6>1. k \in DOMAIN delivered /\ d[k] = delivered[k]
                /\ \A j \in 1 .. (k - 1) : ~ ByKey(delivered[j])
            BY <5>1, <3>2, <4>1
          <6>2. KeptOf(delivered)
            BY AsItWas
          <6> QED BY <6>1, <6>2, <4>1 DEF KeptOf
        <5>2. CASE k = l + 1
          <6>1. Countable(delivered)
            BY <5>2, <3>2, <4>1 DEF Countable
          <6>2. \E e \in Range(byKey) :
                   /\ e.key = Text(Wanted(i)[1])
                   /\ IF as = "keyValue" THEN e.value = Wanted(i)[2]
                      ELSE Pairs(e.value) = WantedPairs(i, 2)
            BY <5>2, <6>1, <4>1, <3>1, <1>1, <1>3, ByKeyKept, ZenonT(60)
          <6> QED BY <5>2, <6>2, <3>2, <3>3
        <5> QED BY <5>1, <5>2, <3>2
      <4> QED BY <4>1, <3>2 DEF KeptOf
    <3>7. delivered' = d
      BY <2>1, <2>3, <3>1
    <3> QED BY <1>1, <1>2, <1>7, <1>8, <2>1, <3>2, <3>4, <3>5, <3>6, <3>7, Preserved
  <2> QED BY <2>2, <2>3
<1> QED BY <1>9, <1>10, <1>11

LEMMA IterateStep ==
  ASSUME IInv, NEW r \in Readers, NEW as \in KindsOf[r], Iterate(r, as)
  PROVE  IInv'
<1>1. Present(result) /\ Same /\ UNCHANGED <<result, delivered, ended, cut, refused>>
  BY AsItWas DEF Iterate
<1>2. as \in Kinds
  BY ResultsAssumption
<1>3. ReadersType'
  BY <1>2 DEF Iterate, IInv, ReadersType
<1>4. PICK d, x : d = delivered /\ x = result
  OBVIOUS
<1>5. Countable(d) /\ ~ cut' => CountOf(d, x) /\ (ended' => Left(x) = 0)
  BY <1>1, <1>4 DEF IInv
<1>6. cut' => x.rows = <<>>
  BY <1>1, <1>4 DEF IInv
<1> QED BY <1>1, <1>3, <1>4, <1>5, <1>6, AsItWas, Preserved

LEMMA LeaveStep ==
  ASSUME IInv, NEW r \in Readers, Leave(r)
  PROVE  IInv'
<1>1. /\ reader[r].at \in {"created", "suspended"} /\ Same /\ UNCHANGED <<delivered, ended, refused>>
      /\ reader' = [reader EXCEPT ![r].at = "done"]
  BY DEF Leave
<1>2. Present(result)
  BY <1>1, AsItWas DEF NothingYet
<1>3. ReadersType'
  BY <1>1 DEF IInv, ReadersType
<1>4. CASE reader[r].at = "suspended"
  <2>1. PICK x : x = Freed(result) /\ result' = x
    BY <1>4 DEF Leave
  <2>2. Present(x) /\ x.rows = <<>> /\ cut'
    BY <1>2, <1>4, <2>1, AsItWas, FreedIs DEF Leave
  <2> QED BY <1>1, <1>3, <2>1, <2>2, AsItWas, Preserved
<1>5. CASE reader[r].at # "suspended"
  <2>1. UNCHANGED <<result, cut>>
    BY <1>5 DEF Leave
  <2>2. PICK d, x : d = delivered /\ x = result
    OBVIOUS
  <2>3. Countable(d) /\ ~ cut' => CountOf(d, x) /\ (ended' => Left(x) = 0)
    BY <1>1, <1>2, <2>1, <2>2 DEF IInv
  <2>4. cut' => x.rows = <<>>
    BY <2>1, <2>2 DEF IInv
  <2> QED BY <1>1, <1>2, <1>3, <2>1, <2>2, <2>3, <2>4, AsItWas, Preserved
<1> QED BY <1>4, <1>5

LEMMA NextOfStep ==
  ASSUME IInv, NEW r \in Readers, NextOf(r)
  PROVE  IInv'
<1> DEFINE T == {i \in 1 .. Len(Rest) : ~ (reader[r].as = "one" /\ Numeric(Rest[i]) = <<>>)}
           Seen == IF T # {} THEN Min(T) ELSE 0
<1>1. PICK as, seen : as = reader[r].as /\ seen = Seen
  OBVIOUS
<1>2. reader[r].at \in {"created", "suspended"} /\ Same /\ UNCHANGED cut
  BY DEF NextOf
<1>3. \/ /\ reader[r].at = "created" /\ NeedsKey(as)
         /\ reader' = [reader EXCEPT ![r].at = "done"]
         /\ refused' = TRUE /\ UNCHANGED <<result, delivered, ended>>
      \/ /\ seen = 0
         /\ reader' = [reader EXCEPT ![r].at = "done"]
         /\ result' = Freed(result) /\ ended' = TRUE /\ UNCHANGED <<delivered, refused>>
      \/ /\ seen # 0 /\ ~ Named(as)
         /\ reader' = [reader EXCEPT ![r].at = "done"]
         /\ result' = Freed(result) /\ refused' = TRUE /\ UNCHANGED <<delivered, ended>>
      \/ /\ seen # 0
         /\ reader' = [reader EXCEPT ![r].at = "suspended"]
         /\ delivered' = Append(delivered, Fetched(as, Rest[seen]))
         /\ result' = [result EXCEPT !.cursor = @ + seen]
         /\ UNCHANGED <<ended, refused>>
  <2>1. CASE reader[r].at = "created" /\ NeedsKey(as)
    <3>1. /\ reader' = [reader EXCEPT ![r].at = "done"]
          /\ refused' = TRUE /\ UNCHANGED <<result, delivered, ended>>
      <4>1. reader[r].at = "created" /\ NeedsKey(reader[r].as)
        BY <1>1, <2>1
      <4> QED BY <4>1, Zenon DEF NextOf
    <3> QED BY <2>1, <3>1
  <2>2. CASE ~ (reader[r].at = "created" /\ NeedsKey(as)) /\ seen = 0
    <3>1. /\ reader' = [reader EXCEPT ![r].at = "done"]
          /\ result' = Freed(result) /\ ended' = TRUE /\ UNCHANGED <<delivered, refused>>
      <4>1. ~ (reader[r].at = "created" /\ NeedsKey(reader[r].as)) /\ Seen = 0
        <5> HIDE DEF T, Seen
        <5> QED BY <1>1, <2>2
      <4> QED BY <4>1, Zenon DEF NextOf, SelectInSeq
    <3> QED BY <2>2, <3>1
  <2>3. CASE ~ (reader[r].at = "created" /\ NeedsKey(as)) /\ seen # 0 /\ ~ Named(as)
    BY <1>1, <2>3, Zenon DEF NextOf, SelectInSeq
  <2>4. CASE ~ (reader[r].at = "created" /\ NeedsKey(as)) /\ seen # 0 /\ Named(as)
    BY <1>1, <2>4, Zenon DEF NextOf, SelectInSeq
  <2> QED BY <2>1, <2>2, <2>3, <2>4
<1>4. Present(result) /\ answer \in Answers /\ driver \in Drivers /\ IsSequence(delivered) /\ as \in Kinds
  BY <1>1, <1>2, AsItWas DEF NothingYet, IInv, ReadersType
<1>5. ReadersType'
  BY <1>2, <1>3, <1>4, <1>1 DEF IInv, ReadersType
<1>6. PICK n : n = Left(result) /\ n \in Nat /\ Len(Rest) = n /\ DOMAIN Rest = 1 .. n
  BY <1>4, ResultIs, RestIs
<1>7. seen \in 0 .. n /\ (answer.columns # <<>> => seen = IF n = 0 THEN 0 ELSE 1)
  <2>1. T \in SUBSET (1 .. n)
    BY <1>6
  <2>2. T # {} => Min(T) \in 1 .. n /\ (1 \in T => Min(T) = 1)
    BY <2>1, <1>6, MinIs
  <2>3. answer.columns # <<>> /\ n # 0 => 1 \in T
    <3>1. n # 0 => 1 \in 1 .. n
      BY <1>6
    <3> QED BY <3>1, <1>4, <1>6, NextRow
  <2>4. n = 0 => T = {}
    BY <2>1, <1>6
  <2> HIDE DEF T
  <2> QED BY <2>2, <2>3, <2>4, <1>1, <1>6
<1> HIDE DEF T, Seen
<1>8. cut' => result.rows = <<>>
  BY <1>2 DEF IInv
<1>9. PICK s, x : s = delivered /\ x = Freed(result) /\ Present(x) /\ x.rows = <<>> /\ Left(x) = 0
  BY <1>4, FreedIs
<1>10. FaithfulOf(s) /\ (cut \/ KeptOf(s))
  BY <1>9, AsItWas
<1>11. CASE /\ reader[r].at = "created" /\ NeedsKey(as)
            /\ refused' = TRUE /\ UNCHANGED <<result, delivered, ended>>
  <2>1. MayRefuse
    <3>1. ColumnCount < 2
      BY <1>11 DEF NeedsKey
    <3> QED BY <1>4, <3>1, Counts DEF MayRefuse
  <2>2. PICK y : y = result
    OBVIOUS
  <2>3. Countable(s) /\ ~ cut' => CountOf(s, y) /\ (ended' => Left(y) = 0)
    BY <1>2, <1>4, <1>9, <1>11, <2>2 DEF IInv
  <2> QED BY <1>2, <1>4, <1>5, <1>8, <1>9, <1>10, <1>11, <2>1, <2>2, <2>3, Preserved
<1>12. CASE seen = 0 /\ result' = Freed(result) /\ ended' = TRUE /\ UNCHANGED <<delivered, refused>>
  <2>1. Countable(s) /\ ~ cut' => CountOf(s, x)
    <3> SUFFICES ASSUME Countable(s), ~ cut' PROVE CountOf(s, x)
      OBVIOUS
    <3>1. n = 0
      BY <1>6, <1>7, <1>12 DEF Countable
    <3>2. CountOf(delivered, result)
      BY <1>2, <1>4, <1>9 DEF IInv
    <3> QED BY <3>1, <3>2, <1>6, <1>9 DEF CountOf
  <2> QED BY <1>2, <1>4, <1>5, <1>9, <1>10, <1>12, <2>1, Preserved
<1>13. CASE seen # 0 /\ ~ Named(as) /\ result' = Freed(result) /\ refused' = TRUE /\ UNCHANGED <<delivered, ended>>
  <2>1. answer.columns = <<>>
    <3>1. ~ ColumnCount > 0
      BY <1>13 DEF Named
    <3>2. 1 \in 1 .. n
      BY <1>6, <1>7, <1>13
    <3>3. result.rows # <<>>
      BY <1>4, <1>6, <3>2, NextRow
    <3> QED BY <1>4, <3>1, <3>3, Counts
  <2> QED BY <1>2, <1>4, <1>5, <1>9, <1>13, <2>1, NoColumns, Preserved
<1>14. CASE /\ seen # 0
            /\ delivered' = Append(delivered, Fetched(as, Rest[seen]))
            /\ result' = [result EXCEPT !.cursor = @ + seen]
            /\ UNCHANGED <<ended, refused>>
  <2>1. PICK e, d : e = Fetched(as, Rest[seen]) /\ d = Append(s, e) /\ delivered' = d
    BY <1>9, <1>14
  <2>2. /\ IsSequence(d) /\ Len(d) = Len(s) + 1 /\ d[Len(s) + 1] = e
        /\ \A k \in 1 .. Len(s) : d[k] = s[k]
    <3>1. IsSequence(s) /\ d = Append(s, e)
      BY <2>1, <1>4, <1>9
    <3>2. IsSequence(d)
      BY <3>1, AppendIs
    <3>3. /\ Len(d) = Len(s) + 1 /\ d[Len(s) + 1] = e
          /\ \A k \in 1 .. Len(s) : d[k] = s[k]
      BY <3>1, AppendIs
    <3> QED BY <3>2, <3>3
  <2>3. ASSUME answer.columns # <<>> PROVE Longer(d, as, seen)
    <3>1. seen = 1 /\ 1 \in 1 .. n
      BY <2>3, <1>6, <1>7, <1>14
    <3>2. e = Fetched(as, result.rows[result.cursor + 1 - 1])
      BY <2>1, <3>1, <1>4, <1>6, NextRow
    <3>3. \A m \in 1 .. 1 : m = 1
      OBVIOUS
    <3> QED BY <2>2, <3>1, <3>2, <3>3, <1>9 DEF Longer
  <2>4. seen \in Nat /\ seen <= Left(result)
    BY <1>6, <1>7
  <2> QED BY <1>2, <1>4, <1>5, <1>14, <2>1, <2>2, <2>3, <2>4, Delivers
<1> QED BY <1>3, <1>11, <1>12, <1>13, <1>14

LEMMA StepInv == IInv /\ [Next]_vars => IInv'
<1> SUFFICES ASSUME IInv, [Next]_vars PROVE IInv'
  OBVIOUS
<1>1. CASE UNCHANGED vars
  <2>1. Same /\ UNCHANGED <<result, reader, delivered, ended, cut, refused>>
    BY <1>1 DEF vars, Same
  <2>2. ToRows' = ToRows /\ RowsRead' = RowsRead /\ Ambiguous' = Ambiguous
    BY <2>1, RowsSame, WantedSame, Zenon
  <2>3. PICK d, r : d = delivered /\ r = result
    OBVIOUS
  <2>4. ReadersType'
    BY <2>1 DEF IInv, ReadersType
  <2>5. CASE Present(r)
    <3>1. Countable(d) /\ ~ cut' => CountOf(d, r) /\ (ended' => Left(r) = 0)
      BY <2>1, <2>3, <2>5 DEF IInv
    <3>2. cut' => r.rows = <<>>
      BY <2>1, <2>3 DEF IInv
    <3> QED BY <2>1, <2>3, <2>4, <2>5, <3>1, <3>2, AsItWas, Preserved
  <2>6. CASE ~ Present(r)
    <3>1. NothingYet
      BY <2>3, <2>6, AsItWas
    <3>2. NothingYet'
      BY <2>1, <3>1 DEF NothingYet
    <3>3. ~ Present(result)'
      BY <3>2 DEF NothingYet, Present, NoResult
    <3>4. IsSequence(delivered)' /\ Faithful' /\ KeysKept'
      BY <2>1, <3>1, NoEntries DEF NothingYet, Faithful, KeysKept
    <3> QED BY <2>1, <2>4, <3>2, <3>3, <3>4 DEF IInv, Same, NothingYet
  <2> QED BY <2>5, <2>6
<1>2. CASE Execute
  BY <1>2, ExecuteStep
<1>3. CASE Free
  BY <1>3, FreeStep
<1>4. CASE \E as \in {"numeric", "associative", "one"} : Fetch(as) \/ FetchAll(as)
  BY <1>4, FetchStep, FetchAllStep
<1>5. CASE \E as \in {"keyValue", "indexed"} : FetchByKey(as)
  BY <1>5, FetchByKeyStep
<1>6. CASE \E r \in Readers : NextOf(r) \/ Leave(r) \/ \E as \in KindsOf[r] : Iterate(r, as)
  BY <1>6, NextOfStep, LeaveStep, IterateStep
<1> QED BY <1>1, <1>2, <1>3, <1>4, <1>5, <1>6 DEF Next

LEMMA AlwaysIInv == Spec => []IInv
<1>1. Init => IInv
  BY InitInv
<1>2. IInv /\ [Next]_vars => IInv'
  BY StepInv
<1> QED BY <1>1, <1>2, PTL DEF Spec

-----------------------------------------------------------------------------
(* Results. *)

(* Whoever hears that there are no more rows has missed none: every row    *)
(* was delivered to somebody, unless the application freed the result or   *)
(* left a generator that was reading (result.ts, driver/<name>/result.ts). *)
THEOREM AlwaysNoneLost == Spec => []NoneLost
<1>1. IInv => NoneLost
  <2> SUFFICES ASSUME IInv, ended, ~ cut, answer.columns # <<>>, RowsRead,
                      \A k \in DOMAIN delivered : ~ ByKey(delivered[k])
               PROVE  Len(delivered) = Len(answer.rows)
    BY DEF NoneLost
  <2>1. Present(result) /\ Countable(delivered)
    BY AsItWas DEF Countable, NothingYet
  <2>2. CountOf(delivered, result) /\ Left(result) = 0
    BY <2>1 DEF IInv
  <2>3. Len(ToRows) = Len(answer.rows) /\ Len(delivered) \in Nat
    BY AsItWas, RowsMade DEF IsSequence
  <2> QED BY <2>2, <2>3 DEF CountOf
<1> QED BY <1>1, AlwaysIInv, PTL

(* The answer reaches the application unchanged: each row once and in      *)
(* order, whoever fetches it and in whatever form, the last row of every   *)
(* key, and the number of columns and rows, with and without the           *)
(* portability middleware.                                                 *)
THEOREM AlwaysAsSent == Spec => []AsSent
<1>1. IInv => AsSent
  <2> SUFFICES ASSUME IInv PROVE Described
    BY DEF AsSent, IInv
  <2> SUFFICES ASSUME result # NoResult
               PROVE  /\ \/ ~ RowsRead \/ Ambiguous
                         \/ driver = "sqlite3" /\ answer.rows = <<>>
                         \/ ColumnCount = Len(answer.columns)
                      /\ refused => MayRefuse
                      /\ result.affected = answer.affected
    BY DEF Described, MayRefuse
  <2>1. Present(result) /\ answer \in Answers /\ driver \in Drivers
    BY AsItWas
  <2>2. result.affected = answer.affected
    <3>1. CASE ToRows = <<>>
      BY <2>1, <3>1 DEF Present
    <3>2. CASE ToRows # <<>>
      <4>1. RowsRead /\ Len(ToRows) = Len(answer.rows)
        BY <2>1, <3>2, RowsType, RowsMade
      <4>2. answer.rows # <<>>
        BY <3>2 DEF ToRows
      <4>3. answer.affected = Len(answer.rows)
        BY <2>1, <4>2, AnswerType
      <4> QED BY <2>1, <3>2, <4>1, <4>3 DEF Present
    <3> QED BY <3>1, <3>2
  <2> QED BY <2>1, <2>2, Counts DEF IInv
<1> QED BY <1>1, AlwaysIInv, PTL
=============================================================================
