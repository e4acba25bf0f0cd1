----------------------------- MODULE OrderedMap -----------------------------
(***************************************************************************)
(* The string-keyed objects and Maps of the schema classes: finite maps    *)
(* that remember the order in which their keys were first set, as the      *)
(* sequence of their entries.                                              *)
(***************************************************************************)
EXTENDS Naturals, SequencesExt

Keys(map)   == {e.key : e \in Range(map)}
Values(map) == {e.value : e \in Range(map)}
Get(map, k) == (CHOOSE e \in Range(map) : e.key = k).value
Entry(k, v) == [key |-> k, value |-> v]

(* Setting a key that is there keeps its place. *)
Put(map, k, v) ==
  IF k \in Keys(map)
  THEN [i \in DOMAIN map |-> IF map[i].key = k THEN Entry(k, v) ELSE map[i]]
  ELSE Append(map, Entry(k, v))

Delete(map, k) ==
  IF k \in Keys(map) THEN RemoveAt(map, CHOOSE i \in DOMAIN map : map[i].key = k) ELSE map

MapValues(map, Op(_)) == [i \in DOMAIN map |-> [map[i] EXCEPT !.value = Op(@)]]

(* The map without the entries of some keys. *)
DeleteAll(map, ks) == SelectSeq(map, LAMBDA e : e.key \notin ks)
=============================================================================
