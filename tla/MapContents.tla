---------------------------- MODULE MapContents ----------------------------
(***************************************************************************)
(* The sorted array behind `Map` (src/src/map.rs) as a sequence of         *)
(* entries, and the searches and rearrangements the methods of `Map` make  *)
(* of it. Keys are integers: all the code asks of a key is `Ord`.          *)
(***************************************************************************)
EXTENDS Integers, Sequences, SequencesExt

(* One element `(K, V)` of `contents`.                                     *)
Entry(k, v) == [key |-> k, val |-> v]

KeysOf(c) == {c[i].key : i \in 1..Len(c)}

IsSortedByKey(c) == \A i, j \in 1..Len(c) : i < j => c[i].key <= c[j].key

HasUniqueKeys(c) == \A i, j \in 1..Len(c) : c[i].key = c[j].key => i = j

(***************************************************************************)
(* `binary_search_by_key` promises something only of a sorted slice: `Ok`  *)
(* with the index of ANY matching element, or `Err` with the one index     *)
(* where the key can be inserted keeping the order.  Of an unsorted slice  *)
(* it promises nothing, so every answer is possible there.                 *)
(***************************************************************************)
Matches(c, k) == {i \in 1..Len(c) : c[i].key = k}

Gaps(c, k) ==
  IF IsSortedByKey(c)
  THEN {i \in 1..Len(c) + 1 : /\ \A j \in 1..Len(c) : j < i  => c[j].key < k
                              /\ \A j \in 1..Len(c) : i <= j => k < c[j].key}
  ELSE 1..Len(c) + 1

(***************************************************************************)
(* `Vec::sort_unstable_by` of a collected iterator: some sorted            *)
(* permutation of the items; items with equal keys come out in any order.  *)
(***************************************************************************)
SortedPermutations(s) ==
  {p \in {[i \in 1..Len(s) |-> s[f[i]]] : f \in Bijection(1..Len(s), 1..Len(s))} :
     IsSortedByKey(p)}

(* Where only the function matters: an entry inserted, replacing any other *)
(* of its key.                                                             *)
With(f, k, v) == [x \in DOMAIN f \cup {k} |-> IF x = k THEN v ELSE f[x]]

(* The contents read as a partial function from keys to values.            *)
FunctionOf(c) ==
  [k \in KeysOf(c) |-> c[CHOOSE i \in 1..Len(c) : c[i].key = k].val]
=============================================================================
