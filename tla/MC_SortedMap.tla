---------------------------- MODULE MC_SortedMap ----------------------------
(* A small instance of SortedMap: three keys, two values, iterators of up  *)
(* to two elements with different keys.                                    *)
EXTENDS SortedMap

CONSTANTS v1, v2

MCKeys == 1..3
MCVals == {v1, v2}
MCDistinctBatches == {b \in UNION {[1..n -> Entries] : n \in 0..2} : HasUniqueKeys(b)}
=============================================================================
