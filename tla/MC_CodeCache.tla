---------------------------- MODULE MC_CodeCache ----------------------------
(***************************************************************************)
(* Constants for model-checking CodeCache.                                 *)
(***************************************************************************)
EXTENDS CodeCache, TLC

TwoPlaces == {<<1, 2, "jump">>, <<1, 4, "jump">>}

\* A page from its start, and a page's length across two of them.
TwoEntries == {[frame |-> 1, offset |-> 0, length |-> 5],
               [frame |-> 0, offset |-> 3, length |-> 5]}

\* At least one linear page leads to physical page 1, and both may.
SomeMaps == {m \in [Lin -> {0, 1}] : \E l \in Lin : m[l] = 1}

LinSymmetry == Permutations(Lin)
=============================================================================
