------------------------------- MODULE Ranking -------------------------------
(***************************************************************************)
(* Sorting as what it gives, for the program's calls of sort.Slice: which  *)
(* element comes i-th when the positions S are put in the order of their   *)
(* keys.  Equal keys stay in the order they came in, which sort.Slice does *)
(* not promise, and which nobody sees of equal numbers.  SortSeq would do  *)
(* as well, but the prover knows nothing of it.                            *)
(***************************************************************************)
EXTENDS Integers, FiniteSets

\* j comes before k, or is k.
NotAfter(key, j, k) == key[j] < key[k] \/ (key[j] = key[k] /\ j <= k)

Arranged(S, key) ==
    [i \in 1 .. Cardinality(S) |->
        CHOOSE k \in S : Cardinality({j \in S : NotAfter(key, j, k)}) = i]
=============================================================================
