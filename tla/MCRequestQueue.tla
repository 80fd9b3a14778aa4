--------------------------- MODULE MCRequestQueue ---------------------------
(* Model-checking instance of RequestQueue. *)
EXTENDS RequestQueue, TLC

MCTasks == Items \X (0 .. MaxRequeues) \X (0 .. MaxRetries)

\* All items have the same priority, or each its own.
SamePriority == [i \in Items |-> 0]

Symmetry == Permutations(Items) \cup Permutations(Workers)
=============================================================================
