---------------------------- MODULE MCWorkerPool ----------------------------
(* Model-checking instance of WorkerPool. *)
EXTENDS WorkerPool, TLC

\* Tasks, workers and callers of Stop are interchangeable.
Symmetry == Permutations(Tasks) \cup Permutations(Workers) \cup Permutations(Stoppers)
=============================================================================
