------------------------- MODULE MCUpstreamHistory --------------------------
(* Model-checking instance of UpstreamRequest with its history. *)
EXTENDS UpstreamHistory, TLC

Symmetry == Permutations(Requests)
=============================================================================
