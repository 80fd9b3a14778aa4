-------------------------- MODULE MCSearchHistory ---------------------------
(* Model-checking instance of Search with its history. *)
EXTENDS SearchHistory

CONSTANTS i1, i2, i3

TwoInstances == <<i1, i2>>
ThreeInstances == <<i1, i2, i3>>
=============================================================================
