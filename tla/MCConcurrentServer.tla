------------------------- MODULE MCConcurrentServer -------------------------
(***************************************************************************)
(* Model values and symmetry for the server.  A behaviour is either one of *)
(* the server or the evaluation of one of the algorithms that its requests *)
(* and its pages apply, on one input.                                      *)
(***************************************************************************)
EXTENDS ConcurrentServer, Operators, TLC

Symmetry == Permutations(Requests) \cup Permutations(Profiles)

MCInit == Init /\ InputInit

Serves == input.of = "nothing" /\ Next /\ UNCHANGED input

Evaluates == Init /\ InputNext /\ UNCHANGED vars

MCSpec == MCInit /\ [][Serves \/ Evaluates]_<<vars, input>>
=============================================================================
