---------------------- MODULE MCCircuitBreakerHistory -----------------------
(* Model-checking instance of the circuit breaker with its history. *)
EXTENDS CircuitBreakerHistory, TLC

\* Goroutines of one kind run the same code.
Symmetry == Permutations(Callers) \cup Permutations(Resetters)
=============================================================================
