------------------------ MODULE MCRateLimiterHistory ------------------------
(* Model-checking instance of the rate limiter with its window. *)
EXTENDS RateLimiterHistory, TLC

\* The goroutines run the same code.
Symmetry == Permutations(Handlers)
=============================================================================
