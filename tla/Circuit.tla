------------------------------ MODULE Circuit -------------------------------
(***************************************************************************)
(* What a circuit breaker decides (internal/concurrency/circuit_breaker.go)*)
(* as operators on a record of its fields: allowRequest, recordSuccess,    *)
(* recordFailure and Reset, each as if nobody else used the breaker in the *)
(* meantime.  The counts go up to the limits they are compared with, and   *)
(* wait is how long an open breaker has yet to refuse everybody.           *)
(***************************************************************************)
EXTENDS Integers

CONSTANTS
    MaxFailures,    \* CircuitBreakerConfig.MaxFailures
    ResetTimeout,   \* CircuitBreakerConfig.ResetTimeout, in ticks
    Trials          \* the literal 3 of allowRequest and of recordSuccess

Min2(a, b) == IF a < b THEN a ELSE b

NewCircuitBreaker == [state |-> "closed", failures |-> 0, successes |-> 0, wait |-> 0]

Admits(c) ==
    \/ c.state = "closed"
    \/ c.state = "open" /\ c.wait = 0
    \/ c.state = "halfOpen" /\ c.successes < Trials

\* The breaker after allowRequest let a call through.
Admitted(c) == IF c.state = "open" THEN [c EXCEPT !.state = "halfOpen"] ELSE c

\* The breaker after recordSuccess.
CountSuccess(c) ==
    LET s == Min2(Trials, c.successes + 1)
    IN  IF c.state = "halfOpen" /\ s >= Trials
        THEN [c EXCEPT !.state = "closed", !.failures = 0, !.successes = 0]
        ELSE [c EXCEPT !.successes = s]

\* The breaker after recordFailure.
CountFailure(c) ==
    LET f == Min2(MaxFailures, c.failures + 1)
        d == [c EXCEPT !.failures = f, !.wait = ResetTimeout]
    IN  IF c.state = "halfOpen" THEN [d EXCEPT !.state = "open", !.successes = 0]
        ELSE IF c.state = "closed" /\ f >= MaxFailures THEN [d EXCEPT !.state = "open"]
        ELSE d

\* The breaker after Reset, which leaves lastFailTime alone.
WhenReset(c) == [NewCircuitBreaker EXCEPT !.wait = c.wait]

\* The breaker after a tick of the clock.
Waiting(c) == [c EXCEPT !.wait = IF @ > 0 THEN @ - 1 ELSE 0]
=============================================================================
