--------------------------- MODULE AtomicBreaker ----------------------------
(***************************************************************************)
(* A circuit breaker as its callers think of it: it admits or refuses a    *)
(* request in one step, and takes the result of one in another.  Any       *)
(* number of requests may be under way in between.                         *)
(***************************************************************************)
EXTENDS Circuit

CONSTANT Callers        \* goroutines that execute requests through the breaker

VARIABLES
    circuit,        \* the breaker
    call            \* where each caller is

vars == <<circuit, call>>

Init == circuit = NewCircuitBreaker /\ call = [g \in Callers |-> "out"]

Moves(g, here, there) == call[g] = here /\ call' = [call EXCEPT ![g] = there]

Ask(g) == Moves(g, "out", "asking") /\ UNCHANGED circuit

Admit(g) == Admits(circuit) /\ Moves(g, "asking", "executing") /\ circuit' = Admitted(circuit)

Refuse(g) == ~Admits(circuit) /\ Moves(g, "asking", "out") /\ UNCHANGED circuit

Succeed(g) == Moves(g, "executing", "out") /\ circuit' = CountSuccess(circuit)

Fail(g) == Moves(g, "executing", "out") /\ circuit' = CountFailure(circuit)

Reset == circuit' = WhenReset(circuit) /\ UNCHANGED call

Tick == circuit' = Waiting(circuit) /\ UNCHANGED call

Next ==
    \/ \E g \in Callers : Ask(g) \/ Admit(g) \/ Refuse(g) \/ Succeed(g) \/ Fail(g)
    \/ Reset \/ Tick

Spec == Init /\ [][Next]_vars
=============================================================================
