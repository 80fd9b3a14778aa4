--------------------------- MODULE CircuitBreaker ---------------------------
(***************************************************************************)
(* One circuit breaker of internal/concurrency/circuit_breaker.go, shared  *)
(* by goroutines that call ExecuteWithContext and Reset.  The breaker's    *)
(* fields are separate atomics and cb.mu only covers setState, so every    *)
(* atomic access of the code is a step of its own here: between any two    *)
(* of them any other goroutine may run.                                    *)
(*                                                                         *)
(* The function passed to Execute succeeds or fails nondeterministically   *)
(* and is assumed to return.  A call whose context is already cancelled    *)
(* returns before it touches the breaker (lines 116-120): a stutter.  The  *)
(* statistic cb.requests, which no decision reads, is left out, and a      *)
(* goroutine reads the clock in the step that stores or compares it.       *)
(***************************************************************************)
EXTENDS Integers

CONSTANTS
    Callers,        \* goroutines that execute requests through the breaker
    Resetters,      \* goroutines that call Reset
    MaxFailures,    \* CircuitBreakerConfig.MaxFailures after defaulting
    ResetTimeout,   \* CircuitBreakerConfig.ResetTimeout, in clock ticks
    MaxCalls,       \* bound: executions and resets started in a behaviour
    MaxTime         \* bound: clock ticks in a behaviour

ASSUME BreakerAssumption ==
    /\ Callers \cap Resetters = {}
    /\ MaxFailures \in Nat \ {0}
    /\ ResetTimeout \in Nat \ {0}
    /\ MaxCalls \in Nat
    /\ MaxTime \in Nat

Goroutines == Callers \cup Resetters

HalfOpenLimit == 3      \* the literal of allowRequest and of recordSuccess

VARIABLES
    state,          \* cb.state
    failures,       \* cb.failures
    successes,      \* cb.successes
    lastFailTime,   \* cb.lastFailTime
    now,            \* the wall clock
    calls,          \* executions and resets started so far
    pc,             \* the atomic access each goroutine makes next
    seen            \* the value each goroutine last loaded into a local

breaker == <<state, failures, successes, lastFailTime>>
vars == <<breaker, now, calls, pc, seen>>

Init ==
    /\ state = "closed"
    /\ failures = 0
    /\ successes = 0
    /\ lastFailTime = 0             \* the zero value, long before now
    /\ now = ResetTimeout
    /\ calls = 0
    /\ pc = [g \in Goroutines |-> "idle"]
    /\ seen = [g \in Goroutines |-> 0]

\* g moves from one access to the next; the clock and the bound stand still.
Goto(g, here, there) ==
    /\ pc[g] = here
    /\ pc' = [pc EXCEPT ![g] = there]
    /\ UNCHANGED <<now, calls>>

\* An access that only loads: g decides where to go and changes nothing shared.
Load(g, here, there) == Goto(g, here, there) /\ UNCHANGED <<breaker, seen>>

SetState(s) ==
    /\ state' = s
    /\ UNCHANGED <<failures, successes, lastFailTime, seen>>

Begin(g) ==
    /\ calls < MaxCalls
    /\ calls' = calls + 1
    /\ pc[g] = "idle"
    /\ pc' = [pc EXCEPT ![g] = IF g \in Callers THEN "allow" ELSE "close"]
    /\ UNCHANGED <<breaker, now, seen>>

Tick ==
    /\ now < ResetTimeout + MaxTime
    /\ now' = now + 1
    /\ UNCHANGED <<breaker, calls, pc, seen>>

-----------------------------------------------------------------------------
(* allowRequest and shouldAttemptReset, then fn *)

AllowRequest(g) ==
    \/ state = "closed" /\ Load(g, "allow", "run")
    \/ state = "open" /\ Load(g, "allow", "loadLastFail")
    \/ state = "halfOpen" /\ Load(g, "allow", "probe")

LoadLastFail(g) ==
    /\ Goto(g, "loadLastFail", "elapsed")
    /\ seen' = [seen EXCEPT ![g] = lastFailTime]
    /\ UNCHANGED breaker

\* Mistake: the time is compared with the timeout, not with the last failure.
CheckElapsedIgnoresFailure(g) ==
    Load(g, "elapsed", IF now >= ResetTimeout THEN "halfOpen" ELSE "idle")

CheckElapsed(g) ==
    Load(g, "elapsed", IF now - seen[g] >= ResetTimeout THEN "halfOpen" ELSE "idle")

\* Mistake: an open breaker goes straight back to closed.
SetHalfOpenCloses(g) == Goto(g, "halfOpen", "run") /\ SetState("closed")

SetHalfOpen(g) == Goto(g, "halfOpen", "run") /\ SetState("halfOpen")

Probe(g) == Load(g, "probe", IF successes < HalfOpenLimit THEN "run" ELSE "idle")

FnReturns(g) == \E outcome \in {"failInc", "succInc"} : Load(g, "run", outcome)

-----------------------------------------------------------------------------
(* recordFailure *)

FailureIncrement(g) ==
    /\ Goto(g, "failInc", "failStamp")
    /\ failures' = failures + 1
    /\ seen' = [seen EXCEPT ![g] = failures + 1]
    /\ UNCHANGED <<state, successes, lastFailTime>>

FailureStamp(g) ==
    /\ Goto(g, "failStamp", "failLoad")
    /\ lastFailTime' = now
    /\ UNCHANGED <<state, failures, successes, seen>>

\* Mistake: the breaker opens one failure late.
OpensClosedLate(g) == state = "closed" /\ seen[g] > MaxFailures

OpensClosed(g) == state = "closed" /\ seen[g] >= MaxFailures

\* Mistake: a half-open breaker opens and keeps the successes of its trials.
FailureLoadKeepsSuccesses(g) ==
    Load(g, "failLoad", IF state = "halfOpen" \/ OpensClosed(g) THEN "failOpen" ELSE "idle")

FailureLoadState(g) ==
    \/ state = "halfOpen" /\ Load(g, "failLoad", "failZero")
    \/ OpensClosed(g) /\ Load(g, "failLoad", "failOpen")
    \/ state # "halfOpen" /\ ~OpensClosed(g) /\ Load(g, "failLoad", "idle")

ZeroSuccesses(g, here, there) ==
    /\ Goto(g, here, there)
    /\ successes' = 0
    /\ UNCHANGED <<state, failures, lastFailTime, seen>>

FailureZeroSuccesses(g) == ZeroSuccesses(g, "failZero", "failOpen")

FailureOpen(g) == Goto(g, "failOpen", "idle") /\ SetState("open")

-----------------------------------------------------------------------------
(* recordSuccess; its last three accesses are also those of Reset *)

\* Mistake: only successes of a closed breaker are counted.
SuccessIncrementWhenClosed(g) ==
    /\ Goto(g, "succInc", "succLoad")
    /\ successes' = IF state = "closed" THEN successes + 1 ELSE successes
    /\ UNCHANGED <<state, failures, lastFailTime, seen>>

SuccessIncrement(g) ==
    /\ Goto(g, "succInc", "succLoad")
    /\ successes' = successes + 1
    /\ UNCHANGED <<state, failures, lastFailTime, seen>>

SuccessLoadState(g) ==
    Load(g, "succLoad", IF state = "halfOpen" THEN "succEnough" ELSE "idle")

\* Mistake: closing takes one success more than half-open admits.
SuccessEnoughLate(g) ==
    Load(g, "succEnough", IF successes > HalfOpenLimit THEN "close" ELSE "idle")

SuccessEnough(g) ==
    Load(g, "succEnough", IF successes >= HalfOpenLimit THEN "close" ELSE "idle")

\* Mistake: closing leaves the failure count as it was.
CloseKeepsFailures(g) == Goto(g, "close", "zeroSuccesses") /\ SetState("closed")

Close(g) == Goto(g, "close", "zeroFailures") /\ SetState("closed")

ZeroFailures(g) ==
    /\ Goto(g, "zeroFailures", "zeroSuccesses")
    /\ failures' = 0
    /\ UNCHANGED <<state, successes, lastFailTime, seen>>

CloseZeroSuccesses(g) == ZeroSuccesses(g, "zeroSuccesses", "idle")

-----------------------------------------------------------------------------

Step(g) ==
    \/ Begin(g)
    \/ AllowRequest(g) \/ LoadLastFail(g) \/ CheckElapsed(g) \/ SetHalfOpen(g)
    \/ Probe(g) \/ FnReturns(g)
    \/ FailureIncrement(g) \/ FailureStamp(g) \/ FailureLoadState(g)
    \/ FailureZeroSuccesses(g) \/ FailureOpen(g)
    \/ SuccessIncrement(g) \/ SuccessLoadState(g) \/ SuccessEnough(g)
    \/ Close(g) \/ ZeroFailures(g) \/ CloseZeroSuccesses(g)

Next == Tick \/ \E g \in Goroutines : Step(g)

Spec == Init /\ [][Next]_vars

-----------------------------------------------------------------------------
(* Properties *)

PCs == {"idle", "allow", "loadLastFail", "elapsed", "halfOpen", "probe", "run",
        "failInc", "failStamp", "failLoad", "failZero", "failOpen",
        "succInc", "succLoad", "succEnough", "close", "zeroFailures", "zeroSuccesses"}

\* The types of the breaker's fields and of the goroutines' locals.
TypeOK ==
    /\ state \in {"closed", "open", "halfOpen"}
    /\ failures \in Nat
    /\ successes \in Nat
    /\ lastFailTime \in Nat
    /\ now \in Nat
    /\ calls \in Nat
    /\ pc \in [Goroutines -> PCs]
    /\ seen \in [Goroutines -> Nat]

\* g has loaded a failure count that reaches the limit and is on its way to
\* opening the breaker, or has closed it and is about to zero the count.
Repairing(g) ==
    \/ pc[g] = "zeroFailures"
    \/ pc[g] \in {"failStamp", "failLoad", "failOpen"} /\ seen[g] >= MaxFailures

\* A closed breaker whose failure count has reached MaxFailures is only ever
\* in transit: some goroutine is about to open it or to zero the count.
\* recordFailure compares the value its own increment returned, and both
\* recordSuccess and Reset close first and zero afterwards.
ClosedBelowLimit ==
    state = "closed" /\ failures >= MaxFailures => \E g \in Goroutines : Repairing(g)

\* g executes a request whose result the breaker has yet to act upon.
InFlight(g) == pc[g] \in {"run", "failInc", "failStamp", "failLoad", "failZero",
                          "succInc", "succLoad", "succEnough", "close"}

\* A half-open breaker refuses requests (three successes counted) only while a
\* request in flight is bound to close or to reopen it.  successes is counted
\* in every state and outlives reopening, so nothing local shows this.
HalfOpenNotWedged ==
    state = "halfOpen" /\ successes >= HalfOpenLimit => \E g \in Goroutines : InFlight(g)

Quiescent == \A g \in Goroutines : pc[g] = "idle"

\* What an operator sees once every call has returned: a closed breaker is
\* below its failure limit and a half-open one admits the next request.
QuiescentBreakerServes ==
    Quiescent => /\ state = "closed" => failures < MaxFailures
                 /\ state = "halfOpen" => successes < HalfOpenLimit
=============================================================================
