----------------------- MODULE CircuitBreakerHistory ------------------------
(***************************************************************************)
(* CircuitBreaker with history variables, for what its comments say about  *)
(* half-open periods, closing and the reset timeout.  They hold while one  *)
(* goroutine at a time is in the breaker, as in its tests; the history     *)
(* ends when two of them overlap.                                          *)
(*                                                                         *)
(* And the breaker as its callers think of it: what the accesses of a      *)
(* decision come to, when no access of another one falls between them.     *)
(***************************************************************************)
EXTENDS CircuitBreaker

VARIABLES
    overlapped, \* two goroutines have been in the breaker at once
    trials,     \* requests admitted since the breaker last became half-open
    openedFor,  \* the failure time recorded when the breaker last opened
    contended   \* an access has fallen between those of another decision

historyVars == <<overlapped, trials, openedFor, contended>>

AdmitsTrial(g) == pc[g] \in {"halfOpen", "probe"} /\ pc'[g] = "run"

Overlaps == \E g, h \in Goroutines : g # h /\ pc[g] # "idle" /\ pc[h] # "idle"

\* g has begun to decide and is not done.
Midway(g) ==
    pc[g] \notin {"idle", "allow", "run", "failInc", "succInc"} /\ ~(g \in Resetters /\ pc[g] = "close")

\* h accesses the breaker: every step but to begin and to execute the request does.
Accesses(h) == pc[h] \notin {"idle", "run"} /\ pc'[h] # pc[h]

Interferes == \E g, h \in Goroutines : g # h /\ Midway(g) /\ Accesses(h)

Record ==
    /\ overlapped' = (overlapped \/ Overlaps')
    /\ trials' = IF overlapped' \/ state' # "halfOpen" THEN 0
                 ELSE IF \E g \in Goroutines : AdmitsTrial(g) THEN trials + 1 ELSE trials
    /\ openedFor' = IF overlapped' THEN 0
                    ELSE IF state # "open" /\ state' = "open" THEN lastFailTime ELSE openedFor
    /\ contended' = (contended \/ Interferes)

HistoryInit ==
    /\ Init
    /\ overlapped = FALSE /\ trials = 0 /\ openedFor = 0 /\ contended = FALSE

HistorySpec == HistoryInit /\ [][Next /\ Record]_<<vars, historyVars>>

\* "In half-open state, allow limited requests to test if service recovered
\* ... Allow up to 3 test requests" (allowRequest): one half-open period admits
\* at most HalfOpenLimit requests.  Requests that overlap may all be admitted.
TrialsLimited == trials <= HalfOpenLimit

\* "If we're in half-open and have enough successes, close the circuit"
\* (recordSuccess): an open breaker is closed by Reset and by nothing else.
\* Requests that overlap may close what one of them has opened.
ClosesFromHalfOpen ==
    [][~overlapped' /\ state = "open" /\ state' = "closed" =>
           \E g \in Resetters : pc[g] = "close"]_<<vars, overlapped>>

\* "shouldAttemptReset checks if enough time has passed to try resetting the
\* circuit": a breaker that opens turns half-open only ResetTimeout after the
\* failure that opened it.  Of requests that overlap, one may half-open what
\* another has only just opened again.
OpenForResetTimeout ==
    [][~overlapped' /\ state = "open" /\ state' = "halfOpen" =>
           now - openedFor >= ResetTimeout]_<<vars, overlapped>>

-----------------------------------------------------------------------------
(* The breaker as AtomicBreaker has it.  A decision takes effect in the step in which  *)
(* it becomes inevitable: a success when it is counted, a failure when it has its      *)
(* time, Reset when it sets the state.  What is still to be stored is stored already.  *)

At(places) == \E g \in Goroutines : pc[g] \in places

\* Somebody has yet to close the breaker, or to zero its counts.
Closing ==
    \/ At({"zeroFailures", "zeroSuccesses"})
    \/ state = "halfOpen" /\ successes >= HalfOpenLimit /\ At({"succLoad", "succEnough"})
    \/ \E g \in Callers : pc[g] = "close"

\* Somebody has yet to open it.
Opening ==
    \/ At({"failZero", "failOpen"})
    \/ \E g \in Goroutines : pc[g] = "failLoad" /\ (state = "halfOpen" \/ OpensClosed(g))

Counted(n, limit) == IF n < limit THEN n ELSE limit

Decided ==
    [state |-> IF Closing THEN "closed" ELSE IF Opening THEN "open" ELSE state,
     failures |-> IF Closing THEN 0
                  ELSE Counted(IF At({"failStamp"}) THEN failures - 1 ELSE failures, MaxFailures),
     successes |-> IF Closing \/ (Opening /\ state = "halfOpen") THEN 0
                   ELSE Counted(successes, HalfOpenLimit),
     wait |-> IF now - lastFailTime >= ResetTimeout THEN 0 ELSE ResetTimeout - (now - lastFailTime)]

CallOf(g) ==
    CASE pc[g] \in {"allow", "loadLastFail", "elapsed", "halfOpen", "probe"} -> "asking"
      [] pc[g] \in {"run", "failInc", "failStamp", "succInc"} -> "executing"
      [] OTHER -> "out"

Atomic == INSTANCE AtomicBreaker
    WITH Trials <- HalfOpenLimit, circuit <- Decided, call <- [g \in Callers |-> CallOf(g)]

\* As long as no access falls between those of another decision, the breaker does what
\* AtomicBreaker does, and so what BreakerManager takes for granted, with any number of
\* requests under way: each call of allowRequest, recordSuccess, recordFailure and Reset
\* is one step, and its accesses are in an order in which none is seen half done.
ActsAtOnce ==
    Atomic!Init /\ [][~contended' => [Atomic!Next]_(Atomic!vars)]_<<vars, contended>>
=============================================================================
