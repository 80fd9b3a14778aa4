------------------------ MODULE CircuitBreakerProofs ------------------------
(***************************************************************************)
(* Proofs about CircuitBreaker, for any number of goroutines, any failure  *)
(* limit and any reset timeout; and, from "Calls that do not overlap" on,  *)
(* about CircuitBreakerHistory: what the comments of the breaker say holds *)
(* as long as nobody enters it while somebody else is in it.               *)
(* At the end, that it implements AtomicBreaker while no access falls      *)
(* between those of another decision.                                      *)
(***************************************************************************)
EXTENDS CircuitBreakerHistory, TLAPS

LEMMA TypeStep == TypeOK /\ [Next]_vars => TypeOK'
<1> USE BreakerAssumption DEF TypeOK, PCs
<1> SUFFICES ASSUME TypeOK, [Next]_vars
             PROVE  TypeOK'
  OBVIOUS
<1> USE DEF Goto, Load, SetState, breaker
<1>1. CASE Tick
  BY <1>1 DEF Tick
<1>2. ASSUME NEW g \in Goroutines, Step(g)
      PROVE  TypeOK'
  <2>1. CASE Begin(g)
    BY <2>1 DEF Begin
  <2>2. CASE AllowRequest(g) \/ LoadLastFail(g) \/ CheckElapsed(g)
    BY <2>2 DEF AllowRequest, LoadLastFail, CheckElapsed
  <2>3. CASE SetHalfOpen(g) \/ Probe(g) \/ FnReturns(g)
    BY <2>3 DEF SetHalfOpen, Probe, FnReturns
  <2>4. CASE FailureIncrement(g) \/ FailureStamp(g) \/ FailureLoadState(g)
    BY <2>4 DEF FailureIncrement, FailureStamp, FailureLoadState, OpensClosed
  <2>5. CASE FailureZeroSuccesses(g) \/ FailureOpen(g)
    BY <2>5 DEF FailureZeroSuccesses, ZeroSuccesses, FailureOpen
  <2>6. CASE SuccessIncrement(g) \/ SuccessLoadState(g) \/ SuccessEnough(g)
    BY <2>6 DEF SuccessIncrement, SuccessLoadState, SuccessEnough
  <2>7. CASE Close(g) \/ ZeroFailures(g) \/ CloseZeroSuccesses(g)
    BY <2>7 DEF Close, ZeroFailures, CloseZeroSuccesses, ZeroSuccesses
  <2> QED
    BY <1>2, <2>1, <2>2, <2>3, <2>4, <2>5, <2>6, <2>7 DEF Step
<1>3. CASE UNCHANGED vars
  BY <1>3 DEF vars
<1> QED
  BY <1>1, <1>2, <1>3 DEF Next

\* The types hold of the initial state and are kept by every access.
THEOREM TypeCorrect == Spec => []TypeOK
<1>1. Init => TypeOK
  BY BreakerAssumption DEF Init, TypeOK, PCs
<1> QED
  BY <1>1, TypeStep, PTL DEF Spec

\* A closed breaker at its failure limit is always about to be opened or
\* zeroed: whoever raises failures to the limit is Repairing, and so is whoever
\* closes the breaker.
THEOREM ClosedStaysBelowLimit == Spec => []ClosedBelowLimit
<1> USE BreakerAssumption DEF TypeOK, PCs, ClosedBelowLimit, Repairing
<1>1. Init => ClosedBelowLimit
  BY DEF Init
<1>2. TypeOK /\ ClosedBelowLimit /\ [Next]_vars => ClosedBelowLimit'
  <2> SUFFICES ASSUME TypeOK, ClosedBelowLimit, [Next]_vars
               PROVE  ClosedBelowLimit'
    OBVIOUS
  <2> USE DEF Goto, Load, SetState, breaker
  <2>1. CASE Tick
    BY <2>1 DEF Tick
  <2>2. ASSUME NEW g \in Goroutines, Step(g)
        PROVE  ClosedBelowLimit'
    <3>1. CASE Begin(g)
      BY <3>1 DEF Begin
    <3>2. CASE AllowRequest(g) \/ LoadLastFail(g) \/ CheckElapsed(g)
      BY <3>2 DEF AllowRequest, LoadLastFail, CheckElapsed
    <3>3. CASE SetHalfOpen(g) \/ Probe(g) \/ FnReturns(g)
      BY <3>3 DEF SetHalfOpen, Probe, FnReturns
    <3>4. CASE FailureIncrement(g) \/ FailureStamp(g) \/ FailureLoadState(g)
      BY <3>4 DEF FailureIncrement, FailureStamp, FailureLoadState, OpensClosed
    <3>5. CASE FailureZeroSuccesses(g) \/ FailureOpen(g)
      BY <3>5 DEF FailureZeroSuccesses, ZeroSuccesses, FailureOpen
    <3>6. CASE SuccessIncrement(g) \/ SuccessLoadState(g) \/ SuccessEnough(g)
      BY <3>6 DEF SuccessIncrement, SuccessLoadState, SuccessEnough
    <3>7. CASE Close(g) \/ ZeroFailures(g) \/ CloseZeroSuccesses(g)
      BY <3>7 DEF Close, ZeroFailures, CloseZeroSuccesses, ZeroSuccesses
    <3> QED
      BY <2>2, <3>1, <3>2, <3>3, <3>4, <3>5, <3>6, <3>7 DEF Step
  <2>3. CASE UNCHANGED vars
    BY <2>3 DEF vars
  <2> QED
    BY <2>1, <2>2, <2>3 DEF Next
<1> QED
  BY <1>1, <1>2, TypeCorrect, PTL DEF Spec

\* A half-open breaker that refuses requests always has a request in flight:
\* whoever raises successes to the limit, or makes the breaker half-open, is
\* InFlight, and leaves only after zeroing successes or changing the state.
THEOREM HalfOpenNeverWedges == Spec => []HalfOpenNotWedged
<1> USE BreakerAssumption DEF TypeOK, PCs, HalfOpenNotWedged, InFlight, HalfOpenLimit
<1>1. Init => HalfOpenNotWedged
  BY DEF Init
<1>2. TypeOK /\ HalfOpenNotWedged /\ [Next]_vars => HalfOpenNotWedged'
  <2> SUFFICES ASSUME TypeOK, HalfOpenNotWedged, [Next]_vars
               PROVE  HalfOpenNotWedged'
    OBVIOUS
  <2> USE DEF Goto, Load, SetState, breaker
  <2>1. CASE Tick
    BY <2>1 DEF Tick
  <2>2. ASSUME NEW g \in Goroutines, Step(g)
        PROVE  HalfOpenNotWedged'
    <3>1. CASE Begin(g)
      BY <3>1 DEF Begin
    <3>2. CASE AllowRequest(g) \/ LoadLastFail(g) \/ CheckElapsed(g)
      BY <3>2 DEF AllowRequest, LoadLastFail, CheckElapsed
    <3>3. CASE SetHalfOpen(g) \/ Probe(g) \/ FnReturns(g)
      BY <3>3 DEF SetHalfOpen, Probe, FnReturns
    <3>4. CASE FailureIncrement(g) \/ FailureStamp(g) \/ FailureLoadState(g)
      BY <3>4 DEF FailureIncrement, FailureStamp, FailureLoadState, OpensClosed
    <3>5. CASE FailureZeroSuccesses(g) \/ FailureOpen(g)
      BY <3>5 DEF FailureZeroSuccesses, ZeroSuccesses, FailureOpen
    <3>6. CASE SuccessIncrement(g) \/ SuccessLoadState(g) \/ SuccessEnough(g)
      BY <3>6 DEF SuccessIncrement, SuccessLoadState, SuccessEnough
    <3>7. CASE Close(g) \/ ZeroFailures(g) \/ CloseZeroSuccesses(g)
      BY <3>7 DEF Close, ZeroFailures, CloseZeroSuccesses, ZeroSuccesses
    <3> QED
      BY <2>2, <3>1, <3>2, <3>3, <3>4, <3>5, <3>6, <3>7 DEF Step
  <2>3. CASE UNCHANGED vars
    BY <2>3 DEF vars
  <2> QED
    BY <2>1, <2>2, <2>3 DEF Next
<1> QED
  BY <1>1, <1>2, TypeCorrect, PTL DEF Spec

\* With no call in flight neither exception of the two invariants is left.
THEOREM QuiescentServes == Spec => []QuiescentBreakerServes
<1>1. TypeOK /\ ClosedBelowLimit /\ HalfOpenNotWedged => QuiescentBreakerServes
  BY BreakerAssumption DEF TypeOK, ClosedBelowLimit, HalfOpenNotWedged, Repairing,
     InFlight, HalfOpenLimit, Quiescent, QuiescentBreakerServes
<1> QED
  BY <1>1, TypeCorrect, ClosedStaysBelowLimit, HalfOpenNeverWedges, PTL

-----------------------------------------------------------------------------
(* Calls return: the breaker has no loop and waits for nothing, so that a    *)
(* goroutine whose function returns is done after eleven accesses of its     *)
(* own, whatever the others make of the fields in between.                   *)

\* The accesses that a goroutine at p still makes at most.
AccessesLeft(p) ==
    CASE p = "idle"                          -> 0
      [] p \in {"zeroSuccesses", "failOpen"} -> 1
      [] p \in {"zeroFailures", "failZero"}  -> 2
      [] p \in {"close", "failLoad"}         -> 3
      [] p \in {"succEnough", "failStamp"}   -> 4
      [] p \in {"succLoad", "failInc"}       -> 5
      [] p = "succInc"                       -> 6
      [] p = "run"                           -> 7
      [] p \in {"probe", "halfOpen"}         -> 8
      [] p = "elapsed"                       -> 9
      [] p = "loadLastFail"                  -> 10
      [] p = "allow"                         -> 11

LEMMA AccessesLeftIs ==
    /\ AccessesLeft("idle") = 0
    /\ AccessesLeft("zeroSuccesses") = 1 /\ AccessesLeft("failOpen") = 1
    /\ AccessesLeft("zeroFailures") = 2 /\ AccessesLeft("failZero") = 2
    /\ AccessesLeft("close") = 3 /\ AccessesLeft("failLoad") = 3
    /\ AccessesLeft("succEnough") = 4 /\ AccessesLeft("failStamp") = 4
    /\ AccessesLeft("succLoad") = 5 /\ AccessesLeft("failInc") = 5
    /\ AccessesLeft("succInc") = 6
    /\ AccessesLeft("run") = 7
    /\ AccessesLeft("probe") = 8 /\ AccessesLeft("halfOpen") = 8
    /\ AccessesLeft("elapsed") = 9
    /\ AccessesLeft("loadLastFail") = 10
    /\ AccessesLeft("allow") = 11
BY DEF AccessesLeft

LEMMA AccessLessens ==
    ASSUME TypeOK, NEW g \in Goroutines, Step(g), pc[g] # "idle"
    PROVE  /\ AccessesLeft(pc'[g]) < AccessesLeft(pc[g])
           /\ \A h \in Goroutines : h # g => pc'[h] = pc[h]
<1>0. pc \in [Goroutines -> PCs]
  BY DEF TypeOK
<1>. USE <1>0, AccessesLeftIs DEF Goto, Load, SetState
<1>1. CASE AllowRequest(g)
  BY <1>1 DEF AllowRequest
<1>2. CASE LoadLastFail(g) \/ CheckElapsed(g)
  BY <1>2 DEF LoadLastFail, CheckElapsed
<1>3. CASE SetHalfOpen(g) \/ Probe(g) \/ FnReturns(g)
  BY <1>3 DEF SetHalfOpen, Probe, FnReturns
<1>4. CASE FailureIncrement(g) \/ FailureStamp(g) \/ FailureLoadState(g)
  BY <1>4 DEF FailureIncrement, FailureStamp, FailureLoadState
<1>5. CASE FailureZeroSuccesses(g) \/ FailureOpen(g)
  BY <1>5 DEF FailureZeroSuccesses, ZeroSuccesses, FailureOpen
<1>6. CASE SuccessIncrement(g) \/ SuccessLoadState(g) \/ SuccessEnough(g)
  BY <1>6 DEF SuccessIncrement, SuccessLoadState, SuccessEnough
<1>7. CASE Close(g) \/ ZeroFailures(g) \/ CloseZeroSuccesses(g)
  BY <1>7 DEF Close, ZeroFailures, CloseZeroSuccesses, ZeroSuccesses
<1>8. ~Begin(g)
  BY DEF Begin
<1>. QED  BY <1>1, <1>2, <1>3, <1>4, <1>5, <1>6, <1>7, <1>8 DEF Step

LEMMA OthersStay ==
    ASSUME TypeOK, [Next]_vars, NEW g \in Goroutines, pc[g] # "idle"
    PROVE  pc'[g] = pc[g] \/ AccessesLeft(pc'[g]) < AccessesLeft(pc[g])
<1>1. CASE Tick \/ UNCHANGED vars
  BY <1>1 DEF Tick, vars
<1>2. ASSUME NEW h \in Goroutines, Begin(h), h # g PROVE pc'[g] = pc[g]
  BY <1>2 DEF Begin, TypeOK
<1>3. ASSUME NEW h \in Goroutines, Step(h), pc[h] # "idle"
      PROVE  pc'[g] = pc[g] \/ AccessesLeft(pc'[g]) < AccessesLeft(pc[g])
  BY <1>3, AccessLessens
<1>4. ASSUME NEW h \in Goroutines, Step(h), pc[h] = "idle" PROVE Begin(h)
  BY <1>4 DEF Step, AllowRequest, LoadLastFail, CheckElapsed, SetHalfOpen, Probe, FnReturns,
       FailureIncrement, FailureStamp, FailureLoadState, FailureZeroSuccesses, FailureOpen,
       SuccessIncrement, SuccessLoadState, SuccessEnough, Close, ZeroFailures,
       CloseZeroSuccesses, ZeroSuccesses, Load, Goto
<1>. QED  BY <1>1, <1>2, <1>3, <1>4 DEF Next, Begin

\* The goroutine is not stopped for ever in the middle of a call, and its function returns.
GoesOn(g) == []<>(pc[g] = "idle") \/ []<><<Step(g)>>_vars

LEMMA Nearer ==
    ASSUME TypeOK, [Next]_vars, NEW g \in Goroutines, pc[g] # "idle", NEW k \in 0 .. 11,
           AccessesLeft(pc[g]) <= k
    PROVE  /\ AccessesLeft(pc'[g]) <= k
           /\ Step(g) => AccessesLeft(pc'[g]) <= k - 1
<1>1. AccessesLeft(pc[g]) \in 0 .. 11
  BY AccessesLeftIs DEF TypeOK, PCs
<1>2. TypeOK'
  BY TypeStep
<1>3. AccessesLeft(pc'[g]) \in 0 .. 11
  BY <1>2, AccessesLeftIs DEF TypeOK, PCs
<1>4. AccessesLeft(pc'[g]) <= k
  BY <1>1, <1>3, OthersStay
<1>5. ASSUME Step(g) PROVE AccessesLeft(pc'[g]) <= k - 1
  BY <1>1, <1>3, <1>5, AccessLessens
<1>. QED  BY <1>4, <1>5

\* Every call of Execute and of Reset returns: no order in which the others load and store
\* the fields sends it around again.
THEOREM CallsReturn == \A g \in Goroutines : Spec /\ GoesOn(g) => (pc[g] # "idle" ~> pc[g] = "idle")
<1>. SUFFICES ASSUME NEW g \in Goroutines
              PROVE  Spec /\ GoesOn(g) => (pc[g] # "idle" ~> pc[g] = "idle")
  OBVIOUS
<1> DEFINE Left == AccessesLeft(pc[g])
           Returned == pc[g] = "idle"
<1>1. TypeOK => Left <= 11 /\ (Left <= 0 => Returned)
  BY AccessesLeftIs DEF TypeOK, PCs
<1>2. TypeOK /\ [Next]_vars /\ ~Returned =>
          /\ Left <= 1 => (Left <= 1)'
          /\ Left <= 2 => (Left <= 2)'
          /\ Left <= 3 => (Left <= 3)'
          /\ Left <= 4 => (Left <= 4)'
          /\ Left <= 5 => (Left <= 5)'
          /\ Left <= 6 => (Left <= 6)'
          /\ Left <= 7 => (Left <= 7)'
          /\ Left <= 8 => (Left <= 8)'
          /\ Left <= 9 => (Left <= 9)'
          /\ Left <= 10 => (Left <= 10)'
  <2>. SUFFICES ASSUME TypeOK, [Next]_vars, ~Returned, NEW k \in 0 .. 11, Left <= k
                PROVE  AccessesLeft(pc'[g]) <= k
    OBVIOUS
  <2>. QED  BY Nearer
<1>3. TypeOK /\ [Next]_vars /\ ~Returned /\ <<Step(g)>>_vars =>
          /\ Left <= 1 => (Left <= 0)'
          /\ Left <= 2 => (Left <= 1)'
          /\ Left <= 3 => (Left <= 2)'
          /\ Left <= 4 => (Left <= 3)'
          /\ Left <= 5 => (Left <= 4)'
          /\ Left <= 6 => (Left <= 5)'
          /\ Left <= 7 => (Left <= 6)'
          /\ Left <= 8 => (Left <= 7)'
          /\ Left <= 9 => (Left <= 8)'
          /\ Left <= 10 => (Left <= 9)'
          /\ Left <= 11 => (Left <= 10)'
  <2>. SUFFICES ASSUME TypeOK, [Next]_vars, ~Returned, Step(g), NEW k \in 1 .. 11, Left <= k
                PROVE  AccessesLeft(pc'[g]) <= k - 1
    OBVIOUS
  <2>. QED  BY Nearer
<1>. HIDE DEF Left
<1>. QED  BY <1>1, <1>2, <1>3, TypeCorrect, PTL DEF Spec, GoesOn

-----------------------------------------------------------------------------
(* Calls that do not overlap *)

\* Nobody but g is in the breaker.
Alone == \A g, h \in Goroutines : g = h \/ pc[g] = "idle" \/ pc[h] = "idle"

\* What the goroutine in the breaker knows of its state.
StateKnown ==
    \A g \in Goroutines :
        /\ pc[g] \in {"loadLastFail", "elapsed", "halfOpen"} => state = "open"
        /\ pc[g] \in {"probe", "failZero", "succEnough"} => state = "halfOpen"
        /\ pc[g] \in {"run", "failInc", "failStamp", "failLoad", "failOpen", "succInc", "succLoad"}
              => state # "open"
        /\ pc[g] = "close" => state = "halfOpen" \/ g \in Resetters
        /\ pc[g] \in {"zeroFailures", "zeroSuccesses"} => state = "closed"

\* An open breaker keeps the time of the failure that opened it, and who is about to
\* make it half-open has compared that time.
TimesKnown ==
    /\ state = "open" => openedFor = lastFailTime
    /\ \A g \in Goroutines :
          /\ pc[g] = "elapsed" => seen[g] = lastFailTime
          /\ pc[g] = "halfOpen" => now - lastFailTime >= ResetTimeout

\* A trial that was admitted is counted as a success, or under way, or ends the period.
TrialsKnown ==
    /\ state # "halfOpen" => trials = 0
    /\ \A g \in Goroutines : pc[g] \in {"run", "succInc"} => trials <= successes + 1
    /\ \/ trials <= successes
       \/ \E g \in Goroutines : pc[g] \in {"run", "succInc", "failInc", "failStamp", "failLoad", "failZero", "failOpen"}
    /\ trials <= HalfOpenLimit

HistoryTypes == trials \in Nat /\ openedFor \in Nat /\ overlapped \in BOOLEAN

HistoryInv ==
    /\ HistoryTypes
    /\ IF overlapped THEN trials = 0
       ELSE Alone /\ StateKnown /\ TimesKnown /\ TrialsKnown

allVars == <<vars, historyVars>>

LEMMA HistoryInitially == HistoryInit => HistoryInv
<1>. SUFFICES ASSUME HistoryInit
              PROVE  HistoryInv
  OBVIOUS
<1>1. /\ state = "closed" /\ successes = 0 /\ trials = 0 /\ openedFor = 0 /\ overlapped = FALSE
      /\ \A g \in Goroutines : pc[g] = "idle"
  BY DEF HistoryInit, Init
<1>2. Alone /\ StateKnown /\ TimesKnown
  BY <1>1 DEF Alone, StateKnown, TimesKnown
<1>3. TrialsKnown /\ HistoryTypes
  <2>1. TrialsKnown
    BY <1>1 DEF TrialsKnown, HalfOpenLimit
  <2>2. HistoryTypes
    BY <1>1, Zenon DEF HistoryTypes
  <2>. QED  BY <2>1, <2>2
<1>. QED  BY <1>1, <1>2, <1>3 DEF HistoryInv

\* Only g moves; before or after its step the others are idle.
LEMMA OneMoves ==
    ASSUME TypeOK, Alone, NEW g \in Goroutines, Step(g), Alone'
    PROVE  \A h \in Goroutines \ {g} : pc'[h] = pc[h] /\ pc[h] = "idle"
<1> USE DEF TypeOK, Goto, Load
<1>1. \A h \in Goroutines \ {g} : pc'[h] = pc[h]
  BY DEF Step, Begin, AllowRequest, LoadLastFail, CheckElapsed, SetHalfOpen, Probe, FnReturns,
         FailureIncrement, FailureStamp, FailureLoadState, FailureZeroSuccesses, ZeroSuccesses,
         FailureOpen, SuccessIncrement, SuccessLoadState, SuccessEnough, Close, ZeroFailures,
         CloseZeroSuccesses
<1>2. pc[g] # "idle" \/ pc'[g] # "idle"
  BY DEF Step, Begin, AllowRequest, LoadLastFail, CheckElapsed, SetHalfOpen, Probe, FnReturns,
         FailureIncrement, FailureStamp, FailureLoadState, FailureZeroSuccesses, ZeroSuccesses,
         FailureOpen, SuccessIncrement, SuccessLoadState, SuccessEnough, Close, ZeroFailures,
         CloseZeroSuccesses
<1>. QED  BY <1>1, <1>2 DEF Alone

LEMMA StateStep ==
    ASSUME TypeOK, Alone, StateKnown, NEW g \in Goroutines, Step(g), Alone'
    PROVE  StateKnown'
<1> USE DEF TypeOK, PCs, Goto, Load, SetState, breaker, StateKnown
<1>0. /\ \A h \in Goroutines \ {g} : pc'[h] = "idle"
      /\ g \in Callers \/ g \in Resetters
  BY OneMoves DEF Goroutines
<1>1. CASE Begin(g)
  BY <1>0, <1>1 DEF Begin
<1>2. CASE AllowRequest(g) \/ LoadLastFail(g) \/ CheckElapsed(g)
  BY <1>0, <1>2 DEF AllowRequest, LoadLastFail, CheckElapsed
<1>3. CASE SetHalfOpen(g)
  BY <1>0, <1>3 DEF SetHalfOpen
<1>4. CASE Probe(g) \/ FnReturns(g)
  BY <1>0, <1>4 DEF Probe, FnReturns
<1>5. CASE FailureIncrement(g) \/ FailureStamp(g) \/ FailureLoadState(g)
  BY <1>0, <1>5 DEF FailureIncrement, FailureStamp, FailureLoadState, OpensClosed
<1>6. CASE FailureZeroSuccesses(g) \/ FailureOpen(g)
  BY <1>0, <1>6 DEF FailureZeroSuccesses, ZeroSuccesses, FailureOpen
<1>7. CASE SuccessIncrement(g) \/ SuccessLoadState(g) \/ SuccessEnough(g)
  BY <1>0, <1>7 DEF SuccessIncrement, SuccessLoadState, SuccessEnough
<1>8. CASE Close(g) \/ ZeroFailures(g) \/ CloseZeroSuccesses(g)
  BY <1>0, <1>8 DEF Close, ZeroFailures, CloseZeroSuccesses, ZeroSuccesses
<1>. QED  BY <1>1, <1>2, <1>3, <1>4, <1>5, <1>6, <1>7, <1>8 DEF Step

LEMMA TimesStep ==
    ASSUME TypeOK, Alone, StateKnown, TimesKnown, NEW g \in Goroutines, Step(g), Alone',
           openedFor' = IF state # "open" /\ state' = "open" THEN lastFailTime ELSE openedFor
    PROVE  TimesKnown'
<1> USE DEF TypeOK, PCs, Goto, Load, SetState, breaker, StateKnown, TimesKnown
<1>0. \A h \in Goroutines \ {g} : pc'[h] = "idle"
  BY OneMoves
<1>1. CASE Begin(g)
  BY <1>0, <1>1, BreakerAssumption DEF Begin
<1>2. CASE AllowRequest(g) \/ LoadLastFail(g) \/ CheckElapsed(g)
  BY <1>0, <1>2, BreakerAssumption DEF AllowRequest, LoadLastFail, CheckElapsed
<1>3. CASE SetHalfOpen(g)
  BY <1>0, <1>3, BreakerAssumption DEF SetHalfOpen
<1>4. CASE Probe(g) \/ FnReturns(g)
  BY <1>0, <1>4, BreakerAssumption DEF Probe, FnReturns
<1>5. CASE FailureIncrement(g) \/ FailureStamp(g) \/ FailureLoadState(g)
  BY <1>0, <1>5, BreakerAssumption DEF FailureIncrement, FailureStamp, FailureLoadState, OpensClosed
<1>6. CASE FailureZeroSuccesses(g) \/ FailureOpen(g)
  BY <1>0, <1>6, BreakerAssumption DEF FailureZeroSuccesses, ZeroSuccesses, FailureOpen
<1>7. CASE SuccessIncrement(g) \/ SuccessLoadState(g) \/ SuccessEnough(g)
  BY <1>0, <1>7, BreakerAssumption DEF SuccessIncrement, SuccessLoadState, SuccessEnough
<1>8. CASE Close(g) \/ ZeroFailures(g) \/ CloseZeroSuccesses(g)
  BY <1>0, <1>8, BreakerAssumption DEF Close, ZeroFailures, CloseZeroSuccesses, ZeroSuccesses
<1>. QED  BY <1>1, <1>2, <1>3, <1>4, <1>5, <1>6, <1>7, <1>8 DEF Step

LEMMA TrialsStep ==
    ASSUME TypeOK, Alone, StateKnown, TrialsKnown, trials \in Nat, NEW g \in Goroutines, Step(g), Alone',
           trials' = IF state' # "halfOpen" THEN 0
                     ELSE IF \E h \in Goroutines : AdmitsTrial(h) THEN trials + 1 ELSE trials
    PROVE  TrialsKnown'
<1> USE DEF TypeOK, PCs, Goto, Load, SetState, breaker, StateKnown, TrialsKnown, HalfOpenLimit
<1>0. /\ \A h \in Goroutines \ {g} : pc[h] = "idle" /\ pc'[h] = "idle"
      /\ (\E h \in Goroutines : AdmitsTrial(h)) <=> AdmitsTrial(g)
  BY OneMoves DEF AdmitsTrial
<1>1. CASE Begin(g)
  BY <1>0, <1>1 DEF AdmitsTrial, Begin
<1>2. CASE AllowRequest(g) \/ LoadLastFail(g) \/ CheckElapsed(g)
  BY <1>0, <1>2 DEF AdmitsTrial, AllowRequest, LoadLastFail, CheckElapsed
<1>3. CASE SetHalfOpen(g)
  BY <1>0, <1>3 DEF AdmitsTrial, SetHalfOpen
<1>4. CASE Probe(g) \/ FnReturns(g)
  BY <1>0, <1>4 DEF AdmitsTrial, Probe, FnReturns
<1>5. CASE FailureIncrement(g) \/ FailureStamp(g) \/ FailureLoadState(g)
  BY <1>0, <1>5 DEF AdmitsTrial, FailureIncrement, FailureStamp, FailureLoadState, OpensClosed
<1>6. CASE FailureZeroSuccesses(g) \/ FailureOpen(g)
  BY <1>0, <1>6 DEF AdmitsTrial, FailureZeroSuccesses, ZeroSuccesses, FailureOpen
<1>7. CASE SuccessIncrement(g) \/ SuccessLoadState(g) \/ SuccessEnough(g)
  BY <1>0, <1>7 DEF AdmitsTrial, SuccessIncrement, SuccessLoadState, SuccessEnough
<1>8. CASE Close(g) \/ ZeroFailures(g) \/ CloseZeroSuccesses(g)
  BY <1>0, <1>8 DEF AdmitsTrial, Close, ZeroFailures, CloseZeroSuccesses, ZeroSuccesses
<1>. QED  BY <1>1, <1>2, <1>3, <1>4, <1>5, <1>6, <1>7, <1>8 DEF Step

LEMMA TickStep ==
    ASSUME TypeOK, StateKnown, TimesKnown, TrialsKnown, Tick, trials' \in {0, trials}, openedFor' = openedFor,
           state # "halfOpen" => trials' = 0, trials \in Nat
    PROVE  StateKnown' /\ TimesKnown' /\ TrialsKnown'
<1>1. UNCHANGED <<breaker, pc, seen>> /\ now' = now + 1 /\ now \in Nat /\ lastFailTime \in Nat
  BY DEF Tick, TypeOK
<1>2. StateKnown'
  BY <1>1 DEF StateKnown, breaker
<1>3. TimesKnown'
  BY <1>1, BreakerAssumption DEF TimesKnown, breaker
<1>4. TrialsKnown'
  BY <1>1 DEF TrialsKnown, breaker, HalfOpenLimit, TypeOK
<1>. QED  BY <1>2, <1>3, <1>4

LEMMA HistoryStep ==
    ASSUME TypeOK, TypeOK', HistoryInv, [Next /\ Record]_allVars
    PROVE  HistoryInv'
<1>1. CASE UNCHANGED allVars
  BY <1>1 DEF allVars, historyVars, vars, breaker, HistoryInv, HistoryTypes, Alone, StateKnown, TimesKnown, TrialsKnown
<1>2. CASE Next /\ Record
  <2>1. /\ overlapped' = (overlapped \/ Overlaps')
        /\ trials' = IF overlapped' \/ state' # "halfOpen" THEN 0
                     ELSE IF \E g \in Goroutines : AdmitsTrial(g) THEN trials + 1 ELSE trials
        /\ openedFor' = IF overlapped' THEN 0
                        ELSE IF state # "open" /\ state' = "open" THEN lastFailTime ELSE openedFor
    BY <1>2 DEF Record
  <2>2. HistoryTypes'
    <3>1. overlapped' \in BOOLEAN
      BY <2>1, Zenon
    <3>2. trials' \in Nat /\ openedFor' \in Nat
      BY <2>1 DEF HistoryInv, HistoryTypes, TypeOK
    <3>. QED  BY <3>1, <3>2 DEF HistoryTypes
  <2>3. CASE overlapped'
    BY <2>1, <2>2, <2>3 DEF HistoryInv
  <2>4. CASE ~overlapped'
    <3>1. ~overlapped /\ Alone' /\ Alone /\ StateKnown /\ TimesKnown /\ TrialsKnown /\ trials \in Nat
      BY <2>1, <2>4 DEF Overlaps, Alone, HistoryInv, HistoryTypes
    <3>2. CASE Tick
      <4>1. state' = state /\ pc' = pc
        BY <3>2 DEF Tick, breaker
      <4>2. ~\E g \in Goroutines : AdmitsTrial(g)
        BY <4>1 DEF AdmitsTrial
      <4>3. trials' \in {0, trials} /\ openedFor' = openedFor /\ (state # "halfOpen" => trials' = 0)
        BY <2>1, <2>4, <4>1, <4>2
      <4>. QED  BY <2>2, <2>4, <3>1, <3>2, <4>3, TickStep DEF HistoryInv
    <3>3. ASSUME NEW g \in Goroutines, Step(g)
          PROVE  StateKnown' /\ TimesKnown' /\ TrialsKnown'
      BY <2>1, <2>4, <3>1, <3>3, StateStep, TimesStep, TrialsStep
    <3>. QED  BY <1>2, <2>2, <2>4, <3>1, <3>2, <3>3 DEF Next, HistoryInv
  <2>. QED  BY <2>3, <2>4
<1>. QED  BY <1>1, <1>2

\* The history variables restrict nothing.
LEMMA HistoryRefines == HistorySpec => Spec
<1>1. [Next /\ Record]_allVars => [Next]_vars
  BY DEF allVars
<1>2. HistoryInit => Init
  BY DEF HistoryInit
<1>. QED  BY <1>1, <1>2, PTL DEF HistorySpec, Spec, allVars

\* As long as calls do not overlap, the one in the breaker knows its state, and every
\* trial of the half-open period is accounted for: the strengthening of the three
\* statements below.
THEOREM HistoryKept == HistorySpec => [](TypeOK /\ HistoryInv)
<1>1. TypeOK /\ TypeOK' /\ HistoryInv /\ [Next /\ Record]_allVars => HistoryInv'
  BY HistoryStep
<1>. QED  BY <1>1, HistoryRefines, HistoryInitially, TypeCorrect, PTL DEF HistorySpec, allVars

\* A half-open period admits three requests at most, when they do not overlap
\* (TrialsLimited).
THEOREM ThreeTrials == HistorySpec => []TrialsLimited
<1>1. HistoryInv => TrialsLimited
  BY DEF HistoryInv, TrialsKnown, TrialsLimited, HalfOpenLimit
<1>. QED  BY <1>1, HistoryKept, PTL

\* Only Reset closes an open breaker, when calls do not overlap (ClosesFromHalfOpen).
THEOREM OnlyResetCloses == HistorySpec => ClosesFromHalfOpen
<1>1. ASSUME TypeOK, HistoryInv, [Next /\ Record]_allVars,
             ~overlapped', state = "open", state' = "closed"
      PROVE  \E g \in Resetters : pc[g] = "close"
  <2>1. Next /\ Record
    BY <1>1 DEF allVars, historyVars, vars, breaker
  <2>2. StateKnown
    BY <1>1, <2>1 DEF HistoryInv, Record
  <2>3. PICK g \in Goroutines : Step(g)
    BY <1>1, <2>1 DEF Next, Tick, breaker
  <2>4. Close(g)
    BY <1>1, <2>3 DEF Step, Begin, AllowRequest, LoadLastFail, CheckElapsed, SetHalfOpen, Probe,
         FnReturns, FailureIncrement, FailureStamp, FailureLoadState, FailureZeroSuccesses, ZeroSuccesses,
         FailureOpen, SuccessIncrement, SuccessLoadState, SuccessEnough, ZeroFailures,
         CloseZeroSuccesses, Load, SetState, breaker
  <2>5. pc[g] = "close"
    BY <2>4 DEF Close, Goto
  <2>. QED  BY <1>1, <2>2, <2>5 DEF StateKnown
<1>2. TypeOK /\ HistoryInv /\ [Next /\ Record]_allVars =>
        [~overlapped' /\ state = "open" /\ state' = "closed" =>
            \E g \in Resetters : pc[g] = "close"]_<<vars, overlapped>>
  BY <1>1
<1>. QED  BY <1>2, HistoryKept, PTL DEF HistorySpec, allVars, ClosesFromHalfOpen

\* A breaker that opened turns half-open only ResetTimeout after the failure that
\* opened it, when calls do not overlap (OpenForResetTimeout).
THEOREM OpenLongEnough == HistorySpec => OpenForResetTimeout
<1>1. ASSUME TypeOK, HistoryInv, [Next /\ Record]_allVars,
             ~overlapped', state = "open", state' = "halfOpen"
      PROVE  now - openedFor >= ResetTimeout
  <2>1. Next /\ Record
    BY <1>1 DEF allVars, historyVars, vars, breaker
  <2>2. TimesKnown
    BY <1>1, <2>1 DEF HistoryInv, Record
  <2>3. PICK g \in Goroutines : Step(g)
    BY <1>1, <2>1 DEF Next, Tick, breaker
  <2>4. SetHalfOpen(g)
    BY <1>1, <2>3 DEF Step, Begin, AllowRequest, LoadLastFail, CheckElapsed, Close, Probe,
         FnReturns, FailureIncrement, FailureStamp, FailureLoadState, FailureZeroSuccesses, ZeroSuccesses,
         FailureOpen, SuccessIncrement, SuccessLoadState, SuccessEnough, ZeroFailures,
         CloseZeroSuccesses, Load, SetState, breaker
  <2>5. pc[g] = "halfOpen"
    BY <2>4 DEF SetHalfOpen, Goto
  <2>. QED  BY <1>1, <2>2, <2>5 DEF TimesKnown
<1>2. TypeOK /\ HistoryInv /\ [Next /\ Record]_allVars =>
        [~overlapped' /\ state = "open" /\ state' = "halfOpen" =>
            now - openedFor >= ResetTimeout]_<<vars, overlapped>>
  BY <1>1
<1>. QED  BY <1>2, HistoryKept, PTL DEF HistorySpec, allVars, OpenForResetTimeout

-----------------------------------------------------------------------------
(* Decisions whose accesses are not interleaved: CircuitBreaker implements AtomicBreaker *)

\* What g knows of the breaker's fields where it is, if nobody has come between.
Knows(g) ==
    /\ pc[g] \in {"loadLastFail", "elapsed", "halfOpen"} => state = "open"
    /\ pc[g] = "elapsed" => seen[g] = lastFailTime
    /\ pc[g] = "halfOpen" => now - lastFailTime >= ResetTimeout
    /\ pc[g] \in {"probe", "failZero", "succEnough"} => state = "halfOpen"
    /\ pc[g] \in {"failStamp", "failLoad"} => seen[g] = failures /\ failures > 0
    /\ pc[g] = "failOpen" => (\/ state = "halfOpen" /\ successes = 0
                              \/ state = "closed" /\ failures >= MaxFailures)
    /\ pc[g] = "close" => g \in Resetters \/ (state = "halfOpen" /\ successes >= HalfOpenLimit)
    /\ pc[g] \in {"zeroFailures", "zeroSuccesses"} => state = "closed"
    /\ pc[g] = "zeroSuccesses" => failures = 0

OneDecides == \A g, h \in Goroutines : Midway(g) /\ Midway(h) => g = h

\* Who resets the breaker executes nothing.
ResetterPlaces == \A g \in Resetters : pc[g] \in {"idle", "close", "zeroFailures", "zeroSuccesses"}

DecisionInv ==
    /\ contended \in BOOLEAN
    /\ ResetterPlaces
    /\ ~contended => OneDecides /\ \A g \in Goroutines : Knows(g)

OthersSettled(g) == \A h \in Goroutines \ {g} : ~Midway(h)

\* A step of g writes none but its own entries.
LEMMA OwnEntries ==
    ASSUME TypeOK, NEW g \in Goroutines, Step(g)
    PROVE  \A h \in Goroutines \ {g} : pc'[h] = pc[h] /\ seen'[h] = seen[h]
BY DEF TypeOK, Goto, Load, SetState, breaker, Step, Begin, AllowRequest, LoadLastFail, CheckElapsed,
       SetHalfOpen, Probe, FnReturns, FailureIncrement, FailureStamp, FailureLoadState,
       FailureZeroSuccesses, ZeroSuccesses, FailureOpen, SuccessIncrement, SuccessLoadState,
       SuccessEnough, Close, ZeroFailures, CloseZeroSuccesses

\* Where nobody is midway but g, a step of g that is an access leaves it so.
LEMMA SettledStay ==
    ASSUME TypeOK, NEW g \in Goroutines, Step(g), OthersSettled(g)
    PROVE  OthersSettled(g)'
BY OwnEntries DEF OthersSettled, Midway

\* g is in the breaker: its step is an access.
Accessing(g) == Step(g) /\ pc[g] \notin {"idle", "run"}

\* A step that neither begins a call nor executes a request is an access, and while
\* decisions are not interleaved nobody else is midway then.
LEMMA AccessesAlone ==
    ASSUME TypeOK, NEW g \in Goroutines, Accessing(g), ~Interferes
    PROVE  OthersSettled(g)
<1>1. Accesses(g)
  BY DEF Accessing, TypeOK, Goto, Load, SetState, breaker, Step, Begin, AllowRequest, LoadLastFail,
         CheckElapsed, SetHalfOpen, Probe, FnReturns, FailureIncrement, FailureStamp, FailureLoadState,
         FailureZeroSuccesses, ZeroSuccesses, FailureOpen, SuccessIncrement, SuccessLoadState,
         SuccessEnough, Close, ZeroFailures, CloseZeroSuccesses, Accesses
<1>. QED  BY <1>1 DEF Interferes, OthersSettled

\* The other steps change the place of g, who is midway neither before nor after.
LEMMA OtherSteps ==
    ASSUME TypeOK, NEW g \in Goroutines, Step(g), ~Accessing(g)
    PROVE  /\ Begin(g) \/ FnReturns(g)
           /\ UNCHANGED <<breaker, now, seen>>
           /\ \A h \in Goroutines \ {g} : pc'[h] = pc[h]
           /\ ~Midway(g) /\ ~Midway(g)'
<1>1. Begin(g) \/ FnReturns(g)
  BY DEF Accessing, Goto, Load, Step, AllowRequest, LoadLastFail, CheckElapsed, SetHalfOpen, Probe,
         FailureIncrement, FailureStamp, FailureLoadState, FailureZeroSuccesses, ZeroSuccesses, FailureOpen,
         SuccessIncrement, SuccessLoadState, SuccessEnough, Close, ZeroFailures, CloseZeroSuccesses
<1>2. UNCHANGED <<breaker, now, seen>> /\ ~Midway(g) /\ ~Midway(g)'
  BY <1>1 DEF TypeOK, Begin, FnReturns, Goto, Load, Midway, Goroutines
<1>. QED  BY <1>1, <1>2, OwnEntries

LEMMA KnowsStep ==
    ASSUME TypeOK, NEW g \in Goroutines, Accessing(g), Knows(g)
    PROVE  Knows(g)'
<1> USE BreakerAssumption DEF TypeOK, PCs, Goto, Load, SetState, breaker, Knows, Goroutines, HalfOpenLimit
<1>2. CASE AllowRequest(g) \/ LoadLastFail(g) \/ CheckElapsed(g)
  BY <1>2 DEF AllowRequest, LoadLastFail, CheckElapsed
<1>3. CASE SetHalfOpen(g) \/ Probe(g)
  BY <1>3 DEF SetHalfOpen, Probe
<1>5. CASE FailureIncrement(g) \/ FailureStamp(g) \/ FailureLoadState(g)
  BY <1>5 DEF FailureIncrement, FailureStamp, FailureLoadState, OpensClosed
<1>6. CASE FailureZeroSuccesses(g) \/ FailureOpen(g)
  BY <1>6 DEF FailureZeroSuccesses, ZeroSuccesses, FailureOpen
<1>7. CASE SuccessIncrement(g) \/ SuccessLoadState(g) \/ SuccessEnough(g)
  BY <1>7 DEF SuccessIncrement, SuccessLoadState, SuccessEnough
<1>8. CASE Close(g) \/ ZeroFailures(g) \/ CloseZeroSuccesses(g)
  BY <1>8 DEF Close, ZeroFailures, CloseZeroSuccesses, ZeroSuccesses
<1>9. ~Begin(g) /\ ~FnReturns(g)
  BY DEF Accessing, Begin, FnReturns
<1>. QED  BY <1>2, <1>3, <1>5, <1>6, <1>7, <1>8, <1>9 DEF Step, Accessing

\* Who is not midway claims nothing.
LEMMA SettledKnows == TypeOK => \A g \in Goroutines : ~Midway(g) => Knows(g)
BY DEF Midway, Knows, TypeOK, Goroutines

\* What a goroutine knows depends on the fields and on its own entries.
LEMMA KnowsSame ==
    ASSUME NEW g \in Goroutines, UNCHANGED breaker, pc'[g] = pc[g], seen'[g] = seen[g], Knows(g),
           pc[g] = "halfOpen" => now' - lastFailTime >= ResetTimeout
    PROVE  Knows(g)'
BY DEF Knows, breaker

LEMMA PlacesStep ==
    ASSUME TypeOK, NEW g \in Goroutines, Step(g), ResetterPlaces
    PROVE  ResetterPlaces'
<1>1. \A h \in Goroutines \ {g} : pc'[h] = pc[h]
  BY OwnEntries
<1>2. ASSUME g \in Resetters
      PROVE  pc'[g] \in {"idle", "close", "zeroFailures", "zeroSuccesses"}
  BY <1>2, BreakerAssumption DEF TypeOK, ResetterPlaces, Goto, Load, SetState, Step, Begin, AllowRequest,
         LoadLastFail, CheckElapsed, SetHalfOpen, Probe, FnReturns, FailureIncrement, FailureStamp,
         FailureLoadState, FailureZeroSuccesses, ZeroSuccesses, FailureOpen, SuccessIncrement,
         SuccessLoadState, SuccessEnough, Close, ZeroFailures, CloseZeroSuccesses
<1>. QED  BY <1>1, <1>2 DEF ResetterPlaces, Goroutines

LEMMA DecisionStep ==
    ASSUME TypeOK, TypeOK', DecisionInv, [Next /\ Record]_allVars
    PROVE  DecisionInv'
<1>1. CASE UNCHANGED allVars
  BY <1>1 DEF allVars, historyVars, vars, breaker, DecisionInv, ResetterPlaces, OneDecides, Midway, Knows
<1>2. CASE Next /\ Record
  <2>1. contended' = (contended \/ Interferes)
    BY <1>2 DEF Record
  <2>2. contended' \in BOOLEAN
    BY <2>1, Zenon
  <2>6. ResetterPlaces'
    <3>1. ResetterPlaces
      BY DEF DecisionInv
    <3>2. CASE Tick
      BY <3>1, <3>2 DEF Tick, ResetterPlaces
    <3>. QED  BY <1>2, <3>1, <3>2, PlacesStep DEF Next
  <2>. SUFFICES ASSUME ~contended'
                PROVE  OneDecides' /\ \A g \in Goroutines : Knows(g)'
    BY <2>2, <2>6 DEF DecisionInv
  <2>3. ~Interferes /\ OneDecides /\ \A g \in Goroutines : Knows(g)
    BY <2>1 DEF DecisionInv
  <2>7. \A g \in Goroutines : ~Midway(g)' => Knows(g)'
    <3>1. (TypeOK => \A g \in Goroutines : ~Midway(g) => Knows(g))'
      BY SettledKnows, PTL
    <3>. QED  BY <3>1
  <2>4. CASE Tick
    <3>1. UNCHANGED <<breaker, pc, seen>> /\ now' = now + 1
      BY <2>4 DEF Tick
    <3>2. OneDecides'
      BY <2>3, <3>1 DEF OneDecides, Midway
    <3>3. ASSUME NEW g \in Goroutines, pc[g] = "halfOpen"
          PROVE  now' - lastFailTime >= ResetTimeout
      BY <2>3, <3>1, <3>3, BreakerAssumption DEF Knows, TypeOK
    <3>. QED  BY <2>3, <3>1, <3>2, <3>3, KnowsSame
  <2>5. ASSUME NEW g \in Goroutines, Step(g)
        PROVE  OneDecides' /\ \A h \in Goroutines : Knows(h)'
    <3>1. CASE Accessing(g)
      <4>1. OthersSettled(g) /\ OthersSettled(g)'
        BY <2>3, <2>5, <3>1, AccessesAlone, SettledStay
      <4>2. OneDecides'
        BY <4>1 DEF OneDecides, OthersSettled
      <4>3. Knows(g)'
        BY <2>3, <3>1, KnowsStep
      <4>4. \A h \in Goroutines \ {g} : Knows(h)'
        BY <2>7, <4>1 DEF OthersSettled
      <4>. QED  BY <4>2, <4>3, <4>4
    <3>2. CASE ~Accessing(g)
      <4>1. /\ UNCHANGED <<breaker, now, seen>>
            /\ \A h \in Goroutines \ {g} : pc'[h] = pc[h]
            /\ ~Midway(g) /\ ~Midway(g)'
        BY <2>5, <3>2, OtherSteps
      <4>2. \A h \in Goroutines \ {g} : Midway(h)' = Midway(h)
        BY <4>1 DEF Midway
      <4>3. OneDecides'
        BY <2>3, <4>1, <4>2 DEF OneDecides
      <4>4. Knows(g)'
        BY <2>7, <4>1
      <4>5. ASSUME NEW h \in Goroutines \ {g}
            PROVE  Knows(h)'
        <5>1. pc[h] = "halfOpen" => now' - lastFailTime >= ResetTimeout
          BY <2>3, <4>1 DEF Knows
        <5>. QED  BY <2>3, <4>1, <5>1, KnowsSame
      <4>. QED  BY <4>3, <4>4, <4>5
    <3>. QED  BY <3>1, <3>2
  <2>. QED  BY <1>2, <2>4, <2>5 DEF Next
<1>. QED  BY <1>1, <1>2

\* While no access falls between those of another decision, one goroutine at most is
\* midway, and what it has loaded, or found the state to be, is still so.
THEOREM DecisionKept == HistorySpec => [](TypeOK /\ DecisionInv)
<1>1. HistoryInit => DecisionInv
  <2>. SUFFICES ASSUME HistoryInit
                PROVE  DecisionInv
    OBVIOUS
  <2>1. contended = FALSE /\ \A g \in Goroutines : pc[g] = "idle"
    BY DEF HistoryInit, Init
  <2>2. OneDecides /\ \A g \in Goroutines : Knows(g)
    BY <2>1 DEF OneDecides, Midway, Knows
  <2>3. contended \in BOOLEAN
    BY <2>1, Zenon
  <2>4. ResetterPlaces
    BY <2>1 DEF ResetterPlaces, Goroutines
  <2>. QED  BY <2>2, <2>3, <2>4 DEF DecisionInv
<1>2. TypeOK /\ TypeOK' /\ DecisionInv /\ [Next /\ Record]_allVars => DecisionInv'
  BY DecisionStep
<1>. QED  BY <1>1, <1>2, HistoryRefines, TypeCorrect, PTL DEF HistorySpec, allVars

\* Decided, where nobody but g is midway.
ClosingBy(g) ==
    \/ pc[g] \in {"zeroFailures", "zeroSuccesses"}
    \/ state = "halfOpen" /\ successes >= HalfOpenLimit /\ pc[g] \in {"succLoad", "succEnough"}
    \/ g \in Callers /\ pc[g] = "close"

OpeningBy(g) ==
    \/ pc[g] \in {"failZero", "failOpen"}
    \/ pc[g] = "failLoad" /\ (state = "halfOpen" \/ OpensClosed(g))

Remaining == IF now - lastFailTime >= ResetTimeout THEN 0 ELSE ResetTimeout - (now - lastFailTime)

DecidedBy(g) ==
    [state |-> IF ClosingBy(g) THEN "closed" ELSE IF OpeningBy(g) THEN "open" ELSE state,
     failures |-> IF ClosingBy(g) THEN 0
                  ELSE Counted(IF pc[g] = "failStamp" THEN failures - 1 ELSE failures, MaxFailures),
     successes |-> IF ClosingBy(g) \/ (OpeningBy(g) /\ state = "halfOpen") THEN 0
                   ELSE Counted(successes, HalfOpenLimit),
     wait |-> Remaining]

LEMMA DecidedAlone == TypeOK => \A g \in Goroutines : OthersSettled(g) => Decided = DecidedBy(g)
<1>. SUFFICES ASSUME NEW g \in Goroutines, OthersSettled(g)
              PROVE  Decided = DecidedBy(g)
  OBVIOUS
<1>1. Closing <=> ClosingBy(g)
  <2>1. At({"zeroFailures", "zeroSuccesses"}) <=> pc[g] \in {"zeroFailures", "zeroSuccesses"}
    BY DEF At, OthersSettled, Midway
  <2>2. At({"succLoad", "succEnough"}) <=> pc[g] \in {"succLoad", "succEnough"}
    BY DEF At, OthersSettled, Midway
  <2>3. (\E h \in Callers : pc[h] = "close") <=> g \in Callers /\ pc[g] = "close"
    BY BreakerAssumption DEF OthersSettled, Midway, Goroutines
  <2>. QED  BY <2>1, <2>2, <2>3 DEF Closing, ClosingBy
<1>2. Opening <=> OpeningBy(g)
  BY DEF Opening, OpeningBy, At, OthersSettled, Midway
<1>3. At({"failStamp"}) <=> pc[g] = "failStamp"
  BY DEF At, OthersSettled, Midway
<1>. QED  BY <1>1, <1>2, <1>3 DEF Decided, DecidedBy, Remaining

LEMMA DecidedNext == (TypeOK => \A g \in Goroutines : OthersSettled(g) => Decided = DecidedBy(g))'
BY DecidedAlone, PTL

\* Nothing but the places of goroutines that are not midway changes: neither does Decided.
LEMMA DecidedSame ==
    ASSUME NEW g \in Goroutines, UNCHANGED <<breaker, now, seen>>, ~Midway(g), ~Midway(g)',
           \A h \in Goroutines \ {g} : pc'[h] = pc[h]
    PROVE  Decided' = Decided
<1>1. \A h \in Goroutines : h = g \/ pc'[h] = pc[h]
  OBVIOUS
<1>2. /\ pc[g] \notin {"zeroFailures", "zeroSuccesses", "succLoad", "succEnough", "failZero", "failOpen", "failLoad", "failStamp"}
      /\ pc'[g] \notin {"zeroFailures", "zeroSuccesses", "succLoad", "succEnough", "failZero", "failOpen", "failLoad", "failStamp"}
      /\ g \in Callers => pc[g] # "close" /\ pc'[g] # "close"
  BY BreakerAssumption DEF Midway, Goroutines
<1>3. \A h \in Callers : h \in Goroutines
  BY DEF Goroutines
<1>4. Closing' <=> Closing
  BY <1>1, <1>2, <1>3 DEF Closing, At, breaker
<1>5. Opening' <=> Opening
  BY <1>1, <1>2 DEF Opening, OpensClosed, At, breaker
<1>6. At({"failStamp"})' <=> At({"failStamp"})
  BY <1>1, <1>2 DEF At
<1>. QED  BY <1>4, <1>5, <1>6 DEF Decided, breaker, Counted

CallsNow == [g \in Callers |-> CallOf(g)]

\* The step of g moves its call, if g is a caller.
LEMMA CallMoves ==
    ASSUME NEW g \in Callers, \A h \in Goroutines \ {g} : pc'[h] = pc[h]
    PROVE  CallsNow' = [CallsNow EXCEPT ![g] = CallOf(g)']
<1>1. \A h \in Callers \ {g} : CallOf(h)' = CallOf(h)
  BY DEF CallOf, Goroutines
<1>. QED  BY <1>1 DEF CallsNow

\* The calls stay where they are, if g stays in its own, or is a resetter.
LEMMA CallsStay ==
    ASSUME NEW g \in Goroutines, \A h \in Goroutines \ {g} : pc'[h] = pc[h],
           g \notin Callers \/ CallOf(g)' = CallOf(g)
    PROVE  CallsNow' = CallsNow
<1>1. \A h \in Callers : CallOf(h)' = CallOf(h)
  BY DEF CallOf, Goroutines
<1>. QED  BY <1>1 DEF CallsNow

\* The accesses after which a decision is no nearer, or was taken already.
LEMMA SilentSteps ==
    ASSUME TypeOK, NEW g \in Goroutines, Accessing(g), Knows(g),
           \/ AllowRequest(g) /\ state # "closed"
           \/ LoadLastFail(g)
           \/ CheckElapsed(g) /\ pc'[g] = "halfOpen"
           \/ FailureIncrement(g) \/ FailureLoadState(g) \/ FailureZeroSuccesses(g) \/ FailureOpen(g)
           \/ SuccessLoadState(g) \/ SuccessEnough(g)
           \/ Close(g) /\ g \in Callers
           \/ ZeroFailures(g) \/ CloseZeroSuccesses(g),
           ResetterPlaces
    PROVE  DecidedBy(g)' = DecidedBy(g) /\ CallOf(g)' = CallOf(g)
<1> USE BreakerAssumption DEF TypeOK, PCs, Goto, Load, SetState, breaker, Knows, Goroutines, HalfOpenLimit,
        DecidedBy, ClosingBy, OpeningBy, OpensClosed, Counted, Remaining, CallOf
<1>1. CASE AllowRequest(g) /\ state # "closed"
  BY <1>1 DEF AllowRequest
<1>2. CASE LoadLastFail(g) \/ (CheckElapsed(g) /\ pc'[g] = "halfOpen")
  BY <1>2 DEF LoadLastFail, CheckElapsed
<1>3. CASE FailureIncrement(g)
  BY <1>3 DEF FailureIncrement
<1>4. CASE FailureLoadState(g)
  BY <1>4 DEF FailureLoadState
<1>5. CASE FailureZeroSuccesses(g)
  BY <1>5 DEF FailureZeroSuccesses, ZeroSuccesses
<1>6. CASE FailureOpen(g)
  BY <1>6 DEF FailureOpen
<1>7. CASE SuccessLoadState(g)
  BY <1>7 DEF SuccessLoadState
<1>10. CASE SuccessEnough(g)
  <2>1. /\ pc[g] = "succEnough" /\ state = "halfOpen" /\ g \in Callers
        /\ pc'[g] = IF successes >= HalfOpenLimit THEN "close" ELSE "idle"
        /\ UNCHANGED <<breaker, now>>
    BY <1>10 DEF SuccessEnough, ResetterPlaces
  <2>2. CallOf(g)' = CallOf(g)
    BY <2>1
  <2>3. CASE successes >= HalfOpenLimit
    <3>1. DecidedBy(g) = [state |-> "closed", failures |-> 0, successes |-> 0, wait |-> Remaining]
      BY <2>1, <2>3
    <3>2. DecidedBy(g)' = [state |-> "closed", failures |-> 0, successes |-> 0, wait |-> Remaining]
      BY <2>1, <2>3
    <3>. HIDE DEF DecidedBy, CallOf
    <3>. QED  BY <2>2, <3>1, <3>2
  <2>4. CASE ~(successes >= HalfOpenLimit)
    BY <2>1, <2>2, <2>4
  <2>. QED  BY <2>3, <2>4
<1>8. CASE Close(g) /\ g \in Callers
  BY <1>8 DEF Close
<1>9. CASE ZeroFailures(g) \/ CloseZeroSuccesses(g)
  BY <1>9 DEF ZeroFailures, CloseZeroSuccesses, ZeroSuccesses
<1>. QED  BY <1>1, <1>2, <1>3, <1>4, <1>5, <1>6, <1>7, <1>8, <1>9, <1>10

\* The access at which a decision is taken, and what it does to the atomic breaker.
LEMMA AdmitSteps ==
    ASSUME TypeOK, NEW g \in Goroutines, Accessing(g), Knows(g),
           \/ AllowRequest(g) /\ state = "closed"
           \/ SetHalfOpen(g)
           \/ Probe(g) /\ pc'[g] = "run"
    PROVE  /\ Atomic!Admits(DecidedBy(g)) /\ DecidedBy(g)' = Atomic!Admitted(DecidedBy(g))
           /\ CallOf(g) = "asking" /\ CallOf(g)' = "executing"
<1> USE BreakerAssumption DEF TypeOK, PCs, Goto, Load, SetState, breaker, Knows, HalfOpenLimit,
        DecidedBy, ClosingBy, OpeningBy, OpensClosed, Counted, Remaining, CallOf, Atomic!Admits, Atomic!Admitted
<1>1. CASE AllowRequest(g) /\ state = "closed"
  BY <1>1 DEF AllowRequest
<1>2. CASE SetHalfOpen(g)
  BY <1>2 DEF SetHalfOpen
<1>3. CASE Probe(g) /\ pc'[g] = "run"
  BY <1>3 DEF Probe
<1>. QED  BY <1>1, <1>2, <1>3

LEMMA RefuseSteps ==
    ASSUME TypeOK, NEW g \in Goroutines, Accessing(g), Knows(g),
           (CheckElapsed(g) \/ Probe(g)) /\ pc'[g] = "idle"
    PROVE  /\ ~Atomic!Admits(DecidedBy(g)) /\ DecidedBy(g)' = DecidedBy(g)
           /\ CallOf(g) = "asking" /\ CallOf(g)' = "out"
<1> USE BreakerAssumption DEF TypeOK, PCs, Goto, Load, breaker, Knows, HalfOpenLimit,
        DecidedBy, ClosingBy, OpeningBy, OpensClosed, Counted, Remaining, CallOf, Atomic!Admits
<1>1. CASE CheckElapsed(g)
  BY <1>1 DEF CheckElapsed
<1>2. CASE Probe(g)
  BY <1>2 DEF Probe
<1>. QED  BY <1>1, <1>2

LEMMA FailStep ==
    ASSUME TypeOK, NEW g \in Goroutines, FailureStamp(g), Knows(g)
    PROVE  /\ DecidedBy(g)' = Atomic!CountFailure(DecidedBy(g))
           /\ CallOf(g) = "executing" /\ CallOf(g)' = "out"
<1> USE BreakerAssumption DEF TypeOK, PCs, Goto, breaker, Knows, HalfOpenLimit, FailureStamp,
        DecidedBy, ClosingBy, OpeningBy, OpensClosed, Counted, Remaining, CallOf
<1>1. CallOf(g) = "executing" /\ CallOf(g)' = "out"
  OBVIOUS
<1>2. DecidedBy(g) = [state |-> state, failures |-> Counted(failures - 1, MaxFailures),
                      successes |-> Counted(successes, HalfOpenLimit), wait |-> Remaining]
  OBVIOUS
<1>3. Counted(failures, MaxFailures) = Atomic!Min2(MaxFailures, Counted(failures - 1, MaxFailures) + 1)
  BY DEF Atomic!Min2
<1>4. DecidedBy(g)' =
        [state |-> IF state = "halfOpen" \/ (state = "closed" /\ Counted(failures, MaxFailures) >= MaxFailures)
                   THEN "open" ELSE state,
         failures |-> Counted(failures, MaxFailures),
         successes |-> IF state = "halfOpen" THEN 0 ELSE Counted(successes, HalfOpenLimit),
         wait |-> ResetTimeout]
  OBVIOUS
<1>5. Atomic!CountFailure(DecidedBy(g)) = DecidedBy(g)'
  BY <1>2, <1>3, <1>4 DEF Atomic!CountFailure
<1>. QED  BY <1>1, <1>5

LEMMA CountedSuccess ==
    ASSUME NEW st, NEW f, NEW n, NEW w
    PROVE  Atomic!CountSuccess([state |-> st, failures |-> f, successes |-> n, wait |-> w]) =
             IF st = "halfOpen" /\ Atomic!Min2(HalfOpenLimit, n + 1) >= HalfOpenLimit
             THEN [state |-> "closed", failures |-> 0, successes |-> 0, wait |-> w]
             ELSE [state |-> st, failures |-> f, successes |-> Atomic!Min2(HalfOpenLimit, n + 1), wait |-> w]
<1>. DEFINE c == [state |-> st, failures |-> f, successes |-> n, wait |-> w]
            k == Atomic!Min2(HalfOpenLimit, n + 1)
<1>1. c.state = st /\ c.successes = n
  OBVIOUS
<1>2. Atomic!CountSuccess(c) = IF c.state = "halfOpen" /\ Atomic!Min2(HalfOpenLimit, c.successes + 1) >= HalfOpenLimit
                               THEN [c EXCEPT !.state = "closed", !.failures = 0, !.successes = 0]
                               ELSE [c EXCEPT !.successes = Atomic!Min2(HalfOpenLimit, c.successes + 1)]
  BY Zenon DEF Atomic!CountSuccess
<1>3. [c EXCEPT !.state = "closed", !.failures = 0, !.successes = 0] =
        [state |-> "closed", failures |-> 0, successes |-> 0, wait |-> w]
  <2>1. c \in [state : {st}, failures : {f}, successes : {n}, wait : {w}]
    OBVIOUS
  <2>. DEFINE e == [c EXCEPT !.state = "closed", !.failures = 0, !.successes = 0]
  <2>. HIDE DEF c
  <2>2. e \in [state : {"closed"}, failures : {0}, successes : {0}, wait : {w}]
    BY <2>1
  <2>3. e = [state |-> "closed", failures |-> 0, successes |-> 0, wait |-> w]
    <3>. HIDE DEF e
    <3>. QED  BY <2>2
  <2>. QED  BY <2>3, Zenon
<1>4. [c EXCEPT !.successes = k] = [state |-> st, failures |-> f, successes |-> k, wait |-> w]
  <2>. HIDE DEF k
  <2>. QED  OBVIOUS
<1>5. Atomic!CountSuccess(c) = IF st = "halfOpen" /\ k >= HalfOpenLimit
                               THEN [c EXCEPT !.state = "closed", !.failures = 0, !.successes = 0]
                               ELSE [c EXCEPT !.successes = k]
  <2>. HIDE DEF c
  <2>. QED  BY <1>1, <1>2
<1>. QED  BY <1>3, <1>4, <1>5, Zenon

LEMMA SucceedStep ==
    ASSUME TypeOK, NEW g \in Goroutines, SuccessIncrement(g), Knows(g)
    PROVE  /\ DecidedBy(g)' = Atomic!CountSuccess(DecidedBy(g))
           /\ CallOf(g) = "executing" /\ CallOf(g)' = "out"
<1> USE BreakerAssumption DEF TypeOK, PCs, Goto, breaker, Knows, HalfOpenLimit, SuccessIncrement,
        DecidedBy, ClosingBy, OpeningBy, OpensClosed, Counted, Remaining, CallOf
<1>1. CallOf(g) = "executing" /\ CallOf(g)' = "out"
  OBVIOUS
<1>2. DecidedBy(g) = [state |-> state, failures |-> Counted(failures, MaxFailures),
                      successes |-> Counted(successes, HalfOpenLimit), wait |-> Remaining]
  OBVIOUS
<1>3. Counted(successes + 1, HalfOpenLimit) = Atomic!Min2(HalfOpenLimit, Counted(successes, HalfOpenLimit) + 1)
  BY DEF Atomic!Min2
<1>7. Atomic!CountSuccess(DecidedBy(g)) =
        IF state = "halfOpen" /\ Atomic!Min2(HalfOpenLimit, Counted(successes, HalfOpenLimit) + 1) >= HalfOpenLimit
        THEN [state |-> "closed", failures |-> 0, successes |-> 0, wait |-> Remaining]
        ELSE [state |-> state, failures |-> Counted(failures, MaxFailures),
              successes |-> Atomic!Min2(HalfOpenLimit, Counted(successes, HalfOpenLimit) + 1), wait |-> Remaining]
  <2>. HIDE DEF DecidedBy, Counted, Remaining, HalfOpenLimit
  <2>1. Atomic!CountSuccess([state |-> state, failures |-> Counted(failures, MaxFailures),
                             successes |-> Counted(successes, HalfOpenLimit), wait |-> Remaining]) =
            IF state = "halfOpen" /\ Atomic!Min2(HalfOpenLimit, Counted(successes, HalfOpenLimit) + 1) >= HalfOpenLimit
            THEN [state |-> "closed", failures |-> 0, successes |-> 0, wait |-> Remaining]
            ELSE [state |-> state, failures |-> Counted(failures, MaxFailures),
                  successes |-> Atomic!Min2(HalfOpenLimit, Counted(successes, HalfOpenLimit) + 1), wait |-> Remaining]
    BY CountedSuccess
  <2>. QED  BY <1>2, <2>1, Zenon
<1>4. ASSUME state = "halfOpen" /\ successes + 1 >= HalfOpenLimit
      PROVE  DecidedBy(g)' = Atomic!CountSuccess(DecidedBy(g))
  <2>1. DecidedBy(g)' = [state |-> "closed", failures |-> 0, successes |-> 0, wait |-> Remaining]
    BY <1>4
  <2>2. Counted(successes + 1, HalfOpenLimit) >= HalfOpenLimit
    BY <1>4
  <2>. HIDE DEF DecidedBy, ClosingBy, OpeningBy, Counted, Remaining, HalfOpenLimit
  <2>3. Atomic!CountSuccess(DecidedBy(g)) = [state |-> "closed", failures |-> 0, successes |-> 0, wait |-> Remaining]
    BY <1>3, <1>4, <1>7, <2>2, Zenon
  <2>. QED  BY <2>1, <2>3
<1>5. ASSUME ~(state = "halfOpen" /\ successes + 1 >= HalfOpenLimit)
      PROVE  DecidedBy(g)' = Atomic!CountSuccess(DecidedBy(g))
  <2>1. DecidedBy(g)' = [state |-> state, failures |-> Counted(failures, MaxFailures),
                         successes |-> Counted(successes + 1, HalfOpenLimit), wait |-> Remaining]
    BY <1>5
  <2>2. ~(state = "halfOpen" /\ Counted(successes + 1, HalfOpenLimit) >= HalfOpenLimit)
    BY <1>5
  <2>. HIDE DEF DecidedBy, ClosingBy, OpeningBy, Counted, Remaining, HalfOpenLimit
  <2>3. Atomic!CountSuccess(DecidedBy(g)) =
          [state |-> state, failures |-> Counted(failures, MaxFailures),
           successes |-> Counted(successes + 1, HalfOpenLimit), wait |-> Remaining]
    BY <1>3, <1>5, <1>7, <2>2, Zenon
  <2>. QED  BY <2>1, <2>3
<1>6. DecidedBy(g)' = Atomic!CountSuccess(DecidedBy(g))
  <2>. HIDE DEF DecidedBy
  <2>. QED  BY <1>4, <1>5
<1>. QED  BY <1>1, <1>6

LEMMA ResetStep ==
    ASSUME TypeOK, NEW g \in Resetters, Close(g), Knows(g)
    PROVE  DecidedBy(g)' = Atomic!WhenReset(DecidedBy(g))
BY BreakerAssumption DEF TypeOK, PCs, Goto, SetState, Close, breaker, HalfOpenLimit, Goroutines,
   DecidedBy, ClosingBy, OpeningBy, OpensClosed, Counted, Remaining, Atomic!WhenReset, Atomic!NewCircuitBreaker

\* Every access is a step of AtomicBreaker or changes nothing of it, if nobody else is midway.
LEMMA AccessImplements ==
    ASSUME TypeOK, TypeOK', NEW g \in Goroutines, Accessing(g), Knows(g), ResetterPlaces, OthersSettled(g), OthersSettled(g)'
    PROVE  [Atomic!Next]_(Atomic!vars)
<1>0. /\ Decided = DecidedBy(g) /\ Decided' = DecidedBy(g)'
      /\ \A h \in Goroutines \ {g} : pc'[h] = pc[h]
      /\ g \in Callers \/ g \in Resetters
      /\ pc[g] # "idle" /\ Step(g)
  BY DecidedAlone, DecidedNext, OwnEntries DEF Accessing, Goroutines
<1>1. ASSUME NEW there, g \in Callers, CallOf(g)' = there
      PROVE  CallsNow' = [CallsNow EXCEPT ![g] = there] /\ CallsNow[g] = CallOf(g)
  BY <1>0, <1>1, CallMoves DEF CallsNow
<1>2. CASE \/ AllowRequest(g) /\ state # "closed"
           \/ LoadLastFail(g)
           \/ CheckElapsed(g) /\ pc'[g] = "halfOpen"
           \/ FailureIncrement(g) \/ FailureLoadState(g) \/ FailureZeroSuccesses(g) \/ FailureOpen(g)
           \/ SuccessLoadState(g) \/ SuccessEnough(g)
           \/ Close(g) /\ g \in Callers
           \/ ZeroFailures(g) \/ CloseZeroSuccesses(g)
  <2>1. Decided' = Decided /\ CallOf(g)' = CallOf(g)
    BY <1>0, <1>2, SilentSteps
  <2>2. CallsNow' = CallsNow
    BY <1>0, <2>1, CallsStay
  <2>. QED  BY <2>1, <2>2 DEF Atomic!vars, CallsNow
<1>3. CASE g \notin Callers /\ Close(g)
  <2>1. Decided' = Atomic!WhenReset(Decided)
    BY <1>0, <1>3, ResetStep
  <2>2. CallsNow' = CallsNow
    BY <1>0, <1>3, CallsStay
  <2>. QED  BY <2>1, <2>2 DEF Atomic!Next, Atomic!Reset, CallsNow
<1>4. CASE g \in Callers
  <2>1. CASE \/ AllowRequest(g) /\ state = "closed"
             \/ SetHalfOpen(g)
             \/ Probe(g) /\ pc'[g] = "run"
    <3>1. /\ Atomic!Admits(Decided) /\ Decided' = Atomic!Admitted(Decided)
          /\ CallOf(g) = "asking" /\ CallOf(g)' = "executing"
      BY <1>0, <2>1, AdmitSteps
    <3>2. Atomic!Admit(g)
      BY <1>1, <1>4, <3>1 DEF Atomic!Admit, Atomic!Moves, CallsNow
    <3>. QED  BY <1>4, <3>2 DEF Atomic!Next
  <2>2. CASE (CheckElapsed(g) \/ Probe(g)) /\ pc'[g] = "idle"
    <3>1. /\ ~Atomic!Admits(Decided) /\ Decided' = Decided
          /\ CallOf(g) = "asking" /\ CallOf(g)' = "out"
      BY <1>0, <2>2, RefuseSteps
    <3>2. Atomic!Refuse(g)
      BY <1>1, <1>4, <3>1 DEF Atomic!Refuse, Atomic!Moves, CallsNow
    <3>. QED  BY <1>4, <3>2 DEF Atomic!Next
  <2>3. CASE FailureStamp(g)
    <3>1. /\ Decided' = Atomic!CountFailure(Decided)
          /\ CallOf(g) = "executing" /\ CallOf(g)' = "out"
      BY <1>0, <2>3, FailStep
    <3>2. Atomic!Fail(g)
      BY <1>1, <1>4, <3>1 DEF Atomic!Fail, Atomic!Moves, CallsNow
    <3>. QED  BY <1>4, <3>2 DEF Atomic!Next
  <2>4. CASE SuccessIncrement(g)
    <3>1. /\ Decided' = Atomic!CountSuccess(Decided)
          /\ CallOf(g) = "executing" /\ CallOf(g)' = "out"
      BY <1>0, <2>4, SucceedStep
    <3>2. Atomic!Succeed(g)
      BY <1>1, <1>4, <3>1 DEF Atomic!Succeed, Atomic!Moves, CallsNow
    <3>. QED  BY <1>4, <3>2 DEF Atomic!Next
  <2>5. (CheckElapsed(g) => pc'[g] \in {"halfOpen", "idle"}) /\ (Probe(g) => pc'[g] \in {"run", "idle"})
    BY DEF CheckElapsed, Probe, Load, Goto, TypeOK
  <2>6. ~Begin(g) /\ ~FnReturns(g)
    BY DEF Accessing, Begin, FnReturns, Load, Goto
  <2>. QED  BY <1>0, <1>2, <1>4, <2>1, <2>2, <2>3, <2>4, <2>5, <2>6 DEF Step
<1>5. CASE g \notin Callers
  BY <1>0, <1>2, <1>3, <1>5 DEF ResetterPlaces, Step, Begin, AllowRequest, LoadLastFail, CheckElapsed,
     SetHalfOpen, Probe, FnReturns, FailureIncrement, FailureStamp, FailureLoadState, FailureZeroSuccesses,
     ZeroSuccesses, FailureOpen, SuccessIncrement, SuccessLoadState, SuccessEnough, Goto, Load
<1>. QED  BY <1>4, <1>5

\* So is every other step, whoever is midway.
LEMMA OtherImplements ==
    ASSUME TypeOK, NEW g \in Goroutines, Step(g), ~Accessing(g)
    PROVE  [Atomic!Next]_(Atomic!vars)
<1>1. /\ Begin(g) \/ FnReturns(g)
      /\ \A h \in Goroutines \ {g} : pc'[h] = pc[h]
      /\ Decided' = Decided
  BY OtherSteps, DecidedSame
<1>2. CASE g \in Callers /\ Begin(g)
  <2>1. CallOf(g) = "out" /\ CallOf(g)' = "asking"
    BY <1>2 DEF Begin, CallOf, TypeOK, Goroutines
  <2>2. CallsNow' = [CallsNow EXCEPT ![g] = "asking"] /\ CallsNow[g] = "out"
    BY <1>1, <1>2, <2>1, CallMoves DEF CallsNow
  <2>3. Atomic!Ask(g)
    BY <1>1, <2>2 DEF Atomic!Ask, Atomic!Moves, CallsNow
  <2>. QED  BY <1>2, <2>3 DEF Atomic!Next
<1>3. CASE g \notin Callers \/ FnReturns(g)
  <2>1. g \notin Callers \/ CallOf(g)' = CallOf(g)
    BY <1>3 DEF FnReturns, Load, Goto, CallOf, TypeOK
  <2>2. CallsNow' = CallsNow
    BY <1>1, <2>1, CallsStay
  <2>. QED  BY <1>1, <2>2 DEF Atomic!vars, CallsNow
<1>. QED  BY <1>1, <1>2, <1>3

\* A tick shortens the time an open breaker has to wait.
LEMMA TickImplements ==
    ASSUME TypeOK, Tick
    PROVE  [Atomic!Next]_(Atomic!vars)
<1>1. UNCHANGED <<breaker, pc, seen>> /\ now' = now + 1
  BY DEF Tick
<1>2. Closing' = Closing /\ Opening' = Opening /\ At({"failStamp"})' = At({"failStamp"})
  BY <1>1 DEF Closing, Opening, OpensClosed, At, breaker
<1>3. Remaining' = IF Remaining > 0 THEN Remaining - 1 ELSE 0
  BY <1>1, BreakerAssumption DEF Remaining, TypeOK, breaker
<1>4. Decided' = [Decided EXCEPT !.wait = Remaining']
  BY <1>1, <1>2 DEF Decided, Remaining, breaker, Counted
<1>5. Decided.wait = Remaining
  BY DEF Decided, Remaining
<1>6. Decided' = Atomic!Waiting(Decided)
  BY <1>3, <1>4, <1>5 DEF Atomic!Waiting
<1>7. CallsNow' = CallsNow
  BY <1>1 DEF CallsNow, CallOf
<1>. QED  BY <1>6, <1>7 DEF Atomic!Next, Atomic!Tick, CallsNow

\* While no access falls between those of another decision, CircuitBreaker implements
\* AtomicBreaker (ActsAtOnce): each decision takes effect in one of its accesses, and
\* nobody sees it half done.
THEOREM ImplementsAtomic == HistorySpec => ActsAtOnce
<1>1. HistoryInit => Atomic!Init
  <2>. SUFFICES ASSUME HistoryInit
                PROVE  Atomic!Init
    OBVIOUS
  <2>1. /\ state = "closed" /\ failures = 0 /\ successes = 0 /\ lastFailTime = 0 /\ now = ResetTimeout
        /\ \A g \in Goroutines : pc[g] = "idle"
    BY DEF HistoryInit, Init
  <2>2. ~Closing /\ ~Opening /\ ~At({"failStamp"})
    BY <2>1 DEF Closing, Opening, At, Goroutines
  <2>3. Decided = Atomic!NewCircuitBreaker
    BY <2>1, <2>2, BreakerAssumption DEF Decided, Counted, HalfOpenLimit, Atomic!NewCircuitBreaker
  <2>4. \A g \in Callers : CallOf(g) = "out"
    BY <2>1 DEF CallOf, Goroutines
  <2>. QED  BY <2>3, <2>4 DEF Atomic!Init
<1>2. ASSUME TypeOK, TypeOK', DecisionInv, [Next /\ Record]_allVars, ~contended'
      PROVE  [Atomic!Next]_(Atomic!vars)
  <2>1. CASE UNCHANGED allVars
    BY <2>1 DEF allVars, vars, breaker, Atomic!vars, Decided, Closing, Opening, OpensClosed, At, CallOf, Counted
  <2>2. CASE Next /\ Record
    <3>1. ~contended /\ ~Interferes
      BY <1>2, <2>2 DEF Record
    <3>2. ASSUME NEW g \in Goroutines, Step(g), Accessing(g)
          PROVE  [Atomic!Next]_(Atomic!vars)
      <4>1. OthersSettled(g) /\ OthersSettled(g)'
        BY <1>2, <3>1, <3>2, AccessesAlone, SettledStay
      <4>2. Knows(g) /\ ResetterPlaces
        BY <1>2, <3>1 DEF DecisionInv
      <4>. QED  BY <1>2, <3>2, <4>1, <4>2, AccessImplements
    <3>. QED  BY <1>2, <2>2, <3>2, TickImplements, OtherImplements DEF Next
  <2>. QED  BY <1>2, <2>1, <2>2
<1>3. TypeOK /\ TypeOK' /\ DecisionInv /\ [Next /\ Record]_allVars =>
        [~contended' => [Atomic!Next]_(Atomic!vars)]_<<vars, contended>>
  BY <1>2
<1>. QED  BY <1>1, <1>3, DecisionKept, PTL DEF HistorySpec, allVars, ActsAtOnce
=============================================================================
