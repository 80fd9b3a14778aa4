--------------------------- MODULE BreakerManager ---------------------------
(***************************************************************************)
(* The circuit breaker manager (internal/concurrency/circuit_breaker.go):  *)
(* a map of named breakers, which are created on first use and shared by   *)
(* all calls of that name.  A call looks its breaker up under the manager's*)
(* lock and uses it without: the map may have lost it by then.             *)
(*                                                                         *)
(* A breaker is an object here, with the two decisions a call makes of it, *)
(* allowRequest and recordSuccess or recordFailure, each in one step.      *)
(* CircuitBreaker has the same breaker access by access: it makes the same *)
(* decisions while no two of them meet (ActsAtOnce), and shows what        *)
(* concurrent calls do inside of them.                                     *)
(***************************************************************************)
EXTENDS Circuit, FiniteSets

CONSTANTS
    Names,
    MaxBreakers     \* bound: breakers created in a behaviour

ASSUME ManagerAssumption ==
    /\ MaxBreakers \in Nat
    /\ MaxFailures \in Nat \ {0}
    /\ ResetTimeout \in Nat \ {0}
    /\ Trials \in Nat \ {0}

VARIABLES
    breakers,       \* the breakers made so far, by number
    named,          \* cbm.breakers: the breaker of each name, 0 if there is none
    dropped,        \* breakers that Remove and Close took out of the map
    total           \* stats.TotalBreakers

manager == <<breakers, named, dropped, total>>

Ids == 1 .. MaxBreakers
Made == {b \in Ids : breakers[b].state # "none"}
Mapped == {n \in Names : named[n] # 0}

Unmade == [NewCircuitBreaker EXCEPT !.state = "none"]

ManagerInit ==
    /\ breakers = [b \in Ids |-> Unmade]
    /\ named = [n \in Names |-> 0]
    /\ dropped = {}
    /\ total = 0

-----------------------------------------------------------------------------
(* The map *)

\* GetOrCreate, when it takes the write lock after it found nothing, and no
\* other call has made the breaker since.
NewBreaker(n, b) ==
    /\ b = Cardinality(Made) + 1 /\ b \in Ids
    /\ breakers' = [breakers EXCEPT ![b] = NewCircuitBreaker]
    /\ named' = [named EXCEPT ![n] = b]
    /\ total' = total + 1
    /\ UNCHANGED dropped

\* Mistake: the map is not consulted again under the write lock.
CreateUnchecked(n, b) == NewBreaker(n, b)

Create(n, b) ==
    \/ n \in Mapped /\ b = named[n] /\ UNCHANGED manager
    \/ n \notin Mapped /\ NewBreaker(n, b)

\* Leaves room for the breakers that calls may want to create.
MayDrop == Cardinality(Made) + Cardinality(Names) <= MaxBreakers

\* The breakers of ns leave the map; those that no call holds are forgotten.
Drop(ns, held) ==
    /\ MayDrop /\ ns # {} /\ ns \subseteq Mapped
    /\ named' = [n \in Names |-> IF n \in ns THEN 0 ELSE named[n]]
    /\ dropped' = dropped \cup {named[n] : n \in ns}
    /\ breakers' = [b \in Ids |-> IF b \in dropped' \ (dropped \cup held)
                                  THEN NewCircuitBreaker ELSE breakers[b]]

Remove(n, held) == Drop({n}, held) /\ total' = total - 1

Close(held) == Drop(Mapped, held) /\ UNCHANGED total

-----------------------------------------------------------------------------
(* One breaker *)

Update(b, c) ==
    /\ breakers' = [breakers EXCEPT ![b] = c]
    /\ UNCHANGED <<named, dropped, total>>

\* A call is done with b, which is then c; held is what the other calls hold.
Release(b, c, held) ==
    Update(b, IF b \in dropped \ held THEN NewCircuitBreaker ELSE c)

\* Reset, or ResetAll on its way through the map.
Reset(n) ==
    /\ n \in Mapped
    /\ Update(named[n], WhenReset(breakers[named[n]]))

\* A tick of the clock.
Waited == [b \in Ids |-> Waiting(breakers[b])]

-----------------------------------------------------------------------------

ManagerTypeOK ==
    /\ breakers \in [Ids -> [state : {"none", "closed", "open", "halfOpen"},
                             failures : 0 .. MaxFailures, successes : 0 .. Trials,
                             wait : 0 .. ResetTimeout]]
    /\ named \in [Names -> 0 .. MaxBreakers]
    /\ dropped \subseteq Ids
    /\ total \in Nat
=============================================================================
