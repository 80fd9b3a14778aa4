----------------------------- MODULE Strategies -----------------------------
(***************************************************************************)
(* How the load balancer of internal/concurrency/load_balancer.go chooses  *)
(* among the instances that are ready.  The list is built anew for every   *)
(* choice, from a Go map, in any order, and the round-robin index and the  *)
(* clock have any value; each strategy returns a position in the list.     *)
(*                                                                         *)
(* An instance is [weight, score, active, time]: its score in quarters,    *)
(* its connections, and its response time in milliseconds.                 *)
(***************************************************************************)
EXTENDS Integers, Sequences, FiniteSets, FiniteSetsExt

Positions(is) == DOMAIN is

\* The sum of f over the first k instances.
Upto(f, k) == FoldSet(LAMBDA j, sum : sum + f[j], 0, 1 .. k)

RoundRobin(is, index) == (index % Len(is)) + 1

EffectiveWeight(is) == [k \in Positions(is) |-> (is[k].weight * is[k].score) \div 4]

\* Mistake: an instance keeps its turn for one index too many.
WeightedRoundRobinShifted(is, index) ==
    LET weight == EffectiveWeight(is)
        total == Upto(weight, Len(is))
    IN  IF total = 0 THEN RoundRobin(is, index)
        ELSE Min({k \in Positions(is) : index % total <= Upto(weight, k)})

WeightedRoundRobin(is, index) ==
    LET weight == EffectiveWeight(is)
        total == Upto(weight, Len(is))
    IN  IF total = 0 THEN RoundRobin(is, index)
        ELSE Min({k \in Positions(is) : index % total < Upto(weight, k)})

\* The first of the least loaded instances.
LeastLoaded(load) == Min({k \in DOMAIN load : \A j \in DOMAIN load : load[k] <= load[j]})

\* A load divided by the score, which counts as 0.1 at least.
Scaled(load, i) == (load * 40) \div Max({10 * i.score, 4})

LeastConnections(is) == LeastLoaded([k \in Positions(is) |-> Scaled(is[k].active, is[k])])

\* An instance that has not answered yet counts as one that takes a millisecond.
ResponseTime(i) == IF i.time = 0 THEN 1 ELSE i.time

LeastResponseTime(is) ==
    LeastLoaded([k \in Positions(is) |-> Scaled(1000 * ResponseTime(is[k]), is[k])])

ConsistentHash(is, now) == (now % Len(is)) + 1

RandomChoice(is, now) ==
    LET score == [k \in Positions(is) |-> is[k].score]
        total == Upto(score, Len(is))
    IN  IF total = 0 THEN 1
        ELSE Min({k \in Positions(is) : total * (now % 1000) <= 1000 * Upto(score, k)})

-----------------------------------------------------------------------------

\* k is no worse a choice than any other instance with at least its score.
Undominated(is, k, load) == \A j \in Positions(is) : is[j].score >= is[k].score => load[k] <= load[j]

\* Whatever the index, an instance of no effective weight is chosen by weight only
\* when there is no other.
WeightlessUnchosen(is) ==
    LET weight == EffectiveWeight(is)
        total == Upto(weight, Len(is))
    IN  \A index \in 0 .. total : total > 0 => weight[WeightedRoundRobin(is, index)] > 0

\* While an instance has a score, one without is drawn exactly at the start of a cycle
\* of the clock, and then because it is the first of the list.
ScorelessDrawn(is, now) ==
    (\E k \in Positions(is) : is[k].score > 0) =>
        (is[RandomChoice(is, now)].score = 0 <=> now % 1000 = 0 /\ is[1].score = 0)
=============================================================================
