------------------------------- MODULE Health -------------------------------
(***************************************************************************)
(* What internal/concurrency/metrics.go makes of the counters: percentiles *)
(* of the latencies in its ring buffer, health scores and alerts.  Scores  *)
(* and ratios are in thousandths, latencies in milliseconds.               *)
(***************************************************************************)
EXTENDS Integers, Sequences, FiniteSets, SequencesExt, Ranking

Ratio(part, whole) == (part * 1000) \div whole

-----------------------------------------------------------------------------
(* Latencies *)

\* recordLatency, for one latency after the other, on a buffer of this size.
Recorded(latencies, size) ==
    FoldLeft(LAMBDA b, latency : [slots |-> [b.slots EXCEPT ![b.index + 1] = latency],
                                  index |-> (b.index + 1) % size],
             [slots |-> [k \in 1 .. size |-> 0], index |-> 0], latencies).slots

Valid(slots) == {k \in DOMAIN slots : slots[k] > 0}

\* Mistake: the latencies are not sorted.
SortedAsRecorded(slots) ==
    LET order == Arranged(Valid(slots), [k \in Valid(slots) |-> 0])
    IN  [i \in DOMAIN order |-> slots[order[i]]]

Sorted(slots) ==
    LET order == Arranged(Valid(slots), slots)
    IN  [i \in DOMAIN order |-> slots[order[i]]]

\* The percentile of a buffer, or what it was before, when there is no latency in it.
Percentile(slots, percent, before) ==
    IF Valid(slots) = {} THEN before
    ELSE Sorted(slots)[((Cardinality(Valid(slots)) * percent) \div 100) + 1]

-----------------------------------------------------------------------------
(* Scores *)

WorkerPoolHealth(p) ==
    IF ~p.running THEN 0
    ELSE LET success == IF p.jobs > 0 THEN Ratio(p.jobs - p.failedJobs, p.jobs) ELSE 1000
             busy == Ratio(p.active, p.workers)
             workers == IF busy > 800 THEN 1000 - 2 * (busy - 800) ELSE 1000
         IN  (1000 - Ratio(p.queued, p.maxQueue) + success + workers) \div 3

LoadBalancerHealth(b) ==
    IF b.instances = 0 THEN 0 ELSE (Ratio(b.healthy, b.instances) + b.average) \div 2

ThroughputScore(rps) ==
    IF rps >= 100 THEN 1000 ELSE IF rps >= 10 THEN 10 * rps ELSE 100 * rps

LatencyScore(p95) ==
    IF p95 <= 100 THEN 1000 ELSE IF p95 <= 500 THEN 800 ELSE IF p95 <= 1000 THEN 600
    ELSE IF p95 <= 2000 THEN 400 ELSE IF p95 <= 5000 THEN 200 ELSE 100

\* The share of failed requests is at most one in n.
AtMost(h, n) == h.failed * n <= h.total

ErrorRateScore(h) ==
    IF AtMost(h, 100) THEN 1000 ELSE IF AtMost(h, 20) THEN 800
    ELSE IF AtMost(h, 10) THEN 600 ELSE IF AtMost(h, 5) THEN 400 ELSE 200

HTTPHealth(h) == (ThroughputScore(h.rps) + LatencyScore(h.p95) + ErrorRateScore(h)) \div 3

SystemHealth(p, b, h) == (WorkerPoolHealth(p) + LoadBalancerHealth(b) + HTTPHealth(h)) \div 3

\* Mistake: the warning waits for the last level of the error score.
AlertsLate(p, b, h) ==
    { a \in {"overall", "errors", "latency", "workers"} :
        \/ a = "overall" /\ SystemHealth(p, b, h) < 500
        \/ a = "errors" /\ ErrorRateScore(h) < 400
        \/ a = "latency" /\ LatencyScore(h.p95) < 400
        \/ a = "workers" /\ WorkerPoolHealth(p) < 300 }

Alerts(p, b, h) ==
    { a \in {"overall", "errors", "latency", "workers"} :
        \/ a = "overall" /\ SystemHealth(p, b, h) < 500
        \/ a = "errors" /\ ErrorRateScore(h) < 600
        \/ a = "latency" /\ LatencyScore(h.p95) < 400
        \/ a = "workers" /\ WorkerPoolHealth(p) < 300 }

\* The counters when so many searches have been recorded by their handler and once
\* more by the middleware, as 200, and so many of them had failed.
Searched(searches, failed, rps, p95) ==
    [total |-> 2 * searches, failed |-> failed, rps |-> rps, p95 |-> p95]
=============================================================================
