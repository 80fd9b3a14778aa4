---------------------------- MODULE LoadBalancer ----------------------------
(***************************************************************************)
(* The load balancer of internal/concurrency/load_balancer.go: the health  *)
(* records of the upstream instances, the statistics about them, and the   *)
(* monitor that recounts the statistics from time to time.                 *)
(*                                                                         *)
(* The operations that hold lb.mu are atomic here, except RecordFailure,   *)
(* which goes on to call the circuit breaker under the lock: the module    *)
(* that uses this one says who holds it.  The monitor only holds it while  *)
(* it copies the list of records.  Which eligible instance is handed out   *)
(* depends on the strategy and on the random order of a Go map: any may    *)
(* be (module Strategies has the strategies).  Scores and response times,  *)
(* which only the strategies read, are left out; so is CircuitOpen, which  *)
(* nothing ever sets.  The two counts are adjusted in one step where the   *)
(* code has two atomic additions under the lock.                           *)
(***************************************************************************)
EXTENDS Integers, FiniteSets

CONSTANTS
    URLs,
    UnhealthyThreshold,     \* failures in a row that make an instance unavailable
    HealthyThreshold,       \* successes in a row that make it available again
    MaxCooldown             \* the five minutes of RecordFailure, in ticks

ASSUME BalancerAssumption ==
    /\ IsFiniteSet(URLs)
    /\ UnhealthyThreshold \in Nat \ {0}
    /\ HealthyThreshold \in Nat \ {0}
    /\ MaxCooldown \in Nat \ {0}

VARIABLES
    instances,      \* lb.instances: each URL's record, or Absent
    counts,         \* TotalInstances, HealthyInstances and UnhealthyInstances
    monitor         \* the health check under way

balancer == <<instances, counts, monitor>>

\* A count nobody tells from the threshold n once it has reached it.
UpTo(n, count) == IF count < n THEN count ELSE n

Absent == [present |-> FALSE]

NewInstance == [present |-> TRUE, available |-> TRUE, active |-> 0,
                failures |-> 0, successes |-> 0, cooling |-> 0]

Present == {u \in URLs : instances[u].present}
Down(u) == instances[u].present /\ ~instances[u].available

Asleep == [at |-> "asleep", left |-> {}, size |-> 0, healthy |-> 0]

BalancerInit ==
    /\ instances = [u \in URLs |-> NewInstance]
    /\ counts = [total |-> Cardinality(URLs), healthy |-> Cardinality(URLs), unhealthy |-> 0]
    /\ monitor = Asleep

Counting(total, healthy, unhealthy) ==
    counts' = [total |-> counts.total + total, healthy |-> counts.healthy + healthy,
               unhealthy |-> counts.unhealthy + unhealthy]

\* The record of u leaves the map.  A monitor that copied it has the only
\* reference and will read the Available it had.
Detached(u) ==
    IF u \in monitor.left
    THEN [monitor EXCEPT !.left = @ \ {u},
                         !.healthy = IF Down(u) THEN @ ELSE @ + 1]
    ELSE monitor

-----------------------------------------------------------------------------
(* Operations under lb.mu *)

\* A known URL gets a new record, and is counted once more.
AddInstance(u) ==
    /\ instances' = [instances EXCEPT ![u] = NewInstance]
    /\ Counting(1, 1, 0)
    /\ monitor' = Detached(u)

\* Mistake: whatever is removed was healthy.
RemoveInstanceHealthy(u) ==
    /\ u \in Present
    /\ instances' = [instances EXCEPT ![u] = Absent]
    /\ Counting(-1, -1, 0)
    /\ monitor' = Detached(u)

RemoveInstance(u) ==
    /\ u \in Present
    /\ instances' = [instances EXCEPT ![u] = Absent]
    /\ IF Down(u) THEN Counting(-1, 0, -1) ELSE Counting(-1, -1, 0)
    /\ monitor' = Detached(u)

Eligible(u) == u \in Present /\ instances[u].available /\ instances[u].cooling = 0

GetNextInstance(u) ==
    /\ Eligible(u)
    /\ instances' = [instances EXCEPT ![u].active = @ + 1]
    /\ UNCHANGED <<counts, monitor>>

\* Mistake: successes do not end a run of failures.
SucceededKeepsFailures(i) ==
    [i EXCEPT !.active = @ - 1,
              !.successes = UpTo(HealthyThreshold, @ + 1)]

\* The record after a success, before it is judged.
Succeeded(i) ==
    [i EXCEPT !.active = @ - 1,
              !.successes = UpTo(HealthyThreshold, @ + 1),
              !.failures = 0]

RecordSuccess(u) ==
    /\ UNCHANGED monitor
    /\ \/ u \notin Present /\ UNCHANGED <<instances, counts>>
       \/ /\ u \in Present
          /\ LET i == Succeeded(instances[u])
                 recovers == ~i.available /\ i.successes >= HealthyThreshold
             IN  /\ instances' = [instances EXCEPT ![u] =
                        IF recovers THEN [i EXCEPT !.available = TRUE, !.cooling = 0] ELSE i]
                 /\ IF recovers THEN Counting(0, 1, -1) ELSE UNCHANGED counts

Backoff(failures) == IF 2 ^ failures > MaxCooldown THEN MaxCooldown ELSE 2 ^ failures

\* Mistake: an instance that fails keeps the connection.
FailedKeepsConnection(i) ==
    [i EXCEPT !.failures = UpTo(UnhealthyThreshold, @ + 1), !.successes = 0]

\* The record after a failure, before it is judged.
Failed(i) ==
    [i EXCEPT !.active = @ - 1,
              !.failures = UpTo(UnhealthyThreshold, @ + 1),
              !.successes = 0]

\* What RecordFailure does to a record before it calls the circuit breaker.
MarkFailure(u) ==
    /\ u \in Present
    /\ UNCHANGED monitor
    /\ LET i == Failed(instances[u])
           falls == i.available /\ i.failures >= UnhealthyThreshold
       IN  /\ instances' = [instances EXCEPT ![u] =
                  IF falls THEN [i EXCEPT !.available = FALSE, !.cooling = Backoff(i.failures)]
                  ELSE i]
           /\ IF falls THEN Counting(0, -1, 1) ELSE UNCHANGED counts

-----------------------------------------------------------------------------
(* performHealthCheck *)

\* The records are copied under the lock ...
CheckBegins ==
    /\ monitor.at = "asleep"
    /\ monitor' = [at |-> "reading", left |-> Present, size |-> Cardinality(Present),
                   healthy |-> 0]
    /\ UNCHANGED <<instances, counts>>

\* ... read one after the other without it ...
CheckReads ==
    /\ monitor.at = "reading"
    /\ \E u \in monitor.left :
         monitor' = [monitor EXCEPT !.left = @ \ {u},
                                    !.healthy = IF Down(u) THEN @ ELSE @ + 1]
    /\ UNCHANGED <<instances, counts>>

\* ... and the results stored over whatever the counts have become meanwhile.
CheckStoresHealthy ==
    /\ monitor.at = "reading" /\ monitor.left = {}
    /\ counts' = [counts EXCEPT !.healthy = monitor.healthy]
    /\ monitor' = [monitor EXCEPT !.at = "stored"]
    /\ UNCHANGED instances

CheckStoresUnhealthy ==
    /\ monitor.at = "stored"
    /\ counts' = [counts EXCEPT !.unhealthy = monitor.size - monitor.healthy]
    /\ monitor' = Asleep
    /\ UNCHANGED instances

CheckStep == CheckReads \/ CheckStoresHealthy \/ CheckStoresUnhealthy

\* A tick of the clock, as far as the records depend on it.
Cooled ==
    [u \in URLs |-> IF u \in Present /\ instances[u].cooling > 0
                    THEN [instances[u] EXCEPT !.cooling = @ - 1] ELSE instances[u]]

-----------------------------------------------------------------------------

Record == [present : {TRUE}, available : BOOLEAN, active : Int,
           failures : 0 .. UnhealthyThreshold, successes : 0 .. HealthyThreshold,
           cooling : 0 .. MaxCooldown]

BalancerTypeOK ==
    /\ instances \in [URLs -> Record \cup {Absent}]
    /\ counts \in [total : Int, healthy : Int, unhealthy : Int]
    /\ monitor \in [at : {"asleep", "reading", "stored"}, left : SUBSET URLs,
                    size : Nat, healthy : Nat]
=============================================================================
