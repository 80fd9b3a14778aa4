-------------------------- MODULE UpstreamRequest ---------------------------
(***************************************************************************)
(* processSearchRequest of internal/server/concurrent_server.go, composed  *)
(* of the load balancer and the breaker manager: take an instance, execute *)
(* the upstream exchange through the instance's breaker, and report the    *)
(* outcome to the balancer, which reports a failure to the breaker again.  *)
(*                                                                         *)
(* A worker serves one queued request at a time.  The exchange             *)
(* (executeSearchRequest: client, headers, delay, Do, checks of status and *)
(* body) fails or succeeds as the upstream likes, and ends: its client has *)
(* a timeout.  A request whose context is done by the time it reaches the  *)
(* breaker fails without an exchange.  What the exchange marks in the      *)
(* instance manager is read by no part of this server except a page.       *)
(***************************************************************************)
EXTENDS LoadBalancer, BreakerManager

CONSTANTS
    Requests,       \* workers that process requests
    MaxEdits,       \* bound: how often each URL is added or removed, or breakers dropped
    NoURL

ASSUME RequestAssumption ==
    /\ IsFiniteSet(Requests)
    /\ Names = URLs /\ NoURL \notin URLs
    /\ Cardinality(URLs) <= MaxBreakers
    /\ MaxEdits \in Nat

VARIABLES
    request,        \* what each worker has under way
    edits           \* how often each URL was added or removed

vars == <<balancer, manager, request, edits>>

Idle == [at |-> "idle", url |-> NoURL, breaker |-> 0, telling |-> FALSE]

Init ==
    /\ BalancerInit
    /\ ManagerInit
    /\ request = [r \in Requests |-> Idle]
    /\ edits = [u \in URLs |-> 0]

\* RecordFailure holds lb.mu while it executes the failure through the breaker.
LockFree == \A r \in Requests : ~request[r].telling

At(r, at) == request[r].at = at
Goto(r, at) == request' = [request EXCEPT ![r].at = at]
Ends(r) == request' = [request EXCEPT ![r] = Idle]

HeldBy(rs) == {request[r].breaker : r \in rs}

\* GetNextInstance; when no instance is eligible the request fails at once.
Take(r) ==
    /\ At(r, "idle") /\ LockFree
    /\ \E u \in URLs :
         /\ GetNextInstance(u)
         /\ request' = [request EXCEPT ![r] = [Idle EXCEPT !.at = "lookup", !.url = u]]
    /\ UNCHANGED <<manager, edits>>

-----------------------------------------------------------------------------
(* Execute and ExecuteWithContext, called with the exchange or, by           *)
(* RecordFailure, with a function that returns the error.                    *)

\* The read-locked lookup of GetOrCreate.
Lookup(r) ==
    /\ At(r, "lookup")
    /\ request' = [request EXCEPT ![r].at = IF request[r].url \in Mapped THEN "admit" ELSE "create",
                                  ![r].breaker = named[request[r].url]]
    /\ UNCHANGED <<balancer, manager, edits>>

\* Mistake: whoever creates a breaker waits for the balancer's lock.
CreateBreakerLocked(r) ==
    /\ At(r, "create") /\ LockFree
    /\ \E b \in Ids :
         /\ Create(request[r].url, b)
         /\ request' = [request EXCEPT ![r].at = "admit", ![r].breaker = b]
    /\ UNCHANGED <<balancer, edits>>

CreateBreaker(r) ==
    /\ At(r, "create")
    /\ \E b \in Ids :
         /\ Create(request[r].url, b)
         /\ request' = [request EXCEPT ![r].at = "admit", ![r].breaker = b]
    /\ UNCHANGED <<balancer, edits>>

Breaker(r) == breakers[request[r].breaker]

\* The call returns, and RecordFailure with it if it was the caller.
Returns(r, c, next) ==
    /\ Release(request[r].breaker, c, HeldBy(Requests \ {r}))
    /\ IF request[r].telling
       THEN Ends(r)
       ELSE request' = [request EXCEPT ![r].at = next, ![r].breaker = 0]
    /\ UNCHANGED <<balancer, edits>>

\* The context is done: the breaker is not asked.  RecordFailure has no context.
ContextDone(r) ==
    /\ At(r, "admit") /\ ~request[r].telling
    /\ Returns(r, Breaker(r), "failed")

Admit(r) ==
    /\ At(r, "admit") /\ Admits(Breaker(r))
    /\ Update(request[r].breaker, Admitted(Breaker(r)))
    /\ Goto(r, "running")
    /\ UNCHANGED <<balancer, edits>>

\* ErrCircuitOpen, which RecordFailure takes no notice of.
Reject(r) ==
    /\ At(r, "admit") /\ ~Admits(Breaker(r))
    /\ Returns(r, Breaker(r), "failed")

ExchangeSucceeds(r) ==
    /\ At(r, "running") /\ ~request[r].telling
    /\ Returns(r, CountSuccess(Breaker(r)), "succeeded")

\* The exchange fails, or the function of RecordFailure returns its error.
ExchangeFails(r) ==
    /\ At(r, "running")
    /\ Returns(r, CountFailure(Breaker(r)), "failed")

-----------------------------------------------------------------------------
(* The reports to the balancer *)

ReportSuccess(r) ==
    /\ At(r, "succeeded") /\ LockFree
    /\ RecordSuccess(request[r].url)
    /\ Ends(r)
    /\ UNCHANGED <<manager, edits>>

\* RecordFailure takes the lock, marks the record and goes to the breaker.
ReportFailure(r) ==
    /\ At(r, "failed") /\ LockFree
    /\ \/ /\ request[r].url \notin Present
          /\ Ends(r)
          /\ UNCHANGED balancer
       \/ /\ MarkFailure(request[r].url)
          /\ request' = [request EXCEPT ![r].at = "lookup", ![r].telling = TRUE]
    /\ UNCHANGED <<manager, edits>>

-----------------------------------------------------------------------------
(* Administration, the monitor and the clock *)

MayEdit(u) == edits[u] + Cardinality(dropped) < MaxEdits

Edit(u) ==
    /\ LockFree /\ MayEdit(u)
    /\ edits' = [edits EXCEPT ![u] = @ + 1]
    /\ AddInstance(u) \/ RemoveInstance(u)
    /\ UNCHANGED <<manager, request>>

Manage(u) ==
    /\ \/ MayEdit(u) /\ (Remove(u, HeldBy(Requests)) \/ Close(HeldBy(Requests)))
       \/ Reset(u)
    /\ UNCHANGED <<balancer, request, edits>>

Check ==
    /\ \/ LockFree /\ CheckBegins
       \/ CheckStep
    /\ UNCHANGED <<manager, request, edits>>

Tick ==
    /\ instances' = Cooled
    /\ breakers' = Waited
    /\ UNCHANGED <<counts, monitor, named, dropped, total, request, edits>>

RequestStep(r) ==
    \/ Lookup(r) \/ CreateBreaker(r)
    \/ ContextDone(r) \/ Admit(r) \/ Reject(r)
    \/ ExchangeSucceeds(r) \/ ExchangeFails(r)
    \/ ReportSuccess(r) \/ ReportFailure(r)

Next ==
    \/ \E r \in Requests : Take(r) \/ RequestStep(r)
    \/ \E u \in URLs : Edit(u) \/ Manage(u)
    \/ Check \/ Tick

Spec == Init /\ [][Next]_vars

\* Workers go on with the requests they have and take new ones, the monitor and the
\* clock run.
FairSpec ==
    /\ Spec
    /\ WF_vars(Check) /\ WF_vars(Tick)
    /\ \A r \in Requests : WF_vars(Take(r)) /\ WF_vars(RequestStep(r))

-----------------------------------------------------------------------------
(* Properties *)

\* The types of records, breakers and requests.
TypeOK ==
    /\ BalancerTypeOK
    /\ ManagerTypeOK
    /\ request \in [Requests ->
          [at : {"idle", "lookup", "create", "admit", "running", "succeeded", "failed"},
           url : URLs \cup {NoURL}, breaker : 0 .. MaxBreakers, telling : BOOLEAN]]
    /\ edits \in [URLs -> 0 .. MaxEdits]

\* Available, the two runs of outcomes and the cooldown are written by different
\* reports: an available instance is below its failure limit and not cooling, so
\* every cooldown begins at the threshold and has the same length, and an
\* unavailable one is below its success limit.
RecordsAgree ==
    \A u \in Present :
        IF instances[u].available
        THEN instances[u].failures < UnhealthyThreshold /\ instances[u].cooling = 0
        ELSE instances[u].successes < HealthyThreshold

Held(u) == \E r \in Requests : request[r].url = u

\* Calls for one instance count on one breaker: the breaker that a call goes to is
\* the one in the map unless it was dropped from the map since, so concurrent
\* first calls do not make two, and TotalBreakers counts the map, and after Close
\* what Close forgot.
OneBreaker ==
    /\ \A r \in Requests :
         request[r].breaker # 0 =>
            request[r].breaker \in dropped \cup {named[request[r].url]}
    /\ Cardinality(Made \ dropped) = Cardinality(Mapped)
    /\ total \in Cardinality(Mapped) .. Cardinality(Made)

\* What a worker needs for its next step: room in the bound to create a breaker, and
\* the balancer's lock to report.
CanMove(r) ==
    \/ request[r].at \in {"lookup", "admit", "running"}
    \/ At(r, "create") /\ (request[r].url \in Mapped \/ Cardinality(Made) < MaxBreakers)
    \/ request[r].at \in {"succeeded", "failed"} /\ LockFree

\* RecordFailure waits for the breaker with the balancer's lock in its hands, and
\* every report, and whoever takes an instance, waits for that lock: one call at most
\* has it, and somebody can always go on, the holder of the lock above all.
SomebodyMoves ==
    LET busy == {r \in Requests : ~At(r, "idle")}
        holders == {r \in Requests : request[r].telling}
    IN  /\ busy # {} => \E r \in busy : CanMove(r)
        /\ Cardinality(holders) <= 1
        /\ \A r \in holders : CanMove(r)

\* Neither locks nor bounds leave all workers waiting: who can move has a step to take.
NoDeadlock == SomebodyMoves /\ \A r \in Requests : CanMove(r) <=> ENABLED RequestStep(r)

\* "Smart Recovery: Gradual instance restoration based on success metrics"
\* (README.MD:238): an instance that was given up and that nobody uses is restored,
\* or gets a request whose success could restore it, some time later.
InstancesRecover == \A u \in URLs : Down(u) /\ ~Held(u) ~> ~Down(u) \/ Held(u)
=============================================================================
