--------------------------- MODULE UpstreamProofs ---------------------------
(***************************************************************************)
(* The safety of UpstreamRequest and its history, for any instances,       *)
(* workers, thresholds, breakers and limits.                               *)
(***************************************************************************)
EXTENDS UpstreamHistory, FiniteSetTheorems, TLAPS

-----------------------------------------------------------------------------
(* Types *)

States == {"idle", "lookup", "create", "admit", "running", "succeeded", "failed"}

RequestRecord == [at : States, url : URLs \cup {NoURL}, breaker : 0 .. MaxBreakers, telling : BOOLEAN]

InstancesOK == instances \in [URLs -> Record \cup {Absent}]

RequestsOK == request \in [Requests -> RequestRecord]

\* A request has an instance, has a breaker between lookup and return, and holds the
\* balancer's lock only while it is with the breaker.
Engaged ==
    \A r \in Requests :
        /\ request[r].at # "idle" <=> request[r].url \in URLs
        /\ request[r].at \in {"admit", "running"} <=> request[r].breaker # 0
        /\ request[r].telling => request[r].at \in {"lookup", "create", "admit", "running"}

LEMMA BalancerConstants ==
    /\ UnhealthyThreshold \in Nat \ {0} /\ HealthyThreshold \in Nat \ {0} /\ MaxCooldown \in Nat \ {0}
    /\ Names = URLs /\ NoURL \notin URLs /\ MaxEdits \in Nat
    /\ IsFiniteSet(URLs) /\ IsFiniteSet(Requests)
BY BalancerAssumption, RequestAssumption

LEMMA PowerIsNat == ASSUME NEW n \in Nat PROVE 2 ^ n \in Nat
<1>1. IsFiniteSet(1 .. n) /\ Cardinality(1 .. n) = n
  BY FS_Interval
<1>2. Cardinality(SUBSET (1 .. n)) = 2 ^ Cardinality(1 .. n) /\ IsFiniteSet(SUBSET (1 .. n))
  BY <1>1, FS_SUBSET
<1>3. Cardinality(SUBSET (1 .. n)) \in Nat
  BY <1>2, FS_CardinalityType
<1>. QED  BY <1>1, <1>2, <1>3

LEMMA BackoffType == ASSUME NEW n \in Nat PROVE Backoff(n) \in 0 .. MaxCooldown
<1>1. 2 ^ n \in Nat
  BY PowerIsNat
<1> DEFINE p == 2 ^ n
<1>2. Backoff(n) = IF p > MaxCooldown THEN MaxCooldown ELSE p
  BY DEF Backoff
<1>. HIDE DEF p
<1>3. p \in Nat
  BY <1>1 DEF p
<1>. QED  BY <1>2, <1>3, BalancerConstants

LEMMA RecordFields ==
    ASSUME NEW i \in Record
    PROVE  /\ i.present = TRUE /\ i.available \in BOOLEAN /\ i.active \in Int
           /\ i.failures \in 0 .. UnhealthyThreshold /\ i.successes \in 0 .. HealthyThreshold
           /\ i.cooling \in 0 .. MaxCooldown
BY DEF Record

LEMMA PresentRecord ==
    ASSUME InstancesOK, NEW u \in URLs
    PROVE  /\ u \in Present => instances[u] \in Record
           /\ u \notin Present => instances[u] = Absent
<1>1. instances[u] \in Record \/ instances[u] = Absent
  BY DEF InstancesOK
<1>2. Absent.present = FALSE
  BY DEF Absent
<1>3. instances[u] \in Record => instances[u].present = TRUE
  BY RecordFields
<1>. QED  BY <1>1, <1>2, <1>3 DEF Present

-----------------------------------------------------------------------------
(* What happens to a record *)

\* The record of an instance after a success and after a failure.
SuccessOf(i) ==
    IF ~i.available /\ Succeeded(i).successes >= HealthyThreshold
    THEN [Succeeded(i) EXCEPT !.available = TRUE, !.cooling = 0] ELSE Succeeded(i)

FailureOf(i) ==
    IF i.available /\ Failed(i).failures >= UnhealthyThreshold
    THEN [Failed(i) EXCEPT !.available = FALSE, !.cooling = Backoff(Failed(i).failures)]
    ELSE Failed(i)

Taking(i) == [i EXCEPT !.active = @ + 1]
Cooler(i) == IF i.cooling > 0 THEN [i EXCEPT !.cooling = @ - 1] ELSE i

\* A record is below the threshold that it has not passed.
Agrees(i) ==
    IF i.available THEN i.failures < UnhealthyThreshold /\ i.cooling = 0
                   ELSE i.successes < HealthyThreshold

LEMMA NewIsRecord == NewInstance \in Record /\ Agrees(NewInstance) /\ NewInstance.present /\ ~Absent.present
<1>1. NewInstance \in Record
  BY BalancerConstants DEF NewInstance, Record
<1>2. Agrees(NewInstance)
  BY BalancerConstants DEF NewInstance, Agrees
<1>. QED  BY <1>1, <1>2 DEF NewInstance, Absent

LEMMA TakingRecord ==
    ASSUME NEW i \in Record
    PROVE  /\ Taking(i) \in Record /\ Taking(i).available = i.available
           /\ Taking(i).active = i.active + 1 /\ (Agrees(i) => Agrees(Taking(i)))
<1>0. i.active \in Int
  BY DEF Record
<1>1. i.active + 1 \in Int
  BY <1>0
<1>2. /\ Taking(i) \in Record /\ Taking(i).available = i.available
      /\ Taking(i).active = i.active + 1 /\ Taking(i).failures = i.failures
      /\ Taking(i).successes = i.successes /\ Taking(i).cooling = i.cooling
  BY <1>1 DEF Record, Taking
<1>. QED  BY <1>2 DEF Agrees

LEMMA CoolerRecord ==
    ASSUME NEW i \in Record
    PROVE  /\ Cooler(i) \in Record /\ Cooler(i).available = i.available
           /\ Cooler(i).active = i.active /\ (Agrees(i) => Agrees(Cooler(i)))
<1>1. CASE i.cooling > 0
  <2>0. i.cooling \in 0 .. MaxCooldown
    BY DEF Record
  <2>1. i.cooling - 1 \in 0 .. MaxCooldown
    BY <1>1, <2>0, BalancerConstants
  <2>2. PICK n \in 0 .. MaxCooldown : n = i.cooling - 1
    BY <2>1
  <2>3. Cooler(i) = [i EXCEPT !.cooling = n]
    BY <1>1, <2>2 DEF Cooler
  <2>4. /\ Cooler(i) \in Record /\ Cooler(i).available = i.available
        /\ Cooler(i).active = i.active /\ Cooler(i).successes = i.successes
    BY <2>3 DEF Record
  <2>5. i.cooling # 0
    BY <1>1, <2>0, BalancerConstants
  <2>6. Agrees(i) => Agrees(Cooler(i))
    BY <2>4, <2>5 DEF Agrees
  <2>. QED  BY <2>4, <2>6
<1>2. CASE ~(i.cooling > 0)
  BY <1>2 DEF Cooler
<1>. QED  BY <1>1, <1>2

LEMMA SucceededRecord ==
    ASSUME NEW i \in Record
    PROVE  /\ Succeeded(i) \in Record /\ Succeeded(i).available = i.available
           /\ Succeeded(i).failures = 0 /\ Succeeded(i).cooling = i.cooling
           /\ Succeeded(i).active = i.active - 1
<1>1. UpTo(HealthyThreshold, i.successes + 1) \in 0 .. HealthyThreshold
  BY BalancerConstants DEF Record, UpTo
<1>2. 0 \in 0 .. UnhealthyThreshold /\ i.active - 1 \in Int
  BY BalancerConstants DEF Record
<1>3. PICK n \in 0 .. HealthyThreshold : n = UpTo(HealthyThreshold, i.successes + 1)
  BY <1>1
<1>4. Succeeded(i) = [i EXCEPT !.active = i.active - 1, !.successes = n, !.failures = 0]
  BY <1>3 DEF Succeeded
<1>. QED  BY <1>2, <1>4 DEF Record

LEMMA SuccessRecord ==
    ASSUME NEW i \in Record
    PROVE  /\ SuccessOf(i) \in Record /\ SuccessOf(i).active = i.active - 1
           /\ Agrees(i) => Agrees(SuccessOf(i))
<1> DEFINE s == Succeeded(i)
<1>1. /\ s \in Record /\ s.available = i.available /\ s.failures = 0 /\ s.cooling = i.cooling
      /\ s.active = i.active - 1
  BY SucceededRecord
<1>2. SuccessOf(i) = IF ~i.available /\ s.successes >= HealthyThreshold
                     THEN [s EXCEPT !.available = TRUE, !.cooling = 0] ELSE s
  BY DEF SuccessOf
<1>. HIDE DEF s
<1>3. CASE ~i.available /\ s.successes >= HealthyThreshold
  <2>1. SuccessOf(i) = [s EXCEPT !.available = TRUE, !.cooling = 0]
    BY <1>2, <1>3
  <2>2. 0 \in 0 .. MaxCooldown /\ 0 < UnhealthyThreshold
    BY BalancerConstants
  <2>3. /\ SuccessOf(i) \in Record /\ SuccessOf(i).available /\ SuccessOf(i).failures = 0
        /\ SuccessOf(i).cooling = 0 /\ SuccessOf(i).active = i.active - 1
    BY <1>1, <2>1, <2>2 DEF Record
  <2>. QED  BY <2>2, <2>3 DEF Agrees
<1>4. CASE ~(~i.available /\ s.successes >= HealthyThreshold)
  <2>1. s.successes \in 0 .. HealthyThreshold
    BY <1>1 DEF Record
  <2>. QED  BY <1>1, <1>2, <1>4, <2>1, BalancerConstants DEF Agrees
<1>. QED  BY <1>3, <1>4

LEMMA FailedRecord ==
    ASSUME NEW i \in Record
    PROVE  /\ Failed(i) \in Record /\ Failed(i).available = i.available
           /\ Failed(i).successes = 0 /\ Failed(i).cooling = i.cooling
           /\ Failed(i).active = i.active - 1
<1>1. UpTo(UnhealthyThreshold, i.failures + 1) \in 0 .. UnhealthyThreshold
  BY BalancerConstants DEF Record, UpTo
<1>2. 0 \in 0 .. HealthyThreshold /\ i.active - 1 \in Int
  BY BalancerConstants DEF Record
<1>3. PICK n \in 0 .. UnhealthyThreshold : n = UpTo(UnhealthyThreshold, i.failures + 1)
  BY <1>1
<1>4. Failed(i) = [i EXCEPT !.active = i.active - 1, !.failures = n, !.successes = 0]
  BY <1>3 DEF Failed
<1>. QED  BY <1>2, <1>4 DEF Record

LEMMA FailureRecord ==
    ASSUME NEW i \in Record
    PROVE  /\ FailureOf(i) \in Record /\ FailureOf(i).active = i.active - 1
           /\ Agrees(i) => Agrees(FailureOf(i))
<1> DEFINE f == Failed(i)
<1>1. /\ f \in Record /\ f.available = i.available /\ f.successes = 0 /\ f.cooling = i.cooling
      /\ f.active = i.active - 1 /\ f.failures \in 0 .. UnhealthyThreshold
  <2>1. Failed(i).failures \in 0 .. UnhealthyThreshold
    BY FailedRecord DEF Record
  <2>. QED  BY <2>1, FailedRecord
<1> DEFINE c == Backoff(f.failures)
<1>2. FailureOf(i) = IF i.available /\ f.failures >= UnhealthyThreshold
                     THEN [f EXCEPT !.available = FALSE, !.cooling = c] ELSE f
  BY DEF FailureOf
<1>. HIDE DEF f
<1>3. c \in 0 .. MaxCooldown
  BY <1>1, BackoffType, BalancerConstants
<1>. HIDE DEF c
<1>4. CASE i.available /\ f.failures >= UnhealthyThreshold
  <2>1. FailureOf(i) = [f EXCEPT !.available = FALSE, !.cooling = c]
    BY <1>2, <1>4
  <2>2. /\ FailureOf(i) \in Record /\ ~FailureOf(i).available /\ FailureOf(i).successes = 0
        /\ FailureOf(i).active = i.active - 1
    BY <1>1, <1>3, <2>1 DEF Record
  <2>3. 0 < HealthyThreshold
    BY BalancerConstants
  <2>. QED  BY <2>2, <2>3 DEF Agrees
<1>5. CASE ~(i.available /\ f.failures >= UnhealthyThreshold)
  BY <1>1, <1>2, <1>5, BalancerConstants DEF Agrees
<1>. QED  BY <1>4, <1>5

-----------------------------------------------------------------------------
(* What a step does to one request *)

Begins(q) == \E u \in URLs : Eligible(u) /\ request'[q] = [Idle EXCEPT !.at = "lookup", !.url = u]

Looks(q) ==
    /\ request[q].at = "lookup"
    /\ request'[q] = [request[q] EXCEPT
                         !.at = IF request[q].url \in Mapped THEN "admit" ELSE "create",
                         !.breaker = named[request[q].url]]

Creates(q) ==
    /\ request[q].at = "create"
    /\ \E b \in Ids : /\ Create(request[q].url, b)
                      /\ request'[q] = [request[q] EXCEPT !.at = "admit", !.breaker = b]

Enters(q) == request[q].at = "admit" /\ request'[q] = [request[q] EXCEPT !.at = "running"]

Leaves(q) ==
    /\ request[q].at \in {"admit", "running"} /\ ~request[q].telling
    /\ \E next \in {"succeeded", "failed"} :
          request'[q] = [request[q] EXCEPT !.at = next, !.breaker = 0]

Tells(q) ==
    /\ request[q].at = "failed" /\ request[q].url \in Present /\ LockFree
    /\ request'[q] = [request[q] EXCEPT !.at = "lookup", !.telling = TRUE]

Finishes(q) ==
    /\ request'[q] = Idle
    /\ \/ request[q].telling /\ request[q].at \in {"admit", "running"}
       \/ request[q].at = "succeeded"
       \/ request[q].at = "failed" /\ request[q].url \notin Present

Moves(q) ==
    \/ request[q].at = "idle" /\ Begins(q)
    \/ Looks(q) \/ Creates(q) \/ Enters(q) \/ Leaves(q) \/ Tells(q) \/ Finishes(q)

\* No request but r moves.
Only(r) == request' = [request EXCEPT ![r] = request'[r]]

LEMMA RequestFields ==
    ASSUME RequestsOK, NEW q \in Requests
    PROVE  /\ request[q] \in RequestRecord /\ request[q].at \in States
           /\ request[q].url \in URLs \cup {NoURL} /\ request[q].breaker \in 0 .. MaxBreakers
           /\ request[q].telling \in BOOLEAN
<1>1. request[q] \in RequestRecord
  BY DEF RequestsOK
<1>. QED  BY <1>1 DEF RequestRecord

LEMMA ReturnMoves ==
    ASSUME RequestsOK, NEW r \in Requests, NEW c, NEW next \in {"succeeded", "failed"},
           request[r].at \in {"admit", "running"}, Returns(r, c, next)
    PROVE  /\ Only(r)
           /\ Leaves(r) \/ Finishes(r)
           /\ request[r].telling => Finishes(r)
<1>0. request[r].telling \in BOOLEAN
  BY RequestFields
<1>1. CASE request[r].telling
  <2>1. request' = [request EXCEPT ![r] = Idle]
    BY <1>1 DEF Returns, Ends
  <2>. QED  BY <1>1, <2>1 DEF RequestsOK, Finishes, Only
<1>2. CASE ~request[r].telling
  <2>1. request' = [request EXCEPT ![r].at = next, ![r].breaker = 0]
    BY <1>2 DEF Returns
  <2>2. request'[r] = [request[r] EXCEPT !.at = next, !.breaker = 0]
    BY <2>1 DEF RequestsOK
  <2>. QED  BY <1>2, <2>1, <2>2 DEF RequestsOK, Leaves, Only
<1>. QED  BY <1>1, <1>2

LEMMA TakeMoves ==
    ASSUME RequestsOK, NEW r \in Requests, Take(r)
    PROVE  Moves(r) /\ Only(r)
<1>1. PICK u \in URLs :
         /\ GetNextInstance(u)
         /\ request' = [request EXCEPT ![r] = [Idle EXCEPT !.at = "lookup", !.url = u]]
  BY DEF Take
<1>2. Eligible(u) /\ request[r].at = "idle"
  BY <1>1 DEF GetNextInstance, Take, At
<1>. QED  BY <1>1, <1>2 DEF RequestsOK, Only, Moves, Begins

LEMMA StepMoves ==
    ASSUME RequestsOK, NEW r \in Requests, RequestStep(r)
    PROVE  Moves(r) /\ Only(r)
<1>1. CASE Lookup(r)
  BY <1>1 DEF Lookup, At, RequestsOK, Only, Moves, Looks
<1>2. CASE CreateBreaker(r)
  BY <1>2 DEF CreateBreaker, At, RequestsOK, Only, Moves, Creates
<1>3. CASE ContextDone(r)
  <2>1. request[r].at \in {"admit", "running"} /\ Returns(r, Breaker(r), "failed")
    BY <1>3 DEF ContextDone, At
  <2>. QED  BY <2>1, ReturnMoves DEF Moves
<1>4. CASE Admit(r)
  BY <1>4 DEF Admit, Goto, At, RequestsOK, Only, Moves, Enters
<1>5. CASE Reject(r)
  <2>1. request[r].at \in {"admit", "running"} /\ Returns(r, Breaker(r), "failed")
    BY <1>5 DEF Reject, At
  <2>. QED  BY <2>1, ReturnMoves DEF Moves
<1>6. CASE ExchangeSucceeds(r)
  <2>1. request[r].at \in {"admit", "running"} /\ Returns(r, CountSuccess(Breaker(r)), "succeeded")
    BY <1>6 DEF ExchangeSucceeds, At
  <2>. QED  BY <2>1, ReturnMoves DEF Moves
<1>7. CASE ExchangeFails(r)
  <2>1. request[r].at \in {"admit", "running"} /\ Returns(r, CountFailure(Breaker(r)), "failed")
    BY <1>7 DEF ExchangeFails, At
  <2>. QED  BY <2>1, ReturnMoves DEF Moves
<1>8. CASE ReportSuccess(r)
  BY <1>8 DEF ReportSuccess, Ends, At, RequestsOK, Only, Moves, Finishes
<1>9. CASE ReportFailure(r)
  <2>1. CASE request[r].url \notin Present /\ Ends(r)
    BY <1>9, <2>1 DEF ReportFailure, Ends, At, RequestsOK, Only, Moves, Finishes
  <2>2. CASE /\ MarkFailure(request[r].url)
             /\ request' = [request EXCEPT ![r].at = "lookup", ![r].telling = TRUE]
    <3>1. request[r].url \in Present /\ request[r].at = "failed" /\ LockFree
      BY <1>9, <2>2 DEF ReportFailure, MarkFailure, At
    <3>. QED  BY <2>2, <3>1 DEF RequestsOK, Only, Moves, Tells
  <2>. QED  BY <1>9, <2>1, <2>2 DEF ReportFailure
<1>. QED  BY <1>1, <1>2, <1>3, <1>4, <1>5, <1>6, <1>7, <1>8, <1>9 DEF RequestStep

\* A step moves at most one request.
LEMMA RequestMoves ==
    ASSUME RequestsOK, [Next]_vars
    PROVE  \/ request' = request
           \/ \E r \in Requests : /\ Moves(r)
                                  /\ Only(r)
<1>1. CASE \E r \in Requests : Take(r) \/ RequestStep(r)
  BY <1>1, TakeMoves, StepMoves
<1>2. CASE \E u \in URLs : Edit(u) \/ Manage(u)
  BY <1>2 DEF Edit, Manage
<1>3. CASE Check \/ Tick \/ UNCHANGED vars
  BY <1>3 DEF Check, Tick, vars
<1>. QED  BY <1>1, <1>2, <1>3 DEF Next

EngagedRequest(q) ==
    /\ q.at # "idle" <=> q.url \in URLs
    /\ q.at \in {"admit", "running"} <=> q.breaker # 0
    /\ q.telling => q.at \in {"lookup", "create", "admit", "running"}

NamedOK == named \in [URLs -> 0 .. MaxBreakers]

LEMMA IdleIsRecord == Idle \in RequestRecord /\ EngagedRequest(Idle)
<1>1. 0 \in 0 .. MaxBreakers
  BY ManagerAssumption
<1>. QED  BY <1>1, BalancerConstants DEF Idle, RequestRecord, EngagedRequest, States

LEMMA MovedRecord ==
    ASSUME RequestsOK, Engaged, NamedOK, NEW r \in Requests, Moves(r)
    PROVE  request'[r] \in RequestRecord /\ EngagedRequest(request'[r])
<1> DEFINE q == request[r]
<1>0. q \in RequestRecord /\ EngagedRequest(q)
  BY RequestFields DEF Engaged, EngagedRequest
<1>0a. 0 \in 0 .. MaxBreakers /\ 0 \notin Ids /\ Ids \subseteq 0 .. MaxBreakers
  BY ManagerAssumption DEF Ids
<1>1. CASE Begins(r)
  BY <1>1, <1>0a, BalancerConstants DEF Begins, Idle, RequestRecord, EngagedRequest, States
<1>2. CASE Looks(r)
  <2>0. q.url \in URLs
    BY <1>0, <1>2 DEF EngagedRequest, Looks
  <2>1. named[q.url] \in 0 .. MaxBreakers /\ (q.url \in Mapped <=> named[q.url] # 0)
    BY <2>0, BalancerConstants DEF NamedOK, Mapped
  <2>2. PICK b \in 0 .. MaxBreakers : b = named[q.url]
    BY <2>1
  <2>3. CASE b # 0
    <3>1. request'[r] = [q EXCEPT !.at = "admit", !.breaker = b]
      BY <1>2, <2>1, <2>2, <2>3 DEF Looks
    <3>. QED  BY <1>0, <2>0, <2>3, <3>1 DEF RequestRecord, EngagedRequest, States
  <2>4. CASE b = 0
    <3>1. request'[r] = [q EXCEPT !.at = "create", !.breaker = b]
      BY <1>2, <2>1, <2>2, <2>4 DEF Looks
    <3>. QED  BY <1>0, <2>0, <2>4, <3>1 DEF RequestRecord, EngagedRequest, States
  <2>. QED  BY <2>3, <2>4
<1>3. CASE Creates(r)
  <2>1. PICK b \in Ids : request'[r] = [q EXCEPT !.at = "admit", !.breaker = b]
    BY <1>3 DEF Creates
  <2>2. b \in 0 .. MaxBreakers /\ b # 0
    BY <1>0a
  <2>. QED  BY <1>0, <1>3, <2>1, <2>2 DEF RequestRecord, EngagedRequest, States, Creates
<1>4. CASE Enters(r)
  BY <1>0, <1>4 DEF RequestRecord, EngagedRequest, States, Enters
<1>5. CASE Leaves(r)
  BY <1>0, <1>0a, <1>5 DEF RequestRecord, EngagedRequest, States, Leaves
<1>6. CASE Tells(r)
  BY <1>0, <1>6 DEF RequestRecord, EngagedRequest, States, Tells
<1>7. CASE Finishes(r)
  BY <1>7, IdleIsRecord DEF Finishes
<1>. QED  BY <1>1, <1>2, <1>3, <1>4, <1>5, <1>6, <1>7 DEF Moves

LEMMA RequestsStep ==
    ASSUME RequestsOK, Engaged, NamedOK, [Next]_vars
    PROVE  RequestsOK' /\ Engaged'
<1>1. /\ request' \in [Requests -> RequestRecord]
      /\ \A q \in Requests : EngagedRequest(request'[q])
  <2>1. CASE request' = request
    BY <2>1 DEF RequestsOK, Engaged, EngagedRequest
  <2>2. ASSUME NEW r \in Requests, Moves(r), Only(r)
        PROVE  /\ request' \in [Requests -> RequestRecord]
               /\ \A q \in Requests : EngagedRequest(request'[q])
    <3>1. request'[r] \in RequestRecord /\ EngagedRequest(request'[r])
      BY <2>2, MovedRecord
    <3>2. \A q \in Requests : EngagedRequest(request[q])
      BY DEF Engaged, EngagedRequest
    <3>3. \A q \in Requests \ {r} : request'[q] = request[q]
      BY <2>2 DEF Only, RequestsOK
    <3>. QED  BY <2>2, <3>1, <3>2, <3>3 DEF RequestsOK, Only
  <2>. QED  BY <2>1, <2>2, RequestMoves
<1>. QED  BY <1>1 DEF RequestsOK, Engaged, EngagedRequest

-----------------------------------------------------------------------------
(* What a step does to one record *)

Touched(u) ==
    \/ instances'[u] \in {NewInstance, Absent}
    \/ Eligible(u) /\ instances'[u] = Taking(instances[u])
    \/ /\ u \in Present /\ Held(u)
       /\ instances'[u] \in {SuccessOf(instances[u]), FailureOf(instances[u])}
    \/ u \in Present /\ instances'[u] = Cooler(instances[u])

\* Only the record of u is touched, and how.
Sets(u, i) == instances' = [instances EXCEPT ![u] = i]

LEMMA BalancerMoves ==
    ASSUME InstancesOK, NEW u \in URLs
    PROVE  /\ GetNextInstance(u) => Eligible(u) /\ Sets(u, Taking(instances[u]))
           /\ RecordSuccess(u) /\ u \in Present => Sets(u, SuccessOf(instances[u]))
           /\ RecordSuccess(u) /\ u \notin Present => instances' = instances
           /\ MarkFailure(u) => u \in Present /\ Sets(u, FailureOf(instances[u]))
           /\ AddInstance(u) => Sets(u, NewInstance)
           /\ RemoveInstance(u) => Sets(u, Absent)
<1>1. GetNextInstance(u) => Eligible(u) /\ Sets(u, Taking(instances[u]))
  <2>1. HAVE GetNextInstance(u)
  <2>2. [instances EXCEPT ![u].active = @ + 1] = [instances EXCEPT ![u] = Taking(instances[u])]
    BY DEF InstancesOK, Taking
  <2>. QED  BY <2>1, <2>2 DEF GetNextInstance, Sets
<1>2. RecordSuccess(u) /\ u \in Present => Sets(u, SuccessOf(instances[u]))
  BY DEF RecordSuccess, Sets, SuccessOf, Succeeded
<1>3. RecordSuccess(u) /\ u \notin Present => instances' = instances
  BY DEF RecordSuccess
<1>4. MarkFailure(u) => u \in Present /\ Sets(u, FailureOf(instances[u]))
  <2>1. HAVE MarkFailure(u)
  <2>2. instances' = [instances EXCEPT ![u] =
              IF Failed(instances[u]).available /\ Failed(instances[u]).failures >= UnhealthyThreshold
              THEN [Failed(instances[u]) EXCEPT !.available = FALSE,
                                                !.cooling = Backoff(Failed(instances[u]).failures)]
              ELSE Failed(instances[u])]
    BY <2>1, Zenon DEF MarkFailure
  <2>3. u \in Present
    BY <2>1 DEF MarkFailure
  <2>4. Failed(instances[u]).available = instances[u].available
    BY <2>3, PresentRecord, FailedRecord
  <2>5. instances' = [instances EXCEPT ![u] = FailureOf(instances[u])]
    BY <2>2, <2>4, Zenon DEF FailureOf
  <2>. QED  BY <2>3, <2>5 DEF Sets
<1>. QED  BY <1>1, <1>2, <1>3, <1>4 DEF AddInstance, RemoveInstance, Sets

LEMMA SetsOne ==
    ASSUME InstancesOK, NEW u \in URLs, NEW i \in Record \cup {Absent}, Sets(u, i)
    PROVE  /\ InstancesOK' /\ instances'[u] = i
           /\ \A v \in URLs \ {u} : instances'[v] = instances[v]
BY DEF InstancesOK, Sets

InstancesMove == InstancesOK' /\ \A u \in URLs : instances'[u] = instances[u] \/ Touched(u)

LEMMA InstancesStep ==
    ASSUME InstancesOK, Engaged, [Next]_vars
    PROVE  InstancesMove
<1>1. ASSUME NEW r \in Requests, Take(r)
      PROVE  InstancesMove
  <2>1. PICK u \in URLs : GetNextInstance(u)
    BY <1>1 DEF Take
  <2>2. Eligible(u) /\ u \in Present /\ Sets(u, Taking(instances[u]))
    BY <2>1, BalancerMoves DEF Eligible
  <2>3. Taking(instances[u]) \in Record
    BY <2>2, PresentRecord, TakingRecord
  <2>. QED  BY <2>2, <2>3, SetsOne DEF InstancesMove, Touched
<1>2. ASSUME NEW r \in Requests, RequestStep(r), ~ReportSuccess(r), ~ReportFailure(r)
      PROVE  InstancesMove
  <2>1. instances' = instances
    BY <1>2 DEF RequestStep, Lookup, CreateBreaker, ContextDone, Admit, Reject, ExchangeSucceeds,
                ExchangeFails, Returns, balancer
  <2>. QED  BY <2>1 DEF InstancesMove, InstancesOK
<1>3. ASSUME NEW r \in Requests, ReportSuccess(r)
      PROVE  InstancesMove
  <2> DEFINE u == request[r].url
  <2>1. u \in URLs /\ RecordSuccess(u) /\ Held(u)
    BY <1>3 DEF ReportSuccess, Engaged, At, Held
  <2>. HIDE DEF u
  <2>2. CASE u \in Present
    <3>1. SuccessOf(instances[u]) \in Record
      BY <2>1, <2>2, PresentRecord, SuccessRecord
    <3>2. Sets(u, SuccessOf(instances[u]))
      BY <2>1, <2>2, BalancerMoves
    <3>. QED  BY <2>1, <2>2, <3>1, <3>2, SetsOne DEF InstancesMove, Touched
  <2>3. CASE u \notin Present
    <3>1. instances' = instances
      BY <2>1, <2>3, BalancerMoves
    <3>. QED  BY <3>1 DEF InstancesMove, InstancesOK
  <2>. QED  BY <2>2, <2>3
<1>4. ASSUME NEW r \in Requests, ReportFailure(r)
      PROVE  InstancesMove
  <2> DEFINE u == request[r].url
  <2>1. u \in URLs /\ Held(u) /\ (MarkFailure(u) \/ UNCHANGED balancer)
    BY <1>4 DEF ReportFailure, Engaged, At, Held
  <2>. HIDE DEF u
  <2>2. CASE MarkFailure(u)
    <3>1. u \in Present /\ Sets(u, FailureOf(instances[u]))
      BY <2>1, <2>2, BalancerMoves
    <3>2. FailureOf(instances[u]) \in Record
      BY <2>1, <3>1, PresentRecord, FailureRecord
    <3>. QED  BY <2>1, <3>1, <3>2, SetsOne DEF InstancesMove, Touched
  <2>3. CASE UNCHANGED balancer
    BY <2>3 DEF balancer, InstancesMove, InstancesOK
  <2>. QED  BY <2>1, <2>2, <2>3
<1>5. ASSUME NEW u \in URLs, Edit(u)
      PROVE  InstancesMove
  <2>1. CASE AddInstance(u)
    BY <2>1, BalancerMoves, SetsOne, NewIsRecord DEF InstancesMove, Touched
  <2>2. CASE RemoveInstance(u)
    BY <2>2, BalancerMoves, SetsOne DEF InstancesMove, Touched
  <2>. QED  BY <1>5, <2>1, <2>2 DEF Edit
<1>6. CASE \/ \E u \in URLs : Manage(u)
           \/ Check
           \/ UNCHANGED vars
  <2>1. instances' = instances
    BY <1>6 DEF Manage, Check, CheckBegins, CheckStep, CheckReads, CheckStoresHealthy,
                CheckStoresUnhealthy, vars, balancer
  <2>. QED  BY <2>1 DEF InstancesMove, InstancesOK
<1>7. CASE Tick
  <2>1. \A u \in URLs : Cooled[u] = IF u \in Present THEN Cooler(instances[u]) ELSE instances[u]
    BY DEF Cooled, Cooler
  <2>2. \A u \in URLs : Cooled[u] \in Record \cup {Absent}
    BY <2>1, PresentRecord, CoolerRecord
  <2>3. Cooled \in [URLs -> Record \cup {Absent}] /\ instances' = Cooled
    BY <1>7, <2>2 DEF Cooled, Tick
  <2>. QED  BY <2>1, <2>3 DEF InstancesMove, InstancesOK, Touched
<1>. QED  BY <1>1, <1>2, <1>3, <1>4, <1>5, <1>6, <1>7 DEF Next

-----------------------------------------------------------------------------
(* The records *)

LEMMA AgreeStep ==
    ASSUME InstancesOK, Engaged, RecordsAgree, [Next]_vars
    PROVE  RecordsAgree'
<1>0. InstancesMove
  BY InstancesStep
<1>. SUFFICES ASSUME NEW u \in URLs, (u \in Present)'
              PROVE  Agrees(instances'[u])
  BY DEF RecordsAgree, Agrees, Present
<1>1. instances'[u].present
  BY DEF Present
<1>2. u \in Present => instances[u] \in Record /\ Agrees(instances[u])
  BY PresentRecord DEF RecordsAgree, Agrees
<1>3. CASE instances'[u] = instances[u]
  <2>1. u \in Present
    BY <1>1, <1>3 DEF Present
  <2>. QED  BY <1>2, <1>3, <2>1
<1>4. CASE instances'[u] \in {NewInstance, Absent}
  BY <1>1, <1>4, NewIsRecord
<1>5. CASE Eligible(u) /\ instances'[u] = Taking(instances[u])
  BY <1>2, <1>5, TakingRecord DEF Eligible
<1>6. CASE u \in Present /\ instances'[u] \in {SuccessOf(instances[u]), FailureOf(instances[u])}
  BY <1>2, <1>6, SuccessRecord, FailureRecord
<1>7. CASE u \in Present /\ instances'[u] = Cooler(instances[u])
  BY <1>2, <1>7, CoolerRecord
<1>. QED  BY <1>0, <1>3, <1>4, <1>5, <1>6, <1>7 DEF InstancesMove, Touched

LEMMA MoveKeepsURL ==
    ASSUME RequestsOK, NEW r \in Requests, Moves(r)
    PROVE  \/ request'[r].url = request[r].url
           \/ request'[r].url = NoURL
           \/ \E u \in URLs : Eligible(u) /\ request'[r].url = u
<1>1. request[r] \in RequestRecord
  BY RequestFields
<1>2. CASE Begins(r)
  <2>1. PICK u \in URLs : Eligible(u) /\ request'[r] = [Idle EXCEPT !.at = "lookup", !.url = u]
    BY <1>2 DEF Begins
  <2>2. request'[r].url = u
    BY <2>1 DEF Idle
  <2>. QED  BY <2>1, <2>2
<1>3. CASE Looks(r)
  BY <1>1, <1>3 DEF RequestRecord, Looks
<1>4. CASE Creates(r)
  BY <1>1, <1>4 DEF RequestRecord, Creates
<1>5. CASE Enters(r) \/ Leaves(r) \/ Tells(r)
  BY <1>1, <1>5 DEF RequestRecord, Enters, Leaves, Tells
<1>6. CASE Finishes(r)
  BY <1>6 DEF Finishes, Idle
<1>. QED  BY <1>2, <1>3, <1>4, <1>5, <1>6 DEF Moves

LEMMA DownStep ==
    ASSUME InstancesOK, RequestsOK, Engaged, [Next]_vars, NEW u \in URLs, Down(u), ~Held(u)
    PROVE  \/ Down(u)' /\ ~Held(u)'
           \/ instances'[u] \in {NewInstance, Absent}
<1>1. u \in Present /\ ~instances[u].available /\ instances[u] \in Record
  BY PresentRecord DEF Down, Present
<1>2. ~Eligible(u)
  BY <1>1 DEF Eligible
<1>3. ~Held(u)'
  <2>1. CASE request' = request
    BY <2>1 DEF Held
  <2>2. ASSUME NEW r \in Requests, Moves(r), Only(r)
        PROVE  ~Held(u)'
    <3>1. \A q \in Requests \ {r} : request'[q].url # u
      BY <2>2 DEF Only, RequestsOK, Held
    <3>2. request'[r].url # u
      BY <1>2, <2>2, MoveKeepsURL, BalancerConstants DEF Held
    <3>. QED  BY <3>1, <3>2 DEF Held
  <2>. QED  BY <2>1, <2>2, RequestMoves
<1>4. CASE instances'[u] = instances[u]
  BY <1>3, <1>4 DEF Down
<1>5. CASE u \in Present /\ instances'[u] = Cooler(instances[u])
  <2>1. instances'[u] \in Record /\ ~instances'[u].available
    BY <1>1, <1>5, CoolerRecord
  <2>2. instances'[u].present
    BY <2>1, RecordFields
  <2>. QED  BY <1>3, <2>1, <2>2 DEF Down
<1>. QED  BY <1>2, <1>4, <1>5, InstancesStep DEF InstancesMove, Touched

-----------------------------------------------------------------------------
(* The breakers *)

Circuit == [state : {"none", "closed", "open", "halfOpen"},
            failures : 0 .. MaxFailures, successes : 0 .. Trials, wait : 0 .. ResetTimeout]

BreakersOK ==
    /\ breakers \in [Ids -> Circuit] /\ NamedOK
    /\ dropped \subseteq Made /\ \A n \in Mapped : named[n] \in Made

LEMMA ManagerConstants ==
    /\ MaxBreakers \in Nat /\ MaxFailures \in Nat \ {0} /\ ResetTimeout \in Nat \ {0}
    /\ Trials \in Nat \ {0} /\ Names = URLs
BY ManagerAssumption, RequestAssumption

LEMMA CircuitFields ==
    ASSUME NEW c \in Circuit
    PROVE  /\ c.state \in {"none", "closed", "open", "halfOpen"} /\ c.failures \in 0 .. MaxFailures
           /\ c.successes \in 0 .. Trials /\ c.wait \in 0 .. ResetTimeout
BY DEF Circuit

LEMMA NewIsCircuit ==
    /\ NewCircuitBreaker \in Circuit /\ NewCircuitBreaker.state = "closed"
    /\ Unmade \in Circuit /\ Unmade.state = "none"
<1>1. 0 \in 0 .. MaxFailures /\ 0 \in 0 .. Trials /\ 0 \in 0 .. ResetTimeout
  BY ManagerConstants
<1>. QED  BY <1>1 DEF NewCircuitBreaker, Unmade, Circuit

LEMMA AdmittedCircuit ==
    ASSUME NEW c \in Circuit, c.state # "none"
    PROVE  Admitted(c) \in Circuit /\ Admitted(c).state # "none"
BY DEF Admitted, Circuit

LEMMA CountSuccessCircuit ==
    ASSUME NEW c \in Circuit, c.state # "none"
    PROVE  CountSuccess(c) \in Circuit /\ CountSuccess(c).state # "none"
<1>1. c.successes \in 0 .. Trials
  BY DEF Circuit
<1>2. Min2(Trials, c.successes + 1) \in 0 .. Trials
  BY <1>1, ManagerConstants DEF Min2
<1>3. PICK s \in 0 .. Trials : s = Min2(Trials, c.successes + 1)
  BY <1>2
<1>4. 0 \in 0 .. MaxFailures /\ 0 \in 0 .. Trials
  BY ManagerConstants
<1>5. \/ CountSuccess(c) = [c EXCEPT !.state = "closed", !.failures = 0, !.successes = 0]
      \/ CountSuccess(c) = [c EXCEPT !.successes = s]
  BY <1>3, Zenon DEF CountSuccess
<1>. QED  BY <1>4, <1>5 DEF Circuit

LEMMA CountFailureCircuit ==
    ASSUME NEW c \in Circuit, c.state # "none"
    PROVE  CountFailure(c) \in Circuit /\ CountFailure(c).state # "none"
<1>1. c.failures \in 0 .. MaxFailures
  BY DEF Circuit
<1>2. Min2(MaxFailures, c.failures + 1) \in 0 .. MaxFailures
  BY <1>1, ManagerConstants DEF Min2
<1>3. PICK f \in 0 .. MaxFailures : f = Min2(MaxFailures, c.failures + 1)
  BY <1>2
<1>4. 0 \in 0 .. Trials /\ ResetTimeout \in 0 .. ResetTimeout
  BY ManagerConstants
<1> DEFINE d == [c EXCEPT !.failures = f, !.wait = ResetTimeout]
<1>5. \/ CountFailure(c) = [d EXCEPT !.state = "open", !.successes = 0]
      \/ CountFailure(c) = [d EXCEPT !.state = "open"]
      \/ CountFailure(c) = d
  BY <1>3, Zenon DEF CountFailure
<1>6. d \in Circuit /\ d.state = c.state
  BY <1>4 DEF Circuit
<1>. HIDE DEF d
<1>. QED  BY <1>4, <1>5, <1>6 DEF Circuit

\* What a step does to the map and to the set of breakers.
Keeps == Made' = Made /\ named' = named /\ dropped' = dropped /\ total' = total

Adds(n, b) ==
    /\ n \notin Mapped /\ b = Cardinality(Made) + 1 /\ Made' = Made \cup {b}
    /\ named' = [named EXCEPT ![n] = b] /\ dropped' = dropped /\ total' = total + 1

Drops(ns) ==
    /\ MayDrop /\ ns # {} /\ ns \subseteq Mapped /\ Made' = Made
    /\ named' = [n \in URLs |-> IF n \in ns THEN 0 ELSE named[n]]
    /\ dropped' = dropped \cup {named[n] : n \in ns}
    /\ \/ (\E n \in URLs : ns = {n}) /\ total' = total - 1
       \/ ns = Mapped /\ total' = total

ManagerMove ==
    \/ Keeps
    \/ \E n \in URLs, b \in Ids : Adds(n, b)
    \/ \E ns \in SUBSET URLs : Drops(ns)

BreakersMove == breakers' \in [Ids -> Circuit] /\ ManagerMove

LEMMA UpdateMoves ==
    ASSUME BreakersOK, NEW b \in Made, NEW c \in Circuit, c.state # "none", Update(b, c)
    PROVE  BreakersMove
<1>1. /\ breakers' = [breakers EXCEPT ![b] = c] /\ b \in Ids
      /\ named' = named /\ dropped' = dropped /\ total' = total
  BY DEF Update, Made
<1>2. breakers' \in [Ids -> Circuit]
  BY <1>1 DEF BreakersOK
<1>3. Made' = Made
  BY <1>1 DEF BreakersOK, Made
<1>. QED  BY <1>1, <1>2, <1>3 DEF BreakersMove, ManagerMove, Keeps

LEMMA ReleaseMoves ==
    ASSUME BreakersOK, NEW b \in Made, NEW c \in Circuit, c.state # "none", NEW held, Release(b, c, held)
    PROVE  BreakersMove
<1>1. CASE b \in dropped \ held
  <2>1. Update(b, NewCircuitBreaker)
    BY <1>1 DEF Release
  <2>. QED  BY <2>1, UpdateMoves, NewIsCircuit
<1>2. CASE b \notin dropped \ held
  <2>1. Update(b, c)
    BY <1>2 DEF Release
  <2>. QED  BY <2>1, UpdateMoves
<1>. QED  BY <1>1, <1>2

LEMMA CreateMoves ==
    ASSUME BreakersOK, NEW n \in URLs, NEW b \in Ids, Create(n, b)
    PROVE  BreakersMove
<1>1. CASE UNCHANGED manager
  BY <1>1 DEF manager, BreakersMove, ManagerMove, Keeps, BreakersOK, Made
<1>2. CASE n \notin Mapped /\ NewBreaker(n, b)
  <2>1. breakers' = [breakers EXCEPT ![b] = NewCircuitBreaker]
    BY <1>2 DEF NewBreaker
  <2>2. breakers' \in [Ids -> Circuit]
    BY <2>1, NewIsCircuit DEF BreakersOK
  <2>3. Made' = Made \cup {b}
    BY <2>1, NewIsCircuit DEF BreakersOK, Made
  <2>4. Adds(n, b)
    BY <1>2, <2>3 DEF NewBreaker, Adds
  <2>. QED  BY <2>2, <2>4 DEF BreakersMove, ManagerMove
<1>. QED  BY <1>1, <1>2 DEF Create

LEMMA DropMoves ==
    ASSUME BreakersOK, NEW ns, NEW held, Drop(ns, held)
    PROVE  /\ MayDrop /\ breakers' \in [Ids -> Circuit] /\ Made' = Made
           /\ ns # {} /\ ns \subseteq Mapped /\ ns \in SUBSET URLs
           /\ named' = [n \in URLs |-> IF n \in ns THEN 0 ELSE named[n]]
           /\ dropped' = dropped \cup {named[n] : n \in ns}
<1>1. ns \in SUBSET URLs
  BY ManagerConstants DEF Drop, Mapped
<1>2. breakers' = [b \in Ids |-> IF b \in dropped' \ (dropped \cup held)
                                THEN NewCircuitBreaker ELSE breakers[b]]
  BY DEF Drop
<1>3. breakers' \in [Ids -> Circuit]
  BY <1>2, NewIsCircuit DEF BreakersOK
<1>4. dropped' = dropped \cup {named[n] : n \in ns} /\ ns # {} /\ ns \subseteq Mapped
  BY DEF Drop
<1>5. dropped' \ (dropped \cup held) \subseteq Made
  BY <1>4 DEF BreakersOK
<1>6. Made' = Made
  BY <1>2, <1>5, NewIsCircuit DEF BreakersOK, Made
<1>. QED  BY <1>1, <1>3, <1>4, <1>6, ManagerConstants DEF Drop

\* A request that is with the breaker is with one that was made.
LEMMA EngagedMade ==
    ASSUME BreakersOK, RequestsOK, Engaged, NEW r \in Requests,
           request[r].breaker # 0 => request[r].breaker \in dropped \cup {named[request[r].url]},
           request[r].at \in {"admit", "running"}
    PROVE  /\ request[r].breaker \in Made
           /\ Breaker(r) \in Circuit /\ Breaker(r).state # "none"
<1>1. request[r].url \in URLs /\ request[r].breaker # 0
  BY DEF Engaged
<1>2. request[r].breaker \in Made
  BY <1>1, ManagerConstants DEF BreakersOK, Mapped
<1>. QED  BY <1>2 DEF Breaker, BreakersOK, Made

\* The first part of OneBreaker.
CallsOwn ==
    \A r \in Requests :
        request[r].breaker # 0 => request[r].breaker \in dropped \cup {named[request[r].url]}

LEMMA ManagerStep ==
    ASSUME BreakersOK, RequestsOK, Engaged, CallsOwn, [Next]_vars
    PROVE  BreakersMove
<1>1. ASSUME UNCHANGED manager
      PROVE  BreakersMove
  BY <1>1 DEF manager, BreakersMove, ManagerMove, Keeps, BreakersOK, Made
<1>2. ASSUME NEW r \in Requests, NEW c \in Circuit, NEW next, Returns(r, c, next),
             c.state # "none", request[r].at \in {"admit", "running"}
      PROVE  BreakersMove
  <2>1. request[r].breaker \in Made
    BY <1>2, EngagedMade DEF CallsOwn
  <2>2. Release(request[r].breaker, c, HeldBy(Requests \ {r}))
    BY <1>2 DEF Returns
  <2>. QED  BY <1>2, <2>1, <2>2, ReleaseMoves
<1>3. ASSUME NEW r \in Requests, RequestStep(r)
      PROVE  BreakersMove
  <2>0. ASSUME request[r].at \in {"admit", "running"}
        PROVE  /\ Breaker(r) \in Circuit /\ Breaker(r).state # "none"
               /\ request[r].breaker \in Made
    BY <2>0, EngagedMade DEF CallsOwn
  <2>1. CASE Lookup(r) \/ ReportSuccess(r) \/ ReportFailure(r)
    BY <1>1, <2>1 DEF Lookup, ReportSuccess, ReportFailure
  <2>2. CASE CreateBreaker(r)
    <3>1. request[r].url \in URLs
      BY <2>2 DEF CreateBreaker, At, Engaged
    <3>. QED  BY <2>2, <3>1, CreateMoves DEF CreateBreaker
  <2>3. CASE ContextDone(r)
    BY <1>2, <2>0, <2>3 DEF ContextDone, At
  <2>4. CASE Admit(r)
    <3>1. request[r].at = "admit" /\ Update(request[r].breaker, Admitted(Breaker(r)))
      BY <2>4 DEF Admit, At
    <3>. QED  BY <2>0, <3>1, AdmittedCircuit, UpdateMoves
  <2>5. CASE Reject(r)
    BY <1>2, <2>0, <2>5 DEF Reject, At
  <2>6. CASE ExchangeSucceeds(r)
    <3>1. request[r].at = "running" /\ Returns(r, CountSuccess(Breaker(r)), "succeeded")
      BY <2>6 DEF ExchangeSucceeds, At
    <3>. QED  BY <1>2, <2>0, <3>1, CountSuccessCircuit
  <2>7. CASE ExchangeFails(r)
    <3>1. request[r].at = "running" /\ Returns(r, CountFailure(Breaker(r)), "failed")
      BY <2>7 DEF ExchangeFails, At
    <3>. QED  BY <1>2, <2>0, <3>1, CountFailureCircuit
  <2>. QED  BY <1>3, <2>1, <2>2, <2>3, <2>4, <2>5, <2>6, <2>7 DEF RequestStep
<1>4. ASSUME NEW u \in URLs, Manage(u)
      PROVE  BreakersMove
  <2>1. ASSUME NEW ns, NEW held, Drop(ns, held),
               \/ (\E n \in URLs : ns = {n}) /\ total' = total - 1
               \/ ns = Mapped /\ total' = total
        PROVE  BreakersMove
    <3>1. Drops(ns) /\ ns \in SUBSET URLs /\ breakers' \in [Ids -> Circuit]
      BY <2>1, DropMoves DEF Drops
    <3>. QED  BY <3>1 DEF BreakersMove, ManagerMove
  <2>2. CASE Remove(u, HeldBy(Requests))
    BY <2>1, <2>2 DEF Remove
  <2>3. CASE Close(HeldBy(Requests))
    BY <2>1, <2>3 DEF Close
  <2>4. CASE Reset(u)
    <3>1. named[u] \in Made
      BY <2>4 DEF Reset, BreakersOK
    <3>2. breakers[named[u]] \in Circuit
      BY <3>1 DEF BreakersOK, Made
    <3>3. PICK w \in 0 .. ResetTimeout : w = breakers[named[u]].wait
      BY <3>2, CircuitFields
    <3>4. [NewCircuitBreaker EXCEPT !.wait = w] \in Circuit
      BY NewIsCircuit DEF Circuit
    <3>5. [NewCircuitBreaker EXCEPT !.wait = w].state # "none"
      BY DEF NewCircuitBreaker, Unmade
    <3>6. Update(named[u], [NewCircuitBreaker EXCEPT !.wait = w])
      BY <2>4, <3>3 DEF Reset, WhenReset
    <3>. QED  BY <3>1, <3>4, <3>5, <3>6, UpdateMoves
  <2>. QED  BY <1>4, <2>2, <2>3, <2>4 DEF Manage
<1>5. CASE Tick
  <2> DEFINE w(b) == IF breakers[b].wait > 0 THEN breakers[b].wait - 1 ELSE 0
  <2>1. ASSUME NEW b \in Ids
        PROVE  Waited[b] \in Circuit /\ Waited[b].state = breakers[b].state
    <3>1. breakers[b] \in Circuit
      BY DEF BreakersOK
    <3>2. breakers[b].wait \in 0 .. ResetTimeout
      BY <3>1, CircuitFields
    <3>3. w(b) \in 0 .. ResetTimeout
      BY <3>2, ManagerConstants
    <3>4. PICK x \in 0 .. ResetTimeout : x = w(b)
      BY <3>3
    <3>5. Waited[b] = [breakers[b] EXCEPT !.wait = x]
      BY <3>4 DEF Waited, Waiting
    <3>. QED  BY <3>1, <3>5 DEF Circuit
  <2>2. breakers' = Waited /\ named' = named /\ dropped' = dropped /\ total' = total
    BY <1>5 DEF Tick
  <2>3. breakers' \in [Ids -> Circuit]
    BY <2>1, <2>2 DEF Waited
  <2>4. Made' = Made
    BY <2>1, <2>2 DEF Made
  <2>. QED  BY <2>2, <2>3, <2>4 DEF BreakersMove, ManagerMove, Keeps
<1>6. CASE \/ \E r \in Requests : Take(r)
           \/ \E u \in URLs : Edit(u)
           \/ Check
           \/ UNCHANGED vars
  BY <1>1, <1>6 DEF Take, Edit, Check, vars
<1>. QED  BY <1>3, <1>4, <1>5, <1>6 DEF Next

-----------------------------------------------------------------------------
(* One breaker for each instance *)

\* The breakers in the map are those that were made and not dropped, one for each name.
MapOK ==
    /\ \E k \in 0 .. MaxBreakers : Made = 1 .. k
    /\ \A m, n \in Mapped : named[m] = named[n] => m = n
    /\ {named[n] : n \in Mapped} = Made \ dropped

TotalOK == total \in Int /\ total \in Cardinality(Mapped) .. Cardinality(Made)

ManagerInv == BreakersOK /\ MapOK /\ TotalOK

LEMMA MadeFinite ==
    ASSUME NEW k \in Nat, Made = 1 .. k
    PROVE  IsFiniteSet(Made) /\ Cardinality(Made) = k /\ k + 1 \notin Made
BY FS_Interval

LEMMA MappedCount ==
    ASSUME NamedOK, MapOK
    PROVE  /\ IsFiniteSet(Mapped) /\ Cardinality(Mapped) \in Nat
           /\ Cardinality(Mapped) = Cardinality(Made \ dropped)
<1>1. PICK k \in Nat : Made = 1 .. k
  BY ManagerConstants DEF MapOK
<1>2. IsFiniteSet(Made)
  BY <1>1, MadeFinite
<1>3. IsFiniteSet(Made \ dropped)
  BY <1>2, FS_Difference
<1> DEFINE f == [n \in Mapped |-> named[n]]
<1>4. f \in Bijection(Mapped, Made \ dropped)
  <2>1. f \in [Mapped -> Made \ dropped]
    BY DEF MapOK
  <2>2. \A m, n \in Mapped : f[m] = f[n] => m = n
    BY DEF MapOK
  <2>3. \A b \in Made \ dropped : \E n \in Mapped : f[n] = b
    BY DEF MapOK
  <2>. QED  BY <2>1, <2>2, <2>3 DEF Bijection, Injection, Surjection, IsInjective
<1>. HIDE DEF f
<1>5. IsFiniteSet(Mapped)
  BY <1>3, <1>4, FS_Injection DEF Bijection
<1>6. Cardinality(Mapped) = Cardinality(Made \ dropped)
  BY <1>4, <1>5, FS_Bijection DEF ExistsBijection
<1>. QED  BY <1>5, <1>6, FS_CardinalityType

LEMMA ManagerInvStep ==
    ASSUME ManagerInv, BreakersMove
    PROVE  ManagerInv'
<1>0. /\ BreakersOK /\ MapOK /\ TotalOK
  BY DEF ManagerInv
<1>0a. IsFiniteSet(Mapped) /\ Cardinality(Mapped) \in Nat
  BY <1>0, MappedCount DEF BreakersOK
<1>0b. PICK k \in 0 .. MaxBreakers : Made = 1 .. k
  BY <1>0 DEF MapOK
<1>0c. k \in Nat /\ IsFiniteSet(Made) /\ Cardinality(Made) = k /\ k + 1 \notin Made
  BY <1>0b, MadeFinite, ManagerConstants
<1>0d. breakers' \in [Ids -> Circuit]
  BY DEF BreakersMove
<1>1. CASE Keeps
  BY <1>0, <1>0d, <1>1 DEF Keeps, ManagerInv, BreakersOK, NamedOK, MapOK, TotalOK, Mapped
<1>2. ASSUME NEW n \in URLs, NEW b \in Ids, Adds(n, b)
      PROVE  ManagerInv'
  <2>1. /\ n \notin Mapped /\ b = k + 1 /\ Made' = Made \cup {b} /\ b \notin Made /\ b # 0
        /\ named' = [named EXCEPT ![n] = b] /\ dropped' = dropped /\ total' = total + 1
        /\ b \in 0 .. MaxBreakers
    BY <1>0c, <1>2, ManagerConstants DEF Adds, Ids
  <2>2. NamedOK'
    BY <1>0, <2>1 DEF BreakersOK, NamedOK
  <2>3. Mapped' = Mapped \cup {n}
    BY <1>0, <2>1, ManagerConstants DEF Mapped, BreakersOK, NamedOK
  <2>4. named'[n] = b /\ \A m \in Mapped : m # n /\ named'[m] = named[m] /\ named[m] \in Made \ dropped
    BY <1>0, <2>1, ManagerConstants DEF BreakersOK, NamedOK, Mapped, MapOK
  <2>5. dropped \subseteq Made
    BY <1>0 DEF BreakersOK
  <2>6. BreakersOK'
    BY <1>0d, <2>1, <2>2, <2>3, <2>4, <2>5 DEF BreakersOK
  <2>7. Made' = 1 .. b
    BY <1>0b, <1>0c, <2>1
  <2>8. \A m, l \in Mapped' : named'[m] = named'[l] => m = l
    BY <1>0, <2>1, <2>3, <2>4 DEF MapOK
  <2>9. {named'[m] : m \in Mapped'} = Made' \ dropped'
    <3>1. {named'[m] : m \in Mapped'} = {named[m] : m \in Mapped} \cup {b}
      BY <2>3, <2>4
    <3>. QED  BY <1>0, <2>1, <2>5, <3>1 DEF MapOK
  <2>10. MapOK'
    BY <2>1, <2>7, <2>8, <2>9 DEF MapOK
  <2>11. Cardinality(Mapped') = Cardinality(Mapped) + 1 /\ Cardinality(Made') = k + 1
    BY <1>0a, <1>0c, <2>1, <2>3, FS_AddElement
  <2>12. TotalOK'
    BY <1>0, <1>0a, <1>0c, <2>1, <2>11 DEF TotalOK
  <2>. QED  BY <2>6, <2>10, <2>12 DEF ManagerInv
<1>3. ASSUME NEW ns \in SUBSET URLs, Drops(ns)
      PROVE  ManagerInv'
  <2>1. /\ ns \subseteq Mapped /\ Made' = Made /\ ns # {}
        /\ named' = [n \in URLs |-> IF n \in ns THEN 0 ELSE named[n]]
        /\ dropped' = dropped \cup {named[n] : n \in ns}
    BY <1>3 DEF Drops
  <2>2. NamedOK'
    BY <1>0, <2>1, ManagerConstants DEF BreakersOK, NamedOK
  <2>3. Mapped' = Mapped \ ns
    BY <2>1, ManagerConstants DEF Mapped
  <2>4. \A m \in Mapped \ ns : named'[m] = named[m]
    BY <2>1, ManagerConstants DEF Mapped
  <2>5. \A m \in Mapped : named[m] \in Made \ dropped
    BY <1>0 DEF MapOK
  <2>6. BreakersOK'
    <3>1. dropped' \subseteq Made'
      BY <1>0, <2>1, <2>5 DEF BreakersOK
    <3>2. \A m \in Mapped' : named'[m] \in Made'
      BY <2>1, <2>3, <2>4, <2>5
    <3>. QED  BY <1>0d, <2>2, <3>1, <3>2 DEF BreakersOK
  <2>7. \A m, l \in Mapped' : named'[m] = named'[l] => m = l
    BY <1>0, <2>3, <2>4 DEF MapOK
  <2>8. {named'[m] : m \in Mapped'} = Made' \ dropped'
    <3>1. {named'[m] : m \in Mapped'} = {named[m] : m \in Mapped \ ns}
      BY <2>3, <2>4
    <3>2. {named[m] : m \in Mapped \ ns} = {named[m] : m \in Mapped} \ {named[n] : n \in ns}
      BY <1>0, <2>1 DEF MapOK
    <3>. QED  BY <1>0, <2>1, <3>1, <3>2 DEF MapOK
  <2>9. MapOK'
    BY <1>0b, <2>1, <2>7, <2>8 DEF MapOK
  <2>10. TotalOK'
    <3>1. CASE ns = Mapped /\ total' = total
      <4>1. Cardinality(Mapped') = 0
        BY <2>3, <3>1, FS_EmptySet
      <4>. QED  BY <1>0, <1>0a, <1>0c, <2>1, <3>1, <4>1 DEF TotalOK
    <3>2. ASSUME NEW n \in URLs, ns = {n}, total' = total - 1
          PROVE  TotalOK'
      <4>1. Cardinality(Mapped') = Cardinality(Mapped) - 1
        BY <1>0a, <2>1, <2>3, <3>2, FS_RemoveElement
      <4>. QED  BY <1>0, <1>0a, <1>0c, <2>1, <3>2, <4>1 DEF TotalOK
    <3>. QED  BY <1>3, <3>1, <3>2 DEF Drops
  <2>. QED  BY <2>6, <2>9, <2>10 DEF ManagerInv
<1>. QED  BY <1>1, <1>2, <1>3 DEF BreakersMove, ManagerMove

\* The breaker of a call stays the one in the map, or is dropped.
LEMMA OwnStays ==
    ASSUME NamedOK, ManagerMove, NEW u \in URLs, NEW b, b # 0, b \in dropped \cup {named[u]}
    PROVE  b \in dropped' \cup {named'[u]}
<1>1. CASE Keeps
  BY <1>1 DEF Keeps
<1>2. ASSUME NEW n \in URLs, NEW c \in Ids, Adds(n, c)
      PROVE  b \in dropped' \cup {named'[u]}
  BY <1>2, ManagerConstants DEF Adds, NamedOK, Mapped
<1>3. ASSUME NEW ns \in SUBSET URLs, Drops(ns)
      PROVE  b \in dropped' \cup {named'[u]}
  BY <1>3 DEF Drops
<1>. QED  BY <1>1, <1>2, <1>3 DEF ManagerMove

LEMMA CallsOwnStep ==
    ASSUME RequestsOK, Engaged, NamedOK, CallsOwn, ManagerMove, [Next]_vars
    PROVE  CallsOwn'
<1>1. ASSUME NEW r \in Requests, request'[r] = request[r], request'[r].breaker # 0
      PROVE  request'[r].breaker \in dropped' \cup {named'[request'[r].url]}
  <2>1. request[r].url \in URLs
    BY <1>1 DEF Engaged
  <2>. QED  BY <1>1, <2>1, OwnStays DEF CallsOwn
<1>2. ASSUME NEW r \in Requests, Moves(r), request'[r].breaker # 0
      PROVE  request'[r].breaker \in dropped' \cup {named'[request'[r].url]}
  <2>0. request[r] \in RequestRecord
    BY RequestFields
  <2>1. CASE Begins(r) \/ Finishes(r)
    <3>1. Idle.breaker = 0 /\ \A u \in URLs : [Idle EXCEPT !.at = "lookup", !.url = u].breaker = 0
      BY DEF Idle
    <3>2. request'[r] = Idle \/ \E u \in URLs : request'[r] = [Idle EXCEPT !.at = "lookup", !.url = u]
      BY <2>1 DEF Begins, Finishes
    <3>3. request'[r].breaker = 0
      BY <3>1, <3>2, Zenon
    <3>. QED  BY <1>2, <3>3
  <2>2. CASE Looks(r)
    <3>1. /\ request[r].url \in URLs /\ request'[r].url = request[r].url
          /\ request'[r].breaker = named[request[r].url]
      BY <2>0, <2>2 DEF Looks, Engaged, RequestRecord
    <3>. QED  BY <1>2, <3>1, OwnStays
  <2>3. CASE Creates(r)
    <3>1. PICK b \in Ids : Create(request[r].url, b)
                         /\ request'[r] = [request[r] EXCEPT !.at = "admit", !.breaker = b]
      BY <2>3 DEF Creates
    <3>2. request[r].url \in URLs /\ request'[r].url = request[r].url /\ request'[r].breaker = b
      BY <2>0, <2>3, <3>1 DEF Creates, Engaged, RequestRecord
    <3>3. named'[request[r].url] = b
      BY <3>1, <3>2 DEF Create, NewBreaker, NamedOK, manager
    <3>. QED  BY <3>2, <3>3
  <2>4. CASE Enters(r)
    <3>1. /\ request[r].url \in URLs /\ request'[r].url = request[r].url
          /\ request'[r].breaker = request[r].breaker
      BY <2>0, <2>4 DEF Enters, Engaged, RequestRecord
    <3>. QED  BY <1>2, <3>1, OwnStays DEF CallsOwn
  <2>5. CASE Leaves(r) \/ Tells(r)
    <3>1. request'[r].breaker = 0
      BY <2>0, <2>5 DEF Leaves, Tells, Engaged, RequestRecord
    <3>. QED  BY <1>2, <3>1
  <2>. QED  BY <1>2, <2>1, <2>2, <2>3, <2>4, <2>5 DEF Moves
<1>3. CASE request' = request
  BY <1>1, <1>3 DEF CallsOwn
<1>4. ASSUME NEW r \in Requests, Moves(r), Only(r)
      PROVE  CallsOwn'
  <2>1. \A q \in Requests \ {r} : request'[q] = request[q]
    BY <1>4 DEF Only, RequestsOK
  <2>. QED  BY <1>1, <1>2, <1>4, <2>1 DEF CallsOwn
<1>. QED  BY <1>3, <1>4, RequestMoves

-----------------------------------------------------------------------------
(* The statistics, the monitor and the edits *)

Count == [total : Int, healthy : Int, unhealthy : Int]

MonitorRecord == [at : {"asleep", "reading", "stored"}, left : SUBSET URLs, size : Nat, healthy : Nat]

CountsOK == counts \in Count /\ monitor \in MonitorRecord

EditsOK == edits \in [URLs -> 0 .. MaxEdits]

LEMMA CountingType ==
    ASSUME counts \in Count, NEW t \in Int, NEW h \in Int, NEW n \in Int, Counting(t, h, n)
    PROVE  counts' \in Count /\ counts'.healthy = counts.healthy + h /\ counts'.unhealthy = counts.unhealthy + n
BY DEF Counting, Count

LEMMA PresentFinite ==
    /\ IsFiniteSet(Present) /\ Cardinality(Present) \in Nat
    /\ IsFiniteSet(Healthy) /\ Cardinality(Healthy) \in Nat
<1>1. Present \in SUBSET URLs /\ Healthy \in SUBSET URLs
  BY DEF Present, Healthy
<1>. QED  BY <1>1, BalancerConstants, FS_Subset, FS_CardinalityType

LEMMA ReadType ==
    ASSUME monitor \in MonitorRecord, NEW u \in URLs
    PROVE  [monitor EXCEPT !.left = @ \ {u}, !.healthy = IF Down(u) THEN @ ELSE @ + 1] \in MonitorRecord
<1>1. monitor.healthy \in Nat /\ monitor.left \in SUBSET URLs
  BY DEF MonitorRecord
<1>2. PICK h \in Nat : h = IF Down(u) THEN monitor.healthy ELSE monitor.healthy + 1
  BY <1>1
<1>3. [monitor EXCEPT !.left = monitor.left \ {u}, !.healthy = h] \in MonitorRecord
  BY <1>1 DEF MonitorRecord
<1>. QED  BY <1>2, <1>3

LEMMA DetachedType ==
    ASSUME monitor \in MonitorRecord, NEW u \in URLs
    PROVE  Detached(u) \in MonitorRecord
BY ReadType DEF Detached

LEMMA CountsStep ==
    ASSUME CountsOK, Engaged, [Next]_vars
    PROVE  CountsOK'
<1>1. ASSUME UNCHANGED <<counts, monitor>>
      PROVE  CountsOK'
  BY <1>1 DEF CountsOK
<1>2. CASE \/ \E r \in Requests : \/ Take(r) \/ Lookup(r) \/ CreateBreaker(r) \/ ContextDone(r) \/ Admit(r)
                               \/ Reject(r) \/ ExchangeSucceeds(r) \/ ExchangeFails(r)
           \/ \E u \in URLs : Manage(u)
           \/ Tick
           \/ UNCHANGED vars
  BY <1>1, <1>2 DEF Take, GetNextInstance, Lookup, CreateBreaker, ContextDone, Admit, Reject, ExchangeSucceeds,
        ExchangeFails, Returns, balancer, Manage, Tick, vars
<1>3. ASSUME NEW r \in Requests, ReportSuccess(r)
      PROVE  CountsOK'
  <2>1. /\ monitor' = monitor
        /\ counts' = counts \/ Counting(0, 1, -1)
    BY <1>3 DEF ReportSuccess, RecordSuccess
  <2>. QED  BY <2>1, CountingType DEF CountsOK
<1>4. ASSUME NEW r \in Requests, ReportFailure(r)
      PROVE  CountsOK'
  <2>1. /\ monitor' = monitor
        /\ counts' = counts \/ Counting(0, -1, 1)
    BY <1>4 DEF ReportFailure, MarkFailure, balancer
  <2>. QED  BY <2>1, CountingType DEF CountsOK
<1>5. ASSUME NEW u \in URLs, Edit(u)
      PROVE  CountsOK'
  <2>1. /\ monitor' = Detached(u)
        /\ Counting(1, 1, 0) \/ Counting(-1, 0, -1) \/ Counting(-1, -1, 0)
    BY <1>5 DEF Edit, AddInstance, RemoveInstance
  <2>. QED  BY <2>1, CountingType, DetachedType DEF CountsOK
<1>6. CASE Check
  <2>1. CASE CheckBegins
    <3>1. PICK n \in Nat : n = Cardinality(Present)
      BY PresentFinite
    <3>2. monitor' = [at |-> "reading", left |-> Present, size |-> n, healthy |-> 0] /\ counts' = counts
      BY <2>1, <3>1 DEF CheckBegins
    <3>3. monitor' \in MonitorRecord
      BY <3>2 DEF MonitorRecord, Present
    <3>. QED  BY <3>2, <3>3 DEF CountsOK
  <2>2. CASE CheckReads
    <3>1. PICK u \in monitor.left :
             monitor' = [monitor EXCEPT !.left = @ \ {u}, !.healthy = IF Down(u) THEN @ ELSE @ + 1]
      BY <2>2 DEF CheckReads
    <3>2. u \in URLs /\ counts' = counts
      BY <2>2 DEF CheckReads, CountsOK, MonitorRecord
    <3>. QED  BY <3>1, <3>2, ReadType DEF CountsOK
  <2>3. CASE CheckStoresHealthy
    <3>1. monitor' \in MonitorRecord
      BY <2>3 DEF CheckStoresHealthy, CountsOK, MonitorRecord
    <3>2. monitor.healthy \in Int /\ counts' = [counts EXCEPT !.healthy = monitor.healthy]
      BY <2>3 DEF CheckStoresHealthy, CountsOK, MonitorRecord
    <3>. QED  BY <3>1, <3>2 DEF CountsOK, Count
  <2>4. CASE CheckStoresUnhealthy
    <3>1. monitor' \in MonitorRecord
      BY <2>4 DEF CheckStoresUnhealthy, Asleep, MonitorRecord
    <3>2. monitor.size \in Int /\ monitor.healthy \in Int
      BY DEF CountsOK, MonitorRecord
    <3>3. PICK n \in Int : n = monitor.size - monitor.healthy
      BY <3>2
    <3>4. counts' = [counts EXCEPT !.unhealthy = n]
      BY <2>4, <3>3 DEF CheckStoresUnhealthy
    <3>. QED  BY <3>1, <3>4 DEF CountsOK, Count
  <2>. QED  BY <1>6, <2>1, <2>2, <2>3, <2>4 DEF Check, CheckStep
<1>. QED  BY <1>2, <1>3, <1>4, <1>5, <1>6 DEF Next, RequestStep

LEMMA EditsStep ==
    ASSUME EditsOK, ManagerInv, [Next]_vars
    PROVE  EditsOK' /\ \A u \in URLs : edits'[u] = edits[u] \/ edits'[u] = edits[u] + 1
<1>1. CASE edits' = edits
  BY <1>1 DEF EditsOK
<1>2. ASSUME NEW u \in URLs, Edit(u)
      PROVE  EditsOK' /\ \A v \in URLs : edits'[v] = edits[v] \/ edits'[v] = edits[v] + 1
  <2>1. Cardinality(dropped) \in Nat
    <3>1. PICK k \in Nat : Made = 1 .. k
      BY ManagerConstants DEF ManagerInv, MapOK
    <3>2. IsFiniteSet(Made) /\ dropped \in SUBSET Made
      BY <3>1, MadeFinite DEF ManagerInv, BreakersOK
    <3>. QED  BY <3>2, FS_Subset, FS_CardinalityType
  <2>2. edits' = [edits EXCEPT ![u] = edits[u] + 1] /\ edits[u] + Cardinality(dropped) < MaxEdits
    BY <1>2 DEF Edit, MayEdit
  <2>3. edits[u] \in Nat
    BY BalancerConstants DEF EditsOK
  <2>4. edits[u] + 1 \in 0 .. MaxEdits
    BY <2>1, <2>2, <2>3, BalancerConstants
  <2>. QED  BY <2>2, <2>4 DEF EditsOK
<1>. QED
  BY <1>1, <1>2 DEF Next, RequestStep, Take, Lookup, CreateBreaker, ContextDone, Admit, Reject,
        ExchangeSucceeds, ExchangeFails, Returns, ReportSuccess, ReportFailure, Manage, Check, Tick, vars

-----------------------------------------------------------------------------
(* The theorems *)

UpstreamInv ==
    /\ InstancesOK /\ RequestsOK /\ Engaged
    /\ CountsOK /\ EditsOK
    /\ ManagerInv /\ CallsOwn
    /\ RecordsAgree

LEMMA UpstreamInit == Init => UpstreamInv
<1>. SUFFICES ASSUME Init
              PROVE  UpstreamInv
  OBVIOUS
<1>1. InstancesOK /\ RecordsAgree
  <2>1. instances = [u \in URLs |-> NewInstance]
    BY DEF Init, BalancerInit
  <2>. QED  BY <2>1, NewIsRecord DEF InstancesOK, RecordsAgree, Agrees, Present
<1>2. RequestsOK /\ Engaged /\ CallsOwn
  <2>1. request = [r \in Requests |-> Idle]
    BY DEF Init
  <2>2. Idle.breaker = 0
    BY DEF Idle
  <2>. QED  BY <2>1, <2>2, IdleIsRecord DEF RequestsOK, Engaged, EngagedRequest, CallsOwn
<1>3. CountsOK
  <2>1. PICK n \in Int : n = Cardinality(URLs)
    BY BalancerConstants, FS_CardinalityType
  <2>2. counts = [total |-> n, healthy |-> n, unhealthy |-> 0]
    BY <2>1 DEF Init, BalancerInit
  <2>3. monitor = Asleep
    BY DEF Init, BalancerInit
  <2>. QED  BY <2>2, <2>3 DEF CountsOK, Count, MonitorRecord, Asleep
<1>4. EditsOK
  BY BalancerConstants DEF Init, EditsOK
<1>5. ManagerInv
  <2>1. /\ breakers = [b \in Ids |-> Unmade] /\ named = [n \in URLs |-> 0]
        /\ dropped = {} /\ total = 0
    BY ManagerConstants DEF Init, ManagerInit
  <2>2. Made = {} /\ Mapped = {}
    BY <2>1, NewIsCircuit, ManagerConstants DEF Made, Mapped
  <2>3. BreakersOK
    BY <2>1, <2>2, NewIsCircuit, ManagerConstants DEF BreakersOK, NamedOK
  <2>4. MapOK
    <3>1. 0 \in 0 .. MaxBreakers /\ Made = 1 .. 0
      BY <2>2, ManagerConstants
    <3>. QED  BY <2>2, <3>1 DEF MapOK
  <2>5. TotalOK
    BY <2>1, <2>2, FS_EmptySet DEF TotalOK
  <2>. QED  BY <2>3, <2>4, <2>5 DEF ManagerInv
<1>. QED  BY <1>1, <1>2, <1>3, <1>4, <1>5 DEF UpstreamInv

LEMMA UpstreamStep == UpstreamInv /\ [Next]_vars => UpstreamInv'
<1>. SUFFICES ASSUME UpstreamInv, [Next]_vars
              PROVE  UpstreamInv'
  OBVIOUS
<1>1. NamedOK /\ BreakersOK
  BY DEF UpstreamInv, ManagerInv, BreakersOK
<1>2. BreakersMove
  BY <1>1, ManagerStep DEF UpstreamInv
<1>3. ManagerInv' /\ CallsOwn'
  BY <1>1, <1>2, ManagerInvStep, CallsOwnStep DEF UpstreamInv, BreakersMove
<1>4. RequestsOK' /\ Engaged'
  BY <1>1, RequestsStep DEF UpstreamInv
<1>5. InstancesOK' /\ RecordsAgree'
  BY InstancesStep, AgreeStep DEF UpstreamInv, InstancesMove
<1>6. CountsOK' /\ EditsOK'
  BY CountsStep, EditsStep DEF UpstreamInv
<1>. QED  BY <1>3, <1>4, <1>5, <1>6 DEF UpstreamInv

\* Every step of balancer, breakers and requests keeps the strengthening of the
\* invariants below (UpstreamInv).
THEOREM UpstreamHolds == Spec => []UpstreamInv
<1>. QED  BY UpstreamInit, UpstreamStep, PTL DEF Spec

\* Everything keeps its type (TypeOK); that TotalBreakers stays a natural number takes
\* the invariant about the map.
THEOREM UpstreamTypeCorrect == Spec => []TypeOK
<1>1. UpstreamInv => TypeOK
  <2>. SUFFICES ASSUME UpstreamInv
                PROVE  TypeOK
    OBVIOUS
  <2>1. BalancerTypeOK
    BY DEF UpstreamInv, InstancesOK, CountsOK, Count, MonitorRecord, BalancerTypeOK
  <2>2. ManagerTypeOK
    <3>1. total \in Nat
      <4>1. PICK k \in Nat : Made = 1 .. k
        BY ManagerConstants DEF UpstreamInv, ManagerInv, MapOK
      <4>2. Cardinality(Made) \in Nat /\ Cardinality(Mapped) \in Nat
        BY <4>1, MadeFinite, MappedCount DEF UpstreamInv, ManagerInv, BreakersOK
      <4>. QED  BY <4>2 DEF UpstreamInv, ManagerInv, TotalOK
    <3>2. dropped \subseteq Ids
      BY DEF UpstreamInv, ManagerInv, BreakersOK, Made
    <3>. QED
      BY <3>1, <3>2, ManagerConstants DEF UpstreamInv, ManagerInv, BreakersOK, NamedOK, Circuit, ManagerTypeOK
  <2>. QED
    BY <2>1, <2>2 DEF UpstreamInv, RequestsOK, RequestRecord, States, EditsOK, TypeOK
<1>. QED  BY <1>1, UpstreamHolds, PTL

\* An available instance is below its failure limit and does not cool, an unavailable
\* one is below its success limit, whatever is reported, added and removed
\* (RecordsAgree).
THEOREM RecordsStayConsistent == Spec => []RecordsAgree
<1>1. UpstreamInv => RecordsAgree
  BY DEF UpstreamInv
<1>. QED  BY <1>1, UpstreamHolds, PTL

\* All calls for an instance go to the breaker in the map or to one that was dropped
\* from it; breakers and names match one to one (OneBreaker).
THEOREM OneBreakerEach == Spec => []OneBreaker
<1>1. UpstreamInv => OneBreaker
  BY MappedCount DEF UpstreamInv, ManagerInv, BreakersOK, TotalOK, CallsOwn, OneBreaker
<1>. QED  BY <1>1, UpstreamHolds, PTL

\* Once an instance was given up and no request holds it, only a new record for its
\* URL makes it available.
NoReturn ==
    [][\A u \in URLs : Down(u) /\ ~Held(u) =>
          \/ Down(u)' /\ ~Held(u)'
          \/ instances'[u] \in {NewInstance, Absent}]_vars

\* Why InstancesRecover fails (load_balancer.go:197): no report, no check and no time
\* brings back an instance that was given up and that no request holds, because
\* RecordSuccess, which could, needs a request that holds it.
THEOREM GivenUpStaysDown == Spec => NoReturn
<1>1. UpstreamInv /\ [Next]_vars =>
        [\A u \in URLs : Down(u) /\ ~Held(u) =>
            \/ Down(u)' /\ ~Held(u)'
            \/ instances'[u] \in {NewInstance, Absent}]_vars
  BY DownStep DEF UpstreamInv
<1>. QED  BY <1>1, UpstreamHolds, PTL DEF Spec, NoReturn

-----------------------------------------------------------------------------
(* The connections *)

Users(u) == {r \in Requests : Uses(r, u)}

\* The outlived requests that return a connection in this step.
Returned(u) == {r \in outlived : Reports(r, u)}

Balanced(u) ==
    /\ u \notin Present => Users(u) = {}
    /\ u \in Present => instances[u].active = Cardinality(Users(u)) - strays[u]

ConnInv ==
    /\ outlived \subseteq {r \in Requests : request[r].at # "idle"}
    /\ strays \in [URLs -> Int]
    /\ \A u \in URLs : Balanced(u)

LEMMA UsersFinite ==
    ASSUME ConnInv, NEW u
    PROVE  /\ IsFiniteSet(Users(u)) /\ Cardinality(Users(u)) \in Nat
           /\ IsFiniteSet(Returned(u)) /\ Cardinality(Returned(u)) \in Nat
<1>1. Users(u) \in SUBSET Requests /\ Returned(u) \in SUBSET Requests
  BY DEF Users, Returned, ConnInv
<1>. QED  BY <1>1, BalancerConstants, FS_Subset, FS_CardinalityType

LEMMA Remembered ==
    ASSUME ConnInv, Remember
    PROVE  /\ outlived' \subseteq {r \in Requests : request'[r].at # "idle"}
           /\ strays' \in [URLs -> Int]
           /\ \A u \in URLs : strays'[u] = IF u \notin Present \/ Replaced(u) THEN 0
                                          ELSE strays[u] + Cardinality(Returned(u))
<1>1. outlived' \subseteq {r \in Requests : request'[r].at # "idle"}
  BY DEF Remember, At
<1>2. strays' = [u \in URLs |-> IF u \notin Present \/ Replaced(u) THEN 0
                               ELSE strays[u] + Cardinality(Returned(u))]
  BY DEF Remember, Returned
<1>3. \A u \in URLs : strays[u] + Cardinality(Returned(u)) \in Int
  BY UsersFinite DEF ConnInv
<1>. QED  BY <1>1, <1>2, <1>3

\* A request that does not move keeps its connection, unless the record goes.
LEMMA StillUses ==
    ASSUME ConnInv, Remember, NEW q \in Requests, request'[q] = request[q], NEW u \in URLs, ~Replaced(u)
    PROVE  (Uses(q, u)' <=> Uses(q, u)) /\ ~Reports(q, u)
<1>1. ~Reports(q, u)
  BY DEF Reports, At
<1>2. request[q].url = u => (q \in outlived' <=> q \in outlived)
  BY DEF Remember, ConnInv, At
<1>. QED  BY <1>1, <1>2 DEF Uses

LEMMA BalancedStays ==
    ASSUME ConnInv, Remember, NEW u \in URLs, ~Replaced(u), Users(u)' = Users(u), Returned(u) = {},
           (u \in Present)' <=> u \in Present,
           u \in Present => instances'[u].active = instances[u].active
    PROVE  Balanced(u)'
<1>1. Cardinality(Returned(u)) = 0
  BY FS_EmptySet
<1>2. u \in Present => strays'[u] = strays[u]
  <2>1. strays[u] \in Int
    BY DEF ConnInv
  <2>2. u \in Present => strays'[u] = strays[u] + Cardinality(Returned(u))
    BY Remembered
  <2>. QED  BY <1>1, <2>1, <2>2
<1>. QED  BY <1>2 DEF Balanced, ConnInv

\* A step in which no request takes or returns a connection, and no record goes.
LEMMA ConnQuiet ==
    ASSUME ConnInv, Remember, edits' = edits,
           \A q \in Requests, u \in URLs : (Uses(q, u)' <=> Uses(q, u)) /\ ~Reports(q, u),
           \A u \in URLs : /\ (u \in Present)' <=> u \in Present
                           /\ u \in Present => instances'[u].active = instances[u].active
    PROVE  ConnInv'
<1>1. ASSUME NEW u \in URLs
      PROVE  Balanced(u)'
  <2>1. ~Replaced(u)
    BY DEF Replaced
  <2>2. Users(u)' = Users(u) /\ Returned(u) = {}
    BY DEF Users, Returned, ConnInv
  <2>. QED  BY <2>1, <2>2, BalancedStays
<1>. QED  BY <1>1, Remembered DEF ConnInv

\* The instances other than u0 while one request moves.
LEMMA OthersBalanced ==
    ASSUME ConnInv, Remember, edits' = edits, InstancesOK, NEW u0 \in URLs,
           NEW i \in Record \cup {Absent}, Sets(u0, i), NEW r \in Requests,
           \A q \in Requests \ {r} : request'[q] = request[q],
           \A u \in URLs \ {u0} : (Uses(r, u)' <=> Uses(r, u)) /\ ~Reports(r, u)
    PROVE  \A u \in URLs \ {u0} : Balanced(u)'
<1>. SUFFICES ASSUME NEW u \in URLs \ {u0}
              PROVE  Balanced(u)'
  OBVIOUS
<1>1. ~Replaced(u)
  BY DEF Replaced
<1>2. \A q \in Requests : (Uses(q, u)' <=> Uses(q, u)) /\ ~Reports(q, u)
  BY <1>1, StillUses
<1>3. Users(u)' = Users(u) /\ Returned(u) = {}
  BY <1>2 DEF Users, Returned, ConnInv
<1>4. instances'[u] = instances[u]
  BY SetsOne
<1>5. (u \in Present)' <=> u \in Present
  BY <1>4 DEF Present
<1>. QED  BY <1>1, <1>3, <1>4, <1>5, BalancedStays

LEMMA ConnTake ==
    ASSUME ConnInv, UpstreamInv, Remember, NEW r \in Requests, Take(r)
    PROVE  ConnInv'
<1>0. InstancesOK /\ RequestsOK /\ Engaged
  BY DEF UpstreamInv
<1>1. PICK u \in URLs :
         /\ GetNextInstance(u)
         /\ request' = [request EXCEPT ![r] = [Idle EXCEPT !.at = "lookup", !.url = u]]
  BY DEF Take
<1>2. edits' = edits /\ request[r].at = "idle"
  BY DEF Take, At
<1>3. u \in Present /\ Sets(u, Taking(instances[u]))
  BY <1>0, <1>1, BalancerMoves DEF Eligible
<1>4. instances[u] \in Record
  BY <1>0, <1>3, PresentRecord
<1>5. Taking(instances[u]) \in Record /\ Taking(instances[u]).active = instances[u].active + 1
  BY <1>4, TakingRecord
<1>6. \A q \in Requests \ {r} : request'[q] = request[q]
  BY <1>0, <1>1 DEF RequestsOK
<1>7. request'[r].url = u /\ request'[r].telling = FALSE
  <2>1. request'[r] = [Idle EXCEPT !.at = "lookup", !.url = u]
    BY <1>0, <1>1 DEF RequestsOK
  <2>. QED  BY <2>1 DEF Idle
<1>8. request[r].url \notin URLs /\ r \notin outlived
  BY <1>0, <1>2 DEF Engaged, ConnInv
<1>9. \A v \in URLs : ~Uses(r, v) /\ ~Reports(r, v)
  BY <1>8 DEF Uses, Reports
<1>10. \A v \in URLs : ~Replaced(v)
  BY <1>2 DEF Replaced
<1>11. r \notin outlived'
  BY <1>8, <1>10 DEF Remember
<1>12. Uses(r, u)' /\ \A v \in URLs \ {u} : ~Uses(r, v)'
  BY <1>7, <1>11 DEF Uses
<1>13. \A v \in URLs \ {u} : Balanced(v)'
  BY <1>0, <1>2, <1>3, <1>5, <1>6, <1>9, <1>12, OthersBalanced
<1>14. Balanced(u)'
  <2>1. Users(u)' = Users(u) \cup {r} /\ r \notin Users(u) /\ Returned(u) = {}
    <3>1. \A q \in Requests \ {r} : (Uses(q, u)' <=> Uses(q, u)) /\ ~Reports(q, u)
      BY <1>6, <1>10, StillUses
    <3>. QED  BY <1>9, <1>12, <3>1 DEF Users, Returned, ConnInv
  <2>2. Cardinality(Users(u)') = Cardinality(Users(u)) + 1 /\ Cardinality(Returned(u)) = 0
    BY <2>1, UsersFinite, FS_AddElement, FS_EmptySet
  <2>3. strays'[u] = strays[u] + Cardinality(Returned(u)) /\ strays[u] \in Int
    BY <1>3, <1>10, Remembered DEF ConnInv
  <2>4. instances'[u] = Taking(instances[u])
    BY <1>0, <1>3, <1>5, SetsOne
  <2>5. instances'[u].active = instances[u].active + 1 /\ (u \in Present)'
    BY <1>5, <2>4, RecordFields DEF Present
  <2>6. instances[u].active = Cardinality(Users(u)) - strays[u] /\ Cardinality(Users(u)) \in Nat
    BY <1>3, UsersFinite DEF ConnInv, Balanced
  <2>. QED  BY <2>2, <2>3, <2>5, <2>6 DEF Balanced
<1>. QED  BY <1>13, <1>14, Remembered DEF ConnInv

\* r reports to the record of u, which becomes i.
LEMMA ConnReport ==
    ASSUME ConnInv, UpstreamInv, Remember, edits' = edits, NEW r \in Requests,
           NEW u \in Present, request[r].url = u, request[r].at \in {"succeeded", "failed"},
           NEW i \in Record, i.active = instances[u].active - 1, Sets(u, i),
           \A q \in Requests \ {r} : request'[q] = request[q],
           request'[r].telling \/ request'[r].url = NoURL,
           request'[r].at \notin {"succeeded", "failed"}
    PROVE  ConnInv'
<1>0. InstancesOK /\ RequestsOK /\ Engaged /\ u \in URLs
  BY DEF UpstreamInv, Present
<1>1. \A v \in URLs : ~Replaced(v) /\ ~Uses(r, v)'
  BY BalancerConstants DEF Replaced, Uses
<1>2. \A v \in URLs \ {u} : ~Uses(r, v) /\ ~Reports(r, v)
  BY DEF Uses, Reports
<1>3. Reports(r, u) /\ (Uses(r, u) <=> r \notin outlived)
  BY <1>0 DEF Reports, Uses, At, Engaged
<1>4. \A v \in URLs \ {u} : Balanced(v)'
  BY <1>0, <1>1, <1>2, OthersBalanced
<1>5. \A q \in Requests \ {r} : (Uses(q, u)' <=> Uses(q, u)) /\ ~Reports(q, u)
  BY <1>0, <1>1, StillUses
<1>6. Cardinality(Users(u)') + 1 = Cardinality(Users(u)) + Cardinality(Returned(u))
  <2>0. IsFiniteSet(Users(u)) /\ Cardinality(Users(u)) \in Nat
    BY UsersFinite
  <2>1. CASE r \in outlived
    <3>1. Users(u)' = Users(u) /\ Returned(u) = {r}
      BY <1>0, <1>1, <1>3, <1>5, <2>1 DEF Users, Returned, ConnInv
    <3>2. Cardinality(Returned(u)) = 1
      BY <3>1, FS_Singleton
    <3>. QED  BY <2>0, <3>1, <3>2
  <2>2. CASE r \notin outlived
    <3>1. Users(u)' = Users(u) \ {r} /\ r \in Users(u) /\ Returned(u) = {}
      BY <1>0, <1>1, <1>3, <1>5, <2>2 DEF Users, Returned, ConnInv
    <3>2. Cardinality(Users(u)') = Cardinality(Users(u)) - 1 /\ Cardinality(Returned(u)) = 0
      BY <2>0, <3>1, FS_RemoveElement, FS_EmptySet
    <3>. QED  BY <2>0, <3>2
  <2>. QED  BY <2>1, <2>2
<1>7. Balanced(u)'
  <2>1. strays'[u] = strays[u] + Cardinality(Returned(u)) /\ strays[u] \in Int
    BY <1>0, <1>1, Remembered DEF ConnInv
  <2>2. instances'[u] = i /\ instances'[u].active = instances[u].active - 1 /\ (u \in Present)'
    <3>1. instances'[u] = i
      BY <1>0, SetsOne
    <3>2. i.present = TRUE
      BY RecordFields
    <3>. QED  BY <1>0, <3>1, <3>2 DEF Present
  <2>3. instances[u].active = Cardinality(Users(u)) - strays[u]
    BY <1>0 DEF ConnInv, Balanced
  <2>4. Cardinality(Users(u)) \in Nat /\ Cardinality(Returned(u)) \in Nat
    BY UsersFinite
  <2>5. Cardinality(Users(u)') = Cardinality(Users(u)) + Cardinality(Returned(u)) - 1
    <3>1. Users(u)' \in SUBSET Requests
      BY DEF Users
    <3>2. Cardinality(Users(u)') \in Nat
      BY <3>1, BalancerConstants, FS_Subset, FS_CardinalityType
    <3>. QED  BY <1>6, <2>4, <3>2
  <2>6. instances'[u].active = Cardinality(Users(u)') - strays'[u]
    BY <2>1, <2>2, <2>3, <2>4, <2>5
  <2>. QED  BY <2>2, <2>6 DEF Balanced
<1>. QED  BY <1>4, <1>7, Remembered DEF ConnInv

\* A request on its way to the breaker or back neither takes nor returns one.
LEMMA ConnCalls ==
    ASSUME ConnInv, UpstreamInv, Remember, NEW r \in Requests, RequestStep(r),
           ~ReportSuccess(r), ~ReportFailure(r)
    PROVE  ConnInv'
<1>0. RequestsOK /\ Engaged /\ request[r] \in RequestRecord
  BY RequestFields DEF UpstreamInv
<1>1. edits' = edits /\ instances' = instances /\ request[r].at \notin {"succeeded", "failed", "idle"}
  BY DEF RequestStep, Lookup, CreateBreaker, ContextDone, Admit, Reject, ExchangeSucceeds,
         ExchangeFails, Returns, balancer, At
<1>2. Moves(r) /\ \A q \in Requests \ {r} : request'[q] = request[q]
  <2>1. Moves(r) /\ Only(r)
    BY <1>0, StepMoves
  <2>. QED  BY <1>0, <2>1 DEF Only, RequestsOK
<1>3. \A u \in URLs : ~Replaced(u)
  BY <1>1 DEF Replaced
<1>4. ASSUME NEW u \in URLs
      PROVE  (Uses(r, u)' <=> Uses(r, u)) /\ ~Reports(r, u)
  <2>1. ~Reports(r, u)
    BY <1>1 DEF Reports, At
  <2>2. CASE Looks(r) \/ Creates(r) \/ Enters(r) \/ Leaves(r)
    <3>1. /\ request'[r].url = request[r].url /\ request'[r].telling = request[r].telling
          /\ request'[r].at # "idle"
      BY <1>0, <2>2 DEF RequestRecord, Looks, Creates, Enters, Leaves
    <3>2. r \in outlived' <=> r \in outlived
      BY <1>1, <1>3, <3>1 DEF Remember, At, Replaced
    <3>. QED  BY <2>1, <3>1, <3>2 DEF Uses
  <2>3. CASE Finishes(r)
    <3>1. request[r].telling /\ request'[r] = Idle
      BY <1>1, <2>3 DEF Finishes
    <3>2. request'[r].url = NoURL
      BY <3>1 DEF Idle
    <3>. QED  BY <2>1, <3>1, <3>2, BalancerConstants DEF Uses
  <2>. QED  BY <1>1, <1>2, <2>2, <2>3 DEF Moves, Tells
<1>5. \A q \in Requests, u \in URLs : (Uses(q, u)' <=> Uses(q, u)) /\ ~Reports(q, u)
  BY <1>2, <1>3, <1>4, StillUses
<1>6. \A u \in URLs : /\ (u \in Present)' <=> u \in Present
                      /\ u \in Present => instances'[u].active = instances[u].active
  BY <1>1 DEF Present
<1>. QED  BY <1>1, <1>5, <1>6, ConnQuiet

LEMMA ConnReports ==
    ASSUME ConnInv, UpstreamInv, Remember, NEW r \in Requests, ReportSuccess(r) \/ ReportFailure(r)
    PROVE  ConnInv'
<1>0. /\ InstancesOK /\ RequestsOK /\ Engaged /\ request[r] \in RequestRecord
      /\ edits' = edits /\ request[r].at \in {"succeeded", "failed"}
  BY RequestFields DEF UpstreamInv, ReportSuccess, ReportFailure, At
<1> DEFINE u == request[r].url
<1>1. u \in URLs /\ Moves(r) /\ \A q \in Requests \ {r} : request'[q] = request[q]
  <2>1. Moves(r) /\ Only(r)
    BY <1>0, StepMoves DEF RequestStep
  <2>2. u \in URLs
    BY <1>0 DEF Engaged
  <2>. QED  BY <1>0, <2>1, <2>2 DEF Only, RequestsOK
<1>2. /\ Tells(r) \/ Finishes(r)
      /\ request'[r].telling \/ request'[r].url = NoURL
      /\ request'[r].at \notin {"succeeded", "failed"}
  <2>1. Tells(r) \/ Finishes(r)
    BY <1>0, <1>1 DEF Moves, Looks, Creates, Enters, Leaves
  <2>2. CASE Tells(r)
    BY <1>0, <2>2 DEF Tells, RequestRecord
  <2>3. CASE Finishes(r)
    BY <2>3 DEF Finishes, Idle
  <2>. QED  BY <2>1, <2>2, <2>3
<1>3. CASE u \in Present
  <2>1. /\ RecordSuccess(u) \/ MarkFailure(u)
        /\ instances[u] \in Record
    BY <1>0, <1>1, <1>3, PresentRecord DEF ReportSuccess, ReportFailure
  <2>2. \/ Sets(u, SuccessOf(instances[u]))
        \/ Sets(u, FailureOf(instances[u]))
    BY <1>0, <1>1, <1>3, <2>1, BalancerMoves
  <2>3. PICK i \in Record : i.active = instances[u].active - 1 /\ Sets(u, i)
    BY <2>1, <2>2, SuccessRecord, FailureRecord
  <2>. HIDE DEF u
  <2>4. request[r].url = u
    BY DEF u
  <2>. QED  BY <1>0, <1>1, <1>2, <1>3, <2>3, <2>4, ConnReport
<1>4. CASE u \notin Present
  <2>1. instances' = instances
    <3>1. ReportSuccess(r) => RecordSuccess(u)
      BY DEF ReportSuccess
    <3>2. ReportFailure(r) => UNCHANGED balancer
      BY <1>4 DEF ReportFailure, MarkFailure
    <3>. QED  BY <1>0, <1>1, <1>4, <3>1, <3>2, BalancerMoves DEF balancer
  <2>2. \A v \in URLs : ~Replaced(v) /\ ~Uses(r, v)' /\ ~Reports(r, v)
    BY <1>0, <1>2, <1>4, BalancerConstants DEF Replaced, Uses, Reports
  <2>3. \A v \in URLs : ~Uses(r, v)
    <3>1. ~Uses(r, u)
      BY <1>1, <1>4 DEF ConnInv, Balanced, Users
    <3>2. \A v \in URLs : v # u => ~Uses(r, v)
      BY DEF Uses
    <3>. QED  BY <3>1, <3>2
  <2>4. \A q \in Requests, v \in URLs : (Uses(q, v)' <=> Uses(q, v)) /\ ~Reports(q, v)
    BY <1>1, <2>2, <2>3, StillUses
  <2>5. \A v \in URLs : /\ (v \in Present)' <=> v \in Present
                        /\ v \in Present => instances'[v].active = instances[v].active
    BY <2>1 DEF Present
  <2>. QED  BY <1>0, <2>4, <2>5, ConnQuiet
<1>. QED  BY <1>3, <1>4

LEMMA ConnEdit ==
    ASSUME ConnInv, UpstreamInv, Remember, NEW u \in URLs, Edit(u)
    PROVE  ConnInv'
<1>0. InstancesOK /\ RequestsOK /\ Engaged /\ EditsOK /\ request' = request
  BY DEF UpstreamInv, Edit
<1>1. edits' = [edits EXCEPT ![u] = @ + 1]
  BY DEF Edit
<1>2. edits'[u] # edits[u] /\ \A v \in URLs \ {u} : edits'[v] = edits[v]
  <2>1. edits[u] \in Nat
    BY <1>0, BalancerConstants DEF EditsOK
  <2>. QED  BY <1>0, <1>1, <2>1 DEF EditsOK
<1>3. /\ \A v \in URLs \ {u} : ~Replaced(v)
      /\ Replaced(u) <=> u \in Present
  BY <1>2 DEF Replaced
<1>4. PICK i \in {NewInstance, Absent} : Sets(u, i)
  BY <1>0, BalancerMoves DEF Edit
<1>5. ASSUME NEW v \in URLs \ {u}
      PROVE  Balanced(v)'
  <2>1. Users(v)' = Users(v) /\ Returned(v) = {}
    BY <1>0, <1>3, StillUses DEF Users, Returned, ConnInv
  <2>2. instances'[v] = instances[v]
    BY <1>0, <1>4, NewIsRecord, SetsOne
  <2>. QED  BY <1>3, <2>1, <2>2, BalancedStays DEF Present
<1>6. Balanced(u)'
  <2>1. Users(u)' = {}
    <3>1. ASSUME NEW q \in Requests, Uses(q, u)'
          PROVE  FALSE
      <4>1. request[q].url = u /\ ~request[q].telling /\ request[q].at # "idle" /\ q \notin outlived'
        BY <1>0, <3>1 DEF Uses, Engaged
      <4>2. q \notin outlived /\ ~Replaced(u)
        BY <1>0, <4>1 DEF Remember, At
      <4>. QED  BY <1>3, <4>1, <4>2 DEF ConnInv, Balanced, Users, Uses
    <3>. QED  BY <3>1 DEF Users
  <2>2. Cardinality(Users(u)') = 0 /\ strays'[u] = 0
    BY <1>3, <2>1, FS_EmptySet, Remembered
  <2>3. instances'[u] = i
    BY <1>0, <1>4, NewIsRecord, SetsOne
  <2>4. (u \in Present)' => instances'[u].active = 0
    <3>1. (u \in Present)' => instances'[u] = NewInstance
      BY <2>3, NewIsRecord DEF Present
    <3>. QED  BY <3>1 DEF NewInstance
  <2>. QED  BY <2>1, <2>2, <2>4 DEF Balanced
<1>. QED  BY <1>5, <1>6, Remembered DEF ConnInv

\* The other steps move no request.
LEMMA ConnRest ==
    ASSUME ConnInv, UpstreamInv, Remember, request' = request, edits' = edits,
           instances' = instances \/ instances' = Cooled
    PROVE  ConnInv'
<1>0. InstancesOK
  BY DEF UpstreamInv
<1>1. \A q \in Requests, u \in URLs : (Uses(q, u)' <=> Uses(q, u)) /\ ~Reports(q, u)
  BY StillUses DEF Replaced
<1>2. ASSUME NEW u \in URLs
      PROVE  /\ (u \in Present)' <=> u \in Present
             /\ u \in Present => instances'[u].active = instances[u].active
  <2>1. CASE instances' = instances
    BY <2>1 DEF Present
  <2>2. CASE instances' = Cooled
    <3>1. instances'[u] = IF u \in Present THEN Cooler(instances[u]) ELSE instances[u]
      BY <2>2 DEF Cooled, Cooler
    <3>2. CASE u \in Present
      <4>1. instances[u] \in Record
        BY <1>0, <3>2, PresentRecord
      <4>2. instances'[u] \in Record /\ instances'[u].active = instances[u].active
        BY <3>1, <3>2, <4>1, CoolerRecord
      <4>3. instances'[u].present = TRUE
        BY <4>2, RecordFields
      <4>. QED  BY <3>2, <4>2, <4>3 DEF Present
    <3>3. CASE u \notin Present
      BY <3>1, <3>3 DEF Present
    <3>. QED  BY <3>2, <3>3
  <2>. QED  BY <2>1, <2>2
<1>. QED  BY <1>1, <1>2, ConnQuiet

LEMMA ConnStep ==
    ASSUME ConnInv, UpstreamInv, Next, Remember
    PROVE  ConnInv'
<1>1. CASE \E r \in Requests : Take(r) \/ RequestStep(r)
  BY <1>1, ConnTake, ConnCalls, ConnReports
<1>2. CASE \E u \in URLs : Edit(u)
  BY <1>2, ConnEdit
<1>3. CASE (\E u \in URLs : Manage(u)) \/ Check \/ Tick
  <2>1. /\ request' = request /\ edits' = edits
        /\ instances' = instances \/ instances' = Cooled
    BY <1>3 DEF Manage, Check, CheckBegins, CheckStep, CheckReads, CheckStoresHealthy,
                CheckStoresUnhealthy, Tick, balancer
  <2>. QED  BY <2>1, ConnRest
<1>. QED  BY <1>1, <1>2, <1>3 DEF Next

LEMMA ConnStutter ==
    ASSUME ConnInv, UNCHANGED <<vars, historyVars>>
    PROVE  ConnInv'
<1>1. UNCHANGED <<request, instances, outlived, strays>>
  BY DEF vars, historyVars, balancer
<1>. QED  BY <1>1 DEF ConnInv, Balanced, Users, Uses, Present

LEMMA ConnInit == HistoryInit => ConnInv
<1>. SUFFICES ASSUME HistoryInit
              PROVE  ConnInv
  OBVIOUS
<1>1. /\ outlived = {} /\ strays = [u \in URLs |-> 0]
      /\ request = [r \in Requests |-> Idle] /\ instances = [u \in URLs |-> NewInstance]
  BY DEF HistoryInit, Init, BalancerInit
<1>2. \A u \in URLs : Users(u) = {}
  BY <1>1, BalancerConstants DEF Users, Uses, Idle
<1>3. NewInstance.active = 0 /\ NewInstance.present
  BY DEF NewInstance
<1>. QED  BY <1>1, <1>2, <1>3, FS_EmptySet DEF ConnInv, Balanced, Present

\* With its memory of replaced records, the connections of every instance balance, too.
THEOREM HistoryHolds == HistorySpec => [](UpstreamInv /\ ConnInv)
<1>1. HistoryInit => UpstreamInv /\ ConnInv
  BY UpstreamInit, ConnInit DEF HistoryInit
<1>2. UpstreamInv /\ ConnInv /\ [Next /\ Remember]_<<vars, historyVars>> => (UpstreamInv /\ ConnInv)'
  <2>. SUFFICES ASSUME UpstreamInv, ConnInv, [Next /\ Remember]_<<vars, historyVars>>
                PROVE  UpstreamInv' /\ ConnInv'
    OBVIOUS
  <2>1. UpstreamInv'
    BY UpstreamStep
  <2>2. ConnInv'
    BY ConnStep, ConnStutter
  <2>. QED  BY <2>1, <2>2
<1>. QED  BY <1>1, <1>2, PTL DEF HistorySpec

\* What GetNextInstance took from a record is returned to it exactly once, on every path
\* through the breaker and the reports (ConnectionsReturned).
THEOREM EveryConnectionReturned == HistorySpec => []ConnectionsReturned
<1>1. ConnInv => ConnectionsReturned
  BY DEF ConnInv, Balanced, Users, ConnectionsReturned, Present
<1>. QED  BY <1>1, HistoryHolds, PTL

-----------------------------------------------------------------------------
(* The counts *)

Good(i) == i.present /\ i.available
Bad(i) == i.present /\ ~i.available
Unhealthy == Present \ Healthy
Bit(b) == IF b THEN 1 ELSE 0

\* Both counts follow their set.
CountsFollow ==
    /\ counts'.healthy = counts.healthy + Cardinality(Healthy') - Cardinality(Healthy)
    /\ counts'.unhealthy = counts.unhealthy + Cardinality(Unhealthy') - Cardinality(Unhealthy)

LEMMA UnhealthyFinite ==
    /\ IsFiniteSet(Unhealthy) /\ Cardinality(Unhealthy) \in Nat
    /\ Cardinality(Unhealthy) = Cardinality(Present) - Cardinality(Healthy)
<1>1. Unhealthy \in SUBSET Present /\ Healthy \subseteq Present
  BY DEF Unhealthy, Healthy
<1>2. Present \cap Healthy = Healthy
  BY <1>1
<1>3. Cardinality(Unhealthy) = Cardinality(Present) - Cardinality(Healthy)
  BY <1>2, PresentFinite, FS_Difference DEF Unhealthy
<1>. QED  BY <1>1, <1>3, PresentFinite, FS_Subset, FS_CardinalityType

LEMMA BitValue == ASSUME NEW b PROVE (b => Bit(b) = 1) /\ (~b => Bit(b) = 0) /\ Bit(b) \in Int
BY DEF Bit

LEMMA MemberSize ==
    ASSUME NEW S, NEW T, NEW x, NEW b, IsFiniteSet(S),
           T = IF b THEN S \cup {x} ELSE S \ {x}
    PROVE  Cardinality(T) = Cardinality(S) + Bit(b) - Bit(x \in S)
<1>0. Cardinality(S) \in Nat
  BY FS_CardinalityType
<1>1. CASE b
  <2>1. Cardinality(T) = IF x \in S THEN Cardinality(S) ELSE Cardinality(S) + 1
    BY <1>1, FS_AddElement
  <2>2. Bit(b) = 1
    BY <1>1, BitValue
  <2>. QED  BY <1>0, <2>1, <2>2 DEF Bit
<1>2. CASE ~b
  <2>1. Cardinality(T) = IF x \in S THEN Cardinality(S) - 1 ELSE Cardinality(S)
    BY <1>2, FS_RemoveElement
  <2>2. Bit(b) = 0
    BY <1>2, BitValue
  <2>. QED  BY <1>0, <2>1, <2>2 DEF Bit
<1>. QED  BY <1>1, <1>2

LEMMA GroupSizes ==
    ASSUME InstancesOK, NEW u \in URLs, NEW i \in Record \cup {Absent}, Sets(u, i)
    PROVE  /\ Cardinality(Healthy') = Cardinality(Healthy) + Bit(Good(i)) - Bit(Good(instances[u]))
           /\ Cardinality(Unhealthy') = Cardinality(Unhealthy) + Bit(Bad(i)) - Bit(Bad(instances[u]))
<1>1. instances'[u] = i /\ \A v \in URLs \ {u} : instances'[v] = instances[v]
  BY SetsOne
<1>2. Healthy' = IF Good(i) THEN Healthy \cup {u} ELSE Healthy \ {u}
  BY <1>1 DEF Healthy, Present, Good
<1>3. Unhealthy' = IF Bad(i) THEN Unhealthy \cup {u} ELSE Unhealthy \ {u}
  BY <1>1 DEF Unhealthy, Healthy, Present, Bad
<1>4. (u \in Healthy <=> Good(instances[u])) /\ (u \in Unhealthy <=> Bad(instances[u]))
  BY DEF Unhealthy, Healthy, Present, Good, Bad
<1>5. Cardinality(Healthy') = Cardinality(Healthy) + Bit(Good(i)) - Bit(Good(instances[u]))
  <2>1. Cardinality(Healthy') = Cardinality(Healthy) + Bit(Good(i)) - Bit(u \in Healthy)
    BY <1>2, PresentFinite, MemberSize
  <2>2. Bit(u \in Healthy) = Bit(Good(instances[u]))
    BY <1>4 DEF Bit
  <2>. QED  BY <2>1, <2>2
<1>6. Cardinality(Unhealthy') = Cardinality(Unhealthy) + Bit(Bad(i)) - Bit(Bad(instances[u]))
  <2>1. Cardinality(Unhealthy') = Cardinality(Unhealthy) + Bit(Bad(i)) - Bit(u \in Unhealthy)
    BY <1>3, UnhealthyFinite, MemberSize
  <2>2. Bit(u \in Unhealthy) = Bit(Bad(instances[u]))
    BY <1>4 DEF Bit
  <2>. QED  BY <2>1, <2>2
<1>. QED  BY <1>5, <1>6

\* What an operation adds to the counts is what it adds to the sets.
LEMMA OperationCounts ==
    ASSUME InstancesOK, counts \in Count, NEW u \in URLs
    PROVE  /\ RecordSuccess(u) => CountsFollow
           /\ MarkFailure(u) => CountsFollow
           /\ AddInstance(u) /\ u \notin Present => CountsFollow
           /\ RemoveInstance(u) => CountsFollow
           /\ GetNextInstance(u) => CountsFollow
<1> DEFINE old == instances[u]
<1>0. counts.healthy \in Int /\ counts.unhealthy \in Int
  BY DEF Count
<1>1. ASSUME NEW i \in Record \cup {Absent}, Sets(u, i), NEW t \in Int, NEW h \in Int, NEW n \in Int,
             Counting(t, h, n), h = Bit(Good(i)) - Bit(Good(old)), n = Bit(Bad(i)) - Bit(Bad(old))
      PROVE  CountsFollow
  <2>1. /\ counts'.healthy = counts.healthy + h
        /\ counts'.unhealthy = counts.unhealthy + n
    BY <1>1, CountingType
  <2>2. /\ Cardinality(Healthy') = Cardinality(Healthy) + Bit(Good(i)) - Bit(Good(old))
        /\ Cardinality(Unhealthy') = Cardinality(Unhealthy) + Bit(Bad(i)) - Bit(Bad(old))
    BY <1>1, GroupSizes
  <2>3. \A b : Bit(b) \in Int
    BY DEF Bit
  <2>. QED  BY <1>0, <1>1, <2>1, <2>2, <2>3, PresentFinite, UnhealthyFinite DEF CountsFollow
<1>2. ASSUME NEW i \in Record \cup {Absent}, Sets(u, i), counts' = counts,
             Good(i) <=> Good(old), Bad(i) <=> Bad(old)
      PROVE  CountsFollow
  <2>1. Cardinality(Healthy') = Cardinality(Healthy) /\ Cardinality(Unhealthy') = Cardinality(Unhealthy)
    <3>1. Bit(Good(i)) = Bit(Good(old)) /\ Bit(Bad(i)) = Bit(Bad(old))
      BY <1>2 DEF Bit
    <3>2. \A b : Bit(b) \in Int
      BY DEF Bit
    <3>. QED  BY <1>2, <3>1, <3>2, GroupSizes, PresentFinite, UnhealthyFinite
  <2>. QED  BY <1>0, <1>2, <2>1, PresentFinite, UnhealthyFinite DEF CountsFollow
<1>3. ASSUME u \in Present
      PROVE  /\ old \in Record /\ old.present = TRUE /\ old.available \in BOOLEAN
  BY <1>3, PresentRecord, RecordFields
<1>4. ASSUME u \in Present, RecordSuccess(u)
      PROVE  CountsFollow
  <2> DEFINE s == Succeeded(old)
  <2> DEFINE i == SuccessOf(old)
  <2>1. s.available = old.available /\ i \in Record /\ i.present = TRUE /\ Sets(u, i)
    <3>1. s.available = old.available /\ i \in Record /\ Sets(u, i)
      BY <1>3, <1>4, SucceededRecord, SuccessRecord, BalancerMoves
    <3>. QED  BY <3>1, RecordFields
  <2>2. CASE ~s.available /\ s.successes >= HealthyThreshold
    <3>1. Counting(0, 1, -1)
      BY <1>4, <2>2, Zenon DEF RecordSuccess
    <3>2. i.available = TRUE
      <4>1. i = [s EXCEPT !.available = TRUE, !.cooling = 0]
        BY <2>1, <2>2 DEF SuccessOf
      <4>2. s \in Record
        BY <1>3, <1>4, SucceededRecord
      <4>. QED  BY <4>1, <4>2 DEF Record
    <3>3. 1 = Bit(Good(i)) - Bit(Good(old)) /\ -1 = Bit(Bad(i)) - Bit(Bad(old))
      <4>1. Good(i) /\ ~Good(old) /\ ~Bad(i) /\ Bad(old)
        BY <1>3, <1>4, <2>1, <2>2, <3>2 DEF Good, Bad
      <4>2. Bit(Good(i)) = 1 /\ Bit(Good(old)) = 0 /\ Bit(Bad(i)) = 0 /\ Bit(Bad(old)) = 1
        BY <4>1, Zenon DEF Bit
      <4>. QED  BY <4>2
    <3>. HIDE DEF i, s, old
    <3>. QED  BY <1>1, <2>1, <3>1, <3>3
  <2>3. CASE ~(~s.available /\ s.successes >= HealthyThreshold)
    <3>1. counts' = counts
      BY <1>4, <2>3, Zenon DEF RecordSuccess
    <3>2. i = s
      BY <2>1, <2>3 DEF SuccessOf
    <3>3. (Good(i) <=> Good(old)) /\ (Bad(i) <=> Bad(old))
      BY <1>3, <1>4, <2>1, <3>2 DEF Good, Bad
    <3>. HIDE DEF i, s, old
    <3>. QED  BY <1>2, <2>1, <3>1, <3>3
  <2>. QED  BY <2>2, <2>3
<1>5. ASSUME MarkFailure(u)
      PROVE  CountsFollow
  <2> DEFINE f == Failed(old)
  <2> DEFINE i == FailureOf(old)
  <2>0. u \in Present /\ Sets(u, i)
    BY <1>5, BalancerMoves
  <2>1. f.available = old.available /\ i \in Record /\ i.present = TRUE
    <3>1. f.available = old.available /\ i \in Record
      BY <1>3, <2>0, FailedRecord, FailureRecord
    <3>. QED  BY <3>1, RecordFields
  <2>2. CASE f.available /\ f.failures >= UnhealthyThreshold
    <3>1. Counting(0, -1, 1)
      BY <1>5, <2>2, Zenon DEF MarkFailure
    <3>2. i.available = FALSE
      <4>1. i = [f EXCEPT !.available = FALSE, !.cooling = Backoff(f.failures)]
        BY <2>1, <2>2, Zenon DEF FailureOf
      <4>2. f \in Record
        BY <1>3, <2>0, FailedRecord
      <4>. QED  BY <4>1, <4>2 DEF Record
    <3>3. -1 = Bit(Good(i)) - Bit(Good(old)) /\ 1 = Bit(Bad(i)) - Bit(Bad(old))
      <4>1. ~Good(i) /\ Good(old) /\ Bad(i) /\ ~Bad(old)
        BY <1>3, <2>0, <2>1, <2>2, <3>2 DEF Good, Bad
      <4>2. Bit(Good(i)) = 0 /\ Bit(Good(old)) = 1 /\ Bit(Bad(i)) = 1 /\ Bit(Bad(old)) = 0
        BY <4>1, Zenon DEF Bit
      <4>. QED  BY <4>2
    <3>. HIDE DEF i, f, old
    <3>. QED  BY <1>1, <2>0, <2>1, <3>1, <3>3
  <2>3. CASE ~(f.available /\ f.failures >= UnhealthyThreshold)
    <3>1. counts' = counts
      BY <1>5, <2>3, Zenon DEF MarkFailure
    <3>2. i = f
      BY <2>1, <2>3, Zenon DEF FailureOf
    <3>3. (Good(i) <=> Good(old)) /\ (Bad(i) <=> Bad(old))
      BY <1>3, <2>0, <2>1, <3>2 DEF Good, Bad
    <3>. HIDE DEF i, f, old
    <3>. QED  BY <1>2, <2>0, <2>1, <3>1, <3>3
  <2>. QED  BY <2>2, <2>3
<1>6. ASSUME AddInstance(u), u \notin Present
      PROVE  CountsFollow
  <2>1. Sets(u, NewInstance) /\ Counting(1, 1, 0)
    BY <1>6, BalancerMoves DEF AddInstance
  <2>2. old = Absent
    BY <1>6, PresentRecord
  <2>3. 1 = Bit(Good(NewInstance)) - Bit(Good(old)) /\ 0 = Bit(Bad(NewInstance)) - Bit(Bad(old))
    BY <2>2 DEF Bit, Good, Bad, NewInstance, Absent
  <2>. HIDE DEF old
  <2>. QED  BY <1>1, <2>1, <2>3, NewIsRecord
<1>7. ASSUME RemoveInstance(u)
      PROVE  CountsFollow
  <2>1. u \in Present /\ Sets(u, Absent)
    BY <1>7, BalancerMoves DEF RemoveInstance
  <2>2. ~Good(Absent) /\ ~Bad(Absent)
    BY DEF Good, Bad, Absent
  <2>3. CASE Down(u)
    <3>1. Counting(-1, 0, -1)
      BY <1>7, <2>3 DEF RemoveInstance
    <3>2. 0 = Bit(Good(Absent)) - Bit(Good(old)) /\ -1 = Bit(Bad(Absent)) - Bit(Bad(old))
      BY <2>2, <2>3 DEF Bit, Good, Bad, Down
    <3>. HIDE DEF old
    <3>. QED  BY <1>1, <2>1, <3>1, <3>2
  <2>4. CASE ~Down(u)
    <3>1. Counting(-1, -1, 0)
      BY <1>7, <2>4 DEF RemoveInstance
    <3>2. -1 = Bit(Good(Absent)) - Bit(Good(old)) /\ 0 = Bit(Bad(Absent)) - Bit(Bad(old))
      <4>1. Good(old) /\ ~Bad(old)
        BY <1>3, <2>1, <2>4 DEF Good, Bad, Down
      <4>2. Bit(Good(Absent)) = 0 /\ Bit(Good(old)) = 1 /\ Bit(Bad(Absent)) = 0 /\ Bit(Bad(old)) = 0
        BY <2>2, <4>1, Zenon DEF Bit
      <4>. QED  BY <4>2
    <3>. HIDE DEF old
    <3>. QED  BY <1>1, <2>1, <3>1, <3>2
  <2>. QED  BY <2>3, <2>4
<1>8. ASSUME GetNextInstance(u)
      PROVE  CountsFollow
  <2> DEFINE i == Taking(old)
  <2>1. u \in Present /\ Sets(u, i) /\ counts' = counts
    BY <1>8, BalancerMoves DEF Eligible, GetNextInstance
  <2>2. i \in Record /\ i.available = old.available /\ i.present = TRUE
    BY <1>3, <2>1, TakingRecord, RecordFields
  <2>3. (Good(i) <=> Good(old)) /\ (Bad(i) <=> Bad(old))
    BY <1>3, <2>1, <2>2 DEF Good, Bad
  <2>. HIDE DEF i, old
  <2>. QED  BY <1>2, <2>1, <2>2, <2>3
<1>9. ASSUME u \notin Present, RecordSuccess(u)
      PROVE  CountsFollow
  <2>1. instances' = instances /\ counts' = counts
    BY <1>9 DEF RecordSuccess
  <2>2. Healthy' = Healthy /\ Unhealthy' = Unhealthy
    BY <2>1 DEF Healthy, Unhealthy, Present
  <2>. QED  BY <1>0, <2>1, <2>2, PresentFinite, UnhealthyFinite DEF CountsFollow
<1>. QED  BY <1>4, <1>5, <1>6, <1>7, <1>8, <1>9

\* The check has counted the healthy instances that it has read, and what it has
\* stored is right, unless they changed meanwhile; the counts are exact unless one
\* of the two known causes put them out.
CountInv ==
    /\ monitor.at = "reading" /\ ~overlapped =>
          /\ monitor.left \subseteq Present /\ monitor.size = Cardinality(Present)
          /\ monitor.healthy + Cardinality(Healthy \cap monitor.left) = Cardinality(Healthy)
    /\ monitor.at = "stored" /\ ~overlapped =>
          /\ monitor.size = Cardinality(Present) /\ monitor.healthy = Cardinality(Healthy)
          /\ counts.healthy = Cardinality(Healthy)
    /\ ~miscounted /\ monitor.at # "stored" =>
          /\ counts.healthy = Cardinality(Healthy)
          /\ counts.unhealthy = Cardinality(Unhealthy)

\* A step of somebody else than the monitor.
OtherStep ==
    /\ monitor'.at = monitor.at
    /\ monitor' = monitor \/ Regrouped
    /\ CountsFollow \/ AddedAgain

LEMMA CountOther ==
    ASSUME CountInv, counts \in Count, Remember, OtherStep
    PROVE  CountInv'
<1>0. /\ counts.healthy \in Int /\ counts.unhealthy \in Int
      /\ Cardinality(Healthy) \in Nat /\ Cardinality(Unhealthy) \in Nat
  BY PresentFinite, UnhealthyFinite DEF Count
<1>0a. Cardinality(Healthy') \in Int /\ Cardinality(Unhealthy') \in Int
  <2>1. Healthy' \in SUBSET URLs /\ Unhealthy' \in SUBSET URLs
    BY DEF Healthy, Unhealthy, Present
  <2>. QED  BY <2>1, BalancerConstants, FS_Subset, FS_CardinalityType
<1>1. overlapped' = (monitor.at # "asleep" /\ (overlapped \/ Regrouped))
  BY DEF Remember
<1>2. monitor'.at # "stored" /\ ~miscounted' => ~miscounted /\ ~AddedAgain
  BY DEF Remember, OtherStep
<1>3. ASSUME monitor'.at \in {"reading", "stored"}, ~overlapped'
      PROVE  /\ ~overlapped /\ monitor' = monitor /\ Healthy' = Healthy /\ Present' = Present
             /\ counts'.healthy = counts.healthy
  <2>1. ~overlapped /\ ~Regrouped
    BY <1>1, <1>3 DEF OtherStep
  <2>2. Healthy' = Healthy /\ Present' = Present /\ ~AddedAgain /\ monitor' = monitor
    BY <2>1 DEF Regrouped, OtherStep
  <2>3. counts'.healthy = counts.healthy
    BY <1>0, <2>2 DEF OtherStep, CountsFollow
  <2>. QED  BY <2>1, <2>2, <2>3
<1>4. ASSUME ~miscounted', monitor'.at # "stored"
      PROVE  /\ counts'.healthy = Cardinality(Healthy')
             /\ counts'.unhealthy = Cardinality(Unhealthy')
  <2>1. counts.healthy = Cardinality(Healthy) /\ counts.unhealthy = Cardinality(Unhealthy) /\ CountsFollow
    BY <1>2, <1>4 DEF OtherStep, CountInv
  <2>. QED  BY <1>0, <1>0a, <2>1 DEF CountsFollow
<1>5. (monitor.at = "reading" /\ ~overlapped)' =>
          (/\ monitor.left \subseteq Present /\ monitor.size = Cardinality(Present)
           /\ monitor.healthy + Cardinality(Healthy \cap monitor.left) = Cardinality(Healthy))'
  BY <1>3 DEF CountInv
<1>6. (monitor.at = "stored" /\ ~overlapped)' =>
          (/\ monitor.size = Cardinality(Present) /\ monitor.healthy = Cardinality(Healthy)
           /\ counts.healthy = Cardinality(Healthy))'
  BY <1>3 DEF CountInv
<1>. QED  BY <1>4, <1>5, <1>6 DEF CountInv

LEMMA CountCheck ==
    ASSUME CountInv, CountsOK, Remember, Check
    PROVE  CountInv'
<1>0. /\ monitor \in MonitorRecord /\ monitor.healthy \in Nat /\ monitor.size \in Nat
      /\ Cardinality(Healthy) \in Nat /\ Cardinality(Present) \in Nat
      /\ counts \in Count
  BY PresentFinite DEF CountsOK, MonitorRecord
<1>1. instances' = instances /\ edits' = edits
  BY DEF Check, CheckBegins, CheckStep, CheckReads, CheckStoresHealthy, CheckStoresUnhealthy
<1>2. Healthy' = Healthy /\ Present' = Present /\ Unhealthy' = Unhealthy
  BY <1>1 DEF Healthy, Present, Unhealthy
<1>3. ~AddedAgain /\ ~Regrouped
  BY <1>1, <1>2 DEF AddedAgain, Replaced, Regrouped
<1>4. overlapped' = (monitor.at # "asleep" /\ overlapped)
  BY <1>3 DEF Remember
<1>5. CASE CheckBegins
  <2>1. /\ monitor' = [at |-> "reading", left |-> Present, size |-> Cardinality(Present), healthy |-> 0]
        /\ counts' = counts /\ monitor.at = "asleep"
    BY <1>5 DEF CheckBegins
  <2>2. /\ monitor'.at = "reading" /\ monitor'.left = Present
        /\ monitor'.size = Cardinality(Present) /\ monitor'.healthy = 0
    BY <2>1
  <2>3. Healthy \cap Present = Healthy
    BY DEF Healthy
  <2>5. ~miscounted' => ~miscounted
    BY <1>3, <2>1, <2>2 DEF Remember
  <2>6. monitor'.healthy + Cardinality(Healthy' \cap monitor'.left) = Cardinality(Healthy')
    <3>1. Healthy' \cap monitor'.left = Healthy
      BY <1>2, <2>2, <2>3
    <3>2. /\ Cardinality(Healthy' \cap monitor'.left) = Cardinality(Healthy)
          /\ Cardinality(Healthy') = Cardinality(Healthy)
      BY <1>2, <3>1
    <3>. QED  BY <1>0, <2>2, <3>2
  <2>7. monitor.at # "stored" /\ monitor'.at # "stored"
    BY <2>1, <2>2
  <2>. QED  BY <1>2, <2>1, <2>2, <2>5, <2>6, <2>7 DEF CountInv
<1>6. CASE CheckReads
  <2>1. PICK u \in monitor.left :
           monitor' = [monitor EXCEPT !.left = @ \ {u}, !.healthy = IF Down(u) THEN @ ELSE @ + 1]
    BY <1>6 DEF CheckReads
  <2>2. /\ monitor'.at = "reading" /\ monitor'.left = monitor.left \ {u} /\ monitor'.size = monitor.size
        /\ monitor'.healthy = IF Down(u) THEN monitor.healthy ELSE monitor.healthy + 1
        /\ monitor.at = "reading" /\ counts' = counts
    BY <1>0, <1>6, <2>1 DEF CheckReads, MonitorRecord
  <2>3. ~miscounted' => ~miscounted
    BY <1>3, <2>2 DEF Remember
  <2>4. ASSUME ~overlapped
        PROVE  /\ monitor'.left \subseteq Present /\ monitor'.size = Cardinality(Present)
               /\ monitor'.healthy + Cardinality(Healthy \cap monitor'.left) = Cardinality(Healthy)
    <3>1. /\ monitor.left \subseteq Present /\ monitor.size = Cardinality(Present)
          /\ monitor.healthy + Cardinality(Healthy \cap monitor.left) = Cardinality(Healthy)
      BY <2>2, <2>4 DEF CountInv
    <3>2. u \in Present /\ (Down(u) <=> u \notin Healthy)
      BY <2>1, <3>1 DEF Down, Healthy, Present
    <3>3. Healthy \cap monitor'.left = (Healthy \cap monitor.left) \ {u}
      BY <2>2
    <3>4. IsFiniteSet(Healthy \cap monitor.left) /\ Cardinality(Healthy \cap monitor.left) \in Nat
      <4>1. Healthy \cap monitor.left \in SUBSET Healthy
        OBVIOUS
      <4>. QED  BY <4>1, PresentFinite, FS_Subset, FS_CardinalityType
    <3>5. Cardinality(Healthy \cap monitor'.left) =
             IF u \in Healthy THEN Cardinality(Healthy \cap monitor.left) - 1
                              ELSE Cardinality(Healthy \cap monitor.left)
      BY <2>1, <3>3, <3>4, FS_RemoveElement
    <3>6. monitor'.healthy + Cardinality(Healthy \cap monitor'.left) = Cardinality(Healthy)
      BY <1>0, <2>2, <3>1, <3>2, <3>4, <3>5
    <3>. QED  BY <2>2, <3>1, <3>6
  <2>. QED  BY <1>2, <1>4, <2>2, <2>3, <2>4 DEF CountInv
<1>7. CASE CheckStoresHealthy
  <2>1. /\ monitor.at = "reading" /\ monitor.left = {} /\ monitor' = [monitor EXCEPT !.at = "stored"]
        /\ counts' = [counts EXCEPT !.healthy = monitor.healthy]
    BY <1>7 DEF CheckStoresHealthy
  <2>2. /\ monitor'.at = "stored" /\ monitor'.size = monitor.size /\ monitor'.healthy = monitor.healthy
        /\ counts'.healthy = monitor.healthy
    BY <1>0, <2>1 DEF MonitorRecord, Count
  <2>3. Cardinality(Healthy \cap monitor.left) = 0
    BY <2>1, FS_EmptySet
  <2>4. ~overlapped => monitor.healthy = Cardinality(Healthy) /\ monitor.size = Cardinality(Present)
    BY <1>0, <2>1, <2>3 DEF CountInv
  <2>. QED  BY <1>2, <1>4, <2>1, <2>2, <2>4 DEF CountInv
<1>8. CASE CheckStoresUnhealthy
  <2>1. monitor.at = "stored" /\ monitor' = Asleep
    BY <1>8 DEF CheckStoresUnhealthy
  <2>2. /\ monitor'.at = "asleep" /\ counts'.healthy = counts.healthy
        /\ counts'.unhealthy = monitor.size - monitor.healthy
    BY <1>0, <1>8, <2>1 DEF CheckStoresUnhealthy, Asleep, Count
  <2>3. ~miscounted' => ~overlapped
    BY <2>1, <2>2 DEF Remember
  <2>4. ~overlapped => /\ counts'.healthy = Cardinality(Healthy)
                       /\ counts'.unhealthy = Cardinality(Unhealthy)
    BY <2>1, <2>2, UnhealthyFinite DEF CountInv
  <2>. QED  BY <1>2, <2>2, <2>3, <2>4 DEF CountInv
<1>. QED  BY <1>5, <1>6, <1>7, <1>8 DEF Check, CheckStep

LEMMA QuietStep ==
    ASSUME counts \in Count, counts' = counts, monitor' = monitor,
           Healthy' = Healthy, Unhealthy' = Unhealthy
    PROVE  OtherStep
<1>1. counts.healthy \in Int /\ counts.unhealthy \in Int
  BY DEF Count
<1>. QED  BY <1>1, PresentFinite, UnhealthyFinite DEF OtherStep, CountsFollow

LEMMA OtherSteps ==
    ASSUME UpstreamInv, Next, ~Check
    PROVE  OtherStep
<1>0. InstancesOK /\ Engaged /\ EditsOK /\ counts \in Count /\ monitor \in MonitorRecord
  BY DEF UpstreamInv, CountsOK
<1>1. ASSUME NEW r \in Requests, Take(r)
      PROVE  OtherStep
  <2>1. PICK u \in URLs : GetNextInstance(u)
    BY <1>1 DEF Take
  <2>. QED  BY <1>0, <2>1, OperationCounts DEF OtherStep, GetNextInstance
<1>2. ASSUME NEW r \in Requests, ReportSuccess(r)
      PROVE  OtherStep
  <2>1. request[r].url \in URLs /\ RecordSuccess(request[r].url)
    BY <1>0, <1>2 DEF ReportSuccess, Engaged, At
  <2>. QED  BY <1>0, <2>1, OperationCounts DEF OtherStep, RecordSuccess
<1>3. ASSUME instances' = instances \/ instances' = Cooled, counts' = counts, monitor' = monitor
      PROVE  OtherStep
  <2>1. Healthy' = Healthy /\ Unhealthy' = Unhealthy
    <3>1. CASE instances' = instances
      BY <3>1 DEF Healthy, Unhealthy, Present
    <3>2. CASE instances' = Cooled
      <4>1. ASSUME NEW u \in URLs
            PROVE  /\ instances'[u].present = instances[u].present
                   /\ u \in Present => instances'[u].available = instances[u].available
        <5>1. instances'[u] = IF u \in Present THEN Cooler(instances[u]) ELSE instances[u]
          BY <3>2 DEF Cooled, Cooler
        <5>2. CASE u \in Present
          <6>1. instances[u] \in Record
            BY <1>0, <5>2, PresentRecord
          <6>2. Cooler(instances[u]) \in Record /\ Cooler(instances[u]).available = instances[u].available
            BY <6>1, CoolerRecord
          <6>3. Cooler(instances[u]).present = TRUE /\ instances[u].present = TRUE
            BY <6>1, <6>2, RecordFields
          <6>. QED  BY <5>1, <5>2, <6>2, <6>3
        <5>. QED  BY <5>1, <5>2
      <4>. QED  BY <4>1 DEF Healthy, Unhealthy, Present
    <3>. QED  BY <1>3, <3>1, <3>2
  <2>. QED  BY <1>0, <1>3, <2>1, QuietStep
<1>4. ASSUME NEW r \in Requests, ReportFailure(r)
      PROVE  OtherStep
  <2>1. request[r].url \in URLs /\ (MarkFailure(request[r].url) \/ UNCHANGED balancer)
    BY <1>0, <1>4 DEF ReportFailure, Engaged, At
  <2>2. CASE MarkFailure(request[r].url)
    BY <1>0, <2>1, <2>2, OperationCounts DEF OtherStep, MarkFailure
  <2>3. CASE UNCHANGED balancer
    BY <1>3, <2>3 DEF balancer
  <2>. QED  BY <2>1, <2>2, <2>3
<1>5. ASSUME NEW u \in URLs, Edit(u)
      PROVE  OtherStep
  <2>1. edits'[u] # edits[u]
    <3>1. edits[u] \in Nat
      BY <1>0, BalancerConstants DEF EditsOK
    <3>. QED  BY <1>0, <1>5, <3>1 DEF Edit, EditsOK
  <2>2. monitor' = Detached(u)
    BY <1>5 DEF Edit, AddInstance, RemoveInstance
  <2>3. monitor'.at = monitor.at
    BY <1>0, <2>2 DEF Detached, MonitorRecord
  <2>4. CASE AddInstance(u)
    <3>1. instances'[u] = NewInstance
      BY <1>0, <2>4, BalancerMoves, NewIsRecord, SetsOne
    <3>2. CASE u \in Present
      <4>1. AddedAgain
        BY <2>1, <3>1, <3>2, NewIsRecord DEF AddedAgain, Replaced
      <4>. QED  BY <2>3, <4>1 DEF OtherStep, Regrouped
    <3>3. CASE u \notin Present
      <4>1. u \in Present'
        BY <3>1, NewIsRecord DEF Present
      <4>2. Regrouped
        BY <3>3, <4>1 DEF Regrouped
      <4>. QED  BY <1>0, <2>3, <2>4, <3>3, <4>2, OperationCounts DEF OtherStep
    <3>. QED  BY <3>2, <3>3
  <2>5. CASE RemoveInstance(u)
    <3>1. instances'[u] = Absent /\ u \in Present
      BY <1>0, <2>5, BalancerMoves, SetsOne DEF RemoveInstance
    <3>2. u \notin Present'
      BY <3>1, NewIsRecord DEF Present
    <3>3. Regrouped
      BY <3>1, <3>2 DEF Regrouped
    <3>. QED  BY <1>0, <2>3, <2>5, <3>3, OperationCounts DEF OtherStep
  <2>. QED  BY <1>5, <2>4, <2>5 DEF Edit
<1>6. ASSUME NEW r \in Requests, RequestStep(r), ~ReportSuccess(r), ~ReportFailure(r)
      PROVE  OtherStep
  <2>1. UNCHANGED balancer
    BY <1>6 DEF RequestStep, Lookup, CreateBreaker, ContextDone, Admit, Reject, ExchangeSucceeds,
                ExchangeFails, Returns
  <2>. QED  BY <1>3, <2>1 DEF balancer
<1>7. CASE (\E u \in URLs : Manage(u)) \/ Tick
  BY <1>3, <1>7 DEF Manage, Tick, balancer
<1>. QED  BY <1>1, <1>2, <1>4, <1>5, <1>6, <1>7 DEF Next

LEMMA CountInvInit == HistoryInit => CountInv
<1>. SUFFICES ASSUME HistoryInit
              PROVE  CountInv
  OBVIOUS
<1>1. /\ monitor = Asleep /\ instances = [u \in URLs |-> NewInstance]
      /\ counts = [total |-> Cardinality(URLs), healthy |-> Cardinality(URLs), unhealthy |-> 0]
  BY DEF HistoryInit, Init, BalancerInit
<1>2. Healthy = URLs /\ Unhealthy = {}
  BY <1>1 DEF Healthy, Unhealthy, Present, NewInstance
<1>3. monitor.at = "asleep" /\ counts.healthy = Cardinality(URLs) /\ counts.unhealthy = 0
  BY <1>1 DEF Asleep
<1>. QED  BY <1>2, <1>3, FS_EmptySet DEF CountInv

\* The health check that nobody disturbs makes the counts of healthy and unhealthy
\* instances exact, and only the two known causes put them out (CountsExact).
THEOREM CountsRecovered == HistorySpec => []CountsExact
<1>1. CountInv => CountsExact
  BY DEF CountInv, CountsExact, Unhealthy
<1>2. ASSUME UpstreamInv, CountInv, [Next /\ Remember]_<<vars, historyVars>>
      PROVE  CountInv'
  <2>1. CASE Next /\ Remember /\ Check
    BY <1>2, <2>1, CountCheck DEF UpstreamInv
  <2>2. CASE Next /\ Remember /\ ~Check
    BY <1>2, <2>2, OtherSteps, CountOther DEF UpstreamInv, CountsOK
  <2>3. CASE UNCHANGED <<vars, historyVars>>
    <3>1. UNCHANGED <<instances, counts, monitor, overlapped, miscounted>>
      BY <2>3 DEF vars, historyVars, balancer
    <3>. QED  BY <1>2, <3>1 DEF CountInv, Healthy, Unhealthy, Present
  <2>. QED  BY <1>2, <2>1, <2>2, <2>3
<1>3. UpstreamInv /\ CountInv /\ [Next /\ Remember]_<<vars, historyVars>> => CountInv'
  BY <1>2
<1>4. HistorySpec => []UpstreamInv
  BY HistoryHolds, PTL
<1>. QED  BY <1>1, <1>3, <1>4, CountInvInit, PTL DEF HistorySpec

-----------------------------------------------------------------------------
(* The lock of the balancer *)

OneHolder == \A q, r \in Requests : request[q].telling /\ request[r].telling => q = r

\* The bound on breakers leaves room for one of each name that has none.
RoomLeft == Cardinality(Made) + Cardinality(URLs \ Mapped) <= MaxBreakers

LockInv == UpstreamInv /\ OneHolder /\ RoomLeft

LEMMA UnmappedCount ==
    IsFiniteSet(URLs \ Mapped) /\ Cardinality(URLs \ Mapped) \in Nat
        /\ Cardinality(URLs \ Mapped) <= Cardinality(URLs) /\ Cardinality(URLs) \in Nat
<1>1. IsFiniteSet(URLs) /\ URLs \ Mapped \subseteq URLs
  BY BalancerConstants
<1>. QED  BY <1>1, FS_Subset, FS_CardinalityType

LEMMA UnmappedLater ==
    IsFiniteSet(URLs \ Mapped') /\ Cardinality(URLs \ Mapped') \in Nat
        /\ Cardinality(URLs \ Mapped') <= Cardinality(URLs)
<1>1. IsFiniteSet(URLs) /\ URLs \ Mapped' \subseteq URLs
  BY BalancerConstants
<1>. QED  BY <1>1, FS_Subset, FS_CardinalityType

LEMMA OneHolderStep ==
    ASSUME RequestsOK, Engaged, OneHolder, [Next]_vars
    PROVE  OneHolder'
<1>1. CASE request' = request
  BY <1>1 DEF OneHolder
<1>2. ASSUME NEW r \in Requests, Moves(r), Only(r)
      PROVE  OneHolder'
  <2>1. \A q \in Requests \ {r} : request'[q] = request[q]
    BY <1>2 DEF Only, RequestsOK
  <2>2. request[r] \in RequestRecord
    BY RequestFields
  <2>3. CASE Tells(r)
    <3>1. \A q \in Requests \ {r} : ~request'[q].telling
      BY <2>1, <2>3 DEF Tells, LockFree
    <3>. QED  BY <3>1 DEF OneHolder
  <2>4. CASE Begins(r) \/ Finishes(r)
    <3>1. Idle.telling = FALSE /\ \A u \in URLs : [Idle EXCEPT !.at = "lookup", !.url = u].telling = FALSE
      BY DEF Idle
    <3>2. request'[r] = Idle \/ \E u \in URLs : request'[r] = [Idle EXCEPT !.at = "lookup", !.url = u]
      BY <2>4 DEF Begins, Finishes
    <3>3. request'[r].telling = FALSE
      BY <3>1, <3>2, Zenon
    <3>. QED  BY <2>1, <3>3 DEF OneHolder
  <2>5. CASE Looks(r) \/ Creates(r) \/ Enters(r) \/ Leaves(r)
    <3>1. request'[r].telling = request[r].telling
      BY <2>2, <2>5 DEF Looks, Creates, Enters, Leaves, RequestRecord
    <3>. QED  BY <2>1, <3>1 DEF OneHolder
  <2>. QED  BY <1>2, <2>3, <2>4, <2>5 DEF Moves
<1>. QED  BY <1>1, <1>2, RequestMoves

LEMMA RoomStep ==
    ASSUME ManagerInv, RoomLeft, ManagerMove
    PROVE  RoomLeft'
<1>1. PICK k \in 0 .. MaxBreakers : Made = 1 .. k
  BY DEF ManagerInv, MapOK
<1>2. k \in Nat /\ IsFiniteSet(Made) /\ Cardinality(Made) = k /\ k + 1 \notin Made
  BY <1>1, MadeFinite, ManagerConstants
<1>3. MaxBreakers \in Nat /\ Names = URLs
  BY ManagerConstants
<1>4. CASE Keeps
  BY <1>4 DEF Keeps, RoomLeft, Mapped
<1>5. ASSUME NEW n \in URLs, NEW b \in Ids, Adds(n, b)
      PROVE  RoomLeft'
  <2>1. Made' = Made \cup {b} /\ b \notin Made /\ n \notin Mapped /\ b # 0
    BY <1>2, <1>3, <1>5 DEF Adds, Ids
  <2>2. Cardinality(Made') = Cardinality(Made) + 1
    BY <1>2, <2>1, FS_AddElement
  <2>3. Mapped' = Mapped \cup {n}
    BY <1>3, <1>5, <2>1 DEF Adds, Mapped, ManagerInv, BreakersOK, NamedOK
  <2>4. URLs \ Mapped' = (URLs \ Mapped) \ {n} /\ n \in URLs \ Mapped
    BY <2>1, <2>3
  <2>5. Cardinality(URLs \ Mapped') = Cardinality(URLs \ Mapped) - 1
    BY <2>4, UnmappedCount, FS_RemoveElement
  <2>. QED  BY <1>2, <1>3, <2>2, <2>5, UnmappedCount DEF RoomLeft
<1>6. ASSUME NEW ns \in SUBSET URLs, Drops(ns)
      PROVE  RoomLeft'
  <2>1. Made' = Made /\ Cardinality(Made) + Cardinality(URLs) <= MaxBreakers
    BY <1>3, <1>6 DEF Drops, MayDrop
  <2>2. Cardinality(Made') + Cardinality(URLs \ Mapped') <= MaxBreakers
    BY <1>2, <1>3, <2>1, UnmappedCount, UnmappedLater
  <2>. QED  BY <2>2 DEF RoomLeft
<1>. QED  BY <1>4, <1>5, <1>6 DEF ManagerMove

LEMMA LockInit == Init => LockInv
<1>. SUFFICES ASSUME Init
              PROVE  LockInv
  OBVIOUS
<1>1. OneHolder
  BY DEF Init, Idle, OneHolder
<1>2. RoomLeft
  <2>1. Made = {} /\ Mapped = {}
    BY NewIsCircuit, ManagerConstants DEF Init, ManagerInit, Made, Mapped
  <2>2. Cardinality(Made) = 0 /\ URLs \ Mapped = URLs
    BY <2>1, FS_EmptySet
  <2>. QED  BY <2>2, UnmappedCount, RequestAssumption DEF RoomLeft
<1>. QED  BY <1>1, <1>2, UpstreamInit DEF LockInv

LEMMA LockStep == LockInv /\ [Next]_vars => LockInv'
<1>. SUFFICES ASSUME LockInv, [Next]_vars
              PROVE  LockInv'
  OBVIOUS
<1>1. UpstreamInv'
  BY UpstreamStep DEF LockInv
<1>2. OneHolder'
  BY OneHolderStep DEF LockInv, UpstreamInv
<1>3. BreakersMove
  BY ManagerStep DEF LockInv, UpstreamInv, ManagerInv
<1>4. RoomLeft'
  BY <1>3, RoomStep DEF LockInv, UpstreamInv, BreakersMove
<1>. QED  BY <1>1, <1>2, <1>4 DEF LockInv

\* One call at most waits for a breaker with the balancer's lock in its hands, it can go
\* on, and so can some worker whenever one is busy (SomebodyMoves).
THEOREM LockPassedOn == Spec => []SomebodyMoves
<1>1. LockInv => SomebodyMoves
  <2>. SUFFICES ASSUME LockInv
                PROVE  SomebodyMoves
    OBVIOUS
  <2>0. RequestsOK /\ Engaged /\ OneHolder /\ RoomLeft /\ ManagerInv
    BY DEF LockInv, UpstreamInv
  <2>1. ASSUME NEW r \in Requests, request[r].at \in {"lookup", "create", "admit", "running"}
        PROVE  CanMove(r)
    <3>1. CASE request[r].at = "create"
      <4>1. request[r].url \in URLs
        BY <2>0, <3>1 DEF Engaged
      <4>2. ASSUME request[r].url \notin Mapped
            PROVE  Cardinality(Made) < MaxBreakers
        <5>1. URLs \ Mapped # {}
          BY <4>1, <4>2
        <5>2. Cardinality(URLs \ Mapped) # 0
          BY <5>1, UnmappedCount, FS_EmptySet
        <5>3. PICK k \in 0 .. MaxBreakers : Made = 1 .. k
          BY <2>0 DEF ManagerInv, MapOK
        <5>4. Cardinality(Made) \in Nat /\ MaxBreakers \in Nat
          BY <5>3, MadeFinite, ManagerConstants
        <5>. QED  BY <2>0, <5>2, <5>4, UnmappedCount DEF RoomLeft
      <4>. QED  BY <3>1, <4>2 DEF CanMove, At
    <3>2. CASE request[r].at # "create"
      BY <2>1, <3>2 DEF CanMove
    <3>. QED  BY <3>1, <3>2
  <2>2. \A r \in Requests : request[r].telling => CanMove(r) /\ ~At(r, "idle")
    BY <2>0, <2>1 DEF Engaged, At
  <2>3. ASSUME NEW r \in Requests, ~At(r, "idle")
        PROVE  \E q \in Requests : ~At(q, "idle") /\ CanMove(q)
    <3>1. CASE LockFree
      <4>1. request[r].at \in States
        BY <2>0, RequestFields
      <4>. QED  BY <2>1, <2>3, <3>1, <4>1 DEF States, At, CanMove
    <3>2. CASE ~LockFree
      BY <2>2, <3>2 DEF LockFree
    <3>. QED  BY <3>1, <3>2
  <2>4. Cardinality({r \in Requests : request[r].telling}) <= 1
    <3>1. CASE {r \in Requests : request[r].telling} = {}
      BY <3>1, FS_EmptySet
    <3>2. ASSUME NEW r \in Requests, request[r].telling
          PROVE  Cardinality({q \in Requests : request[q].telling}) <= 1
      <4>1. {q \in Requests : request[q].telling} = {r}
        BY <2>0, <3>2 DEF OneHolder
      <4>2. Cardinality({r}) = 1 /\ 1 <= 1
        BY FS_Singleton
      <4>. QED  BY <4>1, <4>2
    <3>. QED  BY <3>1, <3>2
  <2>. QED  BY <2>2, <2>3, <2>4 DEF SomebodyMoves
<1>. QED  BY <1>1, LockInit, LockStep, PTL DEF Spec

-----------------------------------------------------------------------------
(* Breakers serve again *)

\* A call that b let through is under way and will decide what b does next.
OnTrial(b) == \E r \in Requests : request[r].at = "running" /\ request[r].breaker = b

BelowLimit(c) == c.state = "closed" => c.failures < MaxFailures

\* c refuses nobody, or only until its timeout has passed.
Serves(c) == BelowLimit(c) /\ (c.state = "halfOpen" => c.successes < Trials)

ServeInv ==
    \A b \in Ids : /\ BelowLimit(breakers[b])
                   /\ Serves(breakers[b]) \/ OnTrial(b)

LEMMA NewServes == Serves(NewCircuitBreaker) /\ Serves(Unmade)
BY ManagerConstants DEF NewCircuitBreaker, Unmade, Serves, BelowLimit

\* The outcome of a call never leaves a breaker half-open with its trials used up, nor
\* closed at the limit.
LEMMA OutcomeServes ==
    ASSUME NEW c \in Circuit, BelowLimit(c)
    PROVE  Serves(CountSuccess(c)) /\ Serves(CountFailure(c))
<1>0. MaxFailures \in Nat \ {0} /\ Trials \in Nat \ {0} /\ 0 < MaxFailures
  BY ManagerConstants
<1>1. Serves(CountSuccess(c))
  <2>1. PICK s \in Nat : s = Min2(Trials, c.successes + 1)
    BY <1>0, CircuitFields DEF Min2
  <2>2. CASE c.state = "halfOpen" /\ s >= Trials
    <3>1. CountSuccess(c) = [c EXCEPT !.state = "closed", !.failures = 0, !.successes = 0]
      BY <2>1, <2>2 DEF CountSuccess
    <3>. QED  BY <1>0, <3>1 DEF Serves, BelowLimit, Circuit
  <2>3. CASE ~(c.state = "halfOpen" /\ s >= Trials)
    <3>1. CountSuccess(c) = [c EXCEPT !.successes = s]
      BY <2>1, <2>3, Zenon DEF CountSuccess
    <3>2. /\ [c EXCEPT !.successes = s].state = c.state
          /\ [c EXCEPT !.successes = s].failures = c.failures
          /\ [c EXCEPT !.successes = s].successes = s
      BY DEF Circuit
    <3>. QED  BY <1>0, <2>1, <2>3, <3>1, <3>2 DEF Serves, BelowLimit
  <2>. QED  BY <2>2, <2>3
<1>2. Serves(CountFailure(c))
  <2>1. PICK f \in Nat : f = Min2(MaxFailures, c.failures + 1)
    BY <1>0, CircuitFields DEF Min2
  <2> DEFINE d == [c EXCEPT !.failures = f, !.wait = ResetTimeout]
  <2>2. d.state = c.state /\ d.failures = f
    BY DEF Circuit
  <2>3. /\ c.state = "halfOpen" => CountFailure(c).state = "open"
        /\ c.state = "closed" /\ f >= MaxFailures => CountFailure(c).state = "open"
        /\ c.state # "halfOpen" /\ ~(c.state = "closed" /\ f >= MaxFailures) => CountFailure(c) = d
    BY <2>1 DEF CountFailure, Circuit
  <2>. HIDE DEF d
  <2>. QED  BY <1>0, <2>1, <2>2, <2>3 DEF Serves, BelowLimit
<1>. QED  BY <1>1, <1>2

\* Calls on trial with b other than r's go on.
LEMMA OthersOnTrial ==
    ASSUME NEW r \in Requests, \A q \in Requests \ {r} : request'[q] = request[q],
           NEW b, request[r].at = "running" => request[r].breaker # b, OnTrial(b)
    PROVE  OnTrial(b)'
BY DEF OnTrial

LEMMA ServesRelease ==
    ASSUME BreakersOK, ServeInv, NEW r \in Requests, RequestsOK, NEW c, NEW next,
           request[r].at \in {"admit", "running"}, Returns(r, c, next),
           request[r].breaker \in Made,
           \/ Serves(c)
           \/ request[r].at = "admit" /\ c = Breaker(r)
    PROVE  ServeInv'
<1>1. \A q \in Requests \ {r} : request'[q] = request[q]
  BY DEF Returns, Ends, RequestsOK
<1>2. PICK d : /\ d = NewCircuitBreaker \/ d = c
               /\ breakers' = [breakers EXCEPT ![request[r].breaker] = d]
  BY DEF Returns, Release, Update
<1>3. ASSUME NEW b \in Ids PROVE BelowLimit(breakers'[b]) /\ (Serves(breakers'[b]) \/ OnTrial(b)')
  <2>1. CASE b = request[r].breaker /\ Serves(d)
    <3>1. breakers'[b] = d
      BY <1>2, <1>3, <2>1 DEF BreakersOK
    <3>. QED  BY <2>1, <3>1 DEF Serves
  <2>2. CASE b = request[r].breaker /\ ~Serves(d)
    <3>1. request[r].at = "admit" /\ d = breakers[b]
      BY <1>2, <2>2, NewServes DEF Breaker
    <3>2. breakers'[b] = breakers[b]
      BY <1>2, <1>3, <2>2, <3>1 DEF BreakersOK
    <3>. QED  BY <1>1, <3>1, <3>2, OthersOnTrial DEF ServeInv
  <2>3. CASE b # request[r].breaker
    <3>1. breakers'[b] = breakers[b]
      BY <1>2, <1>3, <2>3 DEF BreakersOK
    <3>. QED  BY <1>1, <2>3, <3>1, OthersOnTrial DEF ServeInv
  <2>. QED  BY <2>1, <2>2, <2>3
<1>. QED  BY <1>3 DEF ServeInv, Serves, BelowLimit

LEMMA ServesCalls ==
    ASSUME UpstreamInv, ServeInv, NEW r \in Requests, RequestStep(r)
    PROVE  ServeInv'
<1>0. BreakersOK /\ RequestsOK /\ Engaged /\ CallsOwn /\ breakers \in [Ids -> Circuit]
  BY DEF UpstreamInv, ManagerInv, BreakersOK
<1>1. ASSUME request[r].at \in {"admit", "running"}
      PROVE  /\ Breaker(r) \in Circuit /\ request[r].breaker \in Made
             /\ BelowLimit(Breaker(r))
  BY <1>0, <1>1, EngagedMade DEF CallsOwn, ServeInv, Breaker, Made
<1>2. \A q \in Requests \ {r} : request'[q] = request[q]
  BY <1>0, StepMoves DEF Only, RequestsOK
<1>3. CASE Lookup(r) \/ ReportSuccess(r) \/ ReportFailure(r)
  <2>1. breakers' = breakers /\ request[r].at # "running"
    BY <1>3 DEF Lookup, ReportSuccess, ReportFailure, manager, At
  <2>. QED  BY <1>2, <2>1, OthersOnTrial DEF ServeInv, Serves, BelowLimit
<1>4. CASE CreateBreaker(r)
  <2>1. request[r].at = "create"
    BY <1>4 DEF CreateBreaker, At
  <2>2. breakers' = breakers \/ \E b \in Ids : breakers' = [breakers EXCEPT ![b] = NewCircuitBreaker]
    BY <1>4 DEF CreateBreaker, Create, NewBreaker, manager
  <2>3. \A b \in Ids : breakers'[b] = breakers[b] \/ breakers'[b] = NewCircuitBreaker
    BY <1>0, <2>2
  <2>. QED  BY <1>2, <2>1, <2>3, NewServes, OthersOnTrial DEF ServeInv, Serves, BelowLimit
<1>5. CASE ContextDone(r) \/ Reject(r)
  BY <1>0, <1>1, <1>5, ServesRelease DEF ContextDone, Reject, At
<1>6. CASE ExchangeSucceeds(r) \/ ExchangeFails(r)
  <2>1. request[r].at = "running"
    BY <1>6 DEF ExchangeSucceeds, ExchangeFails, At
  <2>2. Serves(CountSuccess(Breaker(r))) /\ Serves(CountFailure(Breaker(r)))
    BY <1>1, <2>1, OutcomeServes
  <2>3. CASE ExchangeSucceeds(r)
    BY <1>0, <1>1, <2>1, <2>2, <2>3, ServesRelease DEF ExchangeSucceeds
  <2>4. CASE ExchangeFails(r)
    BY <1>0, <1>1, <2>1, <2>2, <2>4, ServesRelease DEF ExchangeFails
  <2>. QED  BY <1>6, <2>3, <2>4
<1>7. CASE Admit(r)
  <2>1. /\ request[r].at = "admit" /\ request' = [request EXCEPT ![r].at = "running"]
        /\ breakers' = [breakers EXCEPT ![request[r].breaker] = Admitted(Breaker(r))]
    BY <1>7 DEF Admit, Goto, At, Update
  <2>2. request'[r].at = "running" /\ request'[r].breaker = request[r].breaker
    BY <1>0, <2>1 DEF RequestsOK, RequestRecord
  <2>3. OnTrial(request[r].breaker)'
    BY <1>0, <2>2 DEF OnTrial
  <2>4. BelowLimit(Admitted(Breaker(r)))
    BY <1>1, <2>1 DEF Admitted, BelowLimit, Circuit
  <2>5. ASSUME NEW b \in Ids PROVE BelowLimit(breakers'[b]) /\ (Serves(breakers'[b]) \/ OnTrial(b)')
    <3>1. CASE b = request[r].breaker
      BY <1>0, <2>1, <2>3, <2>4, <2>5, <3>1
    <3>2. CASE b # request[r].breaker
      <4>1. breakers'[b] = breakers[b]
        BY <1>0, <2>1, <2>5, <3>2
      <4>. QED  BY <1>2, <2>1, <4>1, OthersOnTrial DEF ServeInv
    <3>. QED  BY <3>1, <3>2
  <2>. QED  BY <2>5 DEF ServeInv, Serves, BelowLimit
<1>. QED  BY <1>3, <1>4, <1>5, <1>6, <1>7 DEF RequestStep

LEMMA ServeStep == UpstreamInv /\ ServeInv /\ [Next]_vars => ServeInv'
<1>. SUFFICES ASSUME UpstreamInv, ServeInv, [Next]_vars PROVE ServeInv'
  OBVIOUS
<1>0. BreakersOK /\ RequestsOK /\ breakers \in [Ids -> Circuit]
  BY DEF UpstreamInv, ManagerInv, BreakersOK
<1>1. ASSUME NEW r \in Requests, RequestStep(r) PROVE ServeInv'
  BY <1>1, ServesCalls
<1>2. ASSUME NEW r \in Requests, Take(r) PROVE ServeInv'
  <2>1. \A q \in Requests \ {r} : request'[q] = request[q]
    BY <1>0, <1>2, TakeMoves DEF Only, RequestsOK
  <2>2. breakers' = breakers /\ request[r].at # "running"
    BY <1>2 DEF Take, At, manager
  <2>. QED  BY <2>1, <2>2, OthersOnTrial DEF ServeInv, Serves, BelowLimit
<1>3. ASSUME request' = request,
             \A b \in Ids : \/ Serves(breakers'[b])
                            \/ /\ breakers'[b].state = breakers[b].state
                               /\ breakers'[b].failures = breakers[b].failures
                               /\ breakers'[b].successes = breakers[b].successes
      PROVE  ServeInv'
  BY <1>3 DEF ServeInv, Serves, BelowLimit, OnTrial
<1>4. ASSUME NEW u \in URLs, Manage(u) PROVE ServeInv'
  <2>1. CASE Remove(u, HeldBy(Requests)) \/ Close(HeldBy(Requests))
    <3>1. \A b \in Ids : breakers'[b] = breakers[b] \/ breakers'[b] = NewCircuitBreaker
      BY <2>1 DEF Remove, Close, Drop
    <3>. QED  BY <1>3, <1>4, <3>1, NewServes DEF Manage
  <2>2. CASE Reset(u)
    <3> DEFINE c == WhenReset(breakers[named[u]])
    <3>1. breakers' = [breakers EXCEPT ![named[u]] = c]
      BY <2>2 DEF Reset, Update
    <3>2. c.state = "closed" /\ c.failures = 0
      BY DEF WhenReset, NewCircuitBreaker
    <3>3. Serves(c)
      BY <3>2, ManagerConstants DEF Serves, BelowLimit
    <3>. HIDE DEF c
    <3>4. \A b \in Ids : breakers'[b] = breakers[b] \/ breakers'[b] = c
      BY <1>0, <3>1
    <3>. QED  BY <1>3, <1>4, <3>3, <3>4 DEF Manage
  <2>. QED  BY <1>4, <2>1, <2>2 DEF Manage
<1>5. CASE Tick
  <2>1. \A b \in Ids : breakers'[b] = Waiting(breakers[b]) /\ breakers[b] \in Circuit
    BY <1>0, <1>5 DEF Tick, Waited
  <2>2. \A c \in Circuit : /\ Waiting(c).state = c.state /\ Waiting(c).failures = c.failures
                           /\ Waiting(c).successes = c.successes
    BY DEF Circuit, Waiting
  <2>. QED  BY <1>3, <1>5, <2>1, <2>2 DEF Tick
<1>6. CASE (\E u \in URLs : Edit(u)) \/ Check \/ UNCHANGED vars
  <2>1. request' = request /\ breakers' = breakers
    BY <1>6 DEF Edit, Check, vars, manager
  <2>. QED  BY <1>3, <2>1
<1>. QED  BY <1>1, <1>2, <1>4, <1>5, <1>6 DEF Next

\* No breaker refuses for ever: one that refuses calls is open and its timeout runs, or
\* a call it let through is still under way, whose outcome will close or open it.
EveryBreakerServes ==
    \A b \in Made :
        ~Admits(breakers[b]) =>
            \/ breakers[b].state = "open" /\ breakers[b].wait > 0
            \/ OnTrial(b)

\* However calls overlap on a breaker, through Reset, Remove and Close and the failures
\* that RecordFailure reports for the second time, none of them leaves it half-open with
\* its trials used up and nobody left to decide, nor closed with its limit reached.
THEOREM BreakersServeAgain ==
    Spec => [](EveryBreakerServes /\ \A b \in Made : BelowLimit(breakers[b]))
<1>1. Init => ServeInv
  BY NewServes DEF Init, ManagerInit, ServeInv, Serves
<1>2. UpstreamInv /\ ServeInv => EveryBreakerServes /\ \A b \in Made : BelowLimit(breakers[b])
  <2>. SUFFICES ASSUME UpstreamInv, ServeInv, NEW b \in Made
                PROVE  /\ BelowLimit(breakers[b])
                       /\ ~Admits(breakers[b]) =>
                              \/ breakers[b].state = "open" /\ breakers[b].wait > 0
                              \/ OnTrial(b)
    BY DEF EveryBreakerServes
  <2>1. breakers[b] \in Circuit /\ breakers[b].state # "none" /\ b \in Ids
    BY DEF UpstreamInv, ManagerInv, BreakersOK, Made
  <2>2. breakers[b].wait \in Nat
    BY <2>1, CircuitFields, ManagerConstants
  <2>. QED  BY <2>1, <2>2, CircuitFields DEF ServeInv, Serves, Admits
<1>. QED  BY <1>1, <1>2, UpstreamInit, UpstreamStep, ServeStep, PTL DEF Spec

-----------------------------------------------------------------------------
(* Requests end.  The fairness assumed of a worker is that it is not stopped *)
(* for ever in the middle of a request, the lock of the balancer included:   *)
(* somebody can always go on, the holder of the lock above all, by           *)
(* LockPassedOn, and a waiter for a mutex is not passed over for ever.       *)

\* The steps that a request may still take.  A failure goes through the breaker a second
\* time, from within RecordFailure.
StepsLeft(q) ==
    CASE q.at = "idle"      -> 0
      [] q.at = "succeeded" -> 1
      [] q.at = "failed"    -> 5
      [] q.at = "running"   -> IF q.telling THEN 1 ELSE 6
      [] q.at = "admit"     -> IF q.telling THEN 2 ELSE 7
      [] q.at = "create"    -> IF q.telling THEN 3 ELSE 8
      [] q.at = "lookup"    -> IF q.telling THEN 4 ELSE 9

LEMMA StepsLeftIs ==
    ASSUME NEW q \in RequestRecord
    PROVE  /\ StepsLeft(q) \in 0 .. 9
           /\ StepsLeft(q) = 0 <=> q.at = "idle"
           /\ q.at = "succeeded" => StepsLeft(q) = 1
           /\ q.at = "failed" => StepsLeft(q) = 5
           /\ q.at = "running" => StepsLeft(q) = IF q.telling THEN 1 ELSE 6
           /\ q.at = "admit" => StepsLeft(q) = IF q.telling THEN 2 ELSE 7
           /\ q.at = "create" => StepsLeft(q) = IF q.telling THEN 3 ELSE 8
           /\ q.at = "lookup" => StepsLeft(q) = IF q.telling THEN 4 ELSE 9
<1>1. q.at \in States
  BY DEF RequestRecord
<1>. QED  BY <1>1 DEF StepsLeft, States

LEMMA MoveLessens ==
    ASSUME UpstreamInv, NEW r \in Requests, Moves(r), request[r].at # "idle"
    PROVE  StepsLeft(request'[r]) < StepsLeft(request[r])
<1> DEFINE q == request[r]
<1>1. q \in RequestRecord /\ RequestsOK /\ Engaged /\ NamedOK
  BY DEF UpstreamInv, RequestsOK, ManagerInv, BreakersOK
<1>2. request'[r] \in RequestRecord
  BY <1>1, MovedRecord
<1>3. q.telling => q.at \in {"lookup", "create", "admit", "running"}
  BY <1>1 DEF Engaged
<1>4. CASE Looks(r)
  <2>1. request'[r].at \in {"admit", "create"} /\ request'[r].telling = q.telling /\ q.at = "lookup"
    BY <1>1, <1>4 DEF Looks, RequestRecord
  <2>. QED  BY <1>1, <1>2, <2>1, StepsLeftIs
<1>5. CASE Creates(r)
  <2>1. request'[r].at = "admit" /\ request'[r].telling = q.telling /\ q.at = "create"
    BY <1>1, <1>5 DEF Creates, RequestRecord
  <2>. QED  BY <1>1, <1>2, <2>1, StepsLeftIs
<1>6. CASE Enters(r)
  <2>1. request'[r].at = "running" /\ request'[r].telling = q.telling /\ q.at = "admit"
    BY <1>1, <1>6 DEF Enters, RequestRecord
  <2>. QED  BY <1>1, <1>2, <2>1, StepsLeftIs
<1>7. CASE Leaves(r)
  <2>1. request'[r].at \in {"succeeded", "failed"} /\ ~q.telling /\ q.at \in {"admit", "running"}
    BY <1>1, <1>7 DEF Leaves, RequestRecord
  <2>2. StepsLeft(request'[r]) <= 5 /\ StepsLeft(q) >= 6
    BY <1>1, <1>2, <2>1, StepsLeftIs
  <2>3. StepsLeft(request'[r]) \in Int /\ StepsLeft(q) \in Int
    BY <1>1, <1>2, StepsLeftIs
  <2>. QED  BY <2>2, <2>3
<1>8. CASE Tells(r)
  <2>1. request'[r].at = "lookup" /\ request'[r].telling /\ q.at = "failed"
    BY <1>1, <1>8 DEF Tells, RequestRecord
  <2>. QED  BY <1>1, <1>2, <2>1, StepsLeftIs
<1>9. CASE Finishes(r)
  <2>1. request'[r].at = "idle"
    BY <1>9 DEF Finishes, Idle
  <2>2. StepsLeft(request'[r]) = 0
    BY <1>2, <2>1, StepsLeftIs
  <2>3. StepsLeft(q) \in 0 .. 9 /\ StepsLeft(q) # 0
    BY <1>1, StepsLeftIs
  <2>. QED  BY <2>2, <2>3
<1>. QED  BY <1>4, <1>5, <1>6, <1>7, <1>8, <1>9 DEF Moves

\* Whatever the others do, the administration and the clock, r has as much left.
LEMMA StepsLeftStay ==
    ASSUME UpstreamInv, [Next]_vars, NEW r \in Requests, request[r].at # "idle"
    PROVE  StepsLeft(request'[r]) <= StepsLeft(request[r])
<1>1. RequestsOK /\ StepsLeft(request[r]) \in Int
  BY StepsLeftIs DEF UpstreamInv, RequestsOK
<1>2. RequestsOK' /\ StepsLeft(request'[r]) \in Int
  <2>1. RequestsOK'
    BY UpstreamStep DEF UpstreamInv
  <2>. QED  BY <2>1, StepsLeftIs DEF RequestsOK
<1>3. CASE request'[r] = request[r]
  BY <1>1, <1>3
<1>4. CASE Moves(r)
  BY <1>1, <1>2, <1>4, MoveLessens
<1>5. request'[r] = request[r] \/ Moves(r)
  <2>1. ASSUME NEW q \in Requests, Only(q), q # r PROVE request'[r] = request[r]
    BY <1>1, <2>1 DEF Only, RequestsOK
  <2>. QED  BY <1>1, <2>1, RequestMoves
<1>. QED  BY <1>3, <1>4, <1>5

GoesOn(r) == []<>(request[r].at = "idle") \/ []<><<RequestStep(r)>>_vars

LEMMA Nearer ==
    ASSUME UpstreamInv, [Next]_vars, NEW r \in Requests, NEW k \in 0 .. 9, StepsLeft(request[r]) <= k
    PROVE  /\ StepsLeft(request'[r]) <= k \/ request[r].at = "idle"
           /\ RequestStep(r) /\ request[r].at # "idle" => StepsLeft(request'[r]) <= k - 1
<1>1. RequestsOK /\ StepsLeft(request[r]) \in Int
  BY StepsLeftIs DEF UpstreamInv, RequestsOK
<1>2. RequestsOK' /\ StepsLeft(request'[r]) \in Int
  <2>1. RequestsOK'
    BY UpstreamStep DEF UpstreamInv
  <2>. QED  BY <2>1, StepsLeftIs DEF RequestsOK
<1>3. ASSUME request[r].at # "idle" PROVE StepsLeft(request'[r]) <= k
  <2>1. StepsLeft(request'[r]) <= StepsLeft(request[r])
    BY <1>3, StepsLeftStay
  <2>. QED  BY <1>1, <1>2, <2>1
<1>4. ASSUME RequestStep(r), request[r].at # "idle" PROVE StepsLeft(request'[r]) <= k - 1
  <2>1. StepsLeft(request'[r]) < StepsLeft(request[r])
    BY <1>1, <1>4, StepMoves, MoveLessens
  <2>. QED  BY <1>1, <1>2, <2>1
<1>. QED  BY <1>3, <1>4

\* A request that took an instance ends, and has told the balancer how it went, after
\* nine steps at most: neither the second way through the breaker nor the other workers,
\* the administration or the clock can keep it from it.
THEOREM RequestEnds ==
    \A r \in Requests : Spec /\ GoesOn(r) => (request[r].at # "idle" ~> request[r].at = "idle")
<1>. SUFFICES ASSUME NEW r \in Requests
              PROVE  Spec /\ GoesOn(r) => (request[r].at # "idle" ~> request[r].at = "idle")
  OBVIOUS
<1> DEFINE Left == StepsLeft(request[r])
           Ended == request[r].at = "idle"
<1>1. UpstreamInv => Left <= 9 /\ (Left <= 0 => Ended)
  BY StepsLeftIs DEF UpstreamInv, RequestsOK
<1>2. UpstreamInv /\ [Next]_vars /\ ~Ended =>
          /\ Left <= 1 => (Left <= 1)'
          /\ Left <= 2 => (Left <= 2)'
          /\ Left <= 3 => (Left <= 3)'
          /\ Left <= 4 => (Left <= 4)'
          /\ Left <= 5 => (Left <= 5)'
          /\ Left <= 6 => (Left <= 6)'
          /\ Left <= 7 => (Left <= 7)'
          /\ Left <= 8 => (Left <= 8)'
  BY Nearer
<1>3. UpstreamInv /\ [Next]_vars /\ ~Ended /\ <<RequestStep(r)>>_vars =>
          /\ Left <= 1 => (Left <= 0)'
          /\ Left <= 2 => (Left <= 1)'
          /\ Left <= 3 => (Left <= 2)'
          /\ Left <= 4 => (Left <= 3)'
          /\ Left <= 5 => (Left <= 4)'
          /\ Left <= 6 => (Left <= 5)'
          /\ Left <= 7 => (Left <= 6)'
          /\ Left <= 8 => (Left <= 7)'
          /\ Left <= 9 => (Left <= 8)'
  <2>. SUFFICES ASSUME UpstreamInv, [Next]_vars, ~Ended, RequestStep(r),
                       NEW k \in 1 .. 9, Left <= k
                PROVE  StepsLeft(request'[r]) <= k - 1
    OBVIOUS
  <2>. QED  BY Nearer
<1>. HIDE DEF Left
<1>. QED  BY <1>1, <1>2, <1>3, UpstreamHolds, PTL DEF Spec, GoesOn
=============================================================================
