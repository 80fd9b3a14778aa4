----------------------- MODULE ConcurrentServerProofs -----------------------
(***************************************************************************)
(* The invariants of the server, for any instances, profiles, requests and *)
(* connections, any number of clients and any timeout within the limit.    *)
(***************************************************************************)
EXTENDS ConcurrentServer, FiniteSetTheorems, TLAPS

USE PoolAssumption, ServerAssumption

-----------------------------------------------------------------------------
(* Types *)

ConnType == [Conns -> [at : {"undialled", "busy", "idle", "closed"},
                       client : 1 .. MaxClients \cup {NoClient}]]

\* Closing the clients of some instances keeps the pool's types.
LEMMA ForgetTypes ==
    ASSUME PoolTypeOK, NEW is \in SUBSET Instances, Forget(is)
    PROVE  PoolTypeOK'
<1> DEFINE gone == {clients[<<i, p>>] : i \in is, p \in Profiles} \ {NoClient}
           idle == {c \in Conns : conns[c].at = "idle" /\ conns[c].client \in gone}
<1>1. idle \subseteq Conns /\ Cardinality(idle) \in Nat
  BY FS_Subset, FS_CardinalityType
<1>2. open' \in Int
  BY <1>1 DEF PoolTypeOK, Forget
<1>3. conns' \in ConnType
  <2>1. conns' = [c \in Conns |-> IF c \in idle THEN [conns[c] EXCEPT !.at = "closed"] ELSE conns[c]]
    BY DEF Forget
  <2>2. conns \in ConnType
    BY DEF PoolTypeOK, ConnType
  <2>. QED  BY <2>1, <2>2 DEF ConnType
<1>4. clients' \in [Keys -> 1 .. MaxClients \cup {NoClient}]
  BY DEF PoolTypeOK, Forget
<1>5. unused' \in [Instances -> 0 .. IdleLimit + 1] /\ made' \in 0 .. MaxClients
  BY DEF PoolTypeOK, Forget
<1>. QED  BY <1>2, <1>3, <1>4, <1>5 DEF PoolTypeOK, ConnType

Ats == {"idle", "begun", "waiting", "count", "fail", "code", "ending"}
Statuses == {0, 200, 404, 408, 429, 500, 503}

\* A request goes to another place.
LEMMA HttpMoves ==
    ASSUME http \in [Requests -> HttpType], NEW r \in Requests, NEW at \in Ats,
           http' = [http EXCEPT ![r].at = at]
    PROVE  http' \in [Requests -> HttpType]
BY DEF HttpType, Ats

LEMMA StatusFacts ==
    200 \in Statuses /\ 404 \in Statuses /\ 408 \in Statuses /\ 429 \in Statuses /\ 500 \in Statuses /\ 503 \in Statuses
BY DEF Statuses

\* A request is about to be recorded.
LEMMA HttpRecords ==
    ASSUME http \in [Requests -> HttpType], NEW r \in Requests, NEW status \in Statuses,
           Recording(r, status, TRUE) \/ Recording(r, status, FALSE)
    PROVE  http' \in [Requests -> HttpType]
<1>1. /\ [at |-> "count", status |-> status, last |-> TRUE] \in HttpType
      /\ [at |-> "count", status |-> status, last |-> FALSE] \in HttpType
  BY DEF HttpType, Statuses
<1>. QED  BY <1>1 DEF Recording

LEMMA Ages ==
    ASSUME NEW j \in JobType, j.age < Timeout
    PROVE  [j EXCEPT !.age = @ + 1] \in JobType
<1>1. j.age + 1 \in 0 .. Timeout
  BY DEF JobType
<1>. QED  BY <1>1 DEF JobType

LEMMA TypeInductive ==
    TypeOK /\ [Next]_vars => TypeOK'
<1>. SUFFICES ASSUME TypeOK, [Next]_vars PROVE TypeOK'
  OBVIOUS
<1>. USE DEF TypeOK
<1>p. UNCHANGED pool => PoolTypeOK'
  BY DEF PoolTypeOK, pool
<1>n. NoJob \in JobType
  BY DEF NoJob, JobType
<1>1. ASSUME NEW r \in Requests, Arrive(r) PROVE TypeOK'
  <2>1. http' \in [Requests -> HttpType]
    BY <1>1, HttpMoves DEF Arrive, Ats
  <2>2. metrics' \in MetricsType
    BY <1>1 DEF Arrive, MetricsType
  <2>. QED  BY <1>1, <1>p, <2>1, <2>2 DEF Arrive
<1>2. ASSUME NEW r \in Requests, Handle(r) PROVE TypeOK'
  <2>1. http' \in [Requests -> HttpType]
    <3>1. CASE http' = [http EXCEPT ![r].at = "waiting"]
      BY <3>1, HttpMoves DEF Ats
    <3>2. CASE Recording(r, 429, TRUE)
      BY <3>2, HttpRecords, StatusFacts
    <3>3. CASE Recording(r, 200, TRUE)
      BY <3>3, HttpRecords, StatusFacts
    <3>4. CASE Recording(r, 503, FALSE)
      BY <3>4, HttpRecords, StatusFacts
    <3>. QED  BY <1>2, <3>1, <3>2, <3>3, <3>4 DEF Handle, Returned
  <2>2. job' \in [Requests -> JobType]
    <3>1. [job[r] EXCEPT !.at = "queued"] \in JobType
      BY DEF JobType
    <3>. QED  BY <1>2, <3>1 DEF Handle
  <2>. QED  BY <1>2, <1>p, <2>1, <2>2 DEF Handle
<1>3. ASSUME NEW r \in Requests, Receive(r) PROVE TypeOK'
  <2>1. http' \in [Requests -> HttpType]
    <3>1. CASE Recording(r, 500, FALSE)
      BY <3>1, HttpRecords, StatusFacts
    <3>2. CASE \E status \in {200, 404} : Recording(r, status, FALSE)
      <4>1. PICK status \in {200, 404} : Recording(r, status, FALSE)
        BY <3>2
      <4>2. status \in Statuses
        BY DEF Statuses
      <4>. QED  BY <4>1, <4>2, HttpRecords
    <3>. QED  BY <1>3, <3>1, <3>2, Zenon DEF Receive
  <2>. QED  BY <1>3, <1>p, <1>n, <2>1 DEF Receive
<1>4. ASSUME NEW r \in Requests, ContextDone(r) PROVE TypeOK'
  <2>1. http' \in [Requests -> HttpType]
    <3>1. Recording(r, 408, FALSE)
      BY <1>4 DEF ContextDone
    <3>. QED  BY <3>1, HttpRecords, StatusFacts
  <2>. QED  BY <1>4, <1>p, <2>1 DEF ContextDone
<1>5. ASSUME NEW r \in Requests, CountTotal(r) PROVE TypeOK'
  <2>1. http' \in [Requests -> HttpType]
    BY <1>5, HttpMoves DEF CountTotal, Ats
  <2>2. metrics' \in MetricsType
    BY <1>5 DEF CountTotal, MetricsType
  <2>. QED  BY <1>5, <1>p, <2>1, <2>2 DEF CountTotal
<1>6. ASSUME NEW r \in Requests, CountFailed(r) PROVE TypeOK'
  <2>1. http' \in [Requests -> HttpType]
    BY <1>6, HttpMoves DEF CountFailed, Ats
  <2>2. metrics' \in MetricsType
    BY <1>6 DEF CountFailed, MetricsType
  <2>. QED  BY <1>6, <1>p, <2>1, <2>2 DEF CountFailed
<1>7. ASSUME NEW r \in Requests, CountStatus(r) PROVE TypeOK'
  <2>1. http' \in [Requests -> HttpType]
    <3>1. CASE http' = [http EXCEPT ![r].at = "ending"]
      BY <3>1, HttpMoves DEF Ats
    <3>2. CASE Recording(r, 200, TRUE)
      BY <3>2, HttpRecords, StatusFacts
    <3>. QED  BY <1>7, <3>1, <3>2 DEF CountStatus, Returned
  <2>2. metrics' \in MetricsType
    BY <1>7 DEF CountStatus, MetricsType
  <2>. QED  BY <1>7, <1>p, <2>1, <2>2 DEF CountStatus
<1>8. ASSUME NEW r \in Requests, End(r) PROVE TypeOK'
  <2>1. Quiet \in HttpType
    BY DEF Quiet, HttpType
  <2>2. metrics' \in MetricsType
    BY <1>8 DEF End, MetricsType
  <2>. QED  BY <1>8, <1>p, <2>1, <2>2 DEF End
<1>9. ASSUME NEW r \in Requests, StartJob(r) PROVE TypeOK'
  <2>1. job' \in [Requests -> JobType]
    <3>1. [job[r] EXCEPT !.at = "started"] \in JobType
      BY DEF JobType
    <3>. QED  BY <1>9, <1>n, <3>1 DEF StartJob
  <2>. QED  BY <1>9, <1>p, <2>1 DEF StartJob
<1>10. ASSUME NEW r \in Requests, GetsClient(r) PROVE TypeOK'
  <2>. PICK i \in Instances, p \in Profiles, client \in 1 .. MaxClients :
         /\ GetClient(i, p, client)
         /\ job' = [job EXCEPT ![r] = [at |-> "using", client |-> client,
                                       key |-> <<i, p>>, age |-> 0]]
    BY <1>10 DEF GetsClient
  <2>1. PoolTypeOK'
    <3>1. clients' \in [Keys -> 1 .. MaxClients \cup {NoClient}] /\ made' \in 0 .. MaxClients
      BY DEF GetClient, PoolTypeOK
    <3>2. unused' \in [Instances -> 0 .. IdleLimit + 1]
      BY DEF GetClient, PoolTypeOK, Touched
    <3>. QED  BY <3>1, <3>2 DEF GetClient, PoolTypeOK
  <2>2. job' \in [Requests -> JobType]
    <3>1. [at |-> "using", client |-> client, key |-> <<i, p>>, age |-> 0] \in JobType
      BY DEF JobType, Keys
    <3>. QED  BY <3>1
  <2>. QED  BY <1>10, <2>1, <2>2 DEF GetsClient
<1>11. ASSUME NEW r \in Requests, JobEnds(r) PROVE TypeOK'
  <2>1. \A at \in {"answered", "failed", "queued"} : [NoJob EXCEPT !.at = at] \in JobType
    BY DEF NoJob, JobType
  <2>2. job' \in [Requests -> JobType]
    BY <1>11, <1>n, <2>1 DEF JobEnds
  <2>. QED  BY <1>11, <1>p, <2>2 DEF JobEnds
<1>12. ASSUME NEW r \in Requests, NEW c \in Conns, Connects(r, c) PROVE TypeOK'
  <2>1. PoolTypeOK'
    <3>1. CASE Dial(c, job[r].client)
      <4>1. job[r].client \in 1 .. MaxClients \cup {NoClient}
        BY DEF JobType
      <4>. QED  BY <3>1, <4>1 DEF Dial, PoolTypeOK
    <3>2. CASE Reuse(c, job[r].client)
      BY <3>2 DEF Reuse, PoolTypeOK
    <3>. QED  BY <1>12, <3>1, <3>2 DEF Connects
  <2>. QED  BY <1>12, <2>1 DEF Connects, server
<1>13. ASSUME NEW c \in Conns, Transport(c) PROVE TypeOK'
  <2>1. PoolTypeOK'
    BY <1>13 DEF Transport, Keep, CloseConn, PoolTypeOK
  <2>. QED  BY <1>13, <2>1 DEF Transport, server
<1>14. ASSUME Sweep PROVE TypeOK'
  <2>1. PoolTypeOK'
    BY <1>14, ForgetTypes DEF Sweep, Cleanup
  <2>. QED  BY <1>14, <2>1 DEF Sweep, server
<1>15. ASSUME Tick PROVE TypeOK'
  <2>1. PoolTypeOK'
    BY <1>15 DEF Tick, Aging, Aged, PoolTypeOK
  <2>2. job' \in [Requests -> JobType]
    <3>1. ASSUME NEW q \in Requests, job[q].at = "using" PROVE [job[q] EXCEPT !.age = @ + 1] \in JobType
      <4>1. job[q].age < Timeout
        BY <1>15, <3>1 DEF Tick
      <4>. QED  BY <4>1, Ages
    <3>2. job' = [q \in Requests |-> IF job[q].at = "using" THEN [job[q] EXCEPT !.age = @ + 1]
                                    ELSE job[q]]
      BY <1>15 DEF Tick, Aging
    <3>. HIDE DEF TypeOK
    <3>3. job \in [Requests -> JobType]
      BY DEF TypeOK
    <3>. QED  BY <3>1, <3>2, <3>3
  <2>. QED  BY <1>15, <2>1, <2>2 DEF Tick, Aging
<1>16. ASSUME Shutdown PROVE TypeOK'
  <2>1. CASE ClosesPool
    <3>1. PoolTypeOK'
      BY <2>1, ForgetTypes DEF ClosesPool, ClosePool
    <3>. QED  BY <2>1, <3>1 DEF ClosesPool, Advance
  <2>. QED  BY <1>16, <2>1, <1>p DEF Shutdown, ShutdownBegins, StopsQueue, StopsPool, Advance
<1>17. CASE UNCHANGED vars
  BY <1>17, <1>p DEF vars, server
<1>. QED
  BY <1>1, <1>2, <1>3, <1>4, <1>5, <1>6, <1>7, <1>8, <1>9, <1>10, <1>11, <1>12, <1>13,
     <1>14, <1>15, <1>16, <1>17 DEF Next

LEMMA TypeInit == Init => TypeOK
  BY DEF Init, PoolInit, TypeOK, PoolTypeOK, Quiet, NoJob, HttpType, JobType, MetricsType

\* Everything keeps its type (TypeOK).
THEOREM TypeCorrect == Spec => []TypeOK
  BY TypeInit, TypeInductive, PTL DEF Spec

-----------------------------------------------------------------------------
(* Clients in use are pooled *)

\* The pool keeps the client of an exchange, and the instance has been used no longer
\* ago than the exchange began.
InUse(r) ==
    /\ job[r].key \in Keys
    /\ clients[job[r].key] = job[r].client /\ job[r].client # NoClient
    /\ unused[job[r].key[1]] <= job[r].age

UseInv == stage # "closed" => \A r \in Requests : job[r].at = "using" => InUse(r)

LEMMA UseInductive ==
    TypeOK /\ UseInv /\ [Next]_vars => UseInv'
<1>. SUFFICES ASSUME TypeOK, UseInv, [Next]_vars, stage' # "closed",
                     NEW q \in Requests, job'[q].at = "using"
              PROVE  InUse(q)'
  BY DEF UseInv
<1>. DEFINE Same == /\ UNCHANGED <<clients, unused, stage>>
                    /\ job'[q].at = "using" => job'[q] = job[q]
<1>s. Same => InUse(q)'
  BY DEF UseInv, InUse
<1>j. job \in [Requests -> JobType] /\ unused \in [Instances -> 0 .. IdleLimit + 1]
  BY DEF TypeOK, PoolTypeOK
<1>1. ASSUME NEW r \in Requests,
             Arrive(r) \/ Handle(r) \/ Receive(r) \/ ContextDone(r) \/ CountTotal(r)
                 \/ CountFailed(r) \/ CountStatus(r) \/ End(r) \/ StartJob(r) \/ JobEnds(r)
      PROVE  InUse(q)'
  <2>1. UNCHANGED <<clients, unused, stage>>
    BY <1>1 DEF Arrive, Handle, Receive, ContextDone, CountTotal, CountFailed, CountStatus,
                End, StartJob, JobEnds, pool
  <2>2. job'[q] = job[q]
    <3>1. CASE Handle(r)
      <4>1. job' = job \/ job' = [job EXCEPT ![r] = [job[r] EXCEPT !.at = "queued"]]
        BY <3>1 DEF Handle
      <4>2. [job[r] EXCEPT !.at = "queued"].at = "queued"
        BY <1>j DEF JobType
      <4>. QED  BY <4>1, <4>2, <1>j
    <3>2. CASE Receive(r)
      BY <3>2, <1>j DEF Receive, NoJob
    <3>3. CASE StartJob(r)
      <4>1. \/ job' = [job EXCEPT ![r] = [job[r] EXCEPT !.at = "started"]]
            \/ job' = [job EXCEPT ![r] = NoJob]
        BY <3>3, <1>j DEF StartJob
      <4>2. [job[r] EXCEPT !.at = "started"].at = "started" /\ NoJob.at = "none"
        BY <1>j DEF JobType, NoJob
      <4>. QED  BY <4>1, <4>2, <1>j
    <3>4. CASE JobEnds(r)
      <4>1. PICK at \in {"answered", "failed", "queued"} :
              \/ job' = [job EXCEPT ![r] = [NoJob EXCEPT !.at = at]]
              \/ job' = [job EXCEPT ![r] = NoJob]
        BY <3>4, <1>j DEF JobEnds
      <4>2. [NoJob EXCEPT !.at = at].at = at /\ NoJob.at = "none"
        BY DEF NoJob
      <4>. QED  BY <4>1, <4>2, <1>j
    <3>. QED  BY <1>1, <3>1, <3>2, <3>3, <3>4
              DEF Arrive, ContextDone, CountTotal, CountFailed, CountStatus, End
  <2>. QED  BY <2>1, <2>2, <1>s
<1>2. ASSUME NEW r \in Requests, GetsClient(r) PROVE InUse(q)'
  <2>. PICK i \in Instances, p \in Profiles, client \in 1 .. MaxClients :
         /\ GetClient(i, p, client)
         /\ job' = [job EXCEPT ![r] = [at |-> "using", client |-> client,
                                       key |-> <<i, p>>, age |-> 0]]
    BY <1>2 DEF GetsClient
  <2>. UNCHANGED stage
    BY <1>2 DEF GetsClient
  <2>t. clients \in [Keys -> 1 .. MaxClients \cup {NoClient}] /\ made \in Nat
    BY DEF TypeOK, PoolTypeOK
  <2>1. <<i, p>> \in Keys /\ clients'[<<i, p>>] = client /\ client # NoClient
    BY <2>t DEF GetClient, Keys
  <2>2. unused' = [unused EXCEPT ![i] = 0]
    BY DEF GetClient, Touched
  <2>3. CASE q = r
    <3>1. job'[q] = [at |-> "using", client |-> client, key |-> <<i, p>>, age |-> 0]
      BY <2>3, <1>j
    <3>. QED  BY <3>1, <2>1, <2>2, <1>j DEF InUse
  <2>4. CASE q # r
    <3>1. job'[q] = job[q] /\ InUse(q)
      BY <2>4, <1>j DEF UseInv
    <3>2. clients'[job[q].key] = clients[job[q].key]
      <4>1. \/ clients' = clients
            \/ /\ clients[<<i, p>>] = NoClient
               /\ clients' = [clients EXCEPT ![<<i, p>>] = client]
        BY DEF GetClient
      <4>2. job[q].key \in Keys /\ clients[job[q].key] # NoClient
        BY <3>1, <2>1 DEF InUse
      <4>3. CASE clients[<<i, p>>] = NoClient /\ clients' = [clients EXCEPT ![<<i, p>>] = client]
        <5>. PICK k \in Keys : k = <<i, p>>
          BY <2>1
        <5>1. clients' = [clients EXCEPT ![k] = client] /\ clients[k] = NoClient
          BY <4>3
        <5>. QED  BY <4>2, <5>1, <2>t
      <4>. QED  BY <4>1, <4>3
    <3>3. job[q].key[1] \in Instances /\ job[q].age \in Nat
      BY <3>1, <1>j DEF InUse, Keys, JobType
    <3>. QED  BY <3>1, <3>2, <3>3, <2>2, <1>j DEF InUse
  <2>. QED  BY <2>3, <2>4
<1>3. ASSUME NEW r \in Requests, NEW c \in Conns, Connects(r, c) PROVE InUse(q)'
  BY <1>3, <1>s DEF Connects, Dial, Reuse, server
<1>4. ASSUME NEW c \in Conns, Transport(c) PROVE InUse(q)'
  BY <1>4, <1>s DEF Transport, Keep, CloseConn, server
<1>5. ASSUME Sweep PROVE InUse(q)'
  <2>. PICK quiet \in SUBSET Instances :
         /\ \A i \in quiet : unused[i] > IdleLimit
         /\ Forget(quiet)
    BY <1>5 DEF Sweep, Cleanup
  <2>1. UNCHANGED <<job, stage>>
    BY <1>5 DEF Sweep, server
  <2>2. InUse(q)
    BY <2>1 DEF UseInv
  <2>3. job[q].key[1] \in Instances /\ job[q].age \in 0 .. Timeout
    BY <2>2, <1>j DEF InUse, Keys, JobType
  <2>4. job[q].key[1] \notin quiet
    BY <2>2, <2>3, <1>j DEF InUse
  <2>5. clients'[job[q].key] = clients[job[q].key] /\ unused'[job[q].key[1]] = unused[job[q].key[1]]
    BY <2>2, <2>3, <2>4 DEF Forget, InUse
  <2>. QED  BY <2>1, <2>2, <2>5 DEF InUse
<1>6. ASSUME Tick PROVE InUse(q)'
  <2>1. UNCHANGED <<clients, stage>> /\ unused' = Aged
    BY <1>6 DEF Tick, Aging
  <2>2. job[q].at = "using" /\ job'[q] = [job[q] EXCEPT !.age = @ + 1]
    BY <1>6, <1>j DEF Tick, Aging
  <2>3. InUse(q)
    BY <2>1, <2>2 DEF UseInv
  <2>4. job[q].key[1] \in Instances /\ job[q].age \in 0 .. Timeout
    BY <2>3, <1>j DEF InUse, Keys, JobType
  <2>5. unused'[job[q].key[1]] <= unused[job[q].key[1]] + 1
    BY <2>1, <2>4, <1>j DEF Aged
  <2>6. job'[q].key = job[q].key /\ job'[q].client = job[q].client /\ job'[q].age = job[q].age + 1
    BY <2>2, <1>j DEF JobType
  <2>7. unused'[job[q].key[1]] <= job[q].age + 1
    <3>1. unused[job[q].key[1]] \in Nat /\ unused'[job[q].key[1]] \in Nat
      BY <2>1, <2>4, <1>j DEF Aged
    <3>. QED  BY <2>3, <2>4, <2>5, <3>1 DEF InUse
  <2>. QED  BY <2>1, <2>3, <2>6, <2>7 DEF InUse
<1>7. ASSUME Shutdown PROVE InUse(q)'
  BY <1>7, <1>j DEF Shutdown, ShutdownBegins, StopsQueue, StopsPool, ClosesPool, Advance, pool, UseInv, InUse
<1>8. CASE UNCHANGED vars
  BY <1>8, <1>s DEF vars, server, pool
<1>. QED
  BY <1>1, <1>2, <1>3, <1>4, <1>5, <1>6, <1>7, <1>8 DEF Next

\* The cleanup never drops a client under an exchange (PooledWhileUsed).
THEOREM ClientsKept == Spec => []PooledWhileUsed
<1>1. Init => UseInv
  BY DEF Init, UseInv, NoJob
<1>2. UseInv => PooledWhileUsed
  BY DEF UseInv, InUse, PooledWhileUsed
<1>. QED  BY <1>1, <1>2, TypeCorrect, UseInductive, PTL DEF Spec

-----------------------------------------------------------------------------
(* Shutdown *)

\* What a stage that did not give up waiting has left behind, ever after.
Ordered ==
    /\ PoolStopped /\ "workers" \notin late =>
           \A r \in Requests : job[r].at \notin {"started", "using"}
    /\ QueueStopped /\ "handlers" \notin late => \A r \in Requests : http[r].at = "idle"
    /\ stage = "closed" /\ "workers" \notin late => \A k \in Keys : clients[k] = NoClient

LEMMA OrderInductive ==
    TypeOK /\ Ordered /\ [Next]_vars => Ordered'
<1>. SUFFICES ASSUME TypeOK, Ordered, [Next]_vars PROVE Ordered'
  OBVIOUS
<1>. USE DEF Ordered, PoolStopped, QueueStopped
<1>j. job \in [Requests -> JobType] /\ http \in [Requests -> HttpType]
  BY DEF TypeOK
\* A request of a server whose handlers have not returned.
<1>h. ASSUME UNCHANGED <<clients, stage, late, job>>,
             NEW r \in Requests, http[r].at # "idle"
      PROVE  Ordered'
  BY <1>h
<1>1. ASSUME NEW r \in Requests, Arrive(r) PROVE Ordered'
  BY <1>1 DEF Arrive, pool
<1>2. ASSUME NEW r \in Requests, Handle(r) PROVE Ordered'
  <2>1. UNCHANGED <<clients, stage, late>> /\ http[r].at = "begun"
    BY <1>2 DEF Handle, pool
  <2>2. ASSUME NEW q \in Requests, job'[q].at \in {"started", "using"} PROVE job'[q] = job[q]
    <3>1. job' = job \/ job' = [job EXCEPT ![r] = [job[r] EXCEPT !.at = "queued"]]
      BY <1>2 DEF Handle
    <3>2. [job[r] EXCEPT !.at = "queued"].at = "queued"
      BY <1>j DEF JobType
    <3>. QED  BY <2>2, <3>1, <3>2, <1>j
  <2>. QED  BY <2>1, <2>2
<1>3. ASSUME NEW r \in Requests,
             \/ ContextDone(r) \/ CountTotal(r) \/ CountFailed(r) \/ CountStatus(r)
      PROVE  Ordered'
  BY <1>3, <1>h DEF ContextDone, CountTotal, CountFailed, CountStatus, pool
<1>4. ASSUME NEW r \in Requests, Receive(r) PROVE Ordered'
  <2>1. UNCHANGED <<clients, stage, late>> /\ http[r].at = "waiting"
    BY <1>4 DEF Receive, pool
  <2>2. ASSUME NEW q \in Requests, job'[q].at \in {"started", "using"} PROVE job'[q] = job[q]
    BY <1>4, <2>2, <1>j DEF Receive, NoJob
  <2>. QED  BY <2>1, <2>2
<1>5. ASSUME NEW r \in Requests, End(r) PROVE Ordered'
  <2>1. UNCHANGED <<clients, stage, late, job>> /\ http[r].at = "ending"
    BY <1>5 DEF End, pool
  <2>. QED  BY <2>1, <1>h
<1>6. ASSUME NEW r \in Requests, StartJob(r) PROVE Ordered'
  BY <1>6 DEF StartJob, pool
<1>7. ASSUME NEW r \in Requests, GetsClient(r) PROVE Ordered'
  BY <1>7 DEF GetsClient
<1>8. ASSUME NEW r \in Requests, JobEnds(r) PROVE Ordered'
  BY <1>8 DEF JobEnds, pool
<1>9. ASSUME NEW r \in Requests, NEW c \in Conns, Connects(r, c) PROVE Ordered'
  BY <1>9 DEF Connects, Dial, Reuse, server
<1>10. ASSUME NEW c \in Conns, Transport(c) PROVE Ordered'
  BY <1>10 DEF Transport, Keep, CloseConn, server
<1>11. ASSUME Sweep PROVE Ordered'
  BY <1>11 DEF Sweep, Cleanup, Forget, server
<1>12. ASSUME Tick PROVE Ordered'
  <2>1. \A q \in Requests : job'[q].at = job[q].at
    BY <1>12, <1>j DEF Tick, Aging, JobType
  <2>. QED  BY <1>12, <2>1 DEF Tick, Aging
<1>13. ASSUME Shutdown PROVE Ordered'
  <2>1. CASE ShutdownBegins
    BY <2>1 DEF ShutdownBegins, Advance
  <2>2. CASE StopsQueue
    BY <2>2 DEF StopsQueue, Advance, Handlers
  <2>3. CASE StopsPool
    BY <2>3 DEF StopsPool, Advance, Working
  <2>4. CASE ClosesPool
    <3>1. \A k \in Keys : clients'[k] = NoClient
      BY <2>4 DEF ClosesPool, ClosePool, Forget, Keys
    <3>. QED  BY <2>4, <3>1 DEF ClosesPool, Advance
  <2>. QED  BY <1>13, <2>1, <2>2, <2>3, <2>4 DEF Shutdown
<1>14. CASE UNCHANGED vars
  BY <1>14 DEF vars, server, pool
<1>. QED
  BY <1>1, <1>2, <1>3, <1>4, <1>5, <1>6, <1>7, <1>8, <1>9, <1>10, <1>11, <1>12, <1>13,
     <1>14 DEF Next

\* A Shutdown that waited leaves no exchange, no client and no unanswered request
\* (OrderlyShutdown).
THEOREM ShutdownLeavesNothing == Spec => []OrderlyShutdown
<1>1. Init => Ordered
  BY DEF Init, Ordered, PoolStopped, QueueStopped
<1>2. Ordered => OrderlyShutdown
  BY DEF Ordered, OrderlyShutdown, PoolStopped, QueueStopped, Working, Handlers
<1>. QED  BY <1>1, <1>2, TypeCorrect, OrderInductive, PTL DEF Spec

-----------------------------------------------------------------------------
(* Open connections *)

Open == {c \in Conns : conns[c].at \in {"busy", "idle"}}

LEMMA OpenFinite == IsFiniteSet(Open) /\ IsFiniteSet(Open)'
<1>1. Open \subseteq Conns /\ Open' \subseteq Conns
  BY DEF Open
<1>. QED  BY <1>1, FS_Subset

\* Closing the clients of some instances counts the connections it closes.
LEMMA ForgetOpen ==
    ASSUME PoolTypeOK, OpenExact, NEW is \in SUBSET Instances, Forget(is)
    PROVE  OpenExact'
<1> DEFINE gone == {clients[<<i, p>>] : i \in is, p \in Profiles} \ {NoClient}
           idle == {c \in Conns : conns[c].at = "idle" /\ conns[c].client \in gone}
<1>1. open' = open - Cardinality(idle)
  BY DEF Forget
<1>2. conns' = [c \in Conns |-> IF c \in idle THEN [conns[c] EXCEPT !.at = "closed"] ELSE conns[c]]
  BY DEF Forget
<1>3. idle \subseteq Open
  BY DEF Open
<1>. conns \in ConnType
  BY DEF PoolTypeOK, ConnType
<1>. HIDE DEF idle
<1>4. Open' = Open \ idle
  <2>1. \A c \in Conns : c \in idle => conns'[c].at = "closed"
    BY <1>2 DEF ConnType
  <2>2. \A c \in Conns : c \notin idle => conns'[c] = conns[c]
    BY <1>2
  <2>. QED  BY <2>1, <2>2 DEF Open
<1>5. Open \cap idle = idle
  BY <1>3
<1>6. Cardinality(Open \ idle) = Cardinality(Open) - Cardinality(idle)
  BY <1>5, OpenFinite, FS_Difference
<1>. QED  BY <1>1, <1>4, <1>6 DEF OpenExact, Open

LEMMA OpenInductive ==
    TypeOK /\ OpenExact /\ [Next]_vars => OpenExact'
<1>. SUFFICES ASSUME TypeOK, OpenExact, [Next]_vars PROVE OpenExact'
  OBVIOUS
<1>s. UNCHANGED <<conns, open>> => OpenExact'
  BY DEF OpenExact
<1>c. PoolTypeOK /\ conns \in ConnType /\ open \in Int
  BY DEF TypeOK, PoolTypeOK, ConnType
<1>o. open = Cardinality(Open) /\ (open' = Cardinality(Open') => OpenExact')
  BY DEF OpenExact, Open
<1>1. ASSUME NEW r \in Requests,
             \/ Arrive(r) \/ Handle(r) \/ Receive(r) \/ ContextDone(r) \/ CountTotal(r)
             \/ CountFailed(r) \/ CountStatus(r) \/ End(r) \/ StartJob(r) \/ JobEnds(r)
      PROVE  OpenExact'
  BY <1>1, <1>s DEF Arrive, Handle, Receive, ContextDone, CountTotal, CountFailed, CountStatus,
                    End, StartJob, JobEnds, pool
<1>2. ASSUME NEW r \in Requests, GetsClient(r) PROVE OpenExact'
  BY <1>2, <1>s DEF GetsClient, GetClient
<1>3. ASSUME NEW c \in Conns, NEW client, Dial(c, client) PROVE OpenExact'
  <2>1. Open' = Open \cup {c} /\ c \notin Open
    BY <1>3, <1>c DEF Dial, Open, ConnType
  <2>2. Cardinality(Open \cup {c}) = Cardinality(Open) + 1
    BY <2>1, OpenFinite, FS_AddElement
  <2>. QED  BY <1>3, <1>o, <2>1, <2>2 DEF Dial
<1>4. ASSUME NEW c \in Conns, NEW client, Reuse(c, client) \/ Keep(c) PROVE OpenExact'
  <2>1. Open' = Open
    BY <1>4, <1>c DEF Reuse, Keep, Open, ConnType
  <2>. QED  BY <1>4, <1>o, <2>1 DEF Reuse, Keep
<1>5. ASSUME NEW c \in Conns, CloseConn(c) PROVE OpenExact'
  <2>1. Open' = Open \ {c} /\ (c \in Open <=> StillOpen(c))
    BY <1>5, <1>c DEF CloseConn, StillOpen, Open, ConnType
  <2>2. Cardinality(Open \ {c}) = IF c \in Open THEN Cardinality(Open) - 1 ELSE Cardinality(Open)
    BY OpenFinite, FS_RemoveElement
  <2>. QED  BY <1>5, <1>o, <2>1, <2>2 DEF CloseConn
<1>6. ASSUME Sweep PROVE OpenExact'
  BY <1>6, <1>c, ForgetOpen DEF Sweep, Cleanup
<1>7. ASSUME Tick PROVE OpenExact'
  BY <1>7, <1>s DEF Tick, Aging
<1>8. ASSUME Shutdown PROVE OpenExact'
  <2>1. CASE ClosesPool
    BY <2>1, <1>c, ForgetOpen DEF ClosesPool, ClosePool
  <2>. QED  BY <1>8, <2>1, <1>s DEF Shutdown, ShutdownBegins, StopsQueue, StopsPool, pool
<1>9. CASE UNCHANGED vars
  BY <1>9, <1>s DEF vars, pool
<1>. QED
  BY <1>1, <1>2, <1>3, <1>4, <1>5, <1>6, <1>7, <1>8, <1>9 DEF Next, Connects, Transport

\* ActiveConnections is the number of connections that are open (OpenExact).
THEOREM ConnectionsCounted == Spec => []OpenExact
<1>1. Init => OpenExact
  <2>1. Init => Open = {} /\ open = 0
    BY DEF Init, PoolInit, Open
  <2>. QED  BY <2>1, FS_EmptySet DEF OpenExact, Open
<1>. QED  BY <1>1, TypeCorrect, OpenInductive, PTL DEF Spec

-----------------------------------------------------------------------------
(* Counters *)

Between == {r \in Requests : http[r].at \in {"fail", "code"}}
Uncounted == {r \in Requests : http[r].at = "code" /\ http[r].status >= 400}

LEMMA SetsFinite == IsFiniteSet(Handlers) /\ IsFiniteSet(Between) /\ IsFiniteSet(Uncounted)
<1>1. Handlers \subseteq Requests /\ Between \subseteq Requests /\ Uncounted \subseteq Requests
  BY DEF Handlers, Between, Uncounted
<1>. QED  BY <1>1, FS_Subset

\* CountersAgree, with a name for each of its sets.
Agree ==
    /\ metrics.active = Cardinality(Handlers)
    /\ metrics.total = metrics.good + metrics.bad + Cardinality(Between)
    /\ metrics.failed = metrics.bad + Cardinality(Uncounted)

LEMMA AgreeEquivalent == Agree <=> CountersAgree
<1>1. Between = Recorders("fail") \cup Recorders("code")
  BY DEF Between, Recorders
<1>2. Uncounted = {r \in Recorders("code") : http[r].status >= 400}
  BY DEF Uncounted, Recorders
<1>. QED  BY <1>1, <1>2 DEF Agree, CountersAgree

LEMMA Cardinalities ==
    ASSUME NEW r
    PROVE  \A S \in {Handlers, Between, Uncounted} :
             /\ Cardinality(S) \in Nat
             /\ Cardinality(S \cup {r}) = IF r \in S THEN Cardinality(S) ELSE Cardinality(S) + 1
             /\ Cardinality(S \ {r}) = IF r \in S THEN Cardinality(S) - 1 ELSE Cardinality(S)
<1>. SUFFICES ASSUME NEW S, IsFiniteSet(S)
              PROVE  /\ Cardinality(S) \in Nat
                     /\ Cardinality(S \cup {r}) = IF r \in S THEN Cardinality(S) ELSE Cardinality(S) + 1
                     /\ Cardinality(S \ {r}) = IF r \in S THEN Cardinality(S) - 1 ELSE Cardinality(S)
  BY SetsFinite
<1>1. Cardinality(S) \in Nat
  BY FS_CardinalityType
<1>2. Cardinality(S \cup {r}) = IF r \in S THEN Cardinality(S) ELSE Cardinality(S) + 1
  BY FS_AddElement
<1>3. Cardinality(S \ {r}) = IF r \in S THEN Cardinality(S) - 1 ELSE Cardinality(S)
  BY FS_RemoveElement
<1>. QED  BY <1>1, <1>2, <1>3

\* The request goes where nothing has been counted of it.
LEMMA NothingCounted ==
    ASSUME http \in [Requests -> HttpType], NEW r \in Requests,
           http[r].at \in {"begun", "waiting"}, http'[r].at \in {"waiting", "count"},
           \A q \in Requests : q # r => http'[q] = http[q]
    PROVE  Handlers' = Handlers /\ Between' = Between /\ Uncounted' = Uncounted
BY DEF Handlers, Between, Uncounted

LEMMA RecordingMoves ==
    ASSUME http \in [Requests -> HttpType], NEW r \in Requests, NEW status, NEW last,
           Recording(r, status, last)
    PROVE  http'[r].at = "count" /\ \A q \in Requests : q # r => http'[q] = http[q]
BY DEF Recording

LEMMA AgreeInductive ==
    TypeOK /\ Agree /\ [Next]_vars => Agree'
<1>. SUFFICES ASSUME TypeOK, Agree, [Next]_vars PROVE Agree'
  OBVIOUS
<1>h. http \in [Requests -> HttpType] /\ metrics \in MetricsType
  BY DEF TypeOK
<1>s. ASSUME Handlers' = Handlers, Between' = Between, Uncounted' = Uncounted, UNCHANGED metrics
      PROVE  Agree'
  BY <1>s DEF Agree
<1>u. UNCHANGED <<http, metrics>> => Agree'
  BY <1>s DEF Handlers, Between, Uncounted
<1>1. ASSUME NEW r \in Requests, Arrive(r) PROVE Agree'
  <2>1. http' = [http EXCEPT ![r].at = "begun"] /\ http[r].at = "idle"
    BY <1>1 DEF Arrive
  <2>2. http'[r].at = "begun" /\ \A q \in Requests : q # r => http'[q] = http[q]
    BY <2>1, <1>h DEF HttpType
  <2>3. Handlers' = Handlers \cup {r} /\ r \notin Handlers /\ Between' = Between /\ Uncounted' = Uncounted
    BY <2>1, <2>2 DEF Handlers, Between, Uncounted
  <2>4. /\ metrics'.active = metrics.active + 1 /\ metrics'.total = metrics.total
        /\ metrics'.failed = metrics.failed /\ metrics'.good = metrics.good /\ metrics'.bad = metrics.bad
    BY <1>1, <1>h DEF Arrive, MetricsType
  <2>5. Cardinality(Handlers') = Cardinality(Handlers) + 1
    BY <2>3, Cardinalities
  <2>. QED  BY <2>3, <2>4, <2>5 DEF Agree
<1>2. ASSUME NEW r \in Requests, Handle(r) \/ Receive(r) \/ ContextDone(r) PROVE Agree'
  <2>1. UNCHANGED metrics /\ http[r].at \in {"begun", "waiting"}
    BY <1>2 DEF Handle, Receive, ContextDone
  <2>2. http' = [http EXCEPT ![r].at = "waiting"] \/ \E status, last : Recording(r, status, last)
    <3>1. CASE Receive(r)
      BY <3>1 DEF Receive
    <3>2. CASE Handle(r) \/ ContextDone(r)
      BY <3>2 DEF Handle, ContextDone, Returned
    <3>. QED  BY <1>2, <3>1, <3>2
  <2>3. http'[r].at \in {"waiting", "count"} /\ \A q \in Requests : q # r => http'[q] = http[q]
    <3>1. CASE http' = [http EXCEPT ![r].at = "waiting"]
      BY <3>1, <1>h DEF HttpType
    <3>. QED  BY <2>2, <3>1, RecordingMoves, <1>h
  <2>. QED  BY <1>h, <2>1, <2>3, <1>s, NothingCounted
<1>3. ASSUME NEW r \in Requests, CountTotal(r) PROVE Agree'
  <2>1. http' = [http EXCEPT ![r].at = "fail"] /\ http[r].at = "count"
    BY <1>3 DEF CountTotal
  <2>2. http'[r].at = "fail" /\ \A q \in Requests : q # r => http'[q] = http[q]
    BY <2>1, <1>h DEF HttpType
  <2>3. Between' = Between \cup {r} /\ r \notin Between /\ Handlers' = Handlers /\ Uncounted' = Uncounted
    BY <2>1, <2>2 DEF Handlers, Between, Uncounted
  <2>4. /\ metrics'.active = metrics.active /\ metrics'.total = metrics.total + 1
        /\ metrics'.failed = metrics.failed /\ metrics'.good = metrics.good /\ metrics'.bad = metrics.bad
    BY <1>3, <1>h DEF CountTotal, MetricsType
  <2>5. Cardinality(Between') = Cardinality(Between) + 1 /\ Cardinality(Between) \in Nat
    BY <2>3, Cardinalities
  <2>. QED  BY <1>h, <2>3, <2>4, <2>5 DEF Agree, MetricsType
<1>4. ASSUME NEW r \in Requests, CountFailed(r) PROVE Agree'
  <2>. DEFINE failure == http[r].status >= 400
  <2>1. http' = [http EXCEPT ![r].at = "code"] /\ http[r].at = "fail"
    BY <1>4 DEF CountFailed
  <2>2. /\ http'[r].at = "code" /\ http'[r].status = http[r].status
        /\ \A q \in Requests : q # r => http'[q] = http[q]
    BY <2>1, <1>h DEF HttpType
  <2>3. /\ Between' = Between /\ Handlers' = Handlers /\ r \notin Uncounted
        /\ Uncounted' = IF failure THEN Uncounted \cup {r} ELSE Uncounted
    BY <2>1, <2>2 DEF Handlers, Between, Uncounted
  <2>4. /\ metrics'.active = metrics.active /\ metrics'.total = metrics.total
        /\ metrics'.failed = IF failure THEN metrics.failed + 1 ELSE metrics.failed
        /\ metrics'.good = metrics.good /\ metrics'.bad = metrics.bad
    BY <1>4, <1>h DEF CountFailed, MetricsType
  <2>5. /\ Cardinality(Uncounted') = IF failure THEN Cardinality(Uncounted) + 1 ELSE Cardinality(Uncounted)
        /\ Cardinality(Uncounted) \in Nat
    BY <2>3, Cardinalities
  <2>. HIDE DEF failure
  <2>. QED  BY <1>h, <2>3, <2>4, <2>5 DEF Agree, MetricsType
<1>5. ASSUME NEW r \in Requests, CountStatus(r) PROVE Agree'
  <2>. DEFINE failure == http[r].status >= 400
  <2>1. http[r].at = "code"
    BY <1>5 DEF CountStatus
  <2>2. http'[r].at \in {"ending", "count"} /\ \A q \in Requests : q # r => http'[q] = http[q]
    <3>1. http' = [http EXCEPT ![r].at = "ending"] \/ Recording(r, 200, TRUE)
      BY <1>5 DEF CountStatus, Returned
    <3>2. CASE http' = [http EXCEPT ![r].at = "ending"]
      BY <3>2, <1>h DEF HttpType
    <3>. QED  BY <3>1, <3>2, <1>h, RecordingMoves
  <2>3. /\ Between' = Between \ {r} /\ r \in Between /\ Handlers' = Handlers
        /\ Uncounted' = Uncounted \ {r} /\ (r \in Uncounted <=> failure)
    BY <2>1, <2>2 DEF Handlers, Between, Uncounted
  <2>4. /\ metrics'.active = metrics.active /\ metrics'.total = metrics.total
        /\ metrics'.failed = metrics.failed
        /\ metrics'.good = IF failure THEN metrics.good ELSE metrics.good + 1
        /\ metrics'.bad = IF failure THEN metrics.bad + 1 ELSE metrics.bad
    BY <1>5, <1>h DEF CountStatus, MetricsType
  <2>5. /\ Cardinality(Uncounted') = IF failure THEN Cardinality(Uncounted) - 1 ELSE Cardinality(Uncounted)
        /\ Cardinality(Uncounted) \in Nat
        /\ Cardinality(Between') = Cardinality(Between) - 1 /\ Cardinality(Between) \in Nat
    BY <2>3, Cardinalities
  <2>. HIDE DEF failure
  <2>. QED  BY <1>h, <2>3, <2>4, <2>5 DEF Agree, MetricsType
<1>6. ASSUME NEW r \in Requests, End(r) PROVE Agree'
  <2>1. http' = [http EXCEPT ![r] = Quiet] /\ http[r].at = "ending"
    BY <1>6 DEF End
  <2>2. http'[r].at = "idle" /\ \A q \in Requests : q # r => http'[q] = http[q]
    BY <2>1, <1>h DEF Quiet
  <2>3. Handlers' = Handlers \ {r} /\ r \in Handlers /\ Between' = Between /\ Uncounted' = Uncounted
    BY <2>1, <2>2 DEF Handlers, Between, Uncounted
  <2>4. /\ metrics'.active = metrics.active - 1 /\ metrics'.total = metrics.total
        /\ metrics'.failed = metrics.failed /\ metrics'.good = metrics.good /\ metrics'.bad = metrics.bad
    BY <1>6, <1>h DEF End, MetricsType
  <2>5. Cardinality(Handlers') = Cardinality(Handlers) - 1
    BY <2>3, Cardinalities
  <2>. QED  BY <2>3, <2>4, <2>5 DEF Agree
<1>7. ASSUME NEW r \in Requests, StartJob(r) \/ GetsClient(r) \/ JobEnds(r) PROVE Agree'
  BY <1>7, <1>u DEF StartJob, GetsClient, JobEnds
<1>8. ASSUME NEW r \in Requests, NEW c \in Conns, Connects(r, c) PROVE Agree'
  BY <1>8, <1>u DEF Connects, server
<1>9. CASE Sweep \/ Tick \/ Shutdown
  BY <1>9, <1>u DEF Sweep, Tick, Aging, Shutdown, ShutdownBegins, StopsQueue, StopsPool,
                    ClosesPool, Advance, server
<1>10. CASE UNCHANGED vars
  BY <1>10, <1>u DEF vars, server
<1>11. ASSUME NEW c \in Conns, Transport(c) PROVE Agree'
  BY <1>11, <1>u DEF Transport, server
<1>. QED
  BY <1>1, <1>2, <1>3, <1>4, <1>5, <1>6, <1>7, <1>8, <1>9, <1>10, <1>11 DEF Next

\* The counters of the requests agree with each other and with the requests
\* (CountersAgree).
THEOREM RequestsCounted == Spec => []CountersAgree
<1>1. Init => Agree
  <2>1. Init => /\ Handlers = {} /\ Between = {} /\ Uncounted = {}
                /\ metrics = [active |-> 0, total |-> 0, failed |-> 0, good |-> 0, bad |-> 0]
    BY DEF Init, Quiet, Handlers, Between, Uncounted
  <2>2. Cardinality({}) = 0
    BY FS_EmptySet
  <2>3. ASSUME Init PROVE Agree
    <3>1. metrics.active = 0 /\ metrics.total = 0 /\ metrics.failed = 0 /\ metrics.good = 0 /\ metrics.bad = 0
      BY <2>1, <2>3
    <3>2. Cardinality(Handlers) = 0 /\ Cardinality(Between) = 0 /\ Cardinality(Uncounted) = 0
      BY <2>1, <2>2, <2>3
    <3>. QED  BY <3>1, <3>2 DEF Agree
  <2>. QED  BY <2>3
<1>. QED  BY <1>1, TypeCorrect, AgreeInductive, AgreeEquivalent, PTL DEF Spec
=============================================================================
