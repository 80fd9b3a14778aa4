-------------------------- MODULE ConcurrentServer --------------------------
(***************************************************************************)
(* The HTTP side of internal/server/concurrent_server.go: the middleware   *)
(* and the handlers with the metrics they record, the upstream exchange    *)
(* of each queued request with its client from the connection pool, and    *)
(* Shutdown, which stops one component after the other.                    *)
(*                                                                         *)
(* The request queue is abstracted to what RequestQueue shows of it: an    *)
(* accepted request is worked on, perhaps several times, and answered once *)
(* unless the queue or the pool stops first.  The rate limiter's verdict   *)
(* is arbitrary.  Shutdown waits for the handlers and for the workers, but *)
(* only so long.                                                           *)
(***************************************************************************)
EXTENDS ConnectionPool

CONSTANTS
    Requests,       \* connections to this server, with one request at a time
    MaxServed,      \* bound: requests served in a behaviour
    Timeout         \* the longest that an exchange takes, in ticks

\* An exchange has its client from GetClient on: through a delay of half a second and
\* ten milliseconds for each byte of the query (handlers_adapter.go:65), and Do, which
\* times out after a minute.  Against an idle limit of ten minutes that holds of every
\* query of less than 50,000 bytes.
ASSUME ServerAssumption ==
    /\ IsFiniteSet(Requests)
    /\ MaxServed \in Nat
    /\ Timeout \in Nat /\ Timeout <= IdleLimit

VARIABLES
    http,           \* the handler of each connection's request
    job,            \* the queue item of each connection's request
    metrics,        \* the counters of HTTPMetrics
    served,         \* requests that have arrived
    stage,          \* how far Shutdown is
    late            \* what Shutdown has given up waiting for

server == <<http, job, metrics, served, stage, late>>
vars == <<pool, server>>

Quiet == [at |-> "idle", status |-> 0, last |-> FALSE]
NoJob == [at |-> "none", client |-> NoClient, key |-> <<>>, age |-> 0]

Init ==
    /\ PoolInit
    /\ http = [r \in Requests |-> Quiet]
    /\ job = [r \in Requests |-> NoJob]
    /\ metrics = [active |-> 0, total |-> 0, failed |-> 0, good |-> 0, bad |-> 0]
    /\ served = 0
    /\ stage = "running"
    /\ late = {}

\* How far Shutdown is, at least.
QueueStopped == stage \in {"queueStopped", "poolStopped", "closed"}
PoolStopped == stage \in {"poolStopped", "closed"}

-----------------------------------------------------------------------------
(* enhancedMiddleware and handleConcurrentSearch *)

Arrive(r) ==
    /\ stage = "running" /\ served < MaxServed
    /\ http[r].at = "idle" /\ job[r].at = "none"
    /\ served' = served + 1
    /\ http' = [http EXCEPT ![r].at = "begun"]
    /\ metrics' = [metrics EXCEPT !.active = @ + 1]
    /\ UNCHANGED <<pool, job, stage, late>>

\* r calls RecordHTTPRequest; last when it is the middleware that does.
Recording(r, status, last) ==
    http' = [http EXCEPT ![r] = [at |-> "count", status |-> status, last |-> last]]

\* The handler returns to the middleware, which records the request once more.
Returned(r) == Recording(r, 200, TRUE)

Handle(r) ==
    /\ http[r].at = "begun"
    /\ \/ Recording(r, 429, TRUE) /\ UNCHANGED job       \* rate limit exceeded
       \/ Returned(r) /\ UNCHANGED job                   \* no query: 400, not recorded
       \/ Recording(r, 503, FALSE) /\ UNCHANGED job      \* the queue refuses
       \/ /\ ~QueueStopped
          /\ job' = [job EXCEPT ![r].at = "queued"]
          /\ http' = [http EXCEPT ![r].at = "waiting"]
    /\ UNCHANGED <<pool, metrics, served, stage, late>>

\* The result arrives: an error, or the status of the instance's answer, which is
\* neither a rate limit nor a server error, for these count as errors.
Receive(r) ==
    /\ http[r].at = "waiting"
    /\ \/ job[r].at = "failed" /\ Recording(r, 500, FALSE)
       \/ job[r].at = "answered" /\ \E status \in {200, 404} : Recording(r, status, FALSE)
    /\ job' = [job EXCEPT ![r] = NoJob]
    /\ UNCHANGED <<pool, metrics, served, stage, late>>

\* The caller's context is done first; its item stays where it is.
ContextDone(r) ==
    /\ http[r].at = "waiting"
    /\ Recording(r, 408, FALSE)
    /\ UNCHANGED <<pool, job, metrics, served, stage, late>>

\* Mistake: a failed request returns before its status is counted.
StatusUncountedWhenFailed(r) ==
    /\ http[r].at = "fail"
    /\ metrics' = [metrics EXCEPT !.failed = IF http[r].status >= 400 THEN @ + 1 ELSE @]
    /\ IF http[r].status >= 400 THEN Returned(r)
       ELSE http' = [http EXCEPT ![r].at = "code"]
    /\ UNCHANGED <<pool, job, served, stage, late>>

\* RecordHTTPRequest: one counter after the other.
CountTotal(r) ==
    /\ http[r].at = "count"
    /\ metrics' = [metrics EXCEPT !.total = @ + 1]
    /\ http' = [http EXCEPT ![r].at = "fail"]
    /\ UNCHANGED <<pool, job, served, stage, late>>

CountFailed(r) ==
    /\ http[r].at = "fail"
    /\ metrics' = [metrics EXCEPT !.failed = IF http[r].status >= 400 THEN @ + 1 ELSE @]
    /\ http' = [http EXCEPT ![r].at = "code"]
    /\ UNCHANGED <<pool, job, served, stage, late>>

CountStatus(r) ==
    /\ http[r].at = "code"
    /\ metrics' = IF http[r].status >= 400 THEN [metrics EXCEPT !.bad = @ + 1]
                  ELSE [metrics EXCEPT !.good = @ + 1]
    /\ IF http[r].last THEN http' = [http EXCEPT ![r].at = "ending"] ELSE Returned(r)
    /\ UNCHANGED <<pool, job, served, stage, late>>

\* The deferred EndHTTPRequest.
End(r) ==
    /\ http[r].at = "ending"
    /\ metrics' = [metrics EXCEPT !.active = @ - 1]
    /\ http' = [http EXCEPT ![r] = Quiet]
    /\ UNCHANGED <<pool, job, served, stage, late>>

-----------------------------------------------------------------------------
(* The worker: executeSearchRequest *)

\* A worker takes the item, or drops it if its context is done.  A pool that has
\* stopped in time has no workers; one that has not may still take what is queued.
StartJob(r) ==
    /\ job[r].at = "queued"
    /\ PoolStopped => "workers" \in late
    /\ job' = [job EXCEPT ![r] = IF http[r].at = "waiting" THEN [@ EXCEPT !.at = "started"]
                                 ELSE NoJob]
    /\ UNCHANGED <<pool, http, metrics, served, stage, late>>

GetsClient(r) ==
    /\ job[r].at = "started"
    /\ \E i \in Instances, p \in Profiles, client \in 1 .. MaxClients :
         /\ GetClient(i, p, client)
         /\ job' = [job EXCEPT ![r] = [at |-> "using", client |-> client,
                                       key |-> <<i, p>>, age |-> 0]]
    /\ UNCHANGED <<http, metrics, served, stage, late>>

\* The transport finds the exchange a connection, or dials one.
Connects(r, c) ==
    /\ job[r].at = "using"
    /\ Dial(c, job[r].client) \/ Reuse(c, job[r].client)
    /\ UNCHANGED server

\* Do returns: with a response, or an error, after which the queue may retry the item.
\* Nobody may wait for the result any more.
JobEnds(r) ==
    /\ job[r].at = "using"
    /\ \E at \in {"answered", "failed", "queued"} :
         job' = [job EXCEPT ![r] = IF http[r].at = "waiting" THEN [NoJob EXCEPT !.at = at]
                                   ELSE NoJob]
    /\ UNCHANGED <<pool, http, metrics, served, stage, late>>

\* The transport keeps a connection that has been used, or closes one.
Transport(c) ==
    /\ Keep(c) \/ CloseConn(c)
    /\ UNCHANGED server

Sweep == Cleanup /\ UNCHANGED server

Aging ==
    /\ unused' = Aged
    /\ job' = [r \in Requests |-> IF job[r].at = "using" THEN [job[r] EXCEPT !.age = @ + 1]
                                  ELSE job[r]]
    /\ UNCHANGED <<clients, made, conns, open, http, metrics, served, stage, late>>

\* An exchange is over before its client's timeout.
Tick ==
    /\ \A r \in Requests : job[r].at = "using" => job[r].age < Timeout
    /\ Aging

-----------------------------------------------------------------------------
(* Shutdown *)

Handlers == {r \in Requests : http[r].at # "idle"}
Working == {r \in Requests : job[r].at \in {"started", "using"}}

\* Shutdown goes from one stage to the next without waiting longer for who is busy.
Advance(from, to, who, busy) ==
    /\ stage = from /\ stage' = to
    /\ late' = IF busy = {} THEN late ELSE late \cup {who}
    /\ UNCHANGED <<http, job, metrics, served>>

ShutdownBegins == Advance("running", "draining", "nobody", {}) /\ UNCHANGED pool

\* httpServer.Shutdown returns when the handlers have, or when its context is done;
\* then the queue stops, which a queue may do with items in it.
StopsQueue == Advance("draining", "queueStopped", "handlers", Handlers) /\ UNCHANGED pool

StopsPool == Advance("queueStopped", "poolStopped", "workers", Working) /\ UNCHANGED pool

\* Mistake: the connection pool is closed before the workers have stopped.
ClosesPoolEarly == Advance("queueStopped", "closed", "nobody", {}) /\ ClosePool

ClosesPool == Advance("poolStopped", "closed", "nobody", {}) /\ ClosePool

Shutdown == ShutdownBegins \/ StopsQueue \/ StopsPool \/ ClosesPool

Next ==
    \/ \E r \in Requests :
         \/ Arrive(r) \/ Handle(r) \/ Receive(r) \/ ContextDone(r)
         \/ CountTotal(r) \/ CountFailed(r) \/ CountStatus(r) \/ End(r)
         \/ StartJob(r) \/ GetsClient(r) \/ JobEnds(r)
         \/ \E c \in Conns : Connects(r, c)
    \/ \E c \in Conns : Transport(c)
    \/ Sweep \/ Tick \/ Shutdown

Spec == Init /\ [][Next]_vars

-----------------------------------------------------------------------------
(* Properties *)

HttpType == [at : {"idle", "begun", "waiting", "count", "fail", "code", "ending"},
             status : {0, 200, 404, 408, 429, 500, 503}, last : BOOLEAN]
JobType == [at : {"none", "queued", "started", "using", "answered", "failed"},
            client : 1 .. MaxClients \cup {NoClient}, key : Keys \cup {<<>>}, age : 0 .. Timeout]
MetricsType == [active : Int, total : Nat, failed : Nat, good : Nat, bad : Nat]

\* Everything has its type.
TypeOK ==
    /\ PoolTypeOK
    /\ http \in [Requests -> HttpType]
    /\ job \in [Requests -> JobType]
    /\ metrics \in MetricsType
    /\ served \in 0 .. MaxServed
    /\ stage \in {"running", "draining", "queueStopped", "poolStopped", "closed"}
    /\ late \subseteq {"handlers", "workers"}

\* The cleanup never drops a client under an exchange: while a worker uses a client,
\* it is the one the pool keeps for that instance and profile, until Close.  An
\* exchange is shorter than the idle limit, and every use of an instance, by any
\* profile, has to count for it.
PooledWhileUsed ==
    \A r \in Requests :
        job[r].at = "using" /\ stage # "closed" => clients[job[r].key] = job[r].client

Recorders(at) == {r \in Requests : http[r].at = at}

\* The counters agree with each other in every state but for the requests that are
\* between two of them, and ActiveRequests is the number of requests being handled:
\* the failed requests are those whose status code counts as one, whichever of the
\* handler and the middleware records them and in whatever order.
CountersAgree ==
    /\ metrics.active = Cardinality(Handlers)
    /\ metrics.total = metrics.good + metrics.bad
                       + Cardinality(Recorders("fail") \cup Recorders("code"))
    /\ metrics.failed = metrics.bad
                        + Cardinality({r \in Recorders("code") : http[r].status >= 400})

\* A Shutdown that waited for the workers leaves no exchange and no client behind, and
\* none comes later; one that waited for the handlers leaves no request unanswered.
OrderlyShutdown ==
    stage = "closed" =>
        /\ "workers" \notin late => /\ Working = {}
                                    /\ \A k \in Keys : clients[k] = NoClient
        /\ "handlers" \notin late => Handlers = {}
=============================================================================
