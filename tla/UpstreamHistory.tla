-------------------------- MODULE UpstreamHistory ---------------------------
(***************************************************************************)
(* UpstreamRequest with a memory of what has put the balancer's statistics *)
(* out of step with its records: instances that were added again, requests *)
(* that outlived the record they took, changes during a health check.      *)
(***************************************************************************)
EXTENDS UpstreamRequest

VARIABLES
    outlived,       \* requests whose record was removed or replaced under them
    strays,         \* how many of those returned their connection to each URL
    overlapped,     \* the healthy instances changed during the health check
    miscounted      \* HealthyInstances and UnhealthyInstances may be off

historyVars == <<outlived, strays, overlapped, miscounted>>

\* Every edit of a URL that is present takes its record away.
Replaced(u) == edits'[u] # edits[u] /\ u \in Present
AddedAgain == \E u \in URLs : Replaced(u) /\ instances'[u].present
Healthy == {u \in Present : instances[u].available}
Regrouped == Healthy' # Healthy \/ Present' # Present \/ AddedAgain

\* r returns its connection to the record of u.
Reports(r, u) ==
    /\ request[r].url = u /\ u \in Present
    /\ \/ At(r, "succeeded") /\ ~At(r, "succeeded")'
       \/ At(r, "failed") /\ ~At(r, "failed")'

Remember ==
    /\ outlived' = {r \in Requests :
          /\ ~At(r, "idle")'
          /\ r \in outlived \/ \E u \in URLs : request[r].url = u /\ Replaced(u)}
    /\ strays' = [u \in URLs |->
          IF u \notin Present \/ Replaced(u) THEN 0
          ELSE strays[u] + Cardinality({r \in outlived : Reports(r, u)})]
    /\ overlapped' = (monitor.at # "asleep" /\ (overlapped \/ Regrouped))
    /\ miscounted' =
          \/ AddedAgain
          \/ IF monitor'.at = "asleep" /\ monitor.at = "stored" THEN overlapped
             ELSE miscounted \/ (overlapped /\ monitor'.at = "stored")

HistoryInit ==
    /\ Init
    /\ outlived = {}
    /\ strays = [u \in URLs |-> 0]
    /\ overlapped = FALSE
    /\ miscounted = FALSE

HistorySpec == HistoryInit /\ [][Next /\ Remember]_<<vars, historyVars>>

-----------------------------------------------------------------------------
(* Properties *)

\* The connection that r took and has not returned yet.
Uses(r, u) == request[r].url = u /\ r \notin outlived /\ ~request[r].telling

\* ActiveConnections, by which leastConnections chooses, is the number of requests
\* that took the record and have not reported, less one for each report of a
\* request that took the URL's previous record: every path from GetNextInstance,
\* through a refusal by the breaker too, returns what it took exactly once.
ConnectionsReturned ==
    \A u \in Present :
        instances[u].active = Cardinality({r \in Requests : Uses(r, u)}) - strays[u]

\* HealthyInstances and UnhealthyInstances are kept by four operations and
\* overwritten by the health check: they are exact unless an instance was added
\* twice or changed during a check, and a check without such a change makes them
\* exact again.
CountsExact ==
    ~miscounted /\ monitor.at # "stored" =>
        /\ counts.healthy = Cardinality(Healthy)
        /\ counts.unhealthy = Cardinality(Present \ Healthy)
=============================================================================
