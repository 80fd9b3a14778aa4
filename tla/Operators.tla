----------------------------- MODULE Operators -----------------------------
(***************************************************************************)
(* The pure algorithms, each over all of its small inputs: a behaviour     *)
(* picks one input, and the invariants are about it.  The server applies   *)
(* them between its steps, to data that no step's order depends on.        *)
(***************************************************************************)
EXTENDS Strategies, Health, ResponseProcessing, BotDetection

CONSTANTS
    MaxInstances,   \* bound: instances in a list
    BufferSize,     \* bound: slots of the latency buffer, 1000 in the program
    MaxNodes,       \* bound: nodes of a page
    MaxResults,     \* bound: results before they are cut
    MaxLength       \* bound: length of a text

ASSUME BoundsAssumption ==
    /\ MaxInstances \in Nat /\ MaxNodes \in Nat /\ MaxResults \in Nat /\ MaxLength \in Nat
    /\ BufferSize \in Nat \ {0}

VARIABLE input

InputInit == input = [of |-> "nothing"]

Given(inputs) == input.of = "nothing" /\ input' \in inputs

Lists == UNION {[1 .. n -> [weight : 1 .. 2, score : {0, 2, 4}, active : 0 .. 2, time : {0, 3}]]
                    : n \in 1 .. MaxInstances}

Balances == Given([of : {"list"}, list : Lists, now : {0, 1, 501}])

\* Latencies that come and go with different periods, some of them zero.
Measures == Given({[of |-> "latencies", latencies |-> [k \in 1 .. n |-> (k * step) % 11]]
                      : n \in 1 .. 2 * BufferSize, step \in 1 .. 10})

WorkerPools == [running : BOOLEAN, queued : 0 .. 3, maxQueue : {3}, jobs : {2}, failedJobs : 0 .. 2,
                active : {0, 5, 6}, workers : {6}]
LoadBalancers == {b \in [instances : 0 .. 2, healthy : 0 .. 2, average : {0, 1000}] :
                    b.healthy <= b.instances}

Reports == Given([of : {"health"}, workers : WorkerPools, balancer : LoadBalancers,
                  searches : {10}, failed : 0 .. 10, rps : {9, 99, 101}, p95 : {0, 1000, 5001}])

\* The parents of nodes 1 .. n in document order: once a node follows outside of a
\* subtree, the subtree gets no more nodes.
Trees(n) ==
    {p \in [1 .. n -> 0 .. n - 1] :
        /\ \A k \in 1 .. n : p[k] < k /\ (p[k] = 0 <=> k = 1)
        /\ \A j, k \in 2 .. n : j < k /\ p[k] < j => p[j] >= p[k]}

Pages == UNION {[parent : Trees(n), kind : [1 .. n -> {"container", "title", "link", "lesser"}]]
                    : n \in 1 .. MaxNodes}

Extracts == Given([of : {"page"}, page : Pages])

Selects == Given([of : {"scores"}, scores : UNION {[1 .. n -> 0 .. 3] : n \in 0 .. MaxResults},
                  least : 0 .. 2, most : 1 .. MaxResults])

Truncates == Given([of : {"text"}, length : 0 .. MaxLength, spaces : SUBSET (1 .. MaxLength),
                    max : 1 .. MaxLength, indicator : 0 .. 3])

Detects == Given([of : {"response"},
                  response : [signatures : 0 .. 10, scripts : 0 .. 7,
                              status : {200, 403, 429, 503}, headers : 0 .. 5, short : BOOLEAN,
                              minimal : BOOLEAN, captcha : BOOLEAN, maintenance : {FALSE},
                              indicators : {1, 2}, against : {1}]])

InputNext == Balances \/ Measures \/ Reports \/ Extracts \/ Selects \/ Truncates \/ Detects

InputSpec == InputInit /\ [][InputNext]_input

-----------------------------------------------------------------------------
(* Properties *)

\* A choice is made over a list that GetNextInstance has just built from a Go map, in
\* an order of its own (load_balancer.go:196), so nothing is promised from one choice
\* to the next; but whatever the order, the index and the clock: by weight no instance
\* of no effective weight is chosen while another has some; the least-loaded ones
\* return no instance that another one with the same score or a better one undercuts;
\* and a random choice falls on an instance without a score, while another has some,
\* exactly when the clock is at a full microsecond and that instance comes first.
StrategiesSound ==
    input.of = "list" =>
        /\ WeightlessUnchosen(input.list)
        /\ Undominated(input.list, LeastConnections(input.list),
                       [k \in Positions(input.list) |-> input.list[k].active])
        /\ Undominated(input.list, LeastResponseTime(input.list),
                       [k \in Positions(input.list) |-> ResponseTime(input.list[k])])
        /\ ScorelessDrawn(input.list, input.now)

\* The percentiles are over the last latencies that fit the buffer and are not zero:
\* each is one of them, at least its share of them is no larger, and P95 is at most P99.
PercentilesOfLast ==
    input.of = "latencies" =>
        LET all == input.latencies
            last == {k \in DOMAIN all : k > Len(all) - BufferSize /\ all[k] > 0}
            slots == Recorded(all, BufferSize)
            Covers(percent) == LET v == Percentile(slots, percent, 0) IN
                /\ \E k \in last : all[k] = v
                /\ 100 * Cardinality({k \in last : all[k] <= v}) >= percent * Cardinality(last)
        IN  last # {} => /\ Covers(95) /\ Covers(99)
                         /\ Percentile(slots, 95, 0) <= Percentile(slots, 99, 0)

HTTP(i) == Searched(i.searches, i.failed, i.rps, i.p95)

ScoresInUnit ==
    input.of = "health" =>
        \A score \in {WorkerPoolHealth(input.workers), LoadBalancerHealth(input.balancer),
                      HTTPHealth(HTTP(input)), ThroughputScore(input.rps),
                      SystemHealth(input.workers, input.balancer, HTTP(input))} :
            score \in 0 .. 1000

ErrorsAlert ==
    input.of = "health" =>
        LET alerts == Alerts(input.workers, input.balancer, HTTP(input))
        IN  /\ 5 * input.failed > input.searches => "errors" \in alerts
            /\ input.failed = 0 => "errors" \notin alerts

\* Every health score is between 0 and 1, as their comments say, when the counters
\* agree with each other; and although every failed search is counted a second time,
\* as a success, the error warning is active when more than a fifth of the searches
\* fail, and silent when none do.
HealthSound == ScoresInUnit /\ ErrorsAlert

\* However containers are nested, every innermost one with a link is listed with its
\* own title and link, in document order, and a page without one still gives the links
\* that lead elsewhere and are long enough.
EveryResultListed ==
    input.of = "page" =>
        /\ ListsInnermost(input.page)
        /\ (\E k \in Nodes(input.page) : input.page.kind[k] = "link") => Extracted(input.page) # <<>>

KeepsTheBest == input.of = "scores" => KeepsBest(input.scores, input.least, input.most)

TruncationFits ==
    input.of = "text" => Fits(input.length, input.spaces, input.max, input.indicator)

\* What is kept of the results are the best of those that are good enough, and a
\* truncated text fits and keeps as much as it promises.
SelectionFits == KeepsTheBest /\ TruncationFits

\* Nothing lifts the protection of an instance again, so an ordinary page must not bar
\* it: an answer of 200 without a captcha is never taken for one, neither a bare one
\* without signatures and scripts, whatever its headers, nor one of full size that
\* happens to contain one signature, whatever its scripts and headers.
OrdinaryNotBarred ==
    input.of = "response" =>
        LET r == input.response
        IN  /\ r.status = 200 /\ ~r.captcha
            /\ \/ r.signatures = 0 /\ r.scripts = 0
               \/ r.signatures <= 1 /\ ~r.short /\ ~r.minimal
            => Outcome(r) # "protected"
=============================================================================
