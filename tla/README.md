# A TLA+ model of UGPTSearch

UGPTSearch is a search proxy written in Go: it takes search requests over HTTP,
forwards them to public SearXNG instances and returns the results as text, JSON
or HTML. This directory models the part of it whose correctness depends on the
order in which goroutines run (who may use an upstream instance, how load is
queued, limited and retried, what a failure or a shutdown does to shared state)
and the algorithms that decide something: balancing, health scores, the
extraction of results and the verdict on bot protection. TLC checks the models on
small instances, and TLAPS proves the most important invariants for every value of
the constants. All paths below are relative to `src/src/` unless they start with
`src/`.

Two servers share the code. The *standard* server (`internal/server/server.go`)
is the default: its handlers (`internal/handlers`) run one goroutine per request
and share only the instance manager. The *concurrent* server
(`internal/server/concurrent_server.go`) puts the components of
`internal/concurrency` between the HTTP handler and the upstream request.

## 1. Inventory

| Component | State | Operations | Interacts with |
|---|---|---|---|
| Worker pool, `concurrency/pool.go` | a channel of tasks, a cancellable context, flags `started` and `stopped`, three atomic counters | Start, Submit, SubmitWithTimeout, Stop, the workers, Stats | runs the queue's processor; read by the metrics |
| Request queue, `concurrency/queue.go` | a bounded heap, the fields of each item and its result channel, dead letters, `stopped`, statistics | Submit, processLoop, the processor task, retry goroutines, RequeueDeadLetterItem, Clear, Stop | submits to the pool, calls the server's processor, answers the HTTP handler over a channel |
| Circuit breaker, `concurrency/circuit_breaker.go` | state, failures, successes, last failure time, all separate atomics | ExecuteWithContext, Reset | wraps each upstream request |
| Breaker manager, same file | a map of named breakers, statistics | GetOrCreate, Execute, Remove, Reset, Close | used by the server and again by the load balancer |
| Rate limiter, `concurrency/rate_limiter.go` | a global bucket, a bounded map of client buckets | Allow, AllowWithContext, WaitForPermission, cleanup, Close | first step of the server's middleware |
| Load balancer, `concurrency/load_balancer.go` | a health record per instance, strategy, statistics | AddInstance, RemoveInstance, GetNextInstance, RecordSuccess, RecordFailure, the health monitor | picks the instance of a queued request, reports to the breaker |
| Connection pool, `concurrency/connection_pool.go` | clients per instance and browser profile, a gauge of open connections | GetClient, dialling and closing, cleanup, Close | supplies the HTTP client of a queued request |
| Metrics, `concurrency/metrics.go` | counters, a ring of latencies, a history of snapshots | Record…, snapshots, health scores, alerts | counts requests; reads the statistics of all the others |
| Concurrent server, `server/concurrent_server.go` | the components, a stop-once flag | NewConcurrentServer, Start, Shutdown, middleware, handlers, processSearchRequest | composes all of the above |
| Instance manager, `instances/manager.go` | the list of instances, the round-robin position, a health record each | GetNextInstance, MarkRateLimit, MarkError, MarkSuccess, MarkAnubisProtected, counts | shared by the requests of the standard server |
| Search handlers, `handlers/handlers.go` | one request's attempt and instance | Search, SearchJSON | the instance manager |
| Evasion, `handlers/evasion.go` | recent request times | delays, headers, detection of bot protection | tells the handlers what a response is |
| Response processor, `response/` | none | HTML or JSON to a scored list of results | called with each response |
| main, middleware, instance list download | none of their own | wiring, logging, one HTTP request at start-up | |

What is hard about it:

* **Concurrency.** The breaker is four atomics that are read and written one by
  one. The rate limiter looks a bucket up under one lock and uses it under
  another. The pool closes a channel that others send on. An item of the queue is
  written without a lock by whichever goroutine has it. The balancer calls the
  breaker with its own lock held, and its health check overwrites counts that others
  adjust. Requests hold an instance, or a pooled client, for seconds while others
  change its record or drop it.
* **Failure.** Upstream requests fail, are rate-limited or meet a bot check; the
  pool and the queue may be full; callers disconnect; a retry may find no room.
* **Ordering.** A result may be sent more than once, a late success arrives after
  a failure, a requeue races the worker that gave the item up, Stop races Submit,
  and Shutdown stops components that use each other.
* **Time.** Reset timeouts, cooldowns, refills, idle limits, waits that are truncated
  to whole seconds, Stop with a timeout.

What makes each component correct, in one line: a pool neither loses nor repeats
a task and ends its workers; the queue gives an item one owner and its caller one
result; a breaker never stays in a state from which it cannot serve again, and every
call of a name counts on the same one; a limiter keeps its limits over any window of
time; the balancer returns every connection it hands out and its counts match its
records; a client is not dropped under the exchange that uses it; counters of
requests agree with each other; a Shutdown that waited leaves nothing behind; the
instance manager takes turns and forgets no cooldown; a search ends; every result of
a page is listed; an ordinary page does not bar its instance. Every hazard of the
code that we know of is in `PROJECT.json`, at its line, with the properties aimed at it.

## 2. Modules

Each component has a module with its state, `Init`, one action per operation or
atomic step, `Next`, `Spec`, and its properties at the end. A comment beginning
"Mistake:" marks a variant of the definition below it as a plausible bug would
have it; it is not used by any specification and shows, when put in place of
that definition, which property notices.

| Module | What it models |
|---|---|
| `CircuitBreaker` | one breaker; every atomic access of `ExecuteWithContext`, `Reset` and `setState` is an action, `pc[g]` is the access goroutine `g` makes next and `seen[g]` the value it last loaded |
| `CircuitBreakerHistory` | adds the number of trials admitted in a half-open period, the failure time at which the breaker opened, and whether decisions have been interleaved; and the mapping to `AtomicBreaker` |
| `Circuit` | operators: what each decision of a breaker does to a record of its fields |
| `AtomicBreaker` | abstract: a breaker that admits or refuses in one step and takes the result in another |
| `WorkerPool` | the Go channel with its buffer, parked senders and closing, submissions with and without a timeout, workers, `Start` in two steps and `Stop` in four |
| `RequestQueue` | EXTENDS `WorkerPool`: callers, the heap, `processLoop`, the function run by a worker, retry timers, dead letters, requeueing (in its steps, under the dead letters' lock), `Clear`, and the shutdown of queue and pool; an attempt at an item is one task of the pool |
| `RequestReply` | abstract: a request is refused or pending, and gets at most one reply, which is final |
| `RateLimiter` | the global bucket, the map, all buckets anybody refers to, and each goroutine's call, split where no lock is held |
| `RateLimiterHistory` | adds a window of time, which may open at any moment, and what was granted in it |
| `InstanceManager` | health records and the operations on them, each atomic under `im.mu` |
| `Search` | EXTENDS `InstanceManager`: the attempts of `Search` and `SearchJSON`; a request holds its instance between `GetNextInstance` and the `Mark…` call |
| `SearchHistory` | adds how often a ready instance was passed over |
| `LoadBalancer` | health records and the operations under `lb.mu`; the health check copies the records under the lock, reads each without it and stores two counts in two steps |
| `BreakerManager` | the map of breakers with the double-checked creation, `Remove`, `Close`, `Reset`, and each breaker's two decisions, those of `Circuit`, in one step each |
| `UpstreamRequest` | EXTENDS both: `processSearchRequest`, which takes an instance, executes the exchange through its breaker and reports to the balancer, which reports a failure to the breaker again while it holds `lb.mu` |
| `UpstreamHistory` | adds what has put the balancer's statistics out of step with its records |
| `ConnectionPool` | clients by instance and profile, tracked connections that net/http dials, keeps, reuses and closes as it likes, `cleanup` and `Close` |
| `ConcurrentServer` | EXTENDS `ConnectionPool`: middleware and handlers with each counter they add to, the worker's exchange, and `Shutdown` in its four stages; the queue is abstracted to what `RequestQueue` shows of it |
| `Strategies` | operators: which instance each balancing strategy returns, as a function of the list, the index or the random numbers it draws |
| `Health` | operators: the latency ring and its percentiles, the health scores in thousandths, the alerts |
| `ResponseProcessing` | operators: the walk over a page's tree, the fallback, the selection of results, truncation |
| `Ranking` | operators: what `sort.Slice` gives, as which element comes in which place; used by the two modules above |
| `BotDetection` | operators: the points, the threshold and the verdict on a response |
| `…Proofs` | theorems about the module of that name |
| `Operators` | EXTENDS the four modules of algorithms: the inputs that TLC enumerates, one of which a behaviour picks, and the properties of what the algorithms make of it |
| `MC…` | constants and symmetry; `MCConcurrentServer` joins the server and `Operators`: a behaviour is one of the server, or evaluates the algorithms on one input |

`PROJECT.json` maps every definition to the lines it stands for. Data is
abstracted to what decides control:

* the result of an upstream request is a nondeterministic choice, so every
  sequence of outcomes is covered; response bodies do not exist, except as the tree
  of containers, titles and links that `ResponseProcessing` walks;
* strings (identifiers, URLs, task IDs) are model values, or a tuple for a task;
  texts are their lengths, with the positions of the spaces;
* times are ticks. The breaker has a clock; the other modules keep times relative to
  it (an age, the remainder of a cooldown), cut off where older makes no difference;
* floating-point scores are integers in thousandths, or per cent for points;
* logging and statistics nobody decides on are left out. `ProcessedItems`, which
  the queue's `Stop` reads, is kept, and so are the counters that a property is about.

Three things need care. A goroutine parked in a select is served by whoever makes a
case ready, so cancelling the context wakes a parked `SubmitWithTimeout` before the
channel is closed; a goroutine that *reaches* the select after the close may choose
the send case, which panics. `RecordFailure` executes through the breaker under
`lb.mu`, so in `UpstreamRequest` every other user of the balancer waits while some
request is `telling`. And a breaker that left the map is still used by the calls that
looked it up: it is an object with a number, not a field of its name.

## 3. Runs

Bounds appear in the `.cfg` files. The sizes below are the smallest at which the
interesting interleavings exist: two goroutines for a race, a third party (Reset,
Stop, eviction, cleanup, an administrator) to disturb them, capacities of one so
that full and empty both occur, limits of one or two so that they are reached.

| Run | Question | Bounds |
|---|---|---|
| `breaker` | Can racing executions and a Reset leave the breaker closed at its limit, half-open and refusing all, or unable to serve once quiet? No. Do the comments on trials, closing and the timeout hold as long as calls do not overlap? Yes. Does it decide as `AtomicBreaker` does when only the decisions do not overlap? Yes. | 2 callers, 1 resetter, limit 2, 7 calls, 2 ticks. Seven calls suffice to open, half-open, count three successes and race a failure. |
| `pool` | Is any task lost or run twice, do counters stay consistent, does Stop wait for and end all workers, does an accepted task run? As stated below. | 3 tasks, 2 workers, 1 Stop, a channel of one slot. With three tasks one runs, one waits and one is parked or refused. |
| `pool_panic` | Is Stop safe against a submission under way? No, see 6. | 1 task |
| `queue` | Has an item one owner and one result, with retries, a full queue, Clear and shutdown? Yes. | 2 items, capacity 1, 1 worker, 1 retry, 1 dead letter, 1 requeue, `Clear` and the queue's `Stop`; 2 million states. Nobody leaves and the pool is not stopped here: `queue_answers` has both. With one worker the pool is full now and then, so `processLoop` retries and gives up as well. |
| `queue_answers` | And when it is requeued from the dead letters while its last worker is still busy? Yes; `RequestQueue` implements `RequestReply`, and with room for retries every accepted request is answered. | 1 item, 2 workers, 1 retry, 2 requeues, a caller who may leave, the shutdown of queue and pool; 370 000 states. `processLoop` itself retries and gives up here only once the pool is stopped. |
| `queue_loses_retry` | And if there is no room for a retry? No, see 6. | 2 items, capacity 1 |
| `rate_limiter` | Do the limits hold over every window, with creation races, eviction and cleanup? The global one does, a client's per generation of its bucket. | 2 clients, a map of one bucket, 2 goroutines, windows of up to 2 ticks of half a second |
| `rate_limiter_waits` | Does waiting for a token end? Not above one token per second, see 6. | 1 client, 2 tokens per second |
| `search` | Do health records stay consistent, does every ready instance get its turn, do searches and cooldowns end? Yes. | 2 requests at a time, 2 instances, 2 attempts (3 in the code; two already reach the retry and the final answer), cooldowns and intervals of 1 or 2 ticks |
| `upstream` | Do balancer, breakers and requests stay in step, and can the two locks deadlock? In step as far as stated below; no deadlock. | 1 instance, 2 requests, 2 failures to make it unavailable and 1 success to bring it back, 2 breakers (one dropped, one new), limit 2, 1 trial, 1 edit; 1.5 million states. Instances share nothing but the lock and the counts, and one instance that is present or absent, available or not, already gives every combination of counts. |
| `upstream_recovery` | Is an instance that was given up tried again? No, see 6. | 1 instance, 1 request, no edits |
| `server` | Does the cleanup drop a client in use, are connections and requests counted exactly, what does Shutdown leave behind? Never; exactly; nothing if it waited. And do the algorithms do what they promise on every input? As stated below. | 1 instance, 2 profiles (so two keys), 2 requests, 3 clients ever made (an evicted one and a new one for the same key), 1 connection each, an idle limit of one tick; 2.8 million states. Up to 3 instances in a list, a latency buffer of 23 slots, written up to twice over (two or three latencies are zero, and with more than 20 left the percentiles P95 and P99 are different places), trees of up to 5 nodes, 4 results, texts of 7 characters; 310 000 inputs |

Deadlock checking is off in all runs: each bound on calls, tasks or edits lets the model
stop where the program would wait for more work, and after `Stop` or `Shutdown` it
really stops. `NoDeadlock` states for the composed locks what the switch cannot.

What the properties say:

* `ClosedBelowLimit`, `HalfOpenNotWedged`, `QuiescentBreakerServes`: the breaker's
  counters and state are separate atomics, so an inconsistent pair can be
  observed, but only while some goroutine is bound to repair it. `successes` is
  counted in every state and survives reopening; that no half-open breaker ever
  refuses everybody is not evident from any one function.
* `TrialsLimited`, `ClosesFromHalfOpen`, `OpenForResetTimeout`: what comments say
  about one half-open period; true as long as no two calls overlap, which is part of
  their statement. Section 6 says what overlapping calls do.
* `ActsAtOnce`: calls may overlap as they like, but no access falls between those of
  another `allowRequest`, `recordSuccess`, `recordFailure` or `Reset` (`contended`). Then
  the breaker implements `AtomicBreaker`. A decision takes effect where it becomes
  inevitable: a failure when its time is stored, a success when it is counted, an
  admission when the state is set or read. This is what lets `UpstreamRequest` take the
  breaker's decisions for single steps; what it leaves out is what can go wrong when
  decisions meet, which `CircuitBreaker` has (see 6).
* `OneHolder`, `FailedWithinTotal`, `StopNilMeansIdle`, `WorkersExit`,
  `AcceptedRuns`: conservation of tasks, and what Stop promises. `AcceptedRuns`
  excludes a stopped pool, since workers may leave tasks behind (see 6).
  `FailedWithinTotal` is about the counters at one moment; `Stats` loads them one after
  the other (`pool.go:194`), so what it returns may disagree all the same.
* `SingleOwner`: an item's fields are written without a lock, which is safe only
  if heap, loop, timer, pool and dead letters never have it at once; while
  `RequeueDeadLetterItem` has pushed it and not yet removed it, the dead letters' lock
  keeps others from it. `AnsweredOnce` and `KeepsPromise`: one result for each time on
  the queue, and the first that a caller can see is final. `EveryRequestAnswered`: liveness.
* `GlobalWindow`, `ClientWindow`: tokens granted in a window never exceed a full
  bucket plus the refill of that window. For a client this counts once per
  bucket it had in the window, so that a race on creation may not add one.
* `CountMatchesUse`, `CoolingHasErrors`: agreement of fields that different
  operations write. `RoundRobin`: no ready instance is passed over by more than
  the others' turns. `EverySearchEnds`, `CooldownEnds`: liveness.
* `RecordsAgree`: availability, the two runs of outcomes and the cooldown of a
  record. `ConnectionsReturned`: what the least-connections strategy reads is the
  number of requests that hold the record, whatever way they took, refusals by the
  breaker included; a record that was replaced under a request gets one connection
  too many back, which the property counts. `CountsExact`: the statistics, except
  after the two things that put them out (see 6). `OneBreaker`: all calls of a name
  count on one breaker. `NoDeadlock`: the balancer calls the breaker with its lock
  held, and everybody else waits for that lock. `CanMove` names the guards of the
  code's steps, which `NoDeadlock` requires to be all that a step needs; at most one
  request has the lock, its holder can move, and somebody who is busy always can.
  `InstancesRecover`, that an instance given up and held by nobody is available again in
  the end, is what README.MD:238 promises; it is violated (see 6).
* `PooledWhileUsed`: a client under an exchange stays in the pool as long as
  exchanges are shorter than the idle limit. The limit is ten minutes, the client's timeout
  one; the handler's delay, which comes between `GetClient` and the exchange, is
  10 ms for each byte of the query, so only a query of some 54,000 bytes breaks the bound.
  `OpenExact`: the gauge of connections, which three parties decrement.
  `CountersAgree`: five counters from two layers. `OrderlyShutdown`: when every
  stage of Shutdown waited, nothing of the server is left at work; the property
  names the stages, since Shutdown goes on after one that timed out.
* `StrategiesSound` is about one choice, since the list is built anew, from a Go map and
  so in any order, for each (`load_balancer.go:196`): by weight no instance without an
  effective weight is chosen while another has one; the least-loaded ones never pass over
  an instance that is less loaded and scores no worse; and an instance without a score is
  drawn, while another has one, exactly when it comes first and the clock is at a full
  microsecond (see 6). `PercentilesOfLast`: the percentiles are those of the last latencies,
  wherever the ring has its seam. `HealthSound`: scores stay between zero and one for
  counters that agree with each other, and failing searches raise the warning although each
  of them is recorded a second time as a success. `EveryResultListed`: however containers
  are nested, each innermost one gives its result, in the page's order, and a page with no
  complete one gives those links that the fallback does not discard, for being internal
  or short. `SelectionFits`: what filtering, sorting and cutting keep are the best results,
  and a truncated text keeps to its limit. `OrdinaryNotBarred`: nothing lifts the protection
  of an instance again, and an answer of 200 that is bare, or of full size with one
  signature in it, never earns it. What a refusal earns is in section 6.

### Fairness

* Pool: weak fairness of each worker's steps, of running the workers once `Start`
  was called, and of the steps of a `Stop` under way: the Go scheduler runs every
  runnable goroutine, and task functions are assumed to return (the processor's
  HTTP client has a timeout). Nobody is obliged to submit or to stop.
* Queue: the same for timers and for a `RequeueDeadLetterItem` under way. `processLoop`
  and the workers may have to wait for the dead letters' lock while one requeue after
  the other takes it, so their fairness is strong: Go's mutex is handed to a waiter that
  has waited for a millisecond. A caller's receiving and disconnecting are not fair.
* Limiter: time passes, and a goroutine inside a call goes on. Cleanup and the end
  of a caller's context are not fair.
* Search: time passes, and a handler goes on, which includes that an upstream
  exchange ends (its client has a timeout). Requests need not arrive.

`upstream` and `server` state no liveness: their retries are the queue's.
`upstream_recovery` assumes (`FairSpec`) that workers take requests and go on with them,
and that the health monitor and the clock run; there is still nothing that would
restore an instance.

## 4. Theorems

Checked by `tlapm` for all values of the constants that satisfy the named
assumptions. The assumptions say what the constructors guarantee after
defaulting: limits and capacities are positive integers, a list of instances is a
finite sequence, intervals are bounded. Sets that are counted are finite.
Bounds on calls and time are constants like the others, so they are arbitrary too.

Several theorems are about progress. They assume of an actor that, as long as it can act,
it does in the end, with "can act" spelled out as a guard (`GoesOn`, `WorkerGoesOn`,
`LoopGoesOn`, `ClockGoesOn`) where WF has ENABLED, of which the prover knows nothing. Where
a number with a fixed bound falls with each step of the actor, the theorem is the whole
leads-to; where the bound depends on the constants or the state, it says that the number
falls before long, and the induction on it is left to the reader (section 5).

**`CircuitBreakerProofs`** (`BreakerAssumption`). `TypeCorrect` is inductive alone.
`ClosedStaysBelowLimit` is inductive together with the types, because its conclusion
names the repairing goroutine and the threshold that goroutine has seen: whoever lifts
`failures` to the limit is itself on its way to opening the breaker, and whoever
closes it zeroes the count next. `HalfOpenNeverWedges` follows the same pattern with
a request in flight. `QuiescentServes` is the consequence an operator sees: with
nobody inside, no repairer can exist, so both inconsistent pairs are impossible.
`CallsReturn`: a call is at most eleven accesses from its end (`AccessesLeft`), the others
do not change where it is, and each of its own accesses brings it closer.

The theorems about `CircuitBreakerHistory` are in the same module, and about calls that do
not overlap. `HistoryInv` says what the goroutine in the breaker then knows: the state it
last saw (`StateKnown`), the failure time it compared (`TimesKnown`), and that every trial
of the half-open period is a counted success, under way, or bound to end the period
(`TrialsKnown`), which is what bounds them by the limit on successes (`ThreeTrials`).

`ImplementsAtomic` states `ActsAtOnce`. Its invariant `DecisionInv` says that at most one
goroutine is midway in a decision, and what that one knows (`Knows`): what it has loaded
is still what the field holds, what it found the state to be the state still is, and the
count it is about to zero or to close on is as it was. Everybody else knows nothing and
needs nothing (`SettledKnows`), so requests may be under way in any number. Where nobody
but g is midway, the mapped breaker depends on the place of g alone (`DecidedAlone`), and
each access is compared with one step: `SilentSteps` are stutters, `AdmitSteps`,
`RefuseSteps`, `FailStep`, `SucceedStep` and `ResetStep` are the steps at which a decision
is taken, `OtherImplements` and `TickImplements` the rest.

**`RateLimiterProofs`** (`LimiterAssumption`, `WindowAssumption`).
`GlobalLimitHolds` states `GlobalWindow`, which is not inductive: it does
not know what the bucket still holds. The invariant `CreditInv` adds it: once
something was granted, `granted` plus the tokens left, in ticks of refill, plus
the refill that the bucket's age is still worth, is at most a full bucket plus
the refill of the window. `Truncation` and `RefillBound` show that rounding down
only loses credit; `GlobalConsumeKeepsCredit` covers the one step that takes a
token, `ElsewhereKeepsCredit` all steps of a call that is somewhere else,
`TickKeepsCredit` the clock with its cut-off at `MaxAge`, and `CreditStep` puts
them together. `LimiterTypeCorrect` rests on `LimiterInv`, which says that exactly the
buckets referred to exist, by the map or by a call about to consume; so there is an
identifier left whenever one is made. `ClientLimitHolds` states `ClientWindow`, for any number
of buckets that a client has at once. Its invariant `ClientInv` is about a sum over these
buckets, which is avoided by counting: `Room` is the set of pairs of a bucket and a fraction
of a token that it holds or its age is worth. What was allowed, in fractions, plus the
size of `Room` is at most what the buckets the client was entitled to may give; consuming
takes a token's fractions out of `Room`, a tick adds at most the refill rate for each bucket,
a new bucket brings a full one to both sides, and one that nobody refers to any more only
takes its room away.

**`WorkerPoolProofs`** (`PoolAssumption`). `WhereHolds` proves the invariant `Where`
in terms of sets, `OneHolder` being about cardinalities: the elements of the channel
and the tasks that workers hold are disjoint, together they are the accepted tasks
that have not finished, and neither the channel nor the workers have one twice.
`Appended` and `Removed` say what a send and a receive do to such a channel;
`ReceiveKeeps` is the hard step, in which one task leaves the channel, another that
was parked enters it and is thereby accepted. `TasksHaveOneHolder` reads `OneHolder` off
it. `StopsHold` adds that a Stop under way has set `stopped`, so workers that start
afterwards are known to be late, and that `activeJobs` is the number of workers inside
a task; `StopLeavesNobody` follows. `CountersHold` bounds `totalJobs` from below by the
submissions still counted, which is what makes `FailuresWithinTotal` survive a rollback.
`TypeCorrect` needs all of these: that a counter is a natural number is not evident
where it is decremented.

`WorkersExit` and `AcceptedRuns` are proved up to one induction each. `StopLeads` says that
a pool which is stopped and not cancelled has a call of Stop about to cancel it, and that a
worker has no other reason to leave; `StopCancels` that this call does. `WorkLeft` counts
four steps for each unfinished task and the worker's place among them: a worker that
prefers a task to the end of the pool has one task fewer ahead of it (`WorkersRunDown`,
`WorkerGetsOut`). On the other side, `FirstInFirstOut` says that a waiting task only moves
up (`ServedInOrder`); a worker's next look at the channel is four of its steps away at most
(`TurnOf`) and takes the first task, unless another worker has (`TaskMovesUp`); what a worker
has received it runs in two steps (`HeldTaskRuns`).

**`RequestQueueProofs`** (`QueueAssumption`, `PoolAssumption`) extends the pool's proofs:
`PoolSteps` shows that every step of the queue is a step of its pool or none, so the
pool's `Where` holds here too and says which worker has which attempt. `QueueTypeCorrect`
needs that processLoop has an item where it uses one (`Consistent`). `TakenHolds`: whatever
is anywhere in the queue was taken by `Submit`, and nothing was sent to anybody else; from
this `QueueKeepsPromise` maps each step to one of `RequestReply` or to a stutter, `PromiseKept`
being the step and `SentReplies` its heart: a result meets an empty channel of a waiting
caller, or it changes no status. `ExclusiveHolds` restates `SingleOwner`, a sum of
cardinalities, as five disjoint sets (heap, timers, the item in processLoop's hand, items
of tasks being processed, dead letters), of which a step moves one item between two
(`MovesApart`, `LetsGo`; for a requeue, which holds its lock across two of them,
`ExclusiveRequeuing`); `OwnersCount` leads back to the sum. `ItemsAnsweredOnce` counts the results sent
for an item together with those that a worker or processLoop is about to send: they
are at most one for each time it was queued, and one fewer while anybody owns it. Counting the
results on their way is what lets a requeue overtake the worker that gave the item up.

`NothingLost` is violated by the code (section 6). `Kept` says of one request that it has
its item with somebody or its result on the way; `OnlyOverflowAndClearLose` that no step but
a timer's which meets a full heap, and Clear, breaks that for it, and `NothingLostWithRoom`
that with a capacity for all items and without Clear the property holds: the heap cannot be
full while an item sleeps, because the items are as many as its places and `Exclusive` has
each in one. `AttemptsAreFresh` follows an item through retries and requeues: the attempts
it has not come to (`Later`) are unknown to the pool, and so is the one it would make now,
while it is in the heap, asleep or before the check of its context (`Coming`). The
progress of `EveryRequestAnswered` inside processLoop and inside a worker is `LoopLetsGo`,
with the seven places of `LoopLeft`, for which it needs `Fresh` (the submission starts at its
beginning) and `Exclusive` (nobody retries or requeues the item in hand), and `ProcessingEnds`.
Both may wait for the dead letters' lock, so they assume strong fairness, spelled out as
`LoopGoesOn` and `WorkerServes`, and that a requeue goes on (`RequeuerGoesOn`):
a requeue has two more steps at most, and others do not change where it is
(`RequeueAdvances`), so that the lock is given back again and again (`LockGivenBack`).

**`UpstreamProofs`** (`BalancerAssumption`, `ManagerAssumption`, `RequestAssumption`).
Three lemmas say what any step does: to one request (`RequestMoves`), to one health record
(`InstancesStep`), to the map of breakers (`ManagerStep`); the invariants are proved from
those and not from the actions. `UpstreamInv` is their conjunction: the records agree, a
request has a breaker exactly between lookup and return, and (`MapOK`) the breakers made
are numbered without a gap, those not dropped being the ones in the map, one for each
name. `OneBreakerEach` counts along that bijection. `GivenUpStaysDown` is why
`InstancesRecover` fails: by the records' cases only a success makes a record available,
only a request that holds the instance can report one, and so (`NoReturn`) one that is
given up and not held stays so until its record is replaced. `EveryConnectionReturned` adds `ConnInv`, where an instance that is
absent has no users, so that a new record starts with none; `CountsRecovered` adds
`CountInv`, which says how far the monitor's count is while nobody disturbed it.
`LockPassedOn` states `SomebodyMoves`, the part of `NoDeadlock` that is about guards. Its
invariant `LockInv` adds that one request at most tells a breaker of its failure (`OneHolder`)
and that the bound on breakers leaves one for every name that has none (`RoomLeft`), so
that no call is stuck because of a bound that the code does not have.
`BreakersServeAgain` carries what `CircuitBreakerProofs` has for one breaker over to the
manager's, where a failure may be reported twice and Reset, Remove and Close come in between:
a half-open breaker that refuses has a call on trial, one that is closed is below its limit
(`Serves`). `RequestEnds`: `StepsLeft` gives each place of a request the steps to its end,
nine from the lookup of the breaker, and no other actor changes the place (`Nearer`). Its
fairness is the strongest assumed anywhere, that a worker waiting for the balancer's mutex
gets it; Go's mutex is handed to a waiter that has waited for a millisecond.

**`SearchProofs`** (`ManagerAssumption`, `ListAssumption`, `IntervalAssumption`,
`SearchAssumption`). The cooldowns that a number of errors may give are computed as the code does,
from any base cooldowns and with any caps; `CapAssumption`, that they stop growing where
the model stops counting errors, justifies the bound of the run and is used by no proof. `IInv` says that a health record has a cooldown only with errors
and is unavailable only if protected, and that a search holds an instance exactly
between picking and marking it. `TypeCorrect`, `CountsWhatIsUsed` and
`CooldownsStandForErrors` follow from it. `TakesTurns` needs more: `Turns` says that
the number of times a ready instance was passed over plus its distance ahead of
`current` is less than the length of the list; every hand-out moves `current` towards
it or starts its count again.
`EveryStepCounts`, `NeverStuck` and `RequestGoesOn` are the argument of `EverySearchEnds`:
`Remaining` counts the operations a request can still make, each uses one up, and the
choice of an instance ends with one or with none, the candidates being tried once around the
list. `CooldownsRunOut` and `CooldownGoesOn` are that of `CooldownEnds`: the requests that
hold a cooling instance become fewer, and as long as they do not its cooldown only shrinks.

**`ConcurrentServerProofs`** (`ServerAssumption`, `PoolAssumption`). `TypeCorrect`.
`ClientsKept` from `UseInv`: whatever a running exchange uses is in the map with an age
no greater than the exchange's. `ShutdownLeavesNothing` from `Ordered`: a stage of
Shutdown that waited has left its component empty, and nobody refills it.
`ConnectionsCounted`: the sync.Once of a tracked connection makes the gauge exact,
whoever closes it. `RequestsCounted` from `Agree`, the counters as sums over what each
request has yet to add.

**`OperatorsProofs`** (`BoundsAssumption`). The six properties of the algorithms that the run
`server` checks, of which each theorem says two things: that it holds in the behaviours of
`Operators` (`InputSpec`), whatever their bounds, and that it holds for all `Inputs`, which are of any length and size
where the run takes a few values. The library's induction theorems need an operator
for a parameter, so `NumberInduction` and `SetInduction` state induction for sets, from the
fact that a set of numbers has a least member (`WFMin`). A fold, which is the CHOICE of a
function with a given equation, can be reasoned about only if there is such a function:
`FoldExists` builds it, part by part, and `FoldUnique` says there is no other.

* Strategies: `UptoHolds` unfolds the running total of the weights or scores; the first
  total above a rest belongs to an instance that adds something (`FirstAbove`), hence
  `WeightlessHolds`, and `ScorelessHolds` for a draw that is not at zero. `FloorsDiffer` says
  that dividing with rounding keeps a lesser load on a better score less
  (`ScaledUndominated`).
* Percentiles: `Slots` says when two recordings share a slot of the ring; `RecordedHolds`
  that the ring holds the last ones, wherever its seam is; `LatestCounts` that the valid
  slots are as many as the latencies to be counted. `ArrangedHolds` says that sorting gives
  the i-th place to an element with i - 1 before it, `PercentileCovers` and
  `PercentilesRise` follow.
* Results: a page's nodes are in document order (`InOrderHolds`), the innermost containers
  are found among the complete ones (`ListsInnermost`), and what is kept of the scores is
  compared with the whole place by place (`KeepsBest`).
* Health, truncation and the verdict are arithmetic, split where the prover needs it;
  `OrdinaryPoints` says that the points of an ordinary page stay below the threshold.

## 5. Checked by TLC only

The liveness properties, in the form in which the runs state them. ENABLED and with it WF
are unknown to the prover, and an induction whose statement is a temporal formula needs an
induction theorem that it cannot instantiate. So this is left to TLC:

| Property | Proved | Left to TLC |
|---|---|---|
| `WorkersExit` | `StopLeadsHolds`, `StopCancels`, `WorkerGetsOut` | induction on `WorkLeft`; all workers together |
| `AcceptedRuns` | `ServedInOrder`, `TaskMovesUp`, `HeldTaskRuns` | induction on the place in the channel |
| `EveryRequestAnswered` | `LoopLetsGo`, `ProcessingEnds`, `AttemptsAreFresh`, `NothingLostWithRoom` | the way of an item through the heap, its timers and the pool |
| `EverySearchEnds` | `EveryStepCounts`, `NeverStuck`, `RequestGoesOn` | induction on `Remaining` |
| `CooldownEnds` | `CooldownsRunOut`, `CooldownGoesOn` | induction on the cooldown and its users |

And for all of them, that WF of an action gives the fairness with a guard which the
theorems assume: wherever the guard holds, the action has a step. The same is left of
`NoDeadlock`: that a request for which the guards of `CanMove` hold has a step, and only such
a one; the rest of it is `LockPassedOn`. `NeverPanics`, `NothingLost`, `WaiterServed` and
`InstancesRecover` are violated (section 6). Every other
property of the passing runs is the statement of a theorem.

## 6. Where the code disagrees with what it says

Shown by runs that expect a violation, and listed under `findings`:

1. `pool_panic`: `Submit` may send on the channel that `Stop` closes, and panic
   (`pool.go:98`).
2. `queue_loses_retry`: a retried item that meets a full queue vanishes, and its
   caller is never answered (`queue.go:354`; line 312 has the same push).
3. `rate_limiter_waits`: above one token per second the wait is truncated to
   zero, polling refills nothing, and the waiter starves (`rate_limiter.go:145`).
4. `upstream_recovery`: an instance that became unavailable is never handed out again
   (`load_balancer.go:197`), so nothing restores it once no request under way holds it,
   although README.MD:238 promises "Smart Recovery: Gradual instance restoration based on
   success metrics". `RecordSuccess` has a branch for it (`load_balancer.go:398`), which
   `load_balancer_test.go:357-362` reaches by setting `Available` itself.

Met while modelling and not given a run of their own.

Breaker, pool, queue, limiter:

* "Up to 3 test requests" bounds completed successes, not requests: calls admitted
  together may be more (`circuit_breaker.go:153`).
* A request that passed the timeout check with an old `lastFailTime` can make a
  breaker half-open that another request has just reopened
  (`circuit_breaker.go:165`), and a request that saw half-open can close a breaker
  that has been reopened in between (line 181).
* After `Stop` the pool's workers choose between the queued tasks and the done
  context, so `Stop` may return nil with accepted tasks not run;
  `pool_test.go:439` expects them to have run.
* `SubmitWithTimeout` ignores `MaxQueueSize`.
* The queue's `Stop` waits for a drain, but `processLoop` stops popping; and it
  does not wait for an item that is being processed or sleeps before a retry.
* A call that the client's bucket refuses has taken its token from the global one.

Balancer and upstream request:

* The backoff is called exponential, but the failures that it is computed from are
  always at the threshold when an instance becomes unavailable, so its length is
  fixed; and since the cooldown ends before the instance is available again, it never
  decides anything. Both follow from `RecordsAgree`.
* `RecordFailure` counts a failure in the breaker that `processSearchRequest` has
  counted already, and counts rejected and cancelled requests too.
* `AddInstance` of a known URL counts it twice and forgets its connections.
* The health check overwrites the counts with what it read without the lock, so
  healthy instances may exceed the total, and the score computed from them one.
* Every choice is made over a list built from a Go map, whose order changes from call to
  call (`load_balancer.go:196`), so round robin does not go round and the weighted one gives
  nobody the share its weight is worth. A weight of one times a score below one is zero.
* A random choice is "weighted by score", but when the clock is at a full microsecond the
  target is zero and the first instance is drawn, even with a score of zero
  (`load_balancer.go:361-366`).
* The score's success rate is the run of successes since the last failure over all
  requests ever, so one failure makes it zero and it recovers slowly
  (`load_balancer.go:453`).

Server, connections, metrics:

* `NewConcurrentServer` passes a nil processor, which `NewRequestQueue` refuses
  (`concurrent_server.go:184`, `queue.go:177`): the concurrent server cannot be
  constructed. Its components are modelled as they behave with a processor.
* `RateLimitPerClient / 60` is an integer division (`concurrent_server.go:133`).
* A search is recorded twice, by handler and middleware, a failed one as a 200 by the
  first, so the share of errors is halved; handlers record a latency of zero, which
  takes a slot of the ring. A missing query is answered with 400 and recorded as 200.
* Idle connections, computed as made less open, may be negative.
* `GetClient` after `Close` makes clients that nobody closes, if a worker is late.
* The queue is never registered with the metrics. The throughput score drops at ten
  requests per second, and the rate it is taken from never falls.

Responses:

* `evasion_test.go:369-430` expects the verdict of protection from answers that have fewer
  points than the threshold of 40 per cent: a 503 with a Cloudflare header and no signature
  (395-402), a captcha with status 200 (404-410), a 429 with a short body (413-420),
  a challenge by JavaScript (386-393) and short refusals with 403 (377-384, 422-429).
  And a page with nearly everything on it (470-500) has 72 points and not the 80 expected.
  The code, and so `BotDetection`, does not bar these; they go on as errors, rate limits or
  pages without results.
* `processor_test.go:659` expects a bare `<article>` to be a container of results, 7
  in all (682); the code compares names and classes, and finds 6.
* `isInternalLink` looks for substrings, so the fallback also discards a link that leads
  elsewhere and has "about", "stats" or "#" in its address (`processor.go:646-658`).
* Points for signatures are documented as at most 30 and reach more
  (`evasion.go:258`); those for 429 and 503 are never used.
* "No results found" contains "results found", and so counts as a sign of results.
* Nested containers yield the first result of the outer one twice, and selectors
  such as `a[class*='title']` never match, since names and not selectors are compared.
* Truncation cuts bytes, not characters.
* The compact preset's minimal score of 1 drops every result of the fallback, which
  have 0.5.
* `MarkError` of a late request may shorten the cooldown of a rate limit, and
  `MarkSuccess` of one may end it.

## 7. Not modelled, and what is left

Left out for good: parsing of HTML and JSON into the tree, text cleaning, string
matching, random delays and headers, cookies, TLS and transport settings, logging, flags
and formatting. They are sequential functions on data, or I/O. So are `server.go`,
`main.go`, the middleware that logs, and the download of the instance list. Operations
no part of the program uses (`SetBucketParams`, `SetStrategy`, replacing the list of
instances while the server runs) are left out too.

Left, in this order: the construction and `Start` of the
concurrent server with each failure in between, once the code can construct it; the
history of snapshots in `metrics.go` with its collection loop; `ClientWindow` for
`SetBucketParams`, if anything ever calls it.
