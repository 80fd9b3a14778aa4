---------------------------- MODULE RequestQueue ----------------------------
(***************************************************************************)
(* The request queue of internal/concurrency/queue.go on top of its worker *)
(* pool (module WorkerPool): callers push items on a bounded priority      *)
(* queue, processLoop pops them and submits them to the pool, workers run  *)
(* the processor, failed items are retried after a delay or end in the     *)
(* dead-letter queue, and a result is sent on the item's channel.          *)
(*                                                                         *)
(* One attempt at an item is one task of the pool, named by the item, how  *)
(* often it was requeued from the dead letters and its RetryCount; every   *)
(* submission of the pool is one of processLoop.  Start and Stop of the    *)
(* two are ordered as in ConcurrentServer.Start and Shutdown.  Each item   *)
(* is submitted by one caller.  The processor succeeds or fails at will,   *)
(* and returns.  Statistics other than ProcessedItems, which Stop reads,   *)
(* are left out.                                                           *)
(***************************************************************************)
EXTENDS WorkerPool

CONSTANTS
    Items,          \* items, each submitted by a caller of its own
    Impatient,      \* bound: items whose caller's context may end
    Priority,       \* item.Priority of each item
    MaxRetries,     \* item.MaxRetries, after Submit's defaulting
    Capacity,       \* capacity of the priority queue
    DeadLetterCap,  \* capacity of the dead-letter queue
    MaxRequeues,    \* bound: how often one item is requeued from the dead letters
    MayClear,       \* whether anybody calls Clear
    NoItem          \* what processLoop holds between two items

ASSUME QueueAssumption ==
    /\ IsFiniteSet(Items) /\ Impatient \subseteq Items
    /\ Priority \in [Items -> Int]
    /\ MaxRetries \in Nat \ {0}
    /\ Capacity \in Nat \ {0}
    /\ DeadLetterCap \in Nat \ {0}
    /\ MaxRequeues \in Nat
    /\ MayClear \in BOOLEAN
    /\ NoItem \notin Items
    /\ Tasks = Items \X (0 .. MaxRequeues) \X (0 .. MaxRetries)

VARIABLES
    item,           \* the fields of each item that change, its channel and its caller
    heap,           \* rq.queue.items, as a set
    loop,           \* progress of processLoop
    inHand,         \* the item processLoop has popped
    fn,             \* progress of each worker in createProcessorTask's function
    timers,         \* items whose retry goroutine sleeps
    deadLetters,    \* rq.deadLetterQ.items
    requeue,        \* progress of RequeueDeadLetterItem, which holds deadLetterQ.mu ...
    letter,         \* ... and the position of the item it has found, or 0
    processed,      \* stats.ProcessedItems
    queueStop       \* progress of the queue's Stop

requeueVars == <<requeue, letter>>
queueVars == <<item, heap, loop, inHand, fn, timers, deadLetters, requeueVars, processed, queueStop>>
allVars == <<vars, queueVars>>

\* submittedAt and retries are QueueItem fields, expired says that its Context
\* is done, chan is what ResultChan buffers; requeues, queued and sent count for
\* the properties how often somebody began to requeue the item, how often Submit
\* put it on the queue, and how often a result was sent for it.
NewItem == [submittedAt |-> 0, retries |-> 0, expired |-> FALSE, chan |-> "empty",
            caller |-> "new", requeues |-> 0, queued |-> 0, sent |-> 0]

QueueInit ==
    /\ Init
    /\ item = [i \in Items |-> NewItem]
    /\ heap = {} /\ timers = {} /\ deadLetters = <<>>
    /\ requeue = "no" /\ letter = 0
    /\ loop = "unborn" /\ inHand = NoItem
    /\ fn = [w \in Workers |-> "idle"]
    /\ processed = 0
    /\ queueStop = "no"

QueueStopped == queueStop # "no"

-----------------------------------------------------------------------------
(* The priority queue *)

\* Less: which of two items comes out first.
Before(i, j) ==
    \/ Priority[i] > Priority[j]
    \/ Priority[i] = Priority[j] /\ item[i].submittedAt < item[j].submittedAt

HeapFull == Cardinality(heap) >= Capacity

\* Push2 refuses the item when the queue is at capacity.
Pushed(i) == IF HeapFull THEN heap ELSE heap \cup {i}

\* time.Now() at a submission, as a number above every earlier one.
Now == 1 + CHOOSE n \in {item[j].submittedAt : j \in Items} :
                \A j \in Items : item[j].submittedAt <= n

-----------------------------------------------------------------------------
(* Submit and the callers *)

Call(i, here, there) ==
    /\ item[i].caller = here
    /\ item' = [item EXCEPT ![i].caller = there]
    /\ UNCHANGED <<heap, loop, inHand, fn, timers, deadLetters, requeueVars, processed, queueStop>>

CallerChecks(i) == Call(i, "new", IF QueueStopped THEN "refused" ELSE "push")

CallerPushes(i) ==
    /\ item[i].caller = "push"
    /\ heap' = Pushed(i)
    /\ item' = [item EXCEPT ![i].caller = IF HeapFull THEN "refused" ELSE "waiting",
                            ![i].submittedAt = Now,
                            ![i].queued = IF HeapFull THEN @ ELSE @ + 1]
    /\ UNCHANGED <<loop, inHand, fn, timers, deadLetters, requeueVars, processed, queueStop>>

CallerReceives(i) ==
    /\ item[i].caller = "waiting" /\ item[i].chan # "empty"
    /\ item' = [item EXCEPT ![i].caller = item[i].chan, ![i].chan = "empty"]
    /\ UNCHANGED <<heap, loop, inHand, fn, timers, deadLetters, requeueVars, processed, queueStop>>

\* The caller's context ends: it disconnected, timed out or was served.
ContextExpires(i) ==
    /\ i \in Impatient
    /\ item[i].caller \in {"waiting", "ok", "error"} /\ ~item[i].expired
    /\ item' = [item EXCEPT ![i].expired = TRUE]
    /\ UNCHANGED <<heap, loop, inHand, fn, timers, deadLetters, requeueVars, processed, queueStop>>

CallerStep(i) ==
    CallerChecks(i) \/ CallerPushes(i) \/ CallerReceives(i) \/ ContextExpires(i)

-----------------------------------------------------------------------------
(* What processLoop and the workers do with an item *)

\* Mistake: a newer result replaces the one that waits in the channel.
SentReplaces(i, result) == [item EXCEPT ![i].sent = @ + 1, ![i].chan = result]

\* sendResult drops the result when the channel already buffers one.
Sent(i, result) ==
    [item EXCEPT ![i].sent = @ + 1, ![i].chan = IF @ = "empty" THEN result ELSE @]

CanRetry(i) == item[i].retries < MaxRetries

\* One more retry: the item is pushed again when its timer goes off.
Retries(i) ==
    /\ CanRetry(i)
    /\ item' = [item EXCEPT ![i].retries = @ + 1]
    /\ timers' = timers \cup {i}

\* moveToDeadLetter waits for deadLetterQ.mu, and drops the oldest item when the
\* queue is full.
Buries(i) ==
    /\ requeue = "no"
    /\ deadLetters' =
          Append(IF Len(deadLetters) >= DeadLetterCap THEN Tail(deadLetters) ELSE deadLetters, i)

\* Mistake: the retry is a ticker, which pushes the item again and again.
TimerFiresRepeatedly(i) ==
    /\ i \in timers
    /\ heap' = Pushed(i)
    /\ UNCHANGED <<item, timers, loop, inHand, fn, deadLetters, requeueVars, processed, queueStop>>

\* The retry goroutine wakes and ignores the error of Push2.
TimerFires(i) ==
    /\ i \in timers
    /\ timers' = timers \ {i}
    /\ heap' = Pushed(i)
    /\ UNCHANGED <<item, loop, inHand, fn, deadLetters, requeueVars, processed, queueStop>>

-----------------------------------------------------------------------------
(* processLoop *)

LoopGoto(here, there) ==
    /\ loop = here
    /\ loop' = there
    /\ UNCHANGED <<fn, requeueVars, processed, queueStop>>

\* ConcurrentServer.Start starts the pool first.
LoopStarts ==
    /\ starting \in {"running", "late"}
    /\ LoopGoto("unborn", "check")
    /\ UNCHANGED <<item, heap, inHand, timers, deadLetters>>

LoopChecks ==
    /\ LoopGoto("check", IF QueueStopped THEN "exited" ELSE "pop")
    /\ UNCHANGED <<item, heap, inHand, timers, deadLetters>>

LoopPops ==
    \/ /\ heap = {}
       /\ LoopGoto("pop", "check")
       /\ UNCHANGED <<item, heap, inHand, timers, deadLetters>>
    \/ \E i \in heap :
         /\ \A j \in heap \ {i} : ~Before(j, i)
         /\ LoopGoto("pop", "context")
         /\ heap' = heap \ {i} /\ inHand' = i
         /\ UNCHANGED <<item, timers, deadLetters>>

LoopChecksContext ==
    /\ \/ /\ LoopGoto("context", "check")
          /\ item[inHand].expired
          /\ item' = Sent(inHand, "error") /\ inHand' = NoItem
       \/ /\ LoopGoto("context", "submit")
          /\ ~item[inHand].expired
          /\ UNCHANGED <<item, inHand>>
    /\ UNCHANGED <<heap, timers, deadLetters>>

\* The pool task of the present attempt at item i.
Attempt(i) == <<i, item[i].requeues, item[i].retries>>

LoopRetries ==
    /\ LoopGoto("submit", "check")
    /\ submit[Attempt(inHand)] = "refused"
    /\ Retries(inHand)
    /\ inHand' = NoItem
    /\ UNCHANGED <<heap, deadLetters>>

LoopBuries ==
    /\ LoopGoto("submit", "giveUp")
    /\ submit[Attempt(inHand)] = "refused" /\ ~CanRetry(inHand)
    /\ Buries(inHand)
    /\ UNCHANGED <<item, heap, inHand, timers>>

LoopGivesUp ==
    /\ LoopGoto("giveUp", "check")
    /\ item' = Sent(inHand, "error") /\ inHand' = NoItem
    /\ UNCHANGED <<heap, timers, deadLetters>>

LoopStep ==
    \/ LoopStarts \/ LoopChecks \/ LoopPops \/ LoopChecksContext
    \/ LoopRetries \/ LoopBuries \/ LoopGivesUp

-----------------------------------------------------------------------------
(* createProcessorTask's function, run by worker w while it is "running" *)

FnGoto(w, here, there) ==
    /\ fn[w] = here
    /\ fn' = [fn EXCEPT ![w] = there]
    /\ UNCHANGED <<heap, loop, inHand, requeueVars, queueStop>>

Working(w) == holds[w][1]

ProcessorSucceeds(w) ==
    /\ FnGoto(w, "process", "sendOk")
    /\ processed' = processed + 1
    /\ UNCHANGED <<item, timers, deadLetters>>

\* Mistake: scheduling a retry falls through to sending the error.
ProcessorRetriesAndAnswers(w) ==
    /\ FnGoto(w, "process", "sendError")
    /\ Retries(Working(w))
    /\ UNCHANGED <<processed, deadLetters>>

ProcessorRetries(w) ==
    /\ FnGoto(w, "process", "returnError")
    /\ Retries(Working(w))
    /\ UNCHANGED <<processed, deadLetters>>

\* Mistake: an item that goes to the dead letters gets no result.
ProcessorBuriesSilently(w) ==
    /\ FnGoto(w, "process", "returnError")
    /\ ~CanRetry(Working(w))
    /\ Buries(Working(w))
    /\ UNCHANGED <<processed, item, timers>>

ProcessorBuries(w) ==
    /\ FnGoto(w, "process", "sendError")
    /\ ~CanRetry(Working(w))
    /\ Buries(Working(w))
    /\ UNCHANGED <<processed, item, timers>>

WorkerAnswers(w) ==
    /\ \/ FnGoto(w, "sendOk", "returnOk") /\ item' = Sent(Working(w), "ok")
       \/ FnGoto(w, "sendError", "returnError") /\ item' = Sent(Working(w), "error")
    /\ UNCHANGED <<processed, timers, deadLetters>>

FnStep(w) ==
    ProcessorSucceeds(w) \/ ProcessorRetries(w) \/ ProcessorBuries(w) \/ WorkerAnswers(w)

-----------------------------------------------------------------------------
(* RequeueDeadLetterItem, which holds the dead letters' lock throughout, and Clear *)

\* The item is found and its RetryCount reset, which stays so when the Submit that
\* follows refuses: first because the queue is stopped ...
RequeueBegins(k) ==
    /\ requeue = "no"
    /\ item[deadLetters[k]].requeues < MaxRequeues
    /\ item' = [item EXCEPT ![deadLetters[k]].retries = 0,
                            ![deadLetters[k]].requeues = @ + 1]
    /\ IF QueueStopped THEN UNCHANGED requeueVars ELSE requeue' = "push" /\ letter' = k
    /\ UNCHANGED <<heap, loop, inHand, fn, timers, deadLetters, processed, queueStop>>

\* ... then because Push2 finds it full.  (SubmittedAt, which only Less reads, is left
\* alone while the item is not on the queue.)
RequeueFails ==
    /\ requeue = "push" /\ HeapFull
    /\ requeue' = "no" /\ letter' = 0
    /\ UNCHANGED <<item, heap, loop, inHand, fn, timers, deadLetters, processed, queueStop>>

\* The item is on the queue again, and still among the dead letters.
RequeuePushes ==
    /\ requeue = "push" /\ ~HeapFull
    /\ heap' = heap \cup {deadLetters[letter]}
    /\ item' = [item EXCEPT ![deadLetters[letter]].submittedAt = Now,
                            ![deadLetters[letter]].queued = @ + 1]
    /\ requeue' = "remove"
    /\ UNCHANGED <<letter, loop, inHand, fn, timers, deadLetters, processed, queueStop>>

\* Mistake: the requeued item stays among the dead letters.
RequeueKeeps ==
    /\ requeue = "remove"
    /\ requeue' = "no" /\ letter' = 0
    /\ UNCHANGED <<item, heap, loop, inHand, fn, timers, deadLetters, processed, queueStop>>

RequeueRemoves ==
    /\ requeue = "remove"
    /\ deadLetters' = SubSeq(deadLetters, 1, letter - 1) \o
                      SubSeq(deadLetters, letter + 1, Len(deadLetters))
    /\ requeue' = "no" /\ letter' = 0
    /\ UNCHANGED <<item, heap, loop, inHand, fn, timers, processed, queueStop>>

RequeueProceeds == RequeueFails \/ RequeuePushes \/ RequeueRemoves

Clear ==
    /\ MayClear /\ heap # {}
    /\ heap' = {}
    /\ UNCHANGED <<item, loop, inHand, fn, timers, deadLetters, requeueVars, processed, queueStop>>

-----------------------------------------------------------------------------
(* Stop of the queue *)

QueueStopGoto(here, there) ==
    /\ queueStop = here
    /\ queueStop' = there
    /\ UNCHANGED <<item, heap, loop, inHand, fn, timers, deadLetters, requeueVars, processed>>

QueueStopClaims == QueueStopGoto("no", "draining")

QueueStopReturns == heap = {} /\ processed > 0 /\ QueueStopGoto("draining", "nil")

QueueStopTimesOut == QueueStopGoto("draining", "timedOut")

QueueStopStep == QueueStopClaims \/ QueueStopReturns \/ QueueStopTimesOut

-----------------------------------------------------------------------------
(* The queue and its pool *)

QueueStep ==
    /\ \/ \E i \in Items : CallerStep(i) \/ TimerFires(i)
       \/ LoopStep
       \/ \E w \in Workers : FnStep(w)
       \/ \E k \in DOMAIN deadLetters : RequeueBegins(k)
       \/ RequeueProceeds
       \/ Clear \/ QueueStopStep
    /\ UNCHANGED vars

\* processLoop inside workers.Submit with the attempt in hand.  Once the pool
\* has accepted the task a worker owns the item and the loop lets go of it.
LoopSubmits ==
    /\ loop = "submit"
    /\ LET t == Attempt(inHand)
       IN  /\ SubmitStep(t) /\ submit'[t] # "countTimed"
           /\ IF submit'[t] = "accepted"
              THEN loop' = "check" /\ inHand' = NoItem
              ELSE UNCHANGED <<loop, inHand>>
    /\ UNCHANGED <<item, heap, fn, timers, deadLetters, requeueVars, processed, queueStop>>

\* The worker's steps in which the task's function neither starts nor returns.
WorkerAlone(w) ==
    /\ Receive(w) \/ CountFailure(w) \/ WorkerExit(w)
    /\ UNCHANGED queueVars

WorkerBegins(w) ==
    /\ BeginFn(w)
    /\ FnGoto(w, "idle", "process")
    /\ UNCHANGED <<item, timers, deadLetters, processed>>

WorkerReturns(w) ==
    /\ \/ FnGoto(w, "returnOk", "idle") /\ FnReturns(w, FALSE)
       \/ FnGoto(w, "returnError", "idle") /\ FnReturns(w, TRUE)
    /\ UNCHANGED <<item, timers, deadLetters, processed>>

\* ConcurrentServer.Shutdown stops the pool once the queue's Stop is over.
PoolStops(s) ==
    /\ queueStop \in {"nil", "timedOut"}
    /\ StopStep(s)
    /\ UNCHANGED queueVars

QueueNext ==
    /\ ~crashed
    /\ \/ QueueStep \/ LoopSubmits
       \/ (StartClaim \/ StartWorkers) /\ UNCHANGED queueVars
       \/ \E w \in Workers : WorkerAlone(w) \/ WorkerBegins(w) \/ WorkerReturns(w)
       \/ \E s \in Stoppers : PoolStops(s)

QueueSpec == QueueInit /\ [][QueueNext]_allVars

\* Every goroutine goes on once begun; nobody is obliged to call Submit,
\* RequeueDeadLetterItem or Stop, and contexts need not end.  processLoop and the
\* workers may have to wait for deadLetterQ.mu, again and again: a Go mutex lets
\* everybody have it in the end.
QueueFairness ==
    /\ WF_allVars(~crashed /\ StartWorkers /\ UNCHANGED queueVars)
    /\ SF_allVars(~crashed /\ (LoopSubmits \/ (LoopStep /\ UNCHANGED vars)))
    /\ \A i \in Items : WF_allVars(~crashed /\ TimerFires(i) /\ UNCHANGED vars)
    /\ WF_allVars(~crashed /\ RequeueProceeds /\ UNCHANGED vars)
    /\ \A w \in Workers : SF_allVars(~crashed /\ \/ WorkerAlone(w) \/ WorkerBegins(w)
                                                 \/ WorkerReturns(w)
                                                 \/ FnStep(w) /\ UNCHANGED vars)

FairQueueSpec == QueueSpec /\ QueueFairness

-----------------------------------------------------------------------------
(* Properties *)

\* The types and bounds of the queue's fields: the priority queue and the dead
\* letters stay within their capacities and no item is retried too often.
QueueTypeOK ==
    /\ item \in [Items -> [submittedAt : Nat, retries : 0 .. MaxRetries, expired : BOOLEAN,
                           chan : {"empty", "ok", "error"},
                           caller : {"new", "push", "refused", "waiting", "ok", "error"},
                           requeues : 0 .. MaxRequeues, queued : Nat, sent : Nat]]
    /\ heap \subseteq Items /\ Cardinality(heap) <= Capacity
    /\ timers \subseteq Items
    /\ deadLetters \in Seq(Items) /\ Len(deadLetters) <= DeadLetterCap
    /\ requeue \in {"no", "push", "remove"}
    /\ IF requeue = "no" THEN letter = 0 ELSE letter \in DOMAIN deadLetters
    /\ loop \in {"unborn", "check", "pop", "context", "submit", "giveUp", "exited"}
    /\ inHand \in Items \cup {NoItem}
    /\ fn \in [Workers -> {"idle", "process", "sendOk", "sendError", "returnOk", "returnError"}]
    /\ processed \in Nat
    /\ queueStop \in {"no", "draining", "nil", "timedOut"}

\* Attempts at i that the pool has accepted and whose processing is not over.
InPool(i) ==
    {t \in Tasks : /\ t[1] = i /\ submit[t] = "accepted" /\ t \notin finished
                   /\ \A w \in Workers : holds[w] = t => fn[w] \in {"idle", "process"}}

InLoop(i) == inHand = i /\ loop \in {"context", "submit"}

\* Whoever requeues an item is done with it once it is on the queue again: the
\* position is only removed.
Graves(i) == {k \in DOMAIN deadLetters : deadLetters[k] = i /\ ~(requeue = "remove" /\ letter = k)}

One(holdsIt) == IF holdsIt THEN 1 ELSE 0

Owners(i) ==
    One(i \in heap) + One(InLoop(i)) + One(i \in timers) + Cardinality(InPool(i))

\* RetryCount, SubmittedAt and ProcessedAt of an item are written without any
\* lock, so at any time only one of the priority queue, processLoop, a retry
\* goroutine, the pool and the dead letters may have it, and only once.
SingleOwner == \A i \in Items : Owners(i) + Cardinality(Graves(i)) <= 1

\* An item has one result sent for each time it was put on the queue, and once
\* that was sent nobody works on it any more.
AnsweredOnce ==
    \A i \in Items : /\ item[i].sent <= item[i].queued
                     /\ item[i].sent = item[i].queued => Owners(i) = 0

\* The queue as its callers see it: a request's status is what it has received
\* or, failing that, what waits in its channel.
StatusOf(i) ==
    CASE item[i].caller \in {"new", "push"}                        -> "new"
      [] item[i].caller = "waiting" /\ item[i].chan = "empty"      -> "pending"
      [] item[i].caller = "waiting" /\ item[i].chan # "empty"      -> item[i].chan
      [] OTHER                                                     -> item[i].caller

Callers == INSTANCE RequestReply WITH status <- [i \in Items |-> StatusOf(i)]

\* The queue and its pool keep the promise of RequestReply.
KeepsPromise == Callers!Spec

\* A request that the queue has taken is answered, unless the queue or its pool
\* is stopped.  Every failed attempt uses up a retry, so it cannot go on for ever.
EveryRequestAnswered ==
    \A i \in Items :
        StatusOf(i) = "pending" /\ loop # "unborn"
            ~> StatusOf(i) # "pending" \/ QueueStopped \/ stopped

\* "If worker pool is full, retry after delay ... Add delay and requeue"
\* (processLoop): a request on its way to a result never drops out of the queue.
Answering(i) ==
    \/ inHand = i /\ loop = "giveUp"
    \/ \E w \in Workers : fn[w] \in {"sendOk", "sendError"} /\ Working(w) = i

NothingLost ==
    \A i \in Items :
        item[i].caller = "waiting" /\ item[i].sent = 0 => Owners(i) = 1 \/ Answering(i)
=============================================================================
