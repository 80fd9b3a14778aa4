----------------------------- MODULE WorkerPool -----------------------------
(***************************************************************************)
(* The worker pool of internal/concurrency/pool.go: goroutines that submit *)
(* tasks, workers that execute them, and the goroutines that call Start    *)
(* and Stop.  Every task is submitted at most once, so a task also stands  *)
(* for the goroutine that submits it.                                      *)
(*                                                                         *)
(* taskChan is a Go channel.  A goroutine that waits in a select is parked *)
(* and is served by whoever makes one of its cases ready: a receive hands  *)
(* it the freed slot, cancelling wp.ctx wakes it with the shutting-down    *)
(* error.  One that reaches the select later picks any case that is ready, *)
(* and panics, taking the process with it, if it picks to send on the      *)
(* closed channel.  Task.Fn is assumed to return; its callback runs in a   *)
(* goroutine of its own and touches nothing of the pool.                   *)
(***************************************************************************)
EXTENDS Integers, Sequences, FiniteSets

CONSTANTS
    Tasks,          \* tasks, each submitted by a goroutine of its own
    Workers,        \* the goroutines started by Start
    Stoppers,       \* goroutines that call Stop
    QueueSize,      \* capacity of taskChan, after NewWorkerPool's defaulting
    MaxQueueLen,    \* wp.maxQueueLen, after NewWorkerPool's defaulting
    NoTask          \* what an idle worker holds

ASSUME PoolAssumption ==
    /\ IsFiniteSet(Tasks)
    /\ IsFiniteSet(Workers)
    /\ QueueSize \in Nat \ {0}
    /\ MaxQueueLen \in Nat \ {0}
    /\ NoTask \notin Tasks

VARIABLES
    starting,       \* progress of Start
    stopped,        \* wp.stopped
    cancelled,      \* wp.ctx is done
    closed,         \* taskChan is closed
    taskChan,       \* the tasks buffered in the channel
    totalJobs, activeJobs, failedJobs,
    submit,         \* progress of each task's submission
    worker,         \* progress of each worker
    holds,          \* the task each worker has received
    finished,       \* tasks whose Fn has returned
    stopper,        \* progress of each call of Stop
    crashed         \* a goroutine has panicked

flags == <<starting, stopped, cancelled, closed>>
counters == <<totalJobs, activeJobs, failedJobs>>
workers == <<worker, holds, finished>>
vars == <<flags, taskChan, counters, submit, workers, stopper, crashed>>

Init ==
    /\ starting = "no"
    /\ stopped = FALSE /\ cancelled = FALSE /\ closed = FALSE
    /\ taskChan = <<>>
    /\ totalJobs = 0 /\ activeJobs = 0 /\ failedJobs = 0
    /\ submit = [t \in Tasks |-> "unsubmitted"]
    /\ worker = [w \in Workers |-> "unborn"]
    /\ holds = [w \in Workers |-> NoTask]
    /\ finished = {}
    /\ stopper = [s \in Stoppers |-> "uncalled"]
    /\ crashed = FALSE

-----------------------------------------------------------------------------
(* Start: claim the started flag, then add the workers and run them. *)

StartClaim ==
    /\ starting = "no"
    /\ starting' = "claimed"
    /\ UNCHANGED <<stopped, cancelled, closed, taskChan, counters, submit, workers,
                   stopper, crashed>>

\* "late" records that Stop had been called before the workers ran.
StartWorkers ==
    /\ starting = "claimed"
    /\ starting' = IF stopped THEN "late" ELSE "running"
    /\ worker' = [w \in Workers |-> "select"]
    /\ UNCHANGED <<stopped, cancelled, closed, taskChan, counters, submit, holds, finished,
                   stopper, crashed>>

-----------------------------------------------------------------------------
(* Submit and SubmitWithTimeout *)

SubmitGoto(t, here, there) ==
    /\ submit[t] = here
    /\ submit' = [submit EXCEPT ![t] = there]
    /\ UNCHANGED <<flags, workers, stopper, crashed>>

\* The load of wp.stopped that both begin with.
SubmitLoadStopped(t) ==
    /\ \E entry \in {"measure", "countTimed"} :
           SubmitGoto(t, "unsubmitted", IF stopped THEN "refused" ELSE entry)
    /\ UNCHANGED <<taskChan, counters>>

SubmitMeasure(t) ==
    /\ SubmitGoto(t, "measure", IF Len(taskChan) >= MaxQueueLen THEN "refused" ELSE "count")
    /\ UNCHANGED <<taskChan, counters>>

SubmitCount(t) ==
    /\ \/ SubmitGoto(t, "count", "send")
       \/ SubmitGoto(t, "countTimed", "sendTimed")
    /\ totalJobs' = totalJobs + 1
    /\ UNCHANGED <<taskChan, activeJobs, failedJobs>>

HasRoom == Len(taskChan) < QueueSize

\* Mistake: the rollback is deferred and so runs after a successful send too.
SubmitSendRollsBack(t) ==
    /\ ~closed
    /\ HasRoom
    /\ SubmitGoto(t, "send", "accepted") \/ SubmitGoto(t, "sendTimed", "withdraw")
    /\ taskChan' = Append(taskChan, t)
    /\ UNCHANGED counters

\* The send case of either select.
SubmitSend(t) ==
    /\ ~closed
    /\ HasRoom
    /\ SubmitGoto(t, "send", "accepted") \/ SubmitGoto(t, "sendTimed", "accepted")
    /\ taskChan' = Append(taskChan, t)
    /\ UNCHANGED counters

SubmitPanics(t) ==
    /\ closed
    /\ submit[t] \in {"send", "sendTimed"}
    /\ crashed' = TRUE
    /\ UNCHANGED <<flags, taskChan, counters, submit, workers, stopper>>

\* Submit leaves by ctx.Done or, when the channel is full, by default; the
\* task stays counted.
SubmitRefused(t) ==
    /\ cancelled \/ ~HasRoom
    /\ SubmitGoto(t, "send", "refused")
    /\ UNCHANGED <<taskChan, counters>>

SubmitParks(t) ==
    /\ ~HasRoom /\ ~cancelled
    /\ SubmitGoto(t, "sendTimed", "parked")
    /\ UNCHANGED <<taskChan, counters>>

\* SubmitWithTimeout leaves by its own timeout or by ctx.Done.
SubmitWithdraws(t) ==
    /\ \/ SubmitGoto(t, "parked", "withdraw")
       \/ SubmitGoto(t, "sendTimed", "withdraw")
    /\ UNCHANGED <<taskChan, counters>>

SubmitRollback(t) ==
    /\ SubmitGoto(t, "withdraw", "refused")
    /\ totalJobs' = totalJobs - 1
    /\ UNCHANGED <<taskChan, activeJobs, failedJobs>>

SubmitStep(t) ==
    \/ SubmitLoadStopped(t) \/ SubmitMeasure(t) \/ SubmitCount(t) \/ SubmitSend(t)
    \/ SubmitPanics(t) \/ SubmitRefused(t) \/ SubmitParks(t) \/ SubmitWithdraws(t)
    \/ SubmitRollback(t)

-----------------------------------------------------------------------------
(* worker *)

\* The received task leaves the channel; a parked sender, if there is one,
\* takes the slot in the same step.
Receive(w) ==
    /\ worker[w] = "select"
    /\ taskChan # <<>>
    /\ worker' = [worker EXCEPT ![w] = "received"]
    /\ holds' = [holds EXCEPT ![w] = Head(taskChan)]
    /\ LET parked == {t \in Tasks : submit[t] = "parked"}
       IN  \/ /\ parked = {}
              /\ taskChan' = Tail(taskChan)
              /\ UNCHANGED submit
           \/ \E t \in parked :
                 /\ taskChan' = Append(Tail(taskChan), t)
                 /\ submit' = [submit EXCEPT ![t] = "accepted"]
    /\ UNCHANGED <<flags, counters, finished, stopper, crashed>>

WorkerGoto(w, here, there) ==
    /\ worker[w] = here
    /\ worker' = [worker EXCEPT ![w] = there]
    /\ UNCHANGED <<flags, taskChan, submit, stopper, crashed>>

BeginFn(w) ==
    /\ WorkerGoto(w, "received", "running")
    /\ activeJobs' = activeJobs + 1
    /\ UNCHANGED <<totalJobs, failedJobs, holds, finished>>

\* Mistake: a task that fails is put back for another attempt.
FnReturnsRetries(w, failed) ==
    /\ worker[w] = "running"
    /\ worker' = [worker EXCEPT ![w] = IF failed THEN "failed" ELSE "select"]
    /\ taskChan' = IF failed THEN Append(taskChan, holds[w]) ELSE taskChan
    /\ activeJobs' = activeJobs - 1
    /\ finished' = finished \cup {holds[w]}
    /\ holds' = [holds EXCEPT ![w] = NoTask]
    /\ UNCHANGED <<flags, submit, stopper, crashed, totalJobs, failedJobs>>

\* Fn returns, with an error if failed, and the job is no longer active.
FnReturns(w, failed) ==
    /\ WorkerGoto(w, "running", IF failed THEN "failed" ELSE "select")
    /\ activeJobs' = activeJobs - 1
    /\ finished' = finished \cup {holds[w]}
    /\ holds' = [holds EXCEPT ![w] = NoTask]
    /\ UNCHANGED <<totalJobs, failedJobs>>

\* Mistake: a failing task ends its worker.
CountFailureExits(w) ==
    /\ WorkerGoto(w, "failed", "exited")
    /\ failedJobs' = failedJobs + 1
    /\ UNCHANGED <<totalJobs, activeJobs, holds, finished>>

CountFailure(w) ==
    /\ WorkerGoto(w, "failed", "select")
    /\ failedJobs' = failedJobs + 1
    /\ UNCHANGED <<totalJobs, activeJobs, holds, finished>>

\* Mistake: break leaves the select, not the loop.
WorkerExitBreaks(w) ==
    /\ (closed /\ taskChan = <<>>) \/ cancelled
    /\ WorkerGoto(w, "select", "select")
    /\ UNCHANGED <<counters, holds, finished>>

\* Both returns of worker: the channel is closed and drained, or ctx is done.
WorkerExit(w) ==
    /\ (closed /\ taskChan = <<>>) \/ cancelled
    /\ WorkerGoto(w, "select", "exited")
    /\ UNCHANGED <<counters, holds, finished>>

WorkerStep(w) ==
    \/ Receive(w) \/ BeginFn(w) \/ CountFailure(w) \/ WorkerExit(w)
    \/ \E failed \in BOOLEAN : FnReturns(w, failed)

-----------------------------------------------------------------------------
(* Stop *)

StopGoto(s, here, there) ==
    /\ stopper[s] = here
    /\ stopper' = [stopper EXCEPT ![s] = there]
    /\ UNCHANGED <<starting, taskChan, counters, workers, crashed>>

StopClaim(s) ==
    /\ StopGoto(s, "uncalled", IF stopped THEN "already" ELSE "cancel")
    /\ stopped' = TRUE
    /\ UNCHANGED <<cancelled, closed, submit>>

StopCancel(s) ==
    /\ StopGoto(s, "cancel", "close")
    /\ cancelled' = TRUE
    /\ submit' = [t \in Tasks |-> IF submit[t] = "parked" THEN "withdraw" ELSE submit[t]]
    /\ UNCHANGED <<stopped, closed>>

StopClose(s) ==
    /\ StopGoto(s, "close", "wait")
    /\ closed' = TRUE
    /\ UNCHANGED <<stopped, cancelled, submit>>

\* Mistake: Stop waits for the active jobs instead of for the workers.
StopReturnsWhenInactive(s) ==
    /\ activeJobs = 0
    /\ StopGoto(s, "wait", "nil")
    /\ UNCHANGED <<stopped, cancelled, closed, submit>>

\* wg.Wait returns: no worker that was added is still there.
StopReturns(s) ==
    /\ \A w \in Workers : worker[w] \in {"unborn", "exited"}
    /\ StopGoto(s, "wait", "nil")
    /\ UNCHANGED <<stopped, cancelled, closed, submit>>

StopTimesOut(s) ==
    /\ StopGoto(s, "wait", "timedOut")
    /\ UNCHANGED <<stopped, cancelled, closed, submit>>

StopStep(s) ==
    \/ StopClaim(s) \/ StopCancel(s) \/ StopClose(s) \/ StopReturns(s) \/ StopTimesOut(s)

-----------------------------------------------------------------------------

Next ==
    /\ ~crashed
    /\ \/ StartClaim \/ StartWorkers
       \/ \E t \in Tasks : SubmitStep(t)
       \/ \E w \in Workers : WorkerStep(w)
       \/ \E s \in Stoppers : StopStep(s)

Spec == Init /\ [][Next]_vars

\* A worker that can take a step takes one, Start and Stop go on once begun and
\* Fn returns.  Nothing obliges anyone to submit a task or to call Stop.
Fairness ==
    /\ WF_vars(~crashed /\ StartWorkers)
    /\ \A w \in Workers : WF_vars(~crashed /\ WorkerStep(w))
    /\ \A s \in Stoppers : WF_vars(~crashed /\ (StopCancel(s) \/ StopClose(s)))

FairSpec == Spec /\ Fairness

-----------------------------------------------------------------------------
(* Properties *)

\* The types of the pool's fields and of the goroutines' positions.
TypeOK ==
    /\ starting \in {"no", "claimed", "running", "late"}
    /\ <<stopped, cancelled, closed, crashed>> \in BOOLEAN \X BOOLEAN \X BOOLEAN \X BOOLEAN
    /\ taskChan \in Seq(Tasks) /\ Len(taskChan) <= QueueSize
    /\ totalJobs \in Nat /\ activeJobs \in Nat /\ failedJobs \in Nat
    /\ submit \in [Tasks -> {"unsubmitted", "measure", "count", "send", "countTimed",
                             "sendTimed", "parked", "withdraw", "accepted", "refused"}]
    /\ worker \in [Workers -> {"unborn", "select", "received", "running", "failed", "exited"}]
    /\ holds \in [Workers -> Tasks \cup {NoTask}]
    /\ finished \subseteq Tasks
    /\ stopper \in [Stoppers -> {"uncalled", "already", "cancel", "close", "wait", "nil",
                                 "timedOut"}]

Places(t) == {i \in DOMAIN taskChan : taskChan[i] = t}
Holders(t) == {w \in Workers : holds[w] = t}

\* No task is lost, duplicated or run twice while the pool lives: an accepted
\* task sits once in the channel, or is held by one worker, or has finished,
\* and no task that was not accepted is anywhere.
OneHolder ==
    \A t \in Tasks :
        Cardinality(Places(t)) + Cardinality(Holders(t)) =
            IF submit[t] = "accepted" /\ t \notin finished THEN 1 ELSE 0

\* Submit counts a task before any worker can fail it and SubmitWithTimeout
\* takes back only what no worker will see, so at no moment are more jobs counted
\* as failed than as submitted.  (Stats loads the two one after the other,
\* pool.go:194-196, and may return values of different moments.)
FailedWithinTotal == failedJobs <= totalJobs

\* Stop returns nil only when nothing runs any more, unless Start had yet to
\* run its workers when Stop was called.
StopNilMeansIdle ==
    (\E s \in Stoppers : stopper[s] = "nil") /\ starting # "late"
        => /\ activeJobs = 0
           /\ \A w \in Workers : worker[w] \in {"unborn", "exited"}

\* Once Stop has been called every worker that was started exits.
WorkersExit ==
    stopped /\ starting \in {"running", "late"}
        ~> crashed \/ \A w \in Workers : worker[w] = "exited"

\* A running pool gets round to every task it accepted, unless it is stopped.
AcceptedRuns ==
    \A t \in Tasks :
        submit[t] = "accepted" /\ starting = "running" ~> t \in finished \/ stopped

\* "Stop gracefully shuts down the worker pool" (pool.go): a submission that
\* meets Stop is refused; it does not panic.
NeverPanics == ~crashed
=============================================================================
