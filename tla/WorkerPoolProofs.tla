-------------------------- MODULE WorkerPoolProofs --------------------------
(***************************************************************************)
(* The safety of the worker pool, for any tasks, workers and stoppers and  *)
(* any capacity of the channel.                                            *)
(***************************************************************************)
EXTENDS WorkerPool, FiniteSetTheorems, TLAPS

USE PoolAssumption

-----------------------------------------------------------------------------
(* Queues without repetition *)

Elements(q) == {q[i] : i \in DOMAIN q}
Distinct(q) == \A i, j \in DOMAIN q : q[i] = q[j] => i = j

LEMMA Appended ==
    ASSUME NEW S, NEW q \in Seq(S), Distinct(q), NEW t \in S, t \notin Elements(q)
    PROVE  /\ Append(q, t) \in Seq(S) /\ Len(Append(q, t)) = Len(q) + 1
           /\ Distinct(Append(q, t)) /\ Elements(Append(q, t)) = Elements(q) \cup {t}
<1> DEFINE a == Append(q, t)
<1>1. a \in Seq(S) /\ Len(a) = Len(q) + 1 /\ Len(q) \in Nat
  OBVIOUS
<1>2. DOMAIN a = 1 .. Len(q) + 1 /\ DOMAIN q = 1 .. Len(q)
  OBVIOUS
<1>3. a[Len(q) + 1] = t /\ \A i \in 1 .. Len(q) : a[i] = q[i]
  OBVIOUS
<1>. HIDE DEF a
<1>4. \A i \in 1 .. Len(q) : q[i] # t
  BY <1>2 DEF Elements
<1>5. Distinct(a)
  BY <1>1, <1>2, <1>3, <1>4 DEF Distinct
<1>6. Elements(a) = Elements(q) \cup {t}
  BY <1>1, <1>2, <1>3 DEF Elements
<1>. QED  BY <1>1, <1>5, <1>6 DEF a

LEMMA Removed ==
    ASSUME NEW S, NEW q \in Seq(S), Distinct(q), q # <<>>
    PROVE  /\ Head(q) \in Elements(q) /\ Head(q) \in S
           /\ Tail(q) \in Seq(S) /\ Len(Tail(q)) = Len(q) - 1
           /\ Distinct(Tail(q)) /\ Elements(Tail(q)) = Elements(q) \ {Head(q)}
<1> DEFINE r == Tail(q)
<1>1. r \in Seq(S) /\ Len(r) = Len(q) - 1 /\ Len(q) \in Nat \ {0}
  OBVIOUS
<1>2. DOMAIN r = 1 .. Len(q) - 1 /\ DOMAIN q = 1 .. Len(q)
  OBVIOUS
<1>3. Head(q) = q[1] /\ \A i \in 1 .. Len(q) - 1 : r[i] = q[i + 1]
  OBVIOUS
<1>. HIDE DEF r
<1>4. Head(q) \in Elements(q) /\ Head(q) \in S
  BY <1>1, <1>2, <1>3 DEF Elements
<1>5. Distinct(r)
  <2>. SUFFICES ASSUME NEW i \in DOMAIN r, NEW j \in DOMAIN r, r[i] = r[j] PROVE i = j
    BY DEF Distinct
  <2>1. i + 1 \in DOMAIN q /\ j + 1 \in DOMAIN q /\ q[i + 1] = q[j + 1]
    BY <1>1, <1>2, <1>3
  <2>. QED  BY <2>1, <1>1, <1>2 DEF Distinct
<1>6. Elements(r) = Elements(q) \ {Head(q)}
  <2>1. ASSUME NEW i \in DOMAIN r PROVE r[i] \in Elements(q) \ {Head(q)}
    <3>1. i + 1 \in DOMAIN q /\ 1 \in DOMAIN q /\ i + 1 # 1 /\ r[i] = q[i + 1]
      BY <1>1, <1>2, <1>3
    <3>. QED  BY <3>1, <1>3 DEF Elements, Distinct
  <2>2. ASSUME NEW j \in DOMAIN q, q[j] # Head(q) PROVE q[j] \in Elements(r)
    <3>1. j - 1 \in DOMAIN r
      BY <1>1, <1>2, <1>3, <2>2
    <3>2. r[j - 1] = q[j]
      BY <1>1, <1>2, <1>3, <3>1
    <3>. QED  BY <3>1, <3>2 DEF Elements
  <2>. QED  BY <2>1, <2>2 DEF Elements
<1>. QED  BY <1>1, <1>4, <1>5, <1>6 DEF r

-----------------------------------------------------------------------------
(* Where a task is *)

SubmitStates == {"unsubmitted", "measure", "count", "send", "countTimed", "sendTimed",
                 "parked", "withdraw", "accepted", "refused"}
WorkerStates == {"unborn", "select", "received", "running", "failed", "exited"}
Busy == {"received", "running"}

Accepted == {t \in Tasks : submit[t] = "accepted"}
Held == {holds[w] : w \in Workers} \ {NoTask}

Shapes ==
    /\ taskChan \in Seq(Tasks)
    /\ submit \in [Tasks -> SubmitStates]
    /\ worker \in [Workers -> WorkerStates]
    /\ holds \in [Workers -> Tasks \cup {NoTask}]
    /\ starting \in {"no", "claimed", "running", "late"}
    /\ starting \in {"no", "claimed"} => \A w \in Workers : worker[w] = "unborn"

\* The accepted tasks that have not finished are in the channel or with a worker,
\* each in one place.
Placed ==
    /\ Distinct(taskChan)
    /\ \A w \in Workers : holds[w] # NoTask <=> worker[w] \in Busy
    /\ \A v, w \in Workers : holds[v] = holds[w] /\ holds[v] # NoTask => v = w
    /\ finished \subseteq Accepted
    /\ Elements(taskChan) \cup Held = Accepted \ finished
    /\ Elements(taskChan) \cap Held = {}

Where == Shapes /\ Placed

\* A submission moves on.
LEMMA Submits ==
    ASSUME Shapes, NEW t \in Tasks, NEW here, NEW there \in SubmitStates, SubmitGoto(t, here, there)
    PROVE  /\ submit' \in [Tasks -> SubmitStates]
           /\ here # "accepted" /\ there # "accepted" => Accepted' = Accepted
           /\ here # "accepted" /\ there = "accepted" =>
                  t \notin Accepted /\ Accepted' = Accepted \cup {t}
           /\ UNCHANGED <<flags, workers, stopper>>
<1>1. submit \in [Tasks -> SubmitStates] /\ submit' = [submit EXCEPT ![t] = there] /\ submit[t] = here
  BY DEF Shapes, SubmitGoto
<1>2. UNCHANGED <<flags, workers, stopper>>
  BY DEF SubmitGoto
<1>. QED  BY <1>1, <1>2 DEF Accepted

\* A step that moves no task.
LEMMA NothingMoves ==
    ASSUME Where, UNCHANGED <<taskChan, holds, finished>>, Accepted' = Accepted,
           Shapes', \A w \in Workers : worker'[w] \in Busy <=> worker[w] \in Busy
    PROVE  Where'
BY DEF Where, Placed, Elements, Distinct, Held

LEMMA SubmitKeeps ==
    ASSUME Where, NEW t \in Tasks, NEW here \in SubmitStates \ {"accepted"},
           NEW there \in SubmitStates \ {"accepted"}, SubmitGoto(t, here, there),
           UNCHANGED taskChan
    PROVE  Where'
<1>1. Shapes
  BY DEF Where
<1>2. submit' \in [Tasks -> SubmitStates] /\ Accepted' = Accepted
  BY <1>1, Submits
<1>3. UNCHANGED <<starting, worker, holds, finished>>
  BY <1>1, Submits DEF flags, workers
<1>4. Shapes'
  BY <1>1, <1>2, <1>3 DEF Shapes
<1>. QED  BY <1>2, <1>3, <1>4, NothingMoves

LEMMA SendKeeps ==
    ASSUME Where, NEW t \in Tasks, SubmitSend(t)
    PROVE  Where'
<1>1. Shapes /\ Placed
  BY DEF Where
<1>2. PICK here \in {"send", "sendTimed"} : SubmitGoto(t, here, "accepted")
  BY DEF SubmitSend
<1>3. submit' \in [Tasks -> SubmitStates] /\ t \notin Accepted /\ Accepted' = Accepted \cup {t}
  BY <1>1, <1>2, Submits DEF SubmitStates
<1>4. UNCHANGED <<starting, worker, holds, finished>>
  BY <1>1, <1>2, Submits DEF flags, workers, SubmitStates
<1>5. t \notin Elements(taskChan) /\ t \notin finished /\ t \notin Held
  BY <1>1, <1>3 DEF Placed
<1>6. taskChan' = Append(taskChan, t) /\ taskChan \in Seq(Tasks) /\ Distinct(taskChan)
  BY <1>1 DEF SubmitSend, Shapes, Placed
<1>7. taskChan' \in Seq(Tasks) /\ Distinct(taskChan') /\ Elements(taskChan') = Elements(taskChan) \cup {t}
  BY <1>5, <1>6, Appended
<1>8. Shapes'
  BY <1>1, <1>3, <1>4, <1>7 DEF Shapes
<1>9. Held' = Held
  BY <1>4 DEF Held
<1>10. Elements(taskChan)' = Elements(taskChan') /\ Distinct(taskChan)' = Distinct(taskChan')
  BY DEF Elements, Distinct
<1>11. Placed'
  BY <1>1, <1>3, <1>4, <1>5, <1>7, <1>9, <1>10 DEF Placed
<1>. QED  BY <1>8, <1>11 DEF Where

\* A worker takes a task that none holds.
LEMMA HeldMore ==
    ASSUME Where, NEW w \in Workers, worker[w] = "select", NEW t \in Tasks, t \notin Held,
           worker' = [worker EXCEPT ![w] = "received"], holds' = [holds EXCEPT ![w] = t]
    PROVE  /\ Held' = Held \cup {t}
           /\ \A v \in Workers : holds'[v] # NoTask <=> worker'[v] \in Busy
           /\ \A u, v \in Workers : holds'[u] = holds'[v] /\ holds'[u] # NoTask => u = v
           /\ worker' \in [Workers -> WorkerStates]
           /\ holds' \in [Workers -> Tasks \cup {NoTask}]
<1>1. holds \in [Workers -> Tasks \cup {NoTask}] /\ worker \in [Workers -> WorkerStates]
  BY DEF Where, Shapes
<1>2. \A v \in Workers : holds[v] # NoTask <=> worker[v] \in Busy
  BY DEF Where, Placed
<1>3. holds[w] = NoTask
  BY <1>2 DEF Busy
<1>4. \A v \in Workers : holds[v] # t
  BY DEF Held
<1>5. \A v \in Workers : holds'[v] = IF v = w THEN t ELSE holds[v]
  BY <1>1
<1>6. t # NoTask
  OBVIOUS
<1>7. Held' = Held \cup {t}
  BY <1>3, <1>5, <1>6 DEF Held
<1>8. \A v \in Workers : holds'[v] # NoTask <=> worker'[v] \in Busy
  BY <1>1, <1>2, <1>5, <1>6 DEF Busy
<1>9. \A u, v \in Workers : holds'[u] = holds'[v] /\ holds'[u] # NoTask => u = v
  BY <1>4, <1>5 DEF Where, Placed
<1>. QED  BY <1>1, <1>7, <1>8, <1>9 DEF WorkerStates

LEMMA ReceiveKeeps ==
    ASSUME Where, NEW w \in Workers, Receive(w)
    PROVE  Where'
<1>1. Shapes /\ Placed
  BY DEF Where
<1> DEFINE q == taskChan
           h == Head(q)
<1>2. q \in Seq(Tasks) /\ Distinct(q) /\ q # <<>>
  BY <1>1 DEF Shapes, Placed, Receive
<1>3. /\ h \in Elements(q) /\ h \in Tasks
      /\ Tail(q) \in Seq(Tasks) /\ Distinct(Tail(q)) /\ Elements(Tail(q)) = Elements(q) \ {h}
  BY <1>2, Removed
<1>4. worker[w] = "select" /\ worker' = [worker EXCEPT ![w] = "received"] /\ holds' = [holds EXCEPT ![w] = h]
  BY DEF Receive
<1>5. UNCHANGED <<starting, finished>>
  BY DEF Receive, flags
<1>6. h \notin Held
  BY <1>1, <1>3 DEF Placed
<1>7. /\ Held' = Held \cup {h}
      /\ \A v \in Workers : holds'[v] # NoTask <=> worker'[v] \in Busy
      /\ \A u, v \in Workers : holds'[u] = holds'[v] /\ holds'[u] # NoTask => u = v
      /\ worker' \in [Workers -> WorkerStates]
      /\ holds' \in [Workers -> Tasks \cup {NoTask}]
  BY <1>3, <1>4, <1>6, HeldMore
<1>8. starting' \notin {"no", "claimed"}
  BY <1>1, <1>4, <1>5 DEF Shapes
<1>9. Elements(taskChan)' = Elements(taskChan') /\ Distinct(taskChan)' = Distinct(taskChan')
  BY DEF Elements, Distinct
<1>10. CASE taskChan' = Tail(q) /\ UNCHANGED submit
  <2>1. Shapes'
    BY <1>1, <1>3, <1>5, <1>7, <1>8, <1>10 DEF Shapes
  <2>2. Accepted' = Accepted
    BY <1>10 DEF Accepted
  <2>3. Placed'
    BY <1>1, <1>3, <1>5, <1>6, <1>7, <1>9, <1>10, <2>2 DEF Placed
  <2>. QED  BY <2>1, <2>3 DEF Where
<1>11. ASSUME NEW t \in Tasks, submit[t] = "parked", taskChan' = Append(Tail(q), t),
              submit' = [submit EXCEPT ![t] = "accepted"]
       PROVE  Where'
  <2>1. submit \in [Tasks -> SubmitStates]
    BY <1>1 DEF Shapes
  <2>2. submit' \in [Tasks -> SubmitStates] /\ t \notin Accepted /\ Accepted' = Accepted \cup {t}
    BY <2>1, <1>11 DEF Accepted, SubmitStates
  <2>3. t \notin Elements(q) /\ t \notin Held /\ t \notin finished
    BY <1>1, <2>2 DEF Placed
  <2>4. t \notin Elements(Tail(q)) /\ t # h
    BY <1>3, <2>3
  <2>5. /\ taskChan' \in Seq(Tasks) /\ Distinct(taskChan')
        /\ Elements(taskChan') = (Elements(q) \ {h}) \cup {t}
    BY <1>3, <1>11, <2>4, Appended
  <2>6. Shapes'
    BY <1>1, <1>5, <1>7, <1>8, <2>2, <2>5 DEF Shapes
  <2>7. Placed'
    <3>1. Elements(taskChan)' \cup Held' = Accepted' \ finished'
      BY <1>1, <1>3, <1>5, <1>7, <1>9, <2>2, <2>3, <2>5 DEF Placed
    <3>2. Elements(taskChan)' \cap Held' = {}
      BY <1>1, <1>6, <1>7, <1>9, <2>3, <2>4, <2>5 DEF Placed
    <3>. QED  BY <1>1, <1>5, <1>7, <1>9, <2>2, <2>5, <3>1, <3>2 DEF Placed
  <2>. QED  BY <2>6, <2>7 DEF Where
<1>. QED  BY <1>10, <1>11 DEF Receive

LEMMA FnReturnsKeeps ==
    ASSUME Where, NEW w \in Workers, NEW failed \in BOOLEAN, FnReturns(w, failed)
    PROVE  Where'
<1>1. Shapes /\ Placed
  BY DEF Where
<1>2. holds \in [Workers -> Tasks \cup {NoTask}] /\ worker \in [Workers -> WorkerStates]
  BY <1>1 DEF Shapes
<1>3. /\ worker[w] = "running" /\ holds' = [holds EXCEPT ![w] = NoTask]
      /\ worker' = [worker EXCEPT ![w] = IF failed THEN "failed" ELSE "select"]
      /\ finished' = finished \cup {holds[w]}
      /\ UNCHANGED <<starting, taskChan, submit>>
  BY DEF FnReturns, WorkerGoto, flags
<1>4. \A v \in Workers : holds'[v] = IF v = w THEN NoTask ELSE holds[v]
  BY <1>2, <1>3
<1>5. \A v \in Workers : v # w => worker'[v] = worker[v]
  BY <1>2, <1>3
<1>6. worker'[w] \in {"failed", "select"} /\ worker' \in [Workers -> WorkerStates]
  BY <1>2, <1>3 DEF WorkerStates
<1>7. holds[w] # NoTask /\ holds[w] \in Held
  BY <1>1, <1>3 DEF Placed, Busy, Held
<1>8. \A v \in Workers : v # w => holds[v] # holds[w]
  BY <1>1, <1>7 DEF Placed
<1>9. Held' = Held \ {holds[w]}
  BY <1>4, <1>7, <1>8 DEF Held
<1>10. Accepted' = Accepted /\ Elements(taskChan)' = Elements(taskChan)
       /\ (Distinct(taskChan)' <=> Distinct(taskChan))
  BY <1>3 DEF Accepted, Elements, Distinct
<1>11. \A v \in Workers : holds'[v] # NoTask <=> worker'[v] \in Busy
  BY <1>1, <1>4, <1>5, <1>6 DEF Placed, Busy
<1>12. \A u, v \in Workers : holds'[u] = holds'[v] /\ holds'[u] # NoTask => u = v
  BY <1>1, <1>4 DEF Placed
<1>13. starting' \notin {"no", "claimed"}
  BY <1>1, <1>3 DEF Shapes
<1>14. Shapes'
  <2>1. holds' \in [Workers -> Tasks \cup {NoTask}]
    BY <1>2, <1>3
  <2>. QED  BY <2>1, <1>1, <1>3, <1>6, <1>13 DEF Shapes
<1>15. Placed'
  <2>1. holds[w] \in Accepted \ finished /\ holds[w] \notin Elements(taskChan)
    BY <1>1, <1>7 DEF Placed
  <2>2. finished' \subseteq Accepted'
    BY <1>1, <1>3, <1>10, <2>1 DEF Placed
  <2>3. Elements(taskChan)' \cup Held' = Accepted' \ finished'
    BY <1>1, <1>3, <1>9, <1>10, <2>1 DEF Placed
  <2>4. Elements(taskChan)' \cap Held' = {}
    BY <1>1, <1>9, <1>10 DEF Placed
  <2>. QED  BY <1>1, <1>10, <1>11, <1>12, <2>2, <2>3, <2>4 DEF Placed
<1>. QED  BY <1>14, <1>15 DEF Where

\* A worker moves on and keeps what it holds.
LEMMA WorkerKeeps ==
    ASSUME Where, NEW w \in Workers, NEW here \in WorkerStates \ {"unborn"},
           NEW there \in WorkerStates \ {"unborn"}, WorkerGoto(w, here, there),
           here \in Busy <=> there \in Busy, UNCHANGED <<holds, finished>>
    PROVE  Where'
<1>1. Shapes
  BY DEF Where
<1>2. worker \in [Workers -> WorkerStates]
  BY <1>1 DEF Shapes
<1>3. worker[w] = here /\ worker' = [worker EXCEPT ![w] = there] /\ UNCHANGED <<starting, taskChan, submit>>
  BY DEF WorkerGoto, flags
<1>4. worker' \in [Workers -> WorkerStates]
  BY <1>2, <1>3
<1>5. starting' \notin {"no", "claimed"}
  BY <1>1, <1>3 DEF Shapes
<1>6. Shapes'
  BY <1>1, <1>3, <1>4, <1>5 DEF Shapes
<1>7. \A v \in Workers : worker'[v] \in Busy <=> worker[v] \in Busy
  BY <1>2, <1>3
<1>8. Accepted' = Accepted
  BY <1>3 DEF Accepted
<1>. QED  BY <1>3, <1>6, <1>7, <1>8, NothingMoves

LEMMA WhereInductive == Where /\ [Next]_vars => Where'
<1>. SUFFICES ASSUME Where, [Next]_vars PROVE Where'
  OBVIOUS
<1>i. Shapes /\ Placed
  BY DEF Where
<1>1. ASSUME UNCHANGED <<starting, taskChan, submit, workers>> PROVE Where'
  <2>1. Shapes'
    BY <1>1, <1>i DEF Shapes, workers
  <2>2. Accepted' = Accepted
    BY <1>1 DEF Accepted
  <2>. QED  BY <1>1, <2>1, <2>2, NothingMoves DEF workers
<1>2. CASE StartClaim
  <2>1. Shapes'
    BY <1>2, <1>i DEF Shapes, StartClaim, workers
  <2>2. Accepted' = Accepted
    BY <1>2 DEF Accepted, StartClaim
  <2>. QED  BY <1>2, <2>1, <2>2, NothingMoves DEF StartClaim, workers
<1>3. CASE StartWorkers
  <2>1. \A w \in Workers : worker[w] = "unborn" /\ worker'[w] = "select"
    BY <1>3, <1>i DEF StartWorkers, Shapes
  <2>2. Shapes'
    BY <1>3, <1>i DEF Shapes, StartWorkers, WorkerStates
  <2>3. Accepted' = Accepted
    BY <1>3 DEF Accepted, StartWorkers
  <2>. QED  BY <1>3, <2>1, <2>2, <2>3, NothingMoves DEF StartWorkers, Busy
<1>4. ASSUME NEW t \in Tasks, SubmitStep(t) PROVE Where'
  <2>1. CASE SubmitLoadStopped(t)
    <3>1. PICK there \in {"measure", "countTimed", "refused"} : SubmitGoto(t, "unsubmitted", there)
      BY <2>1 DEF SubmitLoadStopped
    <3>. QED  BY <2>1, <3>1, SubmitKeeps DEF SubmitLoadStopped, SubmitStates
  <2>2. CASE SubmitMeasure(t)
    <3>1. PICK there \in {"count", "refused"} : SubmitGoto(t, "measure", there)
      BY <2>2 DEF SubmitMeasure
    <3>. QED  BY <2>2, <3>1, SubmitKeeps DEF SubmitMeasure, SubmitStates
  <2>3. CASE SubmitCount(t)
    BY <2>3, SubmitKeeps DEF SubmitCount, SubmitStates
  <2>4. CASE SubmitSend(t)
    BY <2>4, SendKeeps
  <2>5. CASE SubmitPanics(t)
    BY <2>5, <1>1 DEF SubmitPanics, flags
  <2>6. CASE SubmitRefused(t)
    BY <2>6, SubmitKeeps DEF SubmitRefused, SubmitStates
  <2>7. CASE SubmitParks(t)
    BY <2>7, SubmitKeeps DEF SubmitParks, SubmitStates
  <2>8. CASE SubmitWithdraws(t)
    BY <2>8, SubmitKeeps DEF SubmitWithdraws, SubmitStates
  <2>9. CASE SubmitRollback(t)
    BY <2>9, SubmitKeeps DEF SubmitRollback, SubmitStates
  <2>. QED  BY <1>4, <2>1, <2>2, <2>3, <2>4, <2>5, <2>6, <2>7, <2>8, <2>9 DEF SubmitStep
<1>5. ASSUME NEW w \in Workers, WorkerStep(w) PROVE Where'
  <2>1. CASE Receive(w)
    BY <2>1, ReceiveKeeps
  <2>2. CASE BeginFn(w)
    BY <2>2, WorkerKeeps DEF BeginFn, WorkerStates, Busy
  <2>3. CASE CountFailure(w)
    BY <2>3, WorkerKeeps DEF CountFailure, WorkerStates, Busy
  <2>4. CASE WorkerExit(w)
    BY <2>4, WorkerKeeps DEF WorkerExit, WorkerStates, Busy
  <2>5. ASSUME NEW failed \in BOOLEAN, FnReturns(w, failed) PROVE Where'
    BY <2>5, FnReturnsKeeps
  <2>. QED  BY <1>5, <2>1, <2>2, <2>3, <2>4, <2>5 DEF WorkerStep
<1>6. ASSUME NEW s \in Stoppers, StopStep(s) PROVE Where'
  <2>0. UNCHANGED <<starting, taskChan, workers>>
    BY <1>6 DEF StopStep, StopClaim, StopCancel, StopClose, StopReturns, StopTimesOut, StopGoto
  <2>1. CASE StopCancel(s)
    <3>1. submit' = [t \in Tasks |-> IF submit[t] = "parked" THEN "withdraw" ELSE submit[t]]
      BY <2>1 DEF StopCancel
    <3>2. submit \in [Tasks -> SubmitStates] /\ submit' \in [Tasks -> SubmitStates]
      BY <3>1, <1>i DEF Shapes, SubmitStates
    <3>3. Accepted' = Accepted
      BY <3>1 DEF Accepted
    <3>4. Shapes'
      BY <2>0, <3>2, <1>i DEF Shapes, workers
    <3>. QED  BY <2>0, <3>3, <3>4, NothingMoves DEF workers
  <2>2. CASE StopClaim(s) \/ StopClose(s) \/ StopReturns(s) \/ StopTimesOut(s)
    <3>1. UNCHANGED submit
      BY <2>2 DEF StopClaim, StopClose, StopReturns, StopTimesOut
    <3>. QED  BY <2>0, <3>1, <1>1
  <2>. QED  BY <1>6, <2>1, <2>2 DEF StopStep
<1>7. CASE UNCHANGED vars
  BY <1>7, <1>1 DEF vars, flags
<1>. QED  BY <1>2, <1>3, <1>4, <1>5, <1>6, <1>7 DEF Next

LEMMA WhereInitially == Init => Where
<1>. SUFFICES ASSUME Init PROVE Where
  OBVIOUS
<1>1. taskChan \in Seq(Tasks) /\ Elements(taskChan) = {} /\ Distinct(taskChan)
  BY DEF Init, Elements, Distinct
<1>2. Held = {} /\ Accepted = {} /\ finished = {}
  BY DEF Init, Held, Accepted
<1>3. Shapes
  BY <1>1 DEF Init, Shapes, SubmitStates, WorkerStates
<1>4. Placed
  BY <1>1, <1>2 DEF Init, Placed, Busy
<1>. QED  BY <1>3, <1>4 DEF Where

\* Every accepted task that has not finished is in the channel or with a worker, in
\* one place, through every submission, receive, return and Stop.
THEOREM WhereHolds == Spec => []Where
<1>. QED  BY WhereInitially, WhereInductive, PTL DEF Spec

\* An accepted task is in the channel once, with one worker, or finished, and a task
\* that was not accepted is nowhere (OneHolder).
THEOREM TasksHaveOneHolder == Spec => []OneHolder
<1>1. Where => OneHolder
  <2>. SUFFICES ASSUME Where, NEW t \in Tasks
                PROVE  Cardinality(Places(t)) + Cardinality(Holders(t)) =
                           IF submit[t] = "accepted" /\ t \notin finished THEN 1 ELSE 0
    BY DEF OneHolder
  <2>i. Placed
    BY DEF Where
  <2>1. Places(t) = {} <=> t \notin Elements(taskChan)
    BY DEF Places, Elements
  <2>2. Holders(t) = {} <=> t \notin Held
    BY DEF Holders, Held
  <2>3. Places(t) # {} => Cardinality(Places(t)) = 1
    <3>. SUFFICES ASSUME Places(t) # {} PROVE Cardinality(Places(t)) = 1
      OBVIOUS
    <3>1. PICK i \in DOMAIN taskChan : Places(t) = {i}
      BY <2>i DEF Places, Placed, Distinct
    <3>. QED  BY <3>1, FS_Singleton
  <2>4. Holders(t) # {} => Cardinality(Holders(t)) = 1
    <3>. SUFFICES ASSUME Holders(t) # {} PROVE Cardinality(Holders(t)) = 1
      OBVIOUS
    <3>1. PICK w \in Workers : Holders(t) = {w}
      BY <2>i DEF Holders, Placed
    <3>. QED  BY <3>1, FS_Singleton
  <2>5. Cardinality({}) = 0
    BY FS_EmptySet
  <2>6. t \in Elements(taskChan) \/ t \in Held <=> submit[t] = "accepted" /\ t \notin finished
    BY <2>i DEF Placed, Accepted
  <2>7. ~(t \in Elements(taskChan) /\ t \in Held)
    BY <2>i DEF Placed
  <2>. QED  BY <2>1, <2>2, <2>3, <2>4, <2>5, <2>6, <2>7
<1>. QED  BY <1>1, WhereHolds, PTL

-----------------------------------------------------------------------------
(* Stop and the workers *)

StopStates == {"uncalled", "already", "cancel", "close", "wait", "nil", "timedOut"}

Running == {w \in Workers : worker[w] = "running"}

Idle == \A w \in Workers : worker[w] \in {"unborn", "exited"}

\* A call of Stop that is under way, or over, has set stopped, so workers that
\* come after it come late.
Stops ==
    /\ stopper \in [Stoppers -> StopStates] /\ stopped \in BOOLEAN
    /\ \A s \in Stoppers : stopper[s] \in StopStates \ {"uncalled", "already"} => stopped
    /\ (\E s \in Stoppers : stopper[s] = "nil") /\ starting # "late" => Idle

ActiveExact == activeJobs = Cardinality(Running)

LEMMA StopsInductive == Shapes /\ Stops /\ [Next]_vars => Stops'
<1>. SUFFICES ASSUME Shapes, Stops, [Next]_vars PROVE Stops'
  OBVIOUS
<1>1. ASSUME UNCHANGED <<stopper, stopped, starting, worker>> PROVE Stops'
  BY <1>1 DEF Stops, Idle
<1>2. CASE StartClaim
  BY <1>2 DEF Stops, Idle, StartClaim, workers
<1>3. CASE StartWorkers
  BY <1>3 DEF Stops, Idle, StartWorkers, StopStates
<1>4. ASSUME NEW t \in Tasks, SubmitStep(t) PROVE Stops'
  BY <1>4, <1>1 DEF SubmitStep, SubmitLoadStopped, SubmitMeasure, SubmitCount, SubmitSend,
      SubmitPanics, SubmitRefused, SubmitParks, SubmitWithdraws, SubmitRollback, SubmitGoto,
      flags, workers
<1>5. ASSUME NEW w \in Workers, WorkerStep(w) PROVE Stops'
  <2>1. worker[w] \notin {"unborn", "exited"}
    BY <1>5 DEF WorkerStep, Receive, BeginFn, CountFailure, WorkerExit, FnReturns, WorkerGoto
  <2>2. UNCHANGED <<stopper, stopped, starting>>
    BY <1>5 DEF WorkerStep, Receive, BeginFn, CountFailure, WorkerExit, FnReturns, WorkerGoto, flags
  <2>. QED  BY <2>1, <2>2 DEF Stops, Idle
<1>6. ASSUME NEW s \in Stoppers, StopStep(s) PROVE Stops'
  <2>0. UNCHANGED <<starting, worker>>
    BY <1>6 DEF StopStep, StopClaim, StopCancel, StopClose, StopReturns, StopTimesOut, StopGoto, workers
  <2>1. CASE StopClaim(s)
    BY <2>0, <2>1 DEF StopClaim, StopGoto, Stops, StopStates, Idle
  <2>2. CASE StopCancel(s)
    BY <2>0, <2>2 DEF StopCancel, StopGoto, Stops, StopStates, Idle
  <2>3. CASE StopClose(s)
    BY <2>0, <2>3 DEF StopClose, StopGoto, Stops, StopStates, Idle
  <2>4. CASE StopReturns(s)
    BY <2>0, <2>4 DEF StopReturns, StopGoto, Stops, StopStates, Idle
  <2>5. CASE StopTimesOut(s)
    BY <2>0, <2>5 DEF StopTimesOut, StopGoto, Stops, StopStates, Idle
  <2>. QED  BY <1>6, <2>1, <2>2, <2>3, <2>4, <2>5 DEF StopStep
<1>7. CASE UNCHANGED vars
  BY <1>7, <1>1 DEF vars, flags, workers
<1>. QED  BY <1>2, <1>3, <1>4, <1>5, <1>6, <1>7 DEF Next

LEMMA RunningFinite == IsFiniteSet(Running) /\ Cardinality(Running) \in Nat
<1>1. IsFiniteSet(Running)
  BY FS_Subset DEF Running
<1>. QED  BY <1>1, FS_CardinalityType

LEMMA ActiveInductive == Shapes /\ ActiveExact /\ [Next]_vars => ActiveExact'
<1>. SUFFICES ASSUME Shapes, ActiveExact, [Next]_vars PROVE ActiveExact'
  OBVIOUS
<1>s. worker \in [Workers -> WorkerStates]
  BY DEF Shapes
<1>1. ASSUME activeJobs' = activeJobs, Running' = Running PROVE ActiveExact'
  BY <1>1 DEF ActiveExact
<1>2. ASSUME UNCHANGED <<activeJobs, worker>> PROVE ActiveExact'
  BY <1>1, <1>2 DEF Running
<1>3. CASE StartClaim
  BY <1>2, <1>3 DEF StartClaim, counters, workers
<1>4. CASE StartWorkers
  <2>1. Running = {} /\ Running' = {}
    BY <1>4 DEF StartWorkers, Shapes, Running
  <2>. QED  BY <2>1, <1>1, <1>4 DEF StartWorkers, counters
<1>5. ASSUME NEW t \in Tasks, SubmitStep(t) PROVE ActiveExact'
  BY <1>5, <1>2 DEF SubmitStep, SubmitLoadStopped, SubmitMeasure, SubmitCount, SubmitSend,
      SubmitPanics, SubmitRefused, SubmitParks, SubmitWithdraws, SubmitRollback, SubmitGoto,
      counters, workers
<1>6. ASSUME NEW w \in Workers, WorkerStep(w) PROVE ActiveExact'
  <2>1. CASE BeginFn(w)
    <3>1. w \notin Running /\ Running' = Running \cup {w}
      BY <2>1, <1>s DEF BeginFn, WorkerGoto, Running
    <3>2. Cardinality(Running') = Cardinality(Running) + 1
      BY <3>1, RunningFinite, FS_AddElement
    <3>. QED  BY <2>1, <3>2 DEF BeginFn, ActiveExact
  <2>2. ASSUME NEW failed \in BOOLEAN, FnReturns(w, failed) PROVE ActiveExact'
    <3>1. w \in Running /\ Running' = Running \ {w}
      BY <2>2, <1>s DEF FnReturns, WorkerGoto, Running
    <3>2. Cardinality(Running') = Cardinality(Running) - 1
      BY <3>1, RunningFinite, FS_RemoveElement
    <3>. QED  BY <2>2, <3>2 DEF FnReturns, ActiveExact
  <2>3. CASE Receive(w) \/ CountFailure(w) \/ WorkerExit(w)
    <3>1. Running' = Running
      BY <2>3, <1>s DEF Receive, CountFailure, WorkerExit, WorkerGoto, Running
    <3>2. activeJobs' = activeJobs
      BY <2>3 DEF Receive, CountFailure, WorkerExit, counters
    <3>. QED  BY <3>1, <3>2, <1>1
  <2>. QED  BY <1>6, <2>1, <2>2, <2>3 DEF WorkerStep
<1>7. ASSUME NEW s \in Stoppers, StopStep(s) PROVE ActiveExact'
  BY <1>7, <1>2 DEF StopStep, StopClaim, StopCancel, StopClose, StopReturns, StopTimesOut, StopGoto,
      workers, counters
<1>8. CASE UNCHANGED vars
  BY <1>8, <1>2 DEF vars, counters, workers
<1>. QED  BY <1>3, <1>4, <1>5, <1>6, <1>7, <1>8 DEF Next

\* A Stop that is over has stopped the pool, and the gauge of active jobs is the number
\* of workers inside a task.
THEOREM StopsHold == Spec => [](Stops /\ ActiveExact)
<1>1. Init => Stops /\ ActiveExact
  <2>. SUFFICES ASSUME Init PROVE Stops /\ ActiveExact
    OBVIOUS
  <2>1. Running = {}
    BY DEF Init, Running
  <2>2. ActiveExact
    BY <2>1, FS_EmptySet DEF Init, ActiveExact
  <2>. QED  BY <2>2 DEF Init, Stops, StopStates
<1>2. Where /\ Stops /\ ActiveExact /\ [Next]_vars => Stops' /\ ActiveExact'
  BY StopsInductive, ActiveInductive DEF Where
<1>. QED  BY <1>1, <1>2, WhereHolds, PTL DEF Spec

\* When Stop has returned nil no job is active and no worker is left, unless Start
\* had yet to run them (StopNilMeansIdle).
THEOREM StopLeavesNobody == Spec => []StopNilMeansIdle
<1>1. Stops /\ ActiveExact => StopNilMeansIdle
  <2>. SUFFICES ASSUME Stops, ActiveExact, \E s \in Stoppers : stopper[s] = "nil", starting # "late"
                PROVE  activeJobs = 0 /\ Idle
    BY DEF StopNilMeansIdle, Idle
  <2>1. Idle
    BY DEF Stops
  <2>2. Running = {}
    BY <2>1 DEF Idle, Running
  <2>. QED  BY <2>1, <2>2, FS_EmptySet DEF ActiveExact
<1>. QED  BY <1>1, StopsHold, PTL

-----------------------------------------------------------------------------
(* Counters *)

Counted == {t \in Tasks : submit[t] \in {"send", "sendTimed", "parked", "withdraw", "accepted"}}
Failing == {w \in Workers : worker[w] = "failed"}

\* totalJobs covers every submission that may yet take its count back or has been
\* accepted, and failedJobs the finished tasks whose failure has been counted.
CountersCover ==
    /\ totalJobs \in Int /\ failedJobs \in Nat
    /\ Cardinality(Counted) <= totalJobs
    /\ failedJobs + Cardinality(Failing) <= Cardinality(finished)

LEMMA CountedFinite ==
    /\ IsFiniteSet(Counted) /\ Cardinality(Counted) \in Nat
    /\ IsFiniteSet(Failing) /\ Cardinality(Failing) \in Nat
<1>1. IsFiniteSet(Counted) /\ IsFiniteSet(Failing)
  BY FS_Subset DEF Counted, Failing
<1>. QED  BY <1>1, FS_CardinalityType

LEMMA FinishedFinite ==
    ASSUME Placed
    PROVE  /\ IsFiniteSet(finished) /\ Cardinality(finished) \in Nat
           /\ Cardinality(finished) <= Cardinality(Counted)
<1>1. finished \subseteq Counted
  BY DEF Placed, Accepted, Counted
<1>. QED  BY <1>1, CountedFinite, FS_Subset, FS_CardinalityType

LEMMA CountersInductive == Where /\ CountersCover /\ [Next]_vars => CountersCover'
<1>. SUFFICES ASSUME Where, CountersCover, [Next]_vars PROVE CountersCover'
  OBVIOUS
<1>i. Shapes /\ Placed
  BY DEF Where
<1>s. worker \in [Workers -> WorkerStates] /\ submit \in [Tasks -> SubmitStates]
  BY <1>i DEF Shapes
<1>c. totalJobs \in Int /\ failedJobs \in Nat
  BY DEF CountersCover
<1>1. ASSUME UNCHANGED <<totalJobs, failedJobs, finished>>, Counted' = Counted, Failing' = Failing
      PROVE  CountersCover'
  BY <1>1 DEF CountersCover
<1>2. ASSUME UNCHANGED <<totalJobs, failedJobs, finished, submit, worker>> PROVE CountersCover'
  BY <1>2, <1>1 DEF Counted, Failing
<1>3. CASE StartClaim
  BY <1>2, <1>3 DEF StartClaim, counters, workers
<1>4. CASE StartWorkers
  <2>1. Failing' = Failing
    BY <1>4, <1>i DEF StartWorkers, Shapes, Failing
  <2>. QED  BY <2>1, <1>1, <1>4 DEF StartWorkers, counters, Counted
<1>5. ASSUME NEW t \in Tasks, SubmitStep(t) PROVE CountersCover'
  <2>0. UNCHANGED <<worker, finished, failedJobs>>
    BY <1>5 DEF SubmitStep, SubmitLoadStopped, SubmitMeasure, SubmitCount, SubmitSend,
      SubmitPanics, SubmitRefused, SubmitParks, SubmitWithdraws, SubmitRollback, SubmitGoto,
      counters, workers
  <2>f. Failing' = Failing
    BY <2>0 DEF Failing
  <2>1. CASE SubmitCount(t)
    <3>1. t \notin Counted /\ Counted' = Counted \cup {t}
      BY <2>1, <1>s DEF SubmitCount, SubmitGoto, Counted
    <3>2. Cardinality(Counted') = Cardinality(Counted) + 1
      BY <3>1, CountedFinite, FS_AddElement
    <3>3. totalJobs' = totalJobs + 1
      BY <2>1 DEF SubmitCount
    <3>. QED  BY <2>0, <2>f, <3>2, <3>3, CountedFinite DEF CountersCover
  <2>2. CASE SubmitRollback(t) \/ SubmitRefused(t)
    <3>1. t \in Counted /\ Counted' = Counted \ {t}
      BY <2>2, <1>s DEF SubmitRollback, SubmitRefused, SubmitGoto, Counted
    <3>2. Cardinality(Counted') = Cardinality(Counted) - 1
      BY <3>1, CountedFinite, FS_RemoveElement
    <3>3. totalJobs' \in {totalJobs, totalJobs - 1}
      BY <2>2 DEF SubmitRollback, SubmitRefused, counters
    <3>. QED  BY <2>0, <2>f, <3>2, <3>3, CountedFinite DEF CountersCover
  <2>3. CASE \/ SubmitLoadStopped(t) \/ SubmitMeasure(t) \/ SubmitSend(t)
             \/ SubmitPanics(t) \/ SubmitParks(t) \/ SubmitWithdraws(t)
    <3>1. totalJobs' = totalJobs
      BY <2>3 DEF SubmitLoadStopped, SubmitMeasure, SubmitSend, SubmitPanics, SubmitParks,
          SubmitWithdraws, counters
    <3>2. Counted' = Counted
      BY <2>3, <1>s DEF SubmitLoadStopped, SubmitMeasure, SubmitSend, SubmitPanics, SubmitParks,
          SubmitWithdraws, SubmitGoto, Counted
    <3>. QED  BY <2>0, <2>f, <3>1, <3>2, <1>1
  <2>. QED  BY <1>5, <2>1, <2>2, <2>3 DEF SubmitStep
<1>6. ASSUME NEW w \in Workers, WorkerStep(w) PROVE CountersCover'
  <2>1. CASE BeginFn(w) \/ WorkerExit(w)
    <3>1. Failing' = Failing
      BY <2>1, <1>s DEF BeginFn, WorkerExit, WorkerGoto, Failing
    <3>2. UNCHANGED <<submit, finished, totalJobs, failedJobs>>
      BY <2>1 DEF BeginFn, WorkerExit, WorkerGoto, counters
    <3>. QED  BY <3>1, <3>2, <1>1 DEF Counted
  <2>2. CASE Receive(w)
    <3>1. Failing' = Failing
      BY <2>2, <1>s DEF Receive, Failing
    <3>2. UNCHANGED <<finished, totalJobs, failedJobs>>
      BY <2>2 DEF Receive, counters
    <3>3. Counted' = Counted
      BY <2>2, <1>s DEF Receive, Counted
    <3>. QED  BY <3>1, <3>2, <3>3, <1>1
  <2>3. CASE CountFailure(w)
    <3>1. w \in Failing /\ Failing' = Failing \ {w}
      BY <2>3, <1>s DEF CountFailure, WorkerGoto, Failing
    <3>2. Cardinality(Failing') = Cardinality(Failing) - 1
      BY <3>1, CountedFinite, FS_RemoveElement
    <3>3. Counted' = Counted
      BY <2>3 DEF CountFailure, WorkerGoto, Counted
    <3>4. UNCHANGED <<finished, totalJobs>> /\ failedJobs' = failedJobs + 1
      BY <2>3 DEF CountFailure
    <3>. QED  BY <3>2, <3>3, <3>4, CountedFinite DEF CountersCover
  <2>4. ASSUME NEW failed \in BOOLEAN, FnReturns(w, failed) PROVE CountersCover'
    <3>1. UNCHANGED <<submit, totalJobs, failedJobs>> /\ finished' = finished \cup {holds[w]}
      BY <2>4 DEF FnReturns, WorkerGoto
    <3>2. holds[w] \notin finished
      <4>1. holds[w] # NoTask
        BY <2>4, <1>i DEF FnReturns, WorkerGoto, Placed, Busy
      <4>2. holds[w] \in Held
        BY <4>1 DEF Held
      <4>. QED  BY <4>2, <1>i DEF Placed
    <3>3. Cardinality(finished') = Cardinality(finished) + 1
      BY <3>1, <3>2, <1>i, FinishedFinite, FS_AddElement
    <3>4. Failing' = Failing \/ (w \notin Failing /\ Failing' = Failing \cup {w})
      BY <2>4, <1>s DEF FnReturns, WorkerGoto, Failing
    <3>5. Cardinality(Failing') <= Cardinality(Failing) + 1 /\ Cardinality(Failing') \in Nat
      <4>1. CASE Failing' = Failing
        BY <4>1, CountedFinite
      <4>2. CASE w \notin Failing /\ Failing' = Failing \cup {w}
        <5>1. Cardinality(Failing') = Cardinality(Failing) + 1
          BY <4>2, CountedFinite, FS_AddElement
        <5>. QED  BY <5>1, CountedFinite
      <4>. QED  BY <3>4, <4>1, <4>2
    <3>6. Counted' = Counted
      BY <3>1 DEF Counted
    <3>. QED  BY <3>1, <3>3, <3>5, <3>6, <1>i, CountedFinite, FinishedFinite DEF CountersCover
  <2>. QED  BY <1>6, <2>1, <2>2, <2>3, <2>4 DEF WorkerStep
<1>7. ASSUME NEW s \in Stoppers, StopStep(s) PROVE CountersCover'
  <2>1. UNCHANGED <<worker, finished, totalJobs, failedJobs>>
    BY <1>7 DEF StopStep, StopClaim, StopCancel, StopClose, StopReturns, StopTimesOut, StopGoto,
        workers, counters
  <2>2. Counted' = Counted
    BY <1>7, <1>s DEF StopStep, StopClaim, StopCancel, StopClose, StopReturns, StopTimesOut, Counted
  <2>3. Failing' = Failing
    BY <2>1 DEF Failing
  <2>. QED  BY <2>1, <2>2, <2>3, <1>1
<1>8. CASE UNCHANGED vars
  BY <1>8, <1>2 DEF vars, counters, workers
<1>. QED  BY <1>3, <1>4, <1>5, <1>6, <1>7, <1>8 DEF Next

LEMMA CountersInitially == Init => CountersCover
<1>. SUFFICES ASSUME Init PROVE CountersCover
  OBVIOUS
<1>1. Counted = {} /\ Failing = {} /\ finished = {}
  BY DEF Init, Counted, Failing
<1>. QED  BY <1>1, FS_EmptySet DEF Init, CountersCover

\* totalJobs never falls below the submissions it counts, nor does failedJobs run
\* ahead of the tasks that have returned.
THEOREM CountersHold == Spec => []CountersCover
<1>. QED  BY CountersInitially, CountersInductive, WhereHolds, PTL DEF Spec

\* No more jobs have failed than were submitted, at any one moment
\* (FailedWithinTotal).
THEOREM FailuresWithinTotal == Spec => []FailedWithinTotal
<1>1. Where /\ CountersCover => FailedWithinTotal
  BY CountedFinite, FinishedFinite DEF Where, CountersCover, FailedWithinTotal
<1>. QED  BY <1>1, WhereHolds, CountersHold, PTL

-----------------------------------------------------------------------------
(* Types *)

\* The flags are flags, and the channel holds no more than its capacity.
Bounded ==
    /\ stopped \in BOOLEAN /\ cancelled \in BOOLEAN /\ closed \in BOOLEAN /\ crashed \in BOOLEAN
    /\ Len(taskChan) <= QueueSize

LEMMA BoundedInductive == Shapes /\ Bounded /\ [Next]_vars => Bounded'
<1>. SUFFICES ASSUME Shapes, Bounded, [Next]_vars PROVE Bounded'
  OBVIOUS
<1>s. taskChan \in Seq(Tasks)
  BY DEF Shapes
<1>1. ASSUME UNCHANGED <<stopped, cancelled, closed, crashed, taskChan>> PROVE Bounded'
  BY <1>1 DEF Bounded
<1>2. CASE StartClaim \/ StartWorkers
  BY <1>2, <1>1 DEF StartClaim, StartWorkers
<1>3. ASSUME NEW t \in Tasks, SubmitStep(t) PROVE Bounded'
  <2>1. CASE SubmitSend(t)
    <3>1. Len(taskChan') = Len(taskChan) + 1 /\ Len(taskChan) < QueueSize /\ Len(taskChan) \in Nat
      BY <2>1, <1>s DEF SubmitSend, HasRoom
    <3>2. UNCHANGED <<stopped, cancelled, closed, crashed>>
      BY <2>1 DEF SubmitSend, SubmitGoto, flags
    <3>. QED  BY <3>1, <3>2 DEF Bounded
  <2>2. CASE SubmitPanics(t)
    BY <2>2 DEF SubmitPanics, flags, Bounded
  <2>3. CASE \/ SubmitLoadStopped(t) \/ SubmitMeasure(t) \/ SubmitCount(t) \/ SubmitRefused(t)
             \/ SubmitParks(t) \/ SubmitWithdraws(t) \/ SubmitRollback(t)
    BY <2>3, <1>1 DEF SubmitLoadStopped, SubmitMeasure, SubmitCount, SubmitRefused, SubmitParks,
        SubmitWithdraws, SubmitRollback, SubmitGoto, flags
  <2>. QED  BY <1>3, <2>1, <2>2, <2>3 DEF SubmitStep
<1>4. ASSUME NEW w \in Workers, WorkerStep(w) PROVE Bounded'
  <2>1. CASE Receive(w)
    <3>1. Len(taskChan') <= Len(taskChan)
      <4>1. taskChan # <<>> /\ Tail(taskChan) \in Seq(Tasks) /\ Len(Tail(taskChan)) = Len(taskChan) - 1
        BY <2>1, <1>s DEF Receive
      <4>2. CASE taskChan' = Tail(taskChan)
        BY <4>1, <4>2, <1>s
      <4>3. ASSUME NEW t \in Tasks, taskChan' = Append(Tail(taskChan), t)
            PROVE  Len(taskChan') <= Len(taskChan)
        BY <4>1, <4>3, <1>s
      <4>. QED  BY <2>1, <4>2, <4>3 DEF Receive
    <3>2. UNCHANGED <<stopped, cancelled, closed, crashed>>
      BY <2>1 DEF Receive, flags
    <3>3. Len(taskChan') \in Int /\ Len(taskChan) \in Int
      <4>1. taskChan' \in Seq(Tasks)
        BY <2>1, <1>s DEF Receive
      <4>. QED  BY <4>1, <1>s
    <3>. QED  BY <3>1, <3>2, <3>3, PoolAssumption DEF Bounded
  <2>2. CASE \/ BeginFn(w) \/ CountFailure(w) \/ WorkerExit(w)
             \/ \E failed \in BOOLEAN : FnReturns(w, failed)
    BY <2>2, <1>1 DEF BeginFn, CountFailure, WorkerExit, FnReturns, WorkerGoto, flags
  <2>. QED  BY <1>4, <2>1, <2>2 DEF WorkerStep
<1>5. ASSUME NEW s \in Stoppers, StopStep(s) PROVE Bounded'
  BY <1>5 DEF StopStep, StopClaim, StopCancel, StopClose, StopReturns, StopTimesOut, StopGoto, Bounded
<1>6. CASE UNCHANGED vars
  BY <1>6, <1>1 DEF vars, flags
<1>. QED  BY <1>2, <1>3, <1>4, <1>5, <1>6 DEF Next

\* Everything keeps its type; in particular the counters stay natural numbers and the
\* channel within its capacity (TypeOK).
THEOREM TypeCorrect == Spec => []TypeOK
<1>1. Init => Bounded
  <2>. SUFFICES ASSUME Init PROVE Bounded
    OBVIOUS
  <2>1. Len(taskChan) = 0 /\ 0 <= QueueSize
    BY DEF Init
  <2>. QED  BY <2>1 DEF Init, Bounded
<1>2. ASSUME Where, Stops, ActiveExact, CountersCover, Bounded PROVE TypeOK
  <2>1. totalJobs \in Nat
    <3>1. \A n \in Nat, m \in Int : n <= m => m \in Nat
      OBVIOUS
    <3>. QED  BY <1>2, <3>1, CountedFinite DEF CountersCover
  <2>2. activeJobs \in Nat /\ failedJobs \in Nat
    BY <1>2, RunningFinite DEF ActiveExact, CountersCover
  <2>3. finished \subseteq Tasks
    BY <1>2 DEF Where, Placed, Accepted
  <2>4. <<stopped, cancelled, closed, crashed>> \in BOOLEAN \X BOOLEAN \X BOOLEAN \X BOOLEAN
    BY <1>2 DEF Bounded
  <2>. QED
    BY <1>2, <2>1, <2>2, <2>3, <2>4
    DEF Where, Shapes, Stops, Bounded, TypeOK, SubmitStates, WorkerStates, StopStates
<1>. QED  BY <1>1, <1>2, BoundedInductive, WhereHolds, StopsHold, CountersHold, PTL DEF Spec, Where

-----------------------------------------------------------------------------
(* Progress of the workers *)

\* What has been cancelled, closed or has panicked, and who has left, was by Stop; a
\* stopped pool is cancelled, or the call of Stop that is to cancel it is under way.
StopLeads ==
    /\ cancelled \/ closed \/ crashed => stopped
    /\ stopped => cancelled \/ \E s \in Stoppers : stopper[s] = "cancel"
    /\ starting \in {"running", "late"} => \A w \in Workers : worker[w] # "unborn"
    /\ (\E w \in Workers : worker[w] = "exited") => stopped

LEMMA StopLeadsInductive == Shapes /\ Stops /\ StopLeads /\ [Next]_vars => StopLeads'
<1>. SUFFICES ASSUME Shapes, Stops, StopLeads, [Next]_vars PROVE StopLeads'
  OBVIOUS
<1>s. worker \in [Workers -> WorkerStates] /\ stopper \in [Stoppers -> StopStates]
  BY DEF Shapes, Stops
<1>1. ASSUME UNCHANGED <<starting, stopped, cancelled, closed, worker, stopper, crashed>>
      PROVE  StopLeads'
  BY <1>1 DEF StopLeads
<1>2. CASE StartClaim
  BY <1>2 DEF StopLeads, StartClaim, workers
<1>3. CASE StartWorkers
  BY <1>3 DEF StopLeads, StartWorkers
<1>4. ASSUME NEW t \in Tasks, SubmitStep(t) PROVE StopLeads'
  <2>1. CASE SubmitPanics(t)
    BY <2>1 DEF StopLeads, SubmitPanics, flags, workers
  <2>2. CASE ~SubmitPanics(t)
    BY <1>4, <2>2, <1>1 DEF SubmitStep, SubmitLoadStopped, SubmitMeasure, SubmitCount, SubmitSend,
        SubmitRefused, SubmitParks, SubmitWithdraws, SubmitRollback, SubmitGoto, flags, workers
  <2>. QED  BY <2>1, <2>2
<1>5. ASSUME NEW w \in Workers, WorkerStep(w) PROVE StopLeads'
  <2>0. UNCHANGED <<starting, stopped, cancelled, closed, stopper, crashed>>
    BY <1>5 DEF WorkerStep, Receive, BeginFn, CountFailure, WorkerExit, FnReturns, WorkerGoto, flags
  <2>1. \A v \in Workers : v # w => worker'[v] = worker[v]
    BY <1>5, <1>s DEF WorkerStep, Receive, BeginFn, CountFailure, WorkerExit, FnReturns, WorkerGoto
  <2>2. worker'[w] # "unborn"
    BY <1>5, <1>s DEF WorkerStep, Receive, BeginFn, CountFailure, WorkerExit, FnReturns, WorkerGoto
  <2>3. worker'[w] = "exited" => closed \/ cancelled
    BY <1>5, <1>s DEF WorkerStep, Receive, BeginFn, CountFailure, WorkerExit, FnReturns, WorkerGoto
  <2>. QED  BY <2>0, <2>1, <2>2, <2>3 DEF StopLeads
<1>6. ASSUME NEW s \in Stoppers, StopStep(s) PROVE StopLeads'
  <2>0. UNCHANGED <<starting, worker, crashed>>
    BY <1>6 DEF StopStep, StopClaim, StopCancel, StopClose, StopReturns, StopTimesOut, StopGoto, workers
  <2>1. \A r \in Stoppers : r # s => stopper'[r] = stopper[r]
    BY <1>6, <1>s DEF StopStep, StopClaim, StopCancel, StopClose, StopReturns, StopTimesOut, StopGoto
  <2>2. CASE StopClaim(s)
    <3>1. /\ stopped' /\ UNCHANGED <<cancelled, closed>> /\ stopper[s] = "uncalled"
          /\ stopper'[s] = IF stopped THEN "already" ELSE "cancel"
      BY <2>2, <1>s DEF StopClaim, StopGoto
    <3>. QED  BY <2>0, <2>1, <3>1 DEF StopLeads
  <2>3. CASE StopCancel(s)
    <3>1. cancelled' /\ UNCHANGED <<stopped, closed>> /\ stopper[s] = "cancel"
      BY <2>3 DEF StopCancel, StopGoto
    <3>2. stopped
      BY <3>1 DEF Stops, StopStates
    <3>. QED  BY <2>0, <3>1, <3>2 DEF StopLeads
  <2>4. CASE StopClose(s)
    <3>1. closed' /\ UNCHANGED <<stopped, cancelled>> /\ stopper[s] = "close"
      BY <2>4 DEF StopClose, StopGoto
    <3>2. stopped
      BY <3>1 DEF Stops, StopStates
    <3>. QED  BY <2>0, <2>1, <3>1, <3>2 DEF StopLeads
  <2>5. CASE StopReturns(s) \/ StopTimesOut(s)
    <3>1. UNCHANGED <<stopped, cancelled, closed>> /\ stopper[s] = "wait"
      BY <2>5 DEF StopReturns, StopTimesOut, StopGoto
    <3>. QED  BY <2>0, <2>1, <3>1 DEF StopLeads
  <2>. QED  BY <1>6, <2>2, <2>3, <2>4, <2>5 DEF StopStep
<1>7. CASE UNCHANGED vars
  BY <1>7, <1>1 DEF vars, flags, workers
<1>. QED  BY <1>2, <1>3, <1>4, <1>5, <1>6, <1>7 DEF Next

\* Nobody but Stop cancels, closes, panics a submission or lets a worker leave.
THEOREM StopLeadsHolds == Spec => []StopLeads
<1>1. Init => StopLeads
  BY DEF Init, StopLeads
<1>. QED  BY <1>1, StopLeadsInductive, WhereHolds, StopsHold, PTL DEF Spec, Where

\* How far a worker is from leaving if it runs every task there is: four steps a task.
StepsTo == [unborn |-> 0, exited |-> 0, running |-> 1, received |-> 2, select |-> 3, failed |-> 4]
WorkLeft(w) == 4 * Cardinality(Tasks \ finished) + StepsTo[worker[w]]

\* Every step of a worker brings it nearer to leaving, and no step of another one, of
\* a submission or of Stop takes it away from there.
WorkRunsDown ==
    \A w \in Workers :
        /\ WorkerStep(w) => WorkLeft(w)' < WorkLeft(w)
        /\ worker[w] # "unborn" => WorkLeft(w)' <= WorkLeft(w)

LEMMA StepsToIs ==
    \A p \in WorkerStates : StepsTo[p] \in 0 .. 4
BY DEF WorkerStates, StepsTo

LEMMA UnfinishedFinite == IsFiniteSet(Tasks \ finished) /\ Cardinality(Tasks \ finished) \in Nat
<1>1. IsFiniteSet(Tasks \ finished)
  BY FS_Subset
<1>. QED  BY <1>1, FS_CardinalityType

LEMMA WorkLeftIsNat == ASSUME Shapes, NEW w \in Workers PROVE WorkLeft(w) \in Nat
BY StepsToIs, UnfinishedFinite DEF Shapes, WorkLeft

\* A worker's step ends a task or brings the worker on.
LEMMA WorkerLessens ==
    ASSUME Where, NEW w \in Workers, WorkerStep(w)
    PROVE  \A v \in Workers : /\ v = w => WorkLeft(v)' < WorkLeft(v)
                              /\ WorkLeft(v)' <= WorkLeft(v)
<1>i. Shapes /\ Placed
  BY DEF Where
<1>s. worker \in [Workers -> WorkerStates]
  BY <1>i DEF Shapes
<1> DEFINE Unfinished == Cardinality(Tasks \ finished)
<1>n. Unfinished \in Nat
  BY UnfinishedFinite
<1>1. /\ \A v \in Workers : v # w => worker'[v] = worker[v]
      /\ worker' \in [Workers -> WorkerStates]
  BY <1>s DEF WorkerStep, Receive, BeginFn, CountFailure, WorkerExit, FnReturns, WorkerGoto, WorkerStates
<1>2. \A v \in Workers : StepsTo[worker[v]] \in 0 .. 4 /\ StepsTo[worker'[v]] \in 0 .. 4
  BY <1>1, <1>s, StepsToIs
<1>3. CASE Receive(w) \/ BeginFn(w) \/ CountFailure(w) \/ WorkerExit(w)
  <2>1. finished' = finished
    BY <1>3 DEF Receive, BeginFn, CountFailure, WorkerExit
  <2>2. StepsTo[worker'[w]] < StepsTo[worker[w]]
    BY <1>3, <1>s DEF Receive, BeginFn, CountFailure, WorkerExit, WorkerGoto, StepsTo
  <2>. HIDE DEF StepsTo
  <2>. QED  BY <1>n, <1>1, <1>2, <2>1, <2>2 DEF WorkLeft
<1>4. ASSUME NEW failed \in BOOLEAN, FnReturns(w, failed)
      PROVE  \A v \in Workers : /\ v = w => WorkLeft(v)' < WorkLeft(v)
                                /\ WorkLeft(v)' <= WorkLeft(v)
  <2>1. worker[w] = "running" /\ finished' = finished \cup {holds[w]} /\ worker'[w] \in {"failed", "select"}
    BY <1>4, <1>s DEF FnReturns, WorkerGoto
  <2>2. holds[w] \in Tasks \ finished
    BY <2>1, <1>i DEF Shapes, Placed, Busy, Held
  <2>3. Tasks \ finished' = (Tasks \ finished) \ {holds[w]}
    BY <2>1
  <2>4. Cardinality(Tasks \ finished') = Unfinished - 1
    <3> DEFINE left == Tasks \ finished
    <3>1. Cardinality(left \ {holds[w]}) = Cardinality(left) - 1
      <4>1. IsFiniteSet(left) /\ holds[w] \in left
        BY <2>2, UnfinishedFinite
      <4>. HIDE DEF left
      <4>. QED  BY <4>1, FS_RemoveElement
    <3>. QED  BY <2>3, <3>1
  <2>5. StepsTo[worker[w]] = 1
    BY <2>1 DEF StepsTo
  <2>. QED  BY <1>n, <1>1, <1>2, <2>4, <2>5 DEF WorkLeft
<1>. QED  BY <1>3, <1>4 DEF WorkerStep

LEMMA StepRunsDown == Where /\ [Next]_vars => WorkRunsDown
<1>. SUFFICES ASSUME Where, [Next]_vars PROVE WorkRunsDown
  OBVIOUS
<1>i. Shapes
  BY DEF Where
<1>1. ASSUME NEW w \in Workers, WorkerStep(w) PROVE WorkLeft(w)' < WorkLeft(w)
  BY <1>1, WorkerLessens
<1>2. ASSUME UNCHANGED workers, NEW w \in Workers PROVE WorkLeft(w)' <= WorkLeft(w)
  <2>1. WorkLeft(w)' = WorkLeft(w)
    BY <1>2 DEF workers, WorkLeft
  <2>. QED  BY <2>1, <1>i, WorkLeftIsNat
<1>3. ASSUME NEW w \in Workers, worker[w] # "unborn" PROVE WorkLeft(w)' <= WorkLeft(w)
  <2>1. CASE StartClaim \/ UNCHANGED vars
    BY <2>1, <1>2 DEF StartClaim, vars
  <2>2. CASE StartWorkers
    BY <2>2, <1>3, <1>i DEF StartWorkers, Shapes
  <2>3. ASSUME NEW t \in Tasks, SubmitStep(t) PROVE WorkLeft(w)' <= WorkLeft(w)
    BY <2>3, <1>2 DEF SubmitStep, SubmitLoadStopped, SubmitMeasure, SubmitCount, SubmitSend,
        SubmitPanics, SubmitRefused, SubmitParks, SubmitWithdraws, SubmitRollback, SubmitGoto
  <2>4. ASSUME NEW v \in Workers, WorkerStep(v) PROVE WorkLeft(w)' <= WorkLeft(w)
    BY <2>4, WorkerLessens
  <2>5. ASSUME NEW s \in Stoppers, StopStep(s) PROVE WorkLeft(w)' <= WorkLeft(w)
    BY <2>5, <1>2 DEF StopStep, StopClaim, StopCancel, StopClose, StopReturns, StopTimesOut, StopGoto
  <2>. QED  BY <2>1, <2>2, <2>3, <2>4, <2>5 DEF Next
<1>. QED  BY <1>1, <1>3 DEF WorkRunsDown

\* A worker takes a bounded number of steps, whatever the others do: four for each
\* unfinished task and four more.
THEOREM WorkersRunDown == Spec => [][WorkRunsDown]_vars
<1>. QED  BY WhereHolds, StepRunsDown, PTL DEF Spec

\* What a worker waits for: in its select, a task, or the end of the pool.
CanStep(w) ==
    \/ worker[w] \in {"received", "running", "failed"}
    \/ worker[w] = "select" /\ (taskChan # <<>> \/ closed \/ cancelled)

\* Weak fairness of the worker's steps: CanStep is their guard.
WorkerGoesOn(w) ==
    []<>(crashed \/ ~CanStep(w)) \/ []<><<~crashed /\ WorkerStep(w)>>_vars

\* No worker turns back once the pool is cancelled.
Leaving(w) == cancelled /\ worker[w] \notin {"unborn", "exited"}

LEMMA StaysCancelled ==
    ASSUME Shapes, NEW w \in Workers, Leaving(w), [Next]_vars
    PROVE  Leaving(w)' \/ worker'[w] = "exited"
<1>s. worker \in [Workers -> WorkerStates]
  BY DEF Shapes
<1>1. CASE StartClaim \/ StartWorkers \/ UNCHANGED vars
  BY <1>1 DEF Shapes, Leaving, StartClaim, StartWorkers, vars, flags, workers
<1>2. ASSUME NEW t \in Tasks, SubmitStep(t) PROVE Leaving(w)'
  BY <1>2 DEF Leaving, SubmitStep, SubmitLoadStopped, SubmitMeasure, SubmitCount, SubmitSend,
      SubmitPanics, SubmitRefused, SubmitParks, SubmitWithdraws, SubmitRollback, SubmitGoto,
      flags, workers
<1>3. ASSUME NEW v \in Workers, WorkerStep(v) PROVE Leaving(w)' \/ worker'[w] = "exited"
  BY <1>3, <1>s DEF Leaving, WorkerStep, Receive, BeginFn, CountFailure, WorkerExit, FnReturns,
      WorkerGoto, flags
<1>4. ASSUME NEW s \in Stoppers, StopStep(s) PROVE Leaving(w)'
  BY <1>4 DEF Leaving, StopStep, StopClaim, StopCancel, StopClose, StopReturns, StopTimesOut,
      StopGoto, workers
<1>. QED  BY <1>1, <1>2, <1>3, <1>4 DEF Next

\* Once the pool is cancelled a worker that goes on, with so much left, has less
\* before long, or has exited, or a submission has panicked. By induction on that
\* number every worker exits (the second half of WorkersExit).
THEOREM WorkerGetsOut ==
    \A w \in Workers : \A n \in Nat :
        Spec /\ WorkerGoesOn(w) =>
            (Leaving(w) /\ WorkLeft(w) = n
                ~> crashed \/ worker[w] = "exited" \/ (Leaving(w) /\ WorkLeft(w) < n))
<1>. SUFFICES ASSUME NEW w \in Workers, NEW n \in Nat
              PROVE  Spec /\ WorkerGoesOn(w) =>
                        (Leaving(w) /\ WorkLeft(w) = n
                            ~> crashed \/ worker[w] = "exited" \/ (Leaving(w) /\ WorkLeft(w) < n))
  OBVIOUS
<1> DEFINE Here == Leaving(w) /\ WorkLeft(w) = n
           Less == worker[w] = "exited" \/ (Leaving(w) /\ WorkLeft(w) < n)
<1>1. Where /\ Here /\ [Next]_vars => Here' \/ Less'
  <2>. SUFFICES ASSUME Where, Here, [Next]_vars PROVE Here' \/ Less'
    OBVIOUS
  <2>1. Shapes /\ Shapes'
    BY WhereInductive DEF Where
  <2>2. WorkLeft(w)' <= n
    BY StepRunsDown DEF WorkRunsDown, Leaving
  <2>3. WorkLeft(w)' \in Nat
    <3>1. IsFiniteSet(Tasks \ finished') /\ Cardinality(Tasks \ finished') \in Nat
      BY FS_Subset, FS_CardinalityType
    <3>2. StepsTo[worker'[w]] \in Nat
      BY <2>1, StepsToIs DEF Shapes
    <3>. QED  BY <3>1, <3>2 DEF WorkLeft
  <2>4. Leaving(w)' \/ worker'[w] = "exited"
    BY <2>1, StaysCancelled
  <2>. QED  BY <2>2, <2>3, <2>4
<1>2. Where /\ Here /\ [Next]_vars /\ <<~crashed /\ WorkerStep(w)>>_vars => Less'
  <2>. SUFFICES ASSUME Where, Here, [Next]_vars, WorkerStep(w) PROVE Less'
    OBVIOUS
  <2>1. Shapes
    BY DEF Where
  <2>2. WorkLeft(w)' < n
    BY WorkerLessens
  <2>. QED  BY <2>1, <2>2, StaysCancelled
<1>3. Where /\ Here => CanStep(w)
  BY DEF Where, Shapes, WorkerStates, Leaving, CanStep
<1>. QED  BY <1>1, <1>2, <1>3, WhereHolds, PTL DEF Spec, WorkerGoesOn

\* Weak fairness of a call of Stop that has still to cancel or to close.
StopperGoesOn(s) ==
    \/ []<>(crashed \/ stopper[s] \notin {"cancel", "close"})
    \/ []<><<~crashed /\ (StopCancel(s) \/ StopClose(s))>>_vars

\* The call of Stop that is to cancel the pool does (the first half of WorkersExit:
\* StopLeads has one such call in every pool that is stopped and not yet cancelled).
THEOREM StopCancels ==
    \A s \in Stoppers :
        Spec /\ StopperGoesOn(s) => (stopper[s] = "cancel" ~> crashed \/ cancelled)
<1>. SUFFICES ASSUME NEW s \in Stoppers
              PROVE  Spec /\ StopperGoesOn(s) => (stopper[s] = "cancel" ~> crashed \/ cancelled)
  OBVIOUS
<1>1. Stops /\ stopper[s] = "cancel" /\ [Next]_vars => (stopper[s] = "cancel")' \/ cancelled'
  <2>. SUFFICES ASSUME Stops, stopper[s] = "cancel", [Next]_vars
                PROVE  stopper'[s] = "cancel" \/ cancelled'
    OBVIOUS
  <2>s. stopper \in [Stoppers -> StopStates]
    BY DEF Stops
  <2>1. CASE StartClaim \/ StartWorkers \/ UNCHANGED vars
    BY <2>1 DEF StartClaim, StartWorkers, vars
  <2>2. ASSUME NEW t \in Tasks, SubmitStep(t) PROVE stopper'[s] = "cancel"
    BY <2>2 DEF SubmitStep, SubmitLoadStopped, SubmitMeasure, SubmitCount, SubmitSend, SubmitPanics,
        SubmitRefused, SubmitParks, SubmitWithdraws, SubmitRollback, SubmitGoto
  <2>3. ASSUME NEW w \in Workers, WorkerStep(w) PROVE stopper'[s] = "cancel"
    BY <2>3 DEF WorkerStep, Receive, BeginFn, CountFailure, WorkerExit, FnReturns, WorkerGoto
  <2>4. ASSUME NEW r \in Stoppers, StopStep(r) PROVE stopper'[s] = "cancel" \/ cancelled'
    BY <2>4, <2>s DEF StopStep, StopClaim, StopCancel, StopClose, StopReturns, StopTimesOut, StopGoto
  <2>. QED  BY <2>1, <2>2, <2>3, <2>4 DEF Next
<1>2. stopper[s] = "cancel" /\ <<~crashed /\ (StopCancel(s) \/ StopClose(s))>>_vars => cancelled'
  BY DEF StopCancel, StopClose, StopGoto
<1>3. stopper[s] = "cancel" => ~(stopper[s] \notin {"cancel", "close"})
  OBVIOUS
<1>. QED  BY <1>1, <1>2, <1>3, StopsHold, PTL DEF Spec, StopperGoesOn

-----------------------------------------------------------------------------
(* Progress of the tasks *)

Waits(t, k) == starting = "running" /\ k \in DOMAIN taskChan /\ taskChan[k] = t
WithWorker(t) == \E w \in Workers : holds[w] = t

\* The channel is served in order: a task keeps its place, moves up by one, or goes
\* from the first place to a worker; nothing else takes it out.
FirstInFirstOut ==
    \A t \in Tasks : \A k \in Nat :
        Waits(t, k) => Waits(t, k)' \/ (k > 1 /\ Waits(t, k - 1)') \/ (k = 1 /\ WithWorker(t)')

\* Receiving moves everybody up.
LEMMA ReceiveMovesUp ==
    ASSUME Shapes, NEW w \in Workers, Receive(w), NEW t \in Tasks, NEW k \in Nat, Waits(t, k)
    PROVE  (k > 1 /\ Waits(t, k - 1)') \/ (k = 1 /\ WithWorker(t)')
<1> DEFINE r == Tail(taskChan)
<1>1. /\ taskChan \in Seq(Tasks) /\ taskChan # <<>> /\ starting' = starting
      /\ holds \in [Workers -> Tasks \cup {NoTask}]
      /\ holds' = [holds EXCEPT ![w] = Head(taskChan)]
  BY DEF Shapes, Receive, flags
<1>2. k \in 1 .. Len(taskChan) /\ taskChan[k] = t /\ starting = "running"
  BY <1>1 DEF Waits
<1>3. CASE k = 1
  <2>1. Head(taskChan) = t
    BY <1>1, <1>2, <1>3
  <2>2. holds'[w] = t
    BY <1>1, <2>1
  <2>. QED  BY <1>3, <2>2 DEF WithWorker
<1>4. CASE k > 1
  <2>1. /\ r \in Seq(Tasks) /\ Len(r) = Len(taskChan) - 1 /\ Len(r) \in Nat
        /\ k - 1 \in 1 .. Len(r) /\ r[k - 1] = t
    BY <1>1, <1>2, <1>4
  <2>2. taskChan' = r \/ \E u \in Tasks : taskChan' = Append(r, u)
    BY DEF Receive
  <2>. HIDE DEF r
  <2>3. ASSUME NEW u \in Tasks PROVE k - 1 \in DOMAIN Append(r, u) /\ Append(r, u)[k - 1] = t
    BY <2>1
  <2>4. k - 1 \in DOMAIN r
    BY <2>1
  <2>5. k - 1 \in DOMAIN taskChan' /\ taskChan'[k - 1] = t
    BY <2>1, <2>2, <2>3, <2>4
  <2>. QED  BY <1>1, <1>2, <1>4, <2>5 DEF Waits
<1>. QED  BY <1>2, <1>3, <1>4

LEMMA StepMovesUp == Where /\ [Next]_vars => FirstInFirstOut
<1>. SUFFICES ASSUME Where, [Next]_vars, NEW t \in Tasks, NEW k \in Nat, Waits(t, k)
              PROVE  Waits(t, k)' \/ (k > 1 /\ Waits(t, k - 1)') \/ (k = 1 /\ WithWorker(t)')
  BY DEF FirstInFirstOut
<1>i. Shapes /\ taskChan \in Seq(Tasks)
  BY DEF Where, Shapes
<1>1. ASSUME UNCHANGED <<starting, taskChan>> PROVE Waits(t, k)'
  BY <1>1 DEF Waits
<1>2. CASE StartClaim \/ StartWorkers
  BY <1>2 DEF Waits, StartClaim, StartWorkers
<1>3. ASSUME NEW u \in Tasks, SubmitStep(u) PROVE Waits(t, k)'
  <2>1. CASE SubmitSend(u)
    <3>1. taskChan' = Append(taskChan, u) /\ starting' = starting
      BY <2>1 DEF SubmitSend, SubmitGoto, flags
    <3>2. k \in 1 .. Len(taskChan) /\ taskChan[k] = t /\ Len(taskChan) \in Nat
      BY <1>i DEF Waits
    <3>3. k \in DOMAIN Append(taskChan, u) /\ Append(taskChan, u)[k] = t
      BY <1>i, <3>2
    <3>. QED  BY <3>1, <3>3 DEF Waits
  <2>2. CASE ~SubmitSend(u)
    BY <1>3, <2>2, <1>1 DEF SubmitStep, SubmitLoadStopped, SubmitMeasure, SubmitCount, SubmitPanics,
        SubmitRefused, SubmitParks, SubmitWithdraws, SubmitRollback, SubmitGoto, flags
  <2>. QED  BY <2>1, <2>2
<1>4. ASSUME NEW w \in Workers, WorkerStep(w)
      PROVE  Waits(t, k)' \/ (k > 1 /\ Waits(t, k - 1)') \/ (k = 1 /\ WithWorker(t)')
  <2>1. CASE Receive(w)
    BY <2>1, <1>i, ReceiveMovesUp
  <2>2. CASE ~Receive(w)
    BY <1>4, <2>2, <1>1 DEF WorkerStep, BeginFn, CountFailure, WorkerExit, FnReturns, WorkerGoto, flags
  <2>. QED  BY <2>1, <2>2
<1>5. ASSUME NEW s \in Stoppers, StopStep(s) PROVE Waits(t, k)'
  BY <1>5, <1>1 DEF StopStep, StopClaim, StopCancel, StopClose, StopReturns, StopTimesOut, StopGoto
<1>6. CASE UNCHANGED vars
  BY <1>6, <1>1 DEF vars, flags
<1>. QED  BY <1>2, <1>3, <1>4, <1>5, <1>6 DEF Next

\* Tasks leave the channel in the order in which they came, and only to a worker.
THEOREM ServedInOrder == Spec => [][FirstInFirstOut]_vars
<1>. QED  BY WhereHolds, StepMovesUp, PTL DEF Spec

\* The steps a worker has to take before it next looks at the channel, and that one.
TurnOf == [unborn |-> 0, exited |-> 0, select |-> 1, failed |-> 2, running |-> 3, received |-> 4]
Turn(w) == TurnOf[worker[w]]

LEMMA TurnOfIs == \A p \in WorkerStates : TurnOf[p] \in 0 .. 4
BY DEF WorkerStates, TurnOf

\* A worker of a running pool comes to its turn step by step.
LEMMA TurnComes ==
    ASSUME Shapes, StopLeads, starting = "running", ~stopped, NEW w \in Workers, NEW v \in Workers,
           WorkerStep(v), ~Receive(v)
    PROVE  Turn(w)' <= Turn(w) /\ (v = w => Turn(w)' < Turn(w))
<1>s. worker \in [Workers -> WorkerStates]
  BY DEF Shapes
<1>1. CASE v # w
  <2>1. worker'[w] = worker[w]
    BY <1>1, <1>s DEF WorkerStep, Receive, BeginFn, CountFailure, WorkerExit, FnReturns, WorkerGoto
  <2>2. Turn(w)' = Turn(w) /\ Turn(w) \in Nat
    BY <2>1, <1>s, TurnOfIs DEF Turn
  <2>. QED  BY <1>1, <2>2
<1>2. CASE v = w
  <2>1. ~WorkerExit(v)
    BY DEF WorkerExit, StopLeads
  <2>2. CASE BeginFn(w) \/ CountFailure(w)
    BY <1>2, <2>2, <1>s DEF BeginFn, CountFailure, WorkerGoto, Turn, TurnOf
  <2>3. ASSUME NEW failed \in BOOLEAN, FnReturns(w, failed) PROVE Turn(w)' < Turn(w)
    <3>1. worker[w] = "running" /\ worker'[w] \in {"failed", "select"}
      BY <2>3, <1>s DEF FnReturns, WorkerGoto
    <3>. QED  BY <3>1 DEF Turn, TurnOf
  <2>4. Turn(w)' < Turn(w)
    BY <1>2, <2>1, <2>2, <2>3 DEF WorkerStep
  <2>5. Turn(w) \in Nat /\ Turn(w)' \in Nat
    <3>1. worker' \in [Workers -> WorkerStates]
      BY <1>2, <1>s DEF WorkerStep, Receive, BeginFn, CountFailure, WorkerExit, FnReturns, WorkerGoto,
          WorkerStates
    <3>. QED  BY <3>1, <1>s, TurnOfIs DEF Turn
  <2>. QED  BY <2>4, <2>5
<1>. QED  BY <1>1, <1>2

\* While a task waits in a running pool, each step keeps the workers' turns, or the
\* task moves up.
LEMMA TurnKept ==
    ASSUME Where, StopLeads, NEW w \in Workers, NEW t \in Tasks, NEW k \in Nat, Waits(t, k), ~stopped,
           [Next]_vars
    PROVE  \/ stopped' \/ WithWorker(t)' \/ (k > 1 /\ Waits(t, k - 1)')
           \/ Waits(t, k)' /\ Turn(w)' <= Turn(w) /\ (WorkerStep(w) => Turn(w)' < Turn(w))
<1>i. Shapes /\ worker \in [Workers -> WorkerStates] /\ starting = "running"
  BY DEF Where, Shapes, Waits
<1>1. Waits(t, k)' \/ (k > 1 /\ Waits(t, k - 1)') \/ (k = 1 /\ WithWorker(t)')
  BY StepMovesUp DEF FirstInFirstOut
<1>2. ASSUME NEW v \in Workers, Receive(v)
      PROVE  WithWorker(t)' \/ (k > 1 /\ Waits(t, k - 1)')
  BY <1>2, <1>i, ReceiveMovesUp
<1>3. ASSUME NEW v \in Workers, WorkerStep(v), ~Receive(v)
      PROVE  Turn(w)' <= Turn(w) /\ (v = w => Turn(w)' < Turn(w))
  BY <1>3, <1>i, TurnComes
<1>4. ASSUME UNCHANGED worker PROVE Turn(w)' <= Turn(w)
  <2>1. Turn(w)' = Turn(w) /\ Turn(w) \in Nat
    BY <1>4, <1>i, TurnOfIs DEF Turn
  <2>. QED  BY <2>1
<1>5. ASSUME UNCHANGED worker PROVE ~WorkerStep(w)
  BY <1>5, <1>i DEF WorkerStep, Receive, BeginFn, CountFailure, WorkerExit, FnReturns, WorkerGoto
<1>6. CASE StartClaim \/ UNCHANGED vars
  BY <1>1, <1>4, <1>5, <1>6 DEF StartClaim, vars, workers
<1>7. ~StartWorkers
  BY <1>i DEF StartWorkers
<1>8. ASSUME NEW u \in Tasks, SubmitStep(u) PROVE UNCHANGED worker
  BY <1>8 DEF SubmitStep, SubmitLoadStopped, SubmitMeasure, SubmitCount, SubmitSend, SubmitPanics,
      SubmitRefused, SubmitParks, SubmitWithdraws, SubmitRollback, SubmitGoto, workers
<1>9. ASSUME NEW s \in Stoppers, StopStep(s) PROVE UNCHANGED worker
  BY <1>9 DEF StopStep, StopClaim, StopCancel, StopClose, StopReturns, StopTimesOut, StopGoto, workers
<1>10. ASSUME NEW v \in Workers, WorkerStep(v)
       PROVE  \/ WithWorker(t)' \/ (k > 1 /\ Waits(t, k - 1)')
              \/ Turn(w)' <= Turn(w) /\ (WorkerStep(w) => Turn(w)' < Turn(w))
  <2>1. CASE \E u \in Workers : Receive(u)
    BY <2>1, <1>2
  <2>2. CASE ~\E u \in Workers : Receive(u)
    BY <1>10, <2>2, <1>3
  <2>. QED  BY <2>1, <2>2
<1>. QED  BY <1>1, <1>4, <1>5, <1>6, <1>7, <1>8, <1>9, <1>10 DEF Next

\* In a running pool one worker that goes on is enough: a waiting task moves up, or
\* from the first place to a worker, unless the pool is stopped. By induction on its
\* place every accepted task reaches a worker (the first half of AcceptedRuns).
THEOREM TaskMovesUp ==
    \A w \in Workers : \A t \in Tasks : \A k \in Nat :
        Spec /\ WorkerGoesOn(w) =>
            (Waits(t, k) ~> stopped \/ WithWorker(t) \/ (k > 1 /\ Waits(t, k - 1)))
<1>. SUFFICES ASSUME NEW w \in Workers, NEW t \in Tasks, NEW k \in Nat
              PROVE  Spec /\ WorkerGoesOn(w) =>
                        (Waits(t, k) ~> stopped \/ WithWorker(t) \/ (k > 1 /\ Waits(t, k - 1)))
  OBVIOUS
<1> DEFINE Moved == stopped \/ WithWorker(t) \/ (k > 1 /\ Waits(t, k - 1))
           Steps == Turn(w)
           Inv == Where /\ StopLeads
<1>1. Inv /\ Waits(t, k) /\ ~Moved => ~crashed /\ CanStep(w) /\ Steps <= 4 /\ ~(Steps <= 0)
  <2>. SUFFICES ASSUME Inv, Waits(t, k), ~stopped
                PROVE  ~crashed /\ CanStep(w) /\ Steps <= 4 /\ ~(Steps <= 0)
    OBVIOUS
  <2>1. worker[w] \in {"select", "received", "running", "failed"}
    BY DEF Where, Shapes, WorkerStates, Waits, StopLeads
  <2>2. taskChan # <<>>
    BY DEF Waits
  <2>3. ~crashed
    BY DEF StopLeads
  <2>. QED  BY <2>1, <2>2, <2>3 DEF CanStep, Turn, TurnOf
<1>2. Inv /\ Waits(t, k) /\ ~Moved /\ [Next]_vars =>
          \/ Moved'
          \/ /\ Waits(t, k)'
             /\ Steps <= 1 => (Steps <= 1)'
             /\ Steps <= 2 => (Steps <= 2)'
             /\ Steps <= 3 => (Steps <= 3)'
  <2>. SUFFICES ASSUME Inv, Waits(t, k), ~Moved, [Next]_vars, ~Moved', NEW j \in 1 .. 3
                PROVE  Waits(t, k)' /\ (Steps <= j => Steps' <= j)
    OBVIOUS
  <2>1. Waits(t, k)' /\ Steps' <= Steps
    BY TurnKept
  <2>2. Steps \in Nat /\ Steps' \in Nat
    <3>1. Shapes /\ Shapes'
      BY WhereInductive DEF Where
    <3>2. worker[w] \in WorkerStates /\ worker'[w] \in WorkerStates
      BY <3>1 DEF Shapes
    <3>. QED  BY <3>2, TurnOfIs DEF Turn
  <2>. HIDE DEF Steps
  <2>. QED  BY <2>1, <2>2
<1>3. Inv /\ Waits(t, k) /\ ~Moved /\ [Next]_vars /\ <<~crashed /\ WorkerStep(w)>>_vars =>
          \/ Moved'
          \/ /\ Steps <= 1 => (Steps <= 0)'
             /\ Steps <= 2 => (Steps <= 1)'
             /\ Steps <= 3 => (Steps <= 2)'
             /\ Steps <= 4 => (Steps <= 3)'
  <2>. SUFFICES ASSUME Inv, Waits(t, k), ~Moved, [Next]_vars, WorkerStep(w), ~Moved', NEW j \in 1 .. 4
                PROVE  Steps <= j => Steps' <= j - 1
    OBVIOUS
  <2>1. Steps' < Steps
    BY TurnKept
  <2>2. Steps \in Nat /\ Steps' \in Nat
    <3>1. Shapes /\ Shapes'
      BY WhereInductive DEF Where
    <3>2. worker[w] \in WorkerStates /\ worker'[w] \in WorkerStates
      BY <3>1 DEF Shapes
    <3>. QED  BY <3>2, TurnOfIs DEF Turn
  <2>. HIDE DEF Steps
  <2>. QED  BY <2>1, <2>2
<1>. HIDE DEF Steps, Moved
<1>4. Spec => []Inv
  BY WhereHolds, StopLeadsHolds, PTL
<1>5. Spec /\ WorkerGoesOn(w) => (Waits(t, k) ~> Moved)
  <2>. HIDE DEF Inv
  <2>. QED  BY <1>1, <1>2, <1>3, <1>4, PTL DEF Spec, WorkerGoesOn
<1>. QED  BY <1>5 DEF Moved

\* A worker that has received a task keeps it until it has run it.
LEMMA KeepsItsTask ==
    ASSUME Where, NEW w \in Workers, NEW t \in Tasks, holds[w] = t, [Next]_vars
    PROVE  /\ t \in finished' \/ (holds'[w] = t /\ (worker[w] = "running" => worker'[w] = "running"))
           /\ WorkerStep(w) => t \in finished' \/ (worker[w] = "received" /\ worker'[w] = "running")
<1>s. /\ worker \in [Workers -> WorkerStates] /\ holds \in [Workers -> Tasks \cup {NoTask}]
      /\ starting \in {"no", "claimed"} => worker[w] = "unborn"
  BY DEF Where, Shapes
<1>1. worker[w] \in {"received", "running"}
  BY DEF Where, Placed, Busy
<1>2. ASSUME UNCHANGED workers
      PROVE  /\ holds'[w] = t /\ worker'[w] = worker[w] /\ ~WorkerStep(w)
  BY <1>2, <1>s DEF workers, WorkerStep, Receive, BeginFn, CountFailure, WorkerExit, FnReturns, WorkerGoto
<1>3. CASE StartClaim \/ UNCHANGED vars
  BY <1>2, <1>3 DEF StartClaim, vars
<1>4. ~StartWorkers
  BY <1>1, <1>s DEF StartWorkers
<1>5. ASSUME NEW u \in Tasks, SubmitStep(u) PROVE UNCHANGED workers
  BY <1>5 DEF SubmitStep, SubmitLoadStopped, SubmitMeasure, SubmitCount, SubmitSend, SubmitPanics,
      SubmitRefused, SubmitParks, SubmitWithdraws, SubmitRollback, SubmitGoto
<1>6. ASSUME NEW s \in Stoppers, StopStep(s) PROVE UNCHANGED workers
  BY <1>6 DEF StopStep, StopClaim, StopCancel, StopClose, StopReturns, StopTimesOut, StopGoto
<1>7. ASSUME NEW v \in Workers, WorkerStep(v), v # w
      PROVE  holds'[w] = t /\ worker'[w] = worker[w]
  BY <1>7, <1>s DEF WorkerStep, Receive, BeginFn, CountFailure, WorkerExit, FnReturns, WorkerGoto
<1>8. ASSUME WorkerStep(w)
      PROVE  \/ t \in finished'
             \/ holds'[w] = t /\ worker[w] = "received" /\ worker'[w] = "running"
  <2>1. CASE BeginFn(w)
    BY <2>1, <1>s DEF BeginFn, WorkerGoto
  <2>2. ASSUME NEW failed \in BOOLEAN, FnReturns(w, failed) PROVE t \in finished'
    BY <2>2 DEF FnReturns
  <2>3. ~Receive(w) /\ ~CountFailure(w) /\ ~WorkerExit(w)
    BY <1>1 DEF Receive, CountFailure, WorkerExit, WorkerGoto
  <2>. QED  BY <1>8, <2>1, <2>2, <2>3 DEF WorkerStep
<1>9. CASE WorkerStep(w)
  BY <1>8, <1>9
<1>10. CASE ~WorkerStep(w)
  BY <1>2, <1>3, <1>4, <1>5, <1>6, <1>7, <1>10 DEF Next
<1>. QED  BY <1>9, <1>10

\* A task that a worker has received runs to its end, in two steps of that worker,
\* whether or not the pool is stopped (the second half of AcceptedRuns).
THEOREM HeldTaskRuns ==
    \A w \in Workers : \A t \in Tasks :
        Spec /\ WorkerGoesOn(w) => (holds[w] = t ~> crashed \/ t \in finished)
<1>. SUFFICES ASSUME NEW w \in Workers, NEW t \in Tasks
              PROVE  Spec /\ WorkerGoesOn(w) => (holds[w] = t ~> crashed \/ t \in finished)
  OBVIOUS
<1> DEFINE Has == holds[w] = t
           Runs == worker[w] = "running"
           Ran == t \in finished
<1>1. Where /\ Has /\ [Next]_vars => Ran' \/ (Has' /\ (Runs => Runs'))
  BY KeepsItsTask
<1>2. Where /\ Has /\ [Next]_vars /\ <<~crashed /\ WorkerStep(w)>>_vars => Ran' \/ (~Runs /\ Runs')
  BY KeepsItsTask
<1>3. Where /\ Has => CanStep(w)
  BY DEF Where, Placed, Busy, CanStep
<1>. QED  BY <1>1, <1>2, <1>3, WhereHolds, PTL DEF Spec, WorkerGoesOn
=============================================================================
