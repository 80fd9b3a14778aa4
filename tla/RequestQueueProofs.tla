------------------------- MODULE RequestQueueProofs -------------------------
(***************************************************************************)
(* The safety of the request queue on its pool, for any items, priorities, *)
(* workers, capacities and numbers of retries and requeues.                *)
(***************************************************************************)
EXTENDS RequestQueue, WorkerPoolProofs, SequenceTheorems, WellFoundedInduction

-----------------------------------------------------------------------------
(* Numbers and sequences *)

\* A finite set of numbers has a largest element.
LEMMA Largest ==
    ASSUME NEW S, S \subseteq Nat, S # {}, IsFiniteSet(S)
    PROVE  \E n \in S : \A m \in S : m <= n
<1> DEFINE R == StrictSubsetOrdering(S)
           Bad == {T \in FiniteSubsetsOf(S) : T # {} /\ ~ \E n \in T : \A m \in T : m <= n}
<1>1. Bad = {}
  <2>. SUFFICES ASSUME Bad # {} PROVE FALSE
    OBVIOUS
  <2>1. IsWellFoundedOn(R, FiniteSubsetsOf(S)) /\ Bad \subseteq FiniteSubsetsOf(S)
    BY FS_StrictSubsetOrderingWellFounded
  <2>. HIDE DEF Bad, R
  <2>2. PICK T \in Bad : \A U \in Bad : <<U, T>> \notin R
    BY <2>1, WFMin
  <2>3. T \subseteq S /\ IsFiniteSet(T) /\ T # {} /\ ~ \E n \in T : \A m \in T : m <= n
    BY DEF Bad, FiniteSubsetsOf
  <2>4. PICK a : a \in T
    BY <2>3
  <2> DEFINE U == T \ {a}
  <2>5. IsFiniteSet(U) /\ U \subseteq S /\ U \subseteq T /\ U # T
    BY <2>3, <2>4, FS_RemoveElement
  <2>6. <<U, T>> \in R
    BY <2>3, <2>5 DEF R, StrictSubsetOrdering
  <2>7. U # {}
    BY <2>3, <2>4
  <2>8. U \notin Bad
    BY <2>2, <2>6
  <2>9. PICK n \in U : \A m \in U : m <= n
    BY <2>5, <2>7, <2>8 DEF Bad, FiniteSubsetsOf
  <2>10. a \in Nat /\ n \in Nat /\ T \subseteq Nat
    BY <2>3, <2>4, <2>5
  <2>11. CASE a <= n
    BY <2>3, <2>5, <2>9, <2>11
  <2>12. CASE n <= a
    BY <2>3, <2>4, <2>9, <2>10, <2>12
  <2>. QED  BY <2>10, <2>11, <2>12
<1>2. S \in FiniteSubsetsOf(S)
  BY DEF FiniteSubsetsOf
<1>. HIDE DEF R
<1>. QED  BY <1>1, <1>2

\* A sequence without its k-th element, element by element.
Without(q, k, r) ==
    /\ Len(r) = Len(q) - 1
    /\ \A i \in 1 .. Len(q) - 1 : r[i] = IF i < k THEN q[i] ELSE q[i + 1]

LEMMA CutOut ==
    ASSUME NEW S, NEW q \in Seq(S), NEW k \in 1 .. Len(q)
    PROVE  /\ SubSeq(q, 1, k - 1) \o SubSeq(q, k + 1, Len(q)) \in Seq(S)
           /\ Without(q, k, SubSeq(q, 1, k - 1) \o SubSeq(q, k + 1, Len(q)))
<1> DEFINE a == SubSeq(q, 1, k - 1)
           b == SubSeq(q, k + 1, Len(q))
           n == Len(q)
<1>1. n \in Nat /\ k \in 1 .. n /\ \A i \in 1 .. n : q[i] \in S
  OBVIOUS
<1>2. a \in Seq(S) /\ Len(a) = k - 1 /\ \A i \in 1 .. k - 1 : a[i] = q[i]
  <2>1. 1 \in Int /\ k - 1 \in Int /\ \A i \in 1 .. k - 1 : q[i] \in S
    BY <1>1
  <2>2. /\ a \in Seq(S)
        /\ Len(a) = IF 1 <= k - 1 THEN k - 1 - 1 + 1 ELSE 0
        /\ \A i \in 1 .. k - 1 - 1 + 1 : a[i] = q[1 + i - 1]
    BY <2>1, SubSeqProperties
  <2>. HIDE DEF a
  <2>. QED  BY <1>1, <2>2
<1>3. b \in Seq(S) /\ Len(b) = n - k /\ \A i \in 1 .. n - k : b[i] = q[k + i]
  <2>1. k + 1 \in Int /\ n \in Int /\ \A i \in k + 1 .. n : q[i] \in S
    BY <1>1
  <2>2. /\ b \in Seq(S)
        /\ Len(b) = IF k + 1 <= n THEN n - (k + 1) + 1 ELSE 0
        /\ \A i \in 1 .. n - (k + 1) + 1 : b[i] = q[k + 1 + i - 1]
    BY <2>1, SubSeqProperties
  <2>. HIDE DEF b, n
  <2>3. n - (k + 1) + 1 = n - k /\ \A i \in Int : k + 1 + i - 1 = k + i
    BY <1>1
  <2>. QED  BY <1>1, <2>2, <2>3
<1>. HIDE DEF a, b
<1>4. /\ a \o b \in Seq(S) /\ Len(a \o b) = Len(a) + Len(b)
      /\ \A i \in 1 .. Len(a) + Len(b) : (a \o b)[i] = IF i <= Len(a) THEN a[i] ELSE b[i - Len(a)]
  BY <1>2, <1>3, ConcatProperties, Zenon
<1> DEFINE r == a \o b
<1>. HIDE DEF r
<1>5. r \in Seq(S) /\ Len(r) = n - 1
  BY <1>1, <1>2, <1>3, <1>4 DEF r
<1>6. ASSUME NEW i \in 1 .. n - 1 PROVE r[i] = IF i < k THEN q[i] ELSE q[i + 1]
  <2>0. i \in 1 .. Len(a) + Len(b) /\ r[i] = IF i <= Len(a) THEN a[i] ELSE b[i - Len(a)]
    BY <1>1, <1>2, <1>3, <1>4 DEF r
  <2>1. CASE i < k
    BY <2>0, <2>1, <1>1, <1>2
  <2>2. CASE ~(i < k)
    <3>1. i - Len(a) \in 1 .. n - k /\ k + (i - Len(a)) = i + 1 /\ ~(i <= Len(a))
      BY <2>2, <1>1, <1>2
    <3>. QED  BY <2>0, <2>2, <3>1, <1>3
  <2>. QED  BY <2>1, <2>2
<1>. QED  BY <1>5, <1>6 DEF Without, r, a, b

\* A queue from which the k-th element was taken.
LEMMA TakenOut ==
    ASSUME NEW S, NEW q \in Seq(S), Distinct(q), NEW k \in 1 .. Len(q), NEW r \in Seq(S),
           Without(q, k, r)
    PROVE  Distinct(r) /\ Elements(r) = Elements(q) \ {q[k]}
<1> DEFINE n == Len(q)
<1>1. n \in Nat /\ k \in 1 .. n /\ DOMAIN q = 1 .. n /\ DOMAIN r = 1 .. n - 1 /\ k \in Int
  BY DEF Without
<1>2. \A i \in 1 .. n - 1 : r[i] = IF i < k THEN q[i] ELSE q[i + 1]
  BY DEF Without
<1>3. \A i, j \in 1 .. n : q[i] = q[j] => i = j
  BY <1>1 DEF Distinct
<1>. HIDE DEF n
<1>4. ASSUME NEW i \in 1 .. n - 1, NEW j \in 1 .. n - 1, r[i] = r[j] PROVE i = j
  <2>1. PICK x \in 1 .. n : x = IF i < k THEN i ELSE i + 1
    BY <1>1
  <2>2. PICK y \in 1 .. n : y = IF j < k THEN j ELSE j + 1
    BY <1>1
  <2>3. q[x] = q[y]
    BY <1>2, <1>4, <2>1, <2>2
  <2>. QED  BY <1>1, <1>3, <2>1, <2>2, <2>3
<1>5. ASSUME NEW i \in 1 .. n - 1 PROVE \E x \in 1 .. n : x # k /\ r[i] = q[x]
  <2>1. PICK x \in 1 .. n : x = IF i < k THEN i ELSE i + 1
    BY <1>1
  <2>. QED  BY <1>1, <1>2, <2>1
<1>6. ASSUME NEW x \in 1 .. n, x # k PROVE \E i \in 1 .. n - 1 : r[i] = q[x]
  <2>1. CASE x < k
    BY <1>1, <1>2, <2>1
  <2>2. CASE ~(x < k)
    <3>1. x - 1 \in 1 .. n - 1 /\ ~(x - 1 < k) /\ x - 1 + 1 = x
      BY <1>1, <1>6, <2>2
    <3>. QED  BY <3>1, <1>2
  <2>. QED  BY <2>1, <2>2
<1>7. Distinct(r)
  BY <1>1, <1>4 DEF Distinct
<1>8. Elements(r) = Elements(q) \ {q[k]}
  <2>1. ASSUME NEW i \in 1 .. n - 1 PROVE r[i] \in Elements(q) \ {q[k]}
    BY <1>1, <1>3, <1>5 DEF Elements
  <2>2. ASSUME NEW x \in 1 .. n, q[x] # q[k] PROVE q[x] \in Elements(r)
    BY <1>1, <1>6, <2>2 DEF Elements
  <2>. QED  BY <1>1, <2>1, <2>2 DEF Elements
<1>. QED  BY <1>7, <1>8

-----------------------------------------------------------------------------
(* Types *)

ItemRecord ==
    [submittedAt : Nat, retries : 0 .. MaxRetries, expired : BOOLEAN,
     chan : {"empty", "ok", "error"},
     caller : {"new", "push", "refused", "waiting", "ok", "error"},
     requeues : 0 .. MaxRequeues, queued : Nat, sent : Nat]

ItemsOK == item \in [Items -> ItemRecord]
HeapOK == heap \subseteq Items /\ Cardinality(heap) <= Capacity
LettersOK ==
    /\ deadLetters \in Seq(Items) /\ Len(deadLetters) <= DeadLetterCap
    /\ requeue \in {"no", "push", "remove"}
    /\ IF requeue = "no" THEN letter = 0 ELSE letter \in DOMAIN deadLetters
StatesOK ==
    /\ timers \subseteq Items
    /\ loop \in {"unborn", "check", "pop", "context", "submit", "giveUp", "exited"}
    /\ inHand \in Items \cup {NoItem}
    /\ fn \in [Workers -> {"idle", "process", "sendOk", "sendError", "returnOk", "returnError"}]
    /\ processed \in Nat
    /\ queueStop \in {"no", "draining", "nil", "timedOut"}

\* processLoop has an item where it needs one, and a worker runs the task's function
\* only while it is running.
Consistent ==
    /\ loop \in {"context", "submit", "giveUp"} => inHand \in Items
    /\ \A w \in Workers : fn[w] # "idle" => worker[w] = "running"

QueueTypes == ItemsOK /\ HeapOK /\ LettersOK /\ StatesOK /\ Consistent

LEMMA QueueConstants ==
    /\ IsFiniteSet(Items) /\ MaxRetries \in Nat \ {0} /\ Capacity \in Nat \ {0}
    /\ DeadLetterCap \in Nat \ {0} /\ MaxRequeues \in Nat /\ NoItem \notin Items
    /\ Tasks = Items \X (0 .. MaxRequeues) \X (0 .. MaxRetries)
    /\ IsFiniteSet(Tasks) /\ IsFiniteSet(Workers) /\ NoTask \notin Tasks
BY QueueAssumption, PoolAssumption

\* One item changes.
LEMMA ItemChanges ==
    ASSUME ItemsOK, NEW i \in Items, NEW r \in ItemRecord, item' = [item EXCEPT ![i] = r]
    PROVE  ItemsOK'
BY DEF ItemsOK

LEMMA NowIsNat == ASSUME ItemsOK, NEW i \in Items PROVE Now \in Nat
<1> DEFINE S == {item[j].submittedAt : j \in Items}
           f == [j \in Items |-> item[j].submittedAt]
<1>1. S \subseteq Nat /\ item[i].submittedAt \in S
  BY DEF ItemsOK, ItemRecord
<1>2. IsFiniteSet(S)
  <2>1. f \in [Items -> S] /\ \A n \in S : \E j \in Items : f[j] = n
    OBVIOUS
  <2>2. f \in Surjection(Items, S)
    BY <2>1 DEF Surjection
  <2>. HIDE DEF f, S
  <2>. QED  BY <2>2, QueueConstants, FS_Surjection
<1>3. \E n \in S : \A m \in S : m <= n
  <2>. HIDE DEF S
  <2>. QED  BY <1>1, <1>2, Largest
<1>4. \E n \in S : \A j \in Items : item[j].submittedAt <= n
  BY <1>3
<1>5. (CHOOSE n \in S : \A j \in Items : item[j].submittedAt <= n) \in S
  BY <1>4, Zenon
<1> DEFINE c == CHOOSE n \in {item[j].submittedAt : j \in Items} :
                    \A j \in Items : item[j].submittedAt <= n
<1>6. c \in Nat
  BY <1>1, <1>5
<1>7. Now = 1 + c
  BY DEF Now
<1>. HIDE DEF c
<1>. QED  BY <1>6, <1>7

FnStates == {"idle", "process", "sendOk", "sendError", "returnOk", "returnError"}

\* A worker inside the task's function holds an attempt that the pool has accepted.
LEMMA AtWork ==
    ASSUME Where, Consistent, NEW w \in Workers, fn[w] # "idle"
    PROVE  /\ worker[w] = "running"
           /\ holds[w] \in Tasks /\ holds[w] \in Accepted /\ holds[w] \notin finished
           /\ Working(w) \in Items
           /\ \A v \in Workers : holds[v] = holds[w] => v = w
<1>1. worker[w] = "running" /\ Shapes /\ Placed
  BY DEF Consistent, Where
<1>2. holds[w] # NoTask
  BY <1>1 DEF Placed, Busy
<1>3. holds[w] \in Tasks
  BY <1>1, <1>2 DEF Shapes
<1>4. holds[w] \in Held
  BY <1>2 DEF Held
<1>5. holds[w] \in Accepted /\ holds[w] \notin finished
  BY <1>1, <1>4 DEF Placed
<1>6. Working(w) \in Items
  BY <1>3, QueueConstants DEF Working
<1>7. \A v \in Workers : holds[v] = holds[w] => v = w
  BY <1>1, <1>2 DEF Placed
<1>. QED  BY <1>1, <1>3, <1>5, <1>6, <1>7

LEMMA AttemptIsTask ==
    ASSUME ItemsOK, NEW i \in Items
    PROVE  Attempt(i) \in Tasks /\ Attempt(i)[1] = i
<1>1. item[i].requeues \in 0 .. MaxRequeues /\ item[i].retries \in 0 .. MaxRetries
  BY DEF ItemsOK, ItemRecord
<1>. QED  BY <1>1, QueueConstants DEF Attempt

\* Every step of the queue is one of its pool, or none.
LEMMA PoolSteps ==
    ASSUME ItemsOK, Consistent, [QueueNext]_allVars
    PROVE  [Next]_vars
<1>1. CASE QueueStep
  BY <1>1 DEF QueueStep
<1>2. CASE ~crashed /\ LoopSubmits
  <2>1. inHand \in Items
    BY <1>2 DEF LoopSubmits, Consistent
  <2>2. SubmitStep(Attempt(inHand)) /\ Attempt(inHand) \in Tasks
    BY <1>2, <2>1, AttemptIsTask DEF LoopSubmits
  <2>. QED  BY <1>2, <2>2 DEF Next
<1>3. CASE ~crashed /\ (StartClaim \/ StartWorkers)
  BY <1>3 DEF Next
<1>4. ASSUME ~crashed, NEW w \in Workers, WorkerAlone(w) \/ WorkerBegins(w) \/ WorkerReturns(w)
      PROVE  Next
  <2>1. WorkerStep(w)
    BY <1>4 DEF WorkerAlone, WorkerBegins, WorkerReturns, WorkerStep
  <2>. QED  BY <1>4, <2>1 DEF Next
<1>5. ASSUME ~crashed, NEW s \in Stoppers, PoolStops(s) PROVE Next
  BY <1>5 DEF PoolStops, Next
<1>6. CASE UNCHANGED allVars
  BY <1>6 DEF allVars
<1>. QED  BY <1>1, <1>2, <1>3, <1>4, <1>5, <1>6 DEF QueueNext

-----------------------------------------------------------------------------
(* Updates that keep the types *)

LEMMA CallerRecord ==
    ASSUME ItemsOK, NEW i \in Items,
           NEW c \in {"new", "push", "refused", "waiting", "ok", "error"}
    PROVE  [item[i] EXCEPT !.caller = c] \in ItemRecord
BY DEF ItemsOK, ItemRecord

LEMMA SentRecord ==
    ASSUME ItemsOK, NEW i \in Items, NEW result \in {"ok", "error"}, item' = Sent(i, result)
    PROVE  ItemsOK'
<1> DEFINE r == [item[i] EXCEPT !.sent = @ + 1, !.chan = IF @ = "empty" THEN result ELSE @]
<1>1. item' = [item EXCEPT ![i] = r]
  BY DEF Sent
<1>2. item[i] \in ItemRecord
  BY DEF ItemsOK
<1>3. ASSUME NEW n \in Nat, NEW c \in {"empty", "ok", "error"}
      PROVE  [item[i] EXCEPT !.sent = n, !.chan = c] \in ItemRecord
  BY <1>2 DEF ItemRecord
<1>4. item[i].sent + 1 \in Nat
      /\ (IF item[i].chan = "empty" THEN result ELSE item[i].chan) \in {"empty", "ok", "error"}
  BY <1>2 DEF ItemRecord
<1>5. r \in ItemRecord
  BY <1>3, <1>4
<1>. QED  BY <1>1, <1>5, ItemChanges

LEMMA RetryRecord ==
    ASSUME ItemsOK, NEW i \in Items, Retries(i)
    PROVE  ItemsOK'
<1> DEFINE r == [item[i] EXCEPT !.retries = @ + 1]
<1>1. item' = [item EXCEPT ![i] = r]
  BY DEF Retries
<1>2. item[i] \in ItemRecord
  BY DEF ItemsOK
<1>3. item[i].retries + 1 \in 0 .. MaxRetries
  BY <1>2, QueueConstants DEF Retries, CanRetry, ItemRecord
<1>4. r \in ItemRecord
  BY <1>2, <1>3 DEF ItemRecord
<1>. QED  BY <1>1, <1>4, ItemChanges

LEMMA HeapGains ==
    ASSUME HeapOK, NEW i \in Items, heap' = Pushed(i)
    PROVE  HeapOK'
<1>1. IsFiniteSet(heap) /\ Cardinality(heap) \in Nat
  BY QueueConstants, FS_Subset, FS_CardinalityType DEF HeapOK
<1>2. CASE HeapFull
  BY <1>2 DEF Pushed, HeapOK
<1>3. CASE ~HeapFull
  <2>1. heap' = heap \cup {i}
    BY <1>3 DEF Pushed
  <2>2. Cardinality(heap') <= Cardinality(heap) + 1 /\ Cardinality(heap') \in Nat
    <3>1. Cardinality(heap') = IF i \in heap THEN Cardinality(heap) ELSE Cardinality(heap) + 1
      BY <1>1, <2>1, FS_AddElement
    <3>. QED  BY <1>1, <3>1
  <2>3. Cardinality(heap) < Capacity
    BY <1>1, <1>3, QueueConstants DEF HeapFull
  <2>. QED  BY <1>1, <2>1, <2>2, <2>3, QueueConstants DEF HeapOK
<1>. QED  BY <1>2, <1>3

LEMMA LettersStay ==
    ASSUME LettersOK, UNCHANGED <<deadLetters, requeueVars>>
    PROVE  LettersOK'
BY DEF LettersOK, requeueVars

LEMMA HeapLoses ==
    ASSUME HeapOK, heap' \subseteq heap
    PROVE  HeapOK'
<1>1. IsFiniteSet(heap) /\ Cardinality(heap) \in Nat
  BY QueueConstants, FS_Subset, FS_CardinalityType DEF HeapOK
<1>2. Cardinality(heap') <= Cardinality(heap) /\ Cardinality(heap') \in Nat
  BY <1>1, FS_Subset, FS_CardinalityType
<1>. QED  BY <1>1, <1>2, QueueConstants DEF HeapOK

LEMMA LettersGain ==
    ASSUME LettersOK, NEW i \in Items, Buries(i), UNCHANGED requeueVars
    PROVE  LettersOK'
<1> DEFINE q == IF Len(deadLetters) >= DeadLetterCap THEN Tail(deadLetters) ELSE deadLetters
<1>1. deadLetters \in Seq(Items) /\ Len(deadLetters) \in Nat /\ Len(deadLetters) <= DeadLetterCap
  BY DEF LettersOK
<1>2. q \in Seq(Items) /\ Len(q) + 1 <= DeadLetterCap /\ Len(q) \in Nat
  <2>1. CASE Len(deadLetters) >= DeadLetterCap
    <3>1. deadLetters # <<>>
      BY <1>1, <2>1, QueueConstants
    <3>2. q \in Seq(Items) /\ Len(q) = Len(deadLetters) - 1 /\ Len(q) \in Nat
      BY <1>1, <2>1, <3>1
    <3>. QED  BY <1>1, <3>2, QueueConstants
  <2>2. CASE ~(Len(deadLetters) >= DeadLetterCap)
    BY <1>1, <2>2, QueueConstants
  <2>. QED  BY <2>1, <2>2
<1>3. deadLetters' = Append(q, i)
  BY DEF Buries
<1>. HIDE DEF q
<1>4. Append(q, i) \in Seq(Items) /\ Len(Append(q, i)) = Len(q) + 1
  BY <1>2
<1>5. requeue' = "no" /\ letter' = 0
  BY DEF Buries, LettersOK, requeueVars
<1>. QED  BY <1>2, <1>3, <1>4, <1>5 DEF LettersOK

LEMMA FnMoves ==
    ASSUME StatesOK, Consistent, NEW w \in Workers, NEW here \in FnStates \ {"idle"},
           NEW there \in FnStates \ {"idle"}, FnGoto(w, here, there), UNCHANGED worker,
           timers' \subseteq Items, processed' \in Nat
    PROVE  StatesOK' /\ Consistent'
<1>1. StatesOK'
  BY DEF StatesOK, FnGoto, FnStates
<1>2. \A v \in Workers : fn'[v] # "idle" => fn[v] # "idle"
  BY DEF StatesOK, FnGoto
<1>3. Consistent'
  BY <1>2 DEF Consistent, FnGoto
<1>. QED  BY <1>1, <1>3

-----------------------------------------------------------------------------

LEMMA CallerTypes ==
    ASSUME QueueTypes, NEW i \in Items, CallerStep(i)
    PROVE  ItemsOK' /\ HeapOK' /\ UNCHANGED <<timers, deadLetters, requeueVars, loop, inHand, fn, processed, queueStop>>
<1>i. ItemsOK /\ HeapOK
  BY DEF QueueTypes
<1>0. UNCHANGED <<timers, deadLetters, requeueVars, loop, inHand, fn, processed, queueStop>>
  BY DEF CallerStep, CallerChecks, CallerPushes, CallerReceives, ContextExpires, Call
<1>1. CASE CallerChecks(i)
  <2> DEFINE c == IF QueueStopped THEN "refused" ELSE "push"
  <2>1. item' = [item EXCEPT ![i] = [item[i] EXCEPT !.caller = c]] /\ heap' = heap
    BY <1>1 DEF CallerChecks, Call
  <2>. QED  BY <1>0, <1>i, <2>1, CallerRecord, ItemChanges DEF HeapOK
<1>2. CASE CallerPushes(i)
  <2> DEFINE c == IF HeapFull THEN "refused" ELSE "waiting"
             n == IF HeapFull THEN item[i].queued ELSE item[i].queued + 1
             r == [item[i] EXCEPT !.caller = c, !.submittedAt = Now, !.queued = n]
  <2>1. item' = [item EXCEPT ![i] = r] /\ heap' = Pushed(i)
    BY <1>2 DEF CallerPushes
  <2>2. item[i] \in ItemRecord /\ Now \in Nat
    BY <1>i, NowIsNat DEF ItemsOK
  <2>3. c \in {"refused", "waiting"} /\ n \in Nat
    BY <2>2 DEF ItemRecord
  <2>. HIDE DEF c, n
  <2>4. r \in ItemRecord
    BY <2>2, <2>3 DEF ItemRecord
  <2>. QED  BY <1>0, <1>i, <2>1, <2>4, ItemChanges, HeapGains
<1>3. CASE CallerReceives(i)
  <2> DEFINE r == [item[i] EXCEPT !.caller = item[i].chan, !.chan = "empty"]
  <2>1. item' = [item EXCEPT ![i] = r] /\ heap' = heap
    BY <1>3 DEF CallerReceives
  <2>2. r \in ItemRecord
    BY <1>i, <1>3 DEF ItemsOK, ItemRecord, CallerReceives
  <2>. QED  BY <1>0, <1>i, <2>1, <2>2, ItemChanges DEF HeapOK
<1>4. CASE ContextExpires(i)
  <2> DEFINE r == [item[i] EXCEPT !.expired = TRUE]
  <2>1. item' = [item EXCEPT ![i] = r] /\ heap' = heap
    BY <1>4 DEF ContextExpires
  <2>2. r \in ItemRecord
    BY <1>i DEF ItemsOK, ItemRecord
  <2>. QED  BY <1>0, <1>i, <2>1, <2>2, ItemChanges DEF HeapOK
<1>. QED  BY <1>1, <1>2, <1>3, <1>4 DEF CallerStep

LEMMA LoopTypes ==
    ASSUME QueueTypes, LoopStep, UNCHANGED worker
    PROVE  QueueTypes'
<1>i. ItemsOK /\ HeapOK /\ LettersOK /\ StatesOK /\ Consistent
  BY DEF QueueTypes
<1>0. UNCHANGED <<fn, requeueVars, processed, queueStop>>
  BY DEF LoopStep, LoopStarts, LoopChecks, LoopPops, LoopChecksContext, LoopRetries, LoopBuries,
      LoopGivesUp, LoopGoto
<1>1. ASSUME UNCHANGED item PROVE ItemsOK'
  BY <1>1, <1>i DEF ItemsOK
<1>2. ASSUME UNCHANGED heap PROVE HeapOK'
  BY <1>2, <1>i DEF HeapOK
<1>3. ASSUME UNCHANGED deadLetters PROVE LettersOK'
  BY <1>0, <1>3, <1>i, LettersStay
<1>4. ASSUME timers' \subseteq Items, loop' \in {"check", "pop", "exited"}, inHand' \in {inHand, NoItem}
      PROVE  StatesOK' /\ Consistent'
  BY <1>0, <1>4, <1>i DEF StatesOK, Consistent
<1>5. ASSUME timers' = timers, loop' \in {"context", "submit", "giveUp"}, inHand' \in Items
      PROVE  StatesOK' /\ Consistent'
  BY <1>0, <1>5, <1>i DEF StatesOK, Consistent
<1>6. CASE LoopStarts \/ LoopChecks
  BY <1>6, <1>i, <1>1, <1>2, <1>3, <1>4
  DEF LoopStarts, LoopChecks, LoopGoto, QueueTypes, StatesOK
<1>7. CASE LoopPops
  <2>1. CASE heap = {} /\ LoopGoto("pop", "check") /\ UNCHANGED <<item, heap, inHand, timers, deadLetters>>
    BY <2>1, <1>i, <1>1, <1>2, <1>3, <1>4 DEF LoopGoto, QueueTypes, StatesOK
  <2>2. ASSUME NEW i \in heap, LoopGoto("pop", "context"), heap' = heap \ {i}, inHand' = i,
               UNCHANGED <<item, timers, deadLetters>>
        PROVE  QueueTypes'
    <3>1. i \in Items /\ HeapOK'
      BY <2>2, <1>i, HeapLoses DEF HeapOK
    <3>. QED  BY <2>2, <3>1, <1>i, <1>1, <1>3, <1>5 DEF LoopGoto, QueueTypes
  <2>. QED  BY <1>7, <2>1, <2>2 DEF LoopPops
<1>8. CASE LoopChecksContext
  <2>0. UNCHANGED <<heap, timers, deadLetters>> /\ inHand \in Items
    BY <1>8, <1>i DEF LoopChecksContext, LoopGoto, Consistent
  <2>1. CASE LoopGoto("context", "check") /\ item' = Sent(inHand, "error") /\ inHand' = NoItem
    <3>1. ItemsOK'
      BY <2>0, <2>1, <1>i, SentRecord
    <3>. QED  BY <2>0, <2>1, <3>1, <1>i, <1>2, <1>3, <1>4 DEF LoopGoto, QueueTypes, StatesOK
  <2>2. CASE LoopGoto("context", "submit") /\ UNCHANGED <<item, inHand>>
    BY <2>0, <2>2, <1>i, <1>1, <1>2, <1>3, <1>5 DEF LoopGoto, QueueTypes
  <2>. QED  BY <1>8, <2>1, <2>2 DEF LoopChecksContext
<1>9. CASE LoopRetries
  <2>1. inHand \in Items
    BY <1>9, <1>i DEF LoopRetries, LoopGoto, Consistent
  <2>2. ItemsOK'
    BY <1>9, <2>1, <1>i, RetryRecord DEF LoopRetries
  <2>3. timers' \subseteq Items
    BY <1>9, <2>1, <1>i DEF LoopRetries, Retries, StatesOK
  <2>. QED  BY <1>9, <2>2, <2>3, <1>i, <1>2, <1>3, <1>4 DEF LoopRetries, LoopGoto, QueueTypes
<1>10. CASE LoopBuries
  <2>1. inHand \in Items
    BY <1>10, <1>i DEF LoopBuries, LoopGoto, Consistent
  <2>2. LettersOK'
    BY <1>0, <1>10, <2>1, <1>i, LettersGain DEF LoopBuries
  <2>. QED  BY <1>10, <2>1, <2>2, <1>i, <1>1, <1>2, <1>5 DEF LoopBuries, LoopGoto, QueueTypes
<1>11. CASE LoopGivesUp
  <2>1. inHand \in Items
    BY <1>11, <1>i DEF LoopGivesUp, LoopGoto, Consistent
  <2>2. ItemsOK'
    BY <1>11, <2>1, <1>i, SentRecord DEF LoopGivesUp
  <2>. QED  BY <1>11, <2>2, <1>i, <1>2, <1>3, <1>4 DEF LoopGivesUp, LoopGoto, QueueTypes, StatesOK
<1>. QED  BY <1>6, <1>7, <1>8, <1>9, <1>10, <1>11 DEF LoopStep

LEMMA FnTypes ==
    ASSUME Where, QueueTypes, NEW w \in Workers, FnStep(w), UNCHANGED worker
    PROVE  QueueTypes'
<1>i. ItemsOK /\ HeapOK /\ LettersOK /\ StatesOK /\ Consistent
  BY DEF QueueTypes
<1>0. fn[w] # "idle" /\ UNCHANGED <<heap, requeueVars>>
  BY DEF FnStep, ProcessorSucceeds, ProcessorRetries, ProcessorBuries, WorkerAnswers, FnGoto
<1>w. Working(w) \in Items
  BY <1>0, <1>i, AtWork
<1>h. HeapOK'
  BY <1>0, <1>i DEF HeapOK
<1>t. timers \subseteq Items /\ processed \in Nat
  BY <1>i DEF StatesOK
<1>1. CASE ProcessorSucceeds(w)
  <2>1. StatesOK' /\ Consistent'
    BY <1>1, <1>i, <1>t, FnMoves DEF ProcessorSucceeds, FnStates
  <2>. QED  BY <1>0, <1>1, <2>1, <1>i, <1>h, LettersStay DEF ProcessorSucceeds, QueueTypes, ItemsOK
<1>2. CASE ProcessorRetries(w)
  <2>1. timers' \subseteq Items
    BY <1>2, <1>t, <1>w DEF ProcessorRetries, Retries
  <2>2. StatesOK' /\ Consistent'
    BY <1>2, <2>1, <1>i, <1>t, FnMoves DEF ProcessorRetries, FnStates
  <2>3. ItemsOK'
    BY <1>2, <1>w, <1>i, RetryRecord DEF ProcessorRetries
  <2>. QED  BY <1>0, <1>2, <2>2, <2>3, <1>i, <1>h, LettersStay DEF ProcessorRetries, QueueTypes
<1>3. CASE ProcessorBuries(w)
  <2>1. StatesOK' /\ Consistent'
    BY <1>3, <1>i, <1>t, FnMoves DEF ProcessorBuries, FnStates
  <2>2. LettersOK'
    BY <1>0, <1>3, <1>w, <1>i, LettersGain DEF ProcessorBuries
  <2>. QED  BY <1>3, <2>1, <2>2, <1>i, <1>h DEF ProcessorBuries, QueueTypes, ItemsOK
<1>4. CASE WorkerAnswers(w)
  <2>1. StatesOK' /\ Consistent'
    BY <1>4, <1>i, <1>t, FnMoves DEF WorkerAnswers, FnStates
  <2>2. ItemsOK'
    BY <1>4, <1>w, <1>i, SentRecord DEF WorkerAnswers
  <2>. QED  BY <1>0, <1>4, <2>1, <2>2, <1>i, <1>h, LettersStay DEF WorkerAnswers, QueueTypes
<1>. QED  BY <1>1, <1>2, <1>3, <1>4 DEF FnStep

-----------------------------------------------------------------------------
(* Requeueing from the dead letters *)

Requeuing == (\E k \in DOMAIN deadLetters : RequeueBegins(k)) \/ RequeueProceeds

\* RequeueDeadLetterItem has found item i and reset its RetryCount.
Renews(i) ==
    /\ requeue = "no" /\ i \in Elements(deadLetters)
    /\ item' = [item EXCEPT ![i] = [item[i] EXCEPT !.retries = 0, !.requeues = item[i].requeues + 1]]
    /\ item[i].requeues < MaxRequeues
    /\ heap' = heap /\ deadLetters' = deadLetters
    /\ \/ requeue' = "no" /\ letter' = letter
       \/ requeue' = "push" /\ letter' \in DOMAIN deadLetters /\ deadLetters[letter'] = i

\* It has put item i on the queue again.
Returns(i) ==
    /\ requeue = "push" /\ i = deadLetters[letter] /\ i \in Elements(deadLetters)
    /\ item' = [item EXCEPT ![i] = [item[i] EXCEPT !.submittedAt = Now, !.queued = item[i].queued + 1]]
    /\ ~HeapFull /\ heap' = heap \cup {i} /\ deadLetters' = deadLetters
    /\ requeue' = "remove" /\ letter' = letter

\* It is over: the Submit was refused, or the item is no longer among the dead letters.
GoesHome ==
    /\ UNCHANGED <<item, heap>>
    /\ requeue' = "no" /\ letter' = 0
    /\ \/ requeue = "push" /\ deadLetters' = deadLetters
       \/ /\ requeue = "remove"
          /\ deadLetters' = SubSeq(deadLetters, 1, letter - 1) \o
                            SubSeq(deadLetters, letter + 1, Len(deadLetters))

LEMMA RequeueMoves ==
    ASSUME ItemsOK, LettersOK, Requeuing
    PROVE  /\ UNCHANGED <<timers, loop, inHand, fn, processed, queueStop>>
           /\ (\E i \in Items : Renews(i)) \/ (\E i \in Items : Returns(i)) \/ GoesHome
<1>1. ASSUME NEW k \in DOMAIN deadLetters PROVE deadLetters[k] \in Items /\ deadLetters[k] \in Elements(deadLetters)
  BY DEF LettersOK, Elements
<1>2. ASSUME NEW k \in DOMAIN deadLetters, RequeueBegins(k) PROVE Renews(deadLetters[k])
  <2>1. \/ requeue' = "no" /\ letter' = letter
        \/ requeue' = "push" /\ letter' = k
    BY <1>2 DEF RequeueBegins, requeueVars
  <2>2. item[deadLetters[k]] \in ItemRecord
    BY <1>1 DEF ItemsOK
  <2>. QED  BY <1>1, <1>2, <2>1, <2>2 DEF RequeueBegins, Renews
<1>3. ASSUME RequeuePushes PROVE Returns(deadLetters[letter])
  <2>1. letter \in DOMAIN deadLetters
    BY <1>3 DEF RequeuePushes, LettersOK
  <2>. QED  BY <1>1, <1>3, <2>1 DEF RequeuePushes, Returns
<1>4. ASSUME RequeuePushes PROVE deadLetters[letter] \in Items
  BY <1>1, <1>4 DEF RequeuePushes, LettersOK
<1>5. ASSUME RequeueFails \/ RequeueRemoves PROVE GoesHome
  BY <1>5 DEF RequeueFails, RequeueRemoves, GoesHome
<1>6. UNCHANGED <<timers, loop, inHand, fn, processed, queueStop>>
  BY DEF Requeuing, RequeueBegins, RequeueProceeds, RequeueFails, RequeuePushes, RequeueRemoves
<1>. QED  BY <1>1, <1>2, <1>3, <1>4, <1>5, <1>6 DEF Requeuing, RequeueProceeds

\* What that does to the fields of the item.
LEMMA RequeueFields ==
    ASSUME ItemsOK, NEW i \in Items, Renews(i) \/ Returns(i)
    PROVE  /\ \A j \in Items \ {i} : item'[j] = item[j]
           /\ item'[i].caller = item[i].caller /\ item'[i].chan = item[i].chan
           /\ item'[i].sent = item[i].sent
           /\ Renews(i) => /\ item'[i].requeues = item[i].requeues + 1 /\ item'[i].retries = 0
                           /\ item'[i].queued = item[i].queued
           /\ Returns(i) => /\ item'[i].requeues = item[i].requeues
                            /\ item'[i].retries = item[i].retries
                            /\ item'[i].queued = item[i].queued + 1
<1> DEFINE a == [item[i] EXCEPT !.retries = 0, !.requeues = item[i].requeues + 1]
           b == [item[i] EXCEPT !.submittedAt = Now, !.queued = item[i].queued + 1]
<1>1. item \in [Items -> ItemRecord] /\ item[i] \in ItemRecord
  BY DEF ItemsOK
<1>2. /\ a.caller = item[i].caller /\ a.chan = item[i].chan /\ a.sent = item[i].sent
      /\ a.queued = item[i].queued /\ a.requeues = item[i].requeues + 1 /\ a.retries = 0
  BY <1>1 DEF ItemRecord
<1>3. /\ b.caller = item[i].caller /\ b.chan = item[i].chan /\ b.sent = item[i].sent
      /\ b.queued = item[i].queued + 1 /\ b.requeues = item[i].requeues /\ b.retries = item[i].retries
  BY <1>1 DEF ItemRecord
<1>4. (Renews(i) => item' = [item EXCEPT ![i] = a]) /\ (Returns(i) => item' = [item EXCEPT ![i] = b])
  BY DEF Renews, Returns
<1>5. ~(Renews(i) /\ Returns(i))
  BY DEF Renews, Returns
<1>. HIDE DEF a, b
<1>6. (Renews(i) => item'[i] = a) /\ (Returns(i) => item'[i] = b) /\ \A j \in Items \ {i} : item'[j] = item[j]
  BY <1>1, <1>4
<1>. QED  BY <1>2, <1>3, <1>5, <1>6

LEMMA RequeueTypes ==
    ASSUME QueueTypes, Requeuing, UNCHANGED worker
    PROVE  QueueTypes'
<1>i. ItemsOK /\ HeapOK /\ LettersOK /\ StatesOK /\ Consistent
  BY DEF QueueTypes
<1>0. UNCHANGED <<timers, loop, inHand, fn, processed, queueStop>>
  BY <1>i, RequeueMoves
<1>1. StatesOK' /\ Consistent'
  BY <1>0, <1>i DEF StatesOK, Consistent
<1>2. ASSUME NEW i \in Items, Renews(i) PROVE QueueTypes'
  <2> DEFINE r == [item[i] EXCEPT !.retries = 0, !.requeues = item[i].requeues + 1]
  <2>1. item' = [item EXCEPT ![i] = r] /\ item[i] \in ItemRecord
    BY <1>2, <1>i DEF Renews, ItemsOK
  <2>2. item[i].requeues + 1 \in 0 .. MaxRequeues /\ 0 \in 0 .. MaxRetries
    <3>1. item[i].requeues < MaxRequeues
      BY <1>2 DEF Renews
    <3>2. item[i].requeues \in 0 .. MaxRequeues
      BY <2>1 DEF ItemRecord
    <3>3. \A n \in 0 .. MaxRequeues : n < MaxRequeues => n + 1 \in 0 .. MaxRequeues
      BY QueueConstants
    <3>. QED  BY <3>1, <3>2, <3>3, QueueConstants
  <2>3. r \in ItemRecord
    BY <2>1, <2>2 DEF ItemRecord
  <2>4. ItemsOK'
    BY <1>i, <2>1, <2>3, ItemChanges
  <2>5. HeapOK' /\ LettersOK'
    BY <1>2, <1>i DEF Renews, HeapOK, LettersOK
  <2>. QED  BY <1>1, <2>4, <2>5 DEF QueueTypes
<1>3. ASSUME NEW i \in Items, Returns(i) PROVE QueueTypes'
  <2> DEFINE n == item[i].queued + 1
             r == [item[i] EXCEPT !.submittedAt = Now, !.queued = n]
  <2>1. item' = [item EXCEPT ![i] = r] /\ item[i] \in ItemRecord /\ Now \in Nat
    BY <1>3, <1>i, NowIsNat DEF Returns, ItemsOK
  <2>n. n \in Nat
    BY <2>1 DEF ItemRecord
  <2>. HIDE DEF n
  <2>2. r \in ItemRecord
    BY <2>1, <2>n DEF ItemRecord
  <2>3. ItemsOK'
    BY <1>i, <2>1, <2>2, ItemChanges
  <2>4. HeapOK'
    BY <1>3, <1>i, HeapGains DEF Returns, Pushed
  <2>5. LettersOK'
    BY <1>3, <1>i DEF Returns, LettersOK
  <2>. QED  BY <1>1, <2>3, <2>4, <2>5 DEF QueueTypes
<1>4. CASE GoesHome
  <2>1. ItemsOK' /\ HeapOK'
    BY <1>4, <1>i DEF GoesHome, ItemsOK, HeapOK
  <2>2. LettersOK'
    <3>1. CASE deadLetters' = deadLetters
      BY <1>4, <3>1, <1>i DEF GoesHome, LettersOK
    <3>2. CASE /\ requeue = "remove"
               /\ deadLetters' = SubSeq(deadLetters, 1, letter - 1) \o
                                 SubSeq(deadLetters, letter + 1, Len(deadLetters))
      <4>1. letter \in 1 .. Len(deadLetters) /\ deadLetters \in Seq(Items)
        BY <3>2, <1>i DEF LettersOK
      <4>2. deadLetters' \in Seq(Items) /\ Without(deadLetters, letter, deadLetters')
        BY <3>2, <4>1, CutOut
      <4>3. Len(deadLetters') = Len(deadLetters) - 1 /\ Len(deadLetters) <= DeadLetterCap
        BY <4>2, <1>i DEF Without, LettersOK
      <4>4. Len(deadLetters') <= DeadLetterCap
        BY <4>1, <4>3, QueueConstants
      <4>. QED  BY <1>4, <4>2, <4>4 DEF GoesHome, LettersOK
    <3>. QED  BY <1>4, <3>1, <3>2 DEF GoesHome
  <2>. QED  BY <1>1, <2>1, <2>2 DEF QueueTypes
<1>. QED  BY <1>2, <1>3, <1>4, <1>i, RequeueMoves

\* Nobody else touches RequeueDeadLetterItem's progress, and while it holds the lock
\* nobody else touches the dead letters.
LEMMA RequeueRests ==
    ASSUME [QueueNext]_allVars, ~Requeuing
    PROVE  UNCHANGED requeueVars /\ (requeue = "no" \/ UNCHANGED deadLetters)
<1>1. ASSUME NEW i \in Items, CallerStep(i) \/ TimerFires(i) PROVE UNCHANGED <<deadLetters, requeueVars>>
  BY <1>1 DEF CallerStep, CallerChecks, CallerPushes, CallerReceives, ContextExpires, Call, TimerFires
<1>2. ASSUME LoopStep PROVE UNCHANGED requeueVars /\ (requeue = "no" \/ UNCHANGED deadLetters)
  BY <1>2 DEF LoopStep, LoopStarts, LoopChecks, LoopPops, LoopChecksContext, LoopRetries, LoopBuries,
      LoopGivesUp, LoopGoto, Buries
<1>3. ASSUME NEW w \in Workers, FnStep(w)
      PROVE  UNCHANGED requeueVars /\ (requeue = "no" \/ UNCHANGED deadLetters)
  BY <1>3 DEF FnStep, ProcessorSucceeds, ProcessorRetries, ProcessorBuries, WorkerAnswers, FnGoto, Buries
<1>4. ASSUME Clear \/ QueueStopStep \/ LoopSubmits \/ UNCHANGED queueVars
      PROVE  UNCHANGED <<deadLetters, requeueVars>>
  BY <1>4 DEF Clear, QueueStopStep, QueueStopClaims, QueueStopReturns, QueueStopTimesOut, QueueStopGoto,
      LoopSubmits, queueVars
<1>5. ASSUME NEW w \in Workers, WorkerAlone(w) \/ WorkerBegins(w) \/ WorkerReturns(w)
      PROVE  UNCHANGED <<deadLetters, requeueVars>>
  BY <1>5 DEF WorkerAlone, WorkerBegins, WorkerReturns, FnGoto, queueVars
<1>6. ASSUME NEW s \in Stoppers, PoolStops(s) PROVE UNCHANGED queueVars
  BY <1>6 DEF PoolStops
<1>7. CASE UNCHANGED allVars
  BY <1>4, <1>7 DEF allVars
<1>. QED  BY <1>1, <1>2, <1>3, <1>4, <1>5, <1>6, <1>7 DEF QueueNext, QueueStep, Requeuing

\* Requeueing is a step of the queue, in which the pool rests: it is no stutter.
LEMMA RequeuingIs ==
    ASSUME QueueTypes, [QueueNext]_allVars, Requeuing
    PROVE  QueueStep
<1>i. ItemsOK /\ LettersOK
  BY DEF QueueTypes
<1>1. ASSUME UNCHANGED requeueVars, UNCHANGED item PROVE FALSE
  <2>1. requeue' = requeue /\ item' = item
    BY <1>1 DEF requeueVars
  <2>2. ASSUME NEW i \in Items, Renews(i) PROVE FALSE
    <3>1. item'[i].requeues = item[i].requeues + 1 /\ item[i].requeues \in Nat
      BY <1>i, <2>2, RequeueFields, QueueConstants DEF ItemsOK, ItemRecord
    <3>. QED  BY <2>1, <3>1
  <2>3. ~GoesHome /\ \A i \in Items : ~Returns(i)
    BY <2>1 DEF GoesHome, Returns
  <2>. QED  BY <1>i, <2>2, <2>3, RequeueMoves
<1>2. CASE ~QueueStep
  <2>1. UNCHANGED requeueVars /\ UNCHANGED item
    BY <1>2 DEF QueueNext, LoopSubmits, queueVars, allVars, WorkerAlone, WorkerBegins, WorkerReturns, FnGoto,
        PoolStops
  <2>. QED  BY <1>1, <2>1
<1>. QED  BY <1>2

-----------------------------------------------------------------------------
(* The pool's steps *)

\* The queue's part does not change, and no worker leaves its task's function.
LEMMA QueueRests ==
    ASSUME QueueTypes, UNCHANGED queueVars,
           \A w \in Workers : fn[w] # "idle" => worker'[w] = "running"
    PROVE  QueueTypes'
<1>1. ItemsOK' /\ HeapOK' /\ LettersOK' /\ StatesOK' /\ Consistent'
  BY DEF queueVars, requeueVars, QueueTypes, ItemsOK, HeapOK, LettersOK, StatesOK, Consistent
<1>. QED  BY <1>1 DEF QueueTypes

LEMMA QueueStepTypes ==
    ASSUME Where, QueueTypes, QueueStep
    PROVE  QueueTypes'
<1>i. ItemsOK /\ HeapOK /\ LettersOK /\ StatesOK /\ Consistent
  BY DEF QueueTypes
<1>w. UNCHANGED worker
  BY DEF QueueStep, vars, workers
<1>1. ASSUME NEW i \in Items, CallerStep(i) PROVE QueueTypes'
  <2>1. ItemsOK' /\ HeapOK' /\ UNCHANGED <<timers, deadLetters, requeueVars, loop, inHand, fn, processed, queueStop>>
    BY <1>1, CallerTypes
  <2>. QED  BY <2>1, <1>i, <1>w, LettersStay DEF QueueTypes, StatesOK, Consistent
<1>2. ASSUME NEW i \in Items, TimerFires(i) PROVE QueueTypes'
  <2>1. HeapOK'
    BY <1>2, <1>i, HeapGains DEF TimerFires
  <2>2. UNCHANGED <<item, loop, inHand, fn, deadLetters, requeueVars, processed, queueStop>> /\ timers' \subseteq timers
    BY <1>2 DEF TimerFires
  <2>3. StatesOK' /\ Consistent'
    BY <2>2, <1>i, <1>w DEF StatesOK, Consistent
  <2>. QED  BY <2>1, <2>2, <2>3, <1>i, LettersStay DEF QueueTypes, ItemsOK
<1>3. CASE LoopStep
  BY <1>3, <1>w, LoopTypes
<1>4. ASSUME NEW w \in Workers, FnStep(w) PROVE QueueTypes'
  BY <1>4, <1>w, FnTypes
<1>5. CASE Requeuing
  BY <1>5, <1>w, RequeueTypes
<1>6. CASE Clear
  <2>1. HeapOK'
    BY <1>6, <1>i, HeapLoses DEF Clear
  <2>2. UNCHANGED <<item, timers, loop, inHand, fn, deadLetters, requeueVars, processed, queueStop>>
    BY <1>6 DEF Clear
  <2>. QED  BY <2>1, <2>2, <1>i, <1>w, LettersStay DEF QueueTypes, ItemsOK, StatesOK, Consistent
<1>7. CASE QueueStopStep
  <2>1. UNCHANGED <<item, heap, timers, loop, inHand, fn, deadLetters, requeueVars, processed>>
    BY <1>7 DEF QueueStopStep, QueueStopClaims, QueueStopReturns, QueueStopTimesOut, QueueStopGoto
  <2>2. queueStop' \in {"no", "draining", "nil", "timedOut"}
    BY <1>7 DEF QueueStopStep, QueueStopClaims, QueueStopReturns, QueueStopTimesOut, QueueStopGoto
  <2>3. ItemsOK' /\ HeapOK' /\ LettersOK'
    BY <2>1, <1>i, LettersStay DEF ItemsOK, HeapOK
  <2>4. StatesOK' /\ Consistent'
    BY <2>1, <2>2, <1>i, <1>w DEF StatesOK, Consistent
  <2>. QED  BY <2>3, <2>4 DEF QueueTypes
<1>. QED  BY <1>1, <1>2, <1>3, <1>4, <1>5, <1>6, <1>7 DEF QueueStep, Requeuing

LEMMA TypesInductive == Where /\ QueueTypes /\ [QueueNext]_allVars => QueueTypes'
<1>. SUFFICES ASSUME Where, QueueTypes, [QueueNext]_allVars PROVE QueueTypes'
  OBVIOUS
<1>i. ItemsOK /\ HeapOK /\ LettersOK /\ StatesOK /\ Consistent
  BY DEF QueueTypes
<1>0. \A w \in Workers : fn[w] # "idle" => worker[w] = "running"
  BY <1>i DEF Consistent
<1>w. worker \in [Workers -> WorkerStates]
  BY DEF Where, Shapes
<1>1. CASE QueueStep
  BY <1>1, QueueStepTypes
<1>2. CASE LoopSubmits
  <2>1. UNCHANGED <<item, heap, fn, timers, deadLetters, requeueVars, processed, queueStop>>
    BY <1>2 DEF LoopSubmits
  <2>2. UNCHANGED worker
    BY <1>2 DEF LoopSubmits, SubmitStep, SubmitLoadStopped, SubmitMeasure, SubmitCount, SubmitSend,
        SubmitPanics, SubmitRefused, SubmitParks, SubmitWithdraws, SubmitRollback, SubmitGoto, workers
  <2>3. \/ loop' = "check" /\ inHand' = NoItem
        \/ UNCHANGED <<loop, inHand>>
    BY <1>2 DEF LoopSubmits
  <2>4. ItemsOK' /\ HeapOK' /\ LettersOK'
    BY <2>1, <1>i, LettersStay DEF ItemsOK, HeapOK
  <2>5. StatesOK' /\ Consistent'
    BY <2>1, <2>2, <2>3, <1>i DEF StatesOK, Consistent
  <2>. QED  BY <2>4, <2>5 DEF QueueTypes
<1>3. CASE (StartClaim \/ StartWorkers) /\ UNCHANGED queueVars
  <2>1. CASE StartClaim
    BY <2>1, <1>3, <1>0, QueueRests DEF StartClaim, workers
  <2>2. CASE StartWorkers
    <3>1. \A w \in Workers : worker[w] = "unborn"
      BY <2>2 DEF StartWorkers, Where, Shapes
    <3>. QED  BY <1>3, <1>0, <3>1, QueueRests
  <2>. QED  BY <1>3, <2>1, <2>2
<1>4. ASSUME NEW w \in Workers, WorkerAlone(w) PROVE QueueTypes'
  <2>1. worker[w] # "running" /\ \E there \in WorkerStates : worker' = [worker EXCEPT ![w] = there]
    BY <1>4 DEF WorkerAlone, Receive, CountFailure, WorkerExit, WorkerGoto, WorkerStates
  <2>2. \A v \in Workers : fn[v] # "idle" => worker'[v] = "running"
    BY <2>1, <1>0, <1>w
  <2>. QED  BY <1>4, <2>2, QueueRests DEF WorkerAlone
<1>5. ASSUME NEW w \in Workers, WorkerBegins(w) \/ WorkerReturns(w) PROVE QueueTypes'
  <2>1. UNCHANGED <<item, heap, loop, inHand, timers, deadLetters, requeueVars, processed, queueStop>>
    BY <1>5 DEF WorkerBegins, WorkerReturns, FnGoto
  <2>2. ItemsOK' /\ HeapOK' /\ LettersOK'
    BY <2>1, <1>i, LettersStay DEF ItemsOK, HeapOK
  <2>3. \E there \in {"idle", "process"} :
            /\ fn' = [fn EXCEPT ![w] = there]
            /\ there = "process" => worker' = [worker EXCEPT ![w] = "running"]
            /\ there = "idle" => \E state \in WorkerStates : worker' = [worker EXCEPT ![w] = state]
    BY <1>5 DEF WorkerBegins, WorkerReturns, FnGoto, BeginFn, FnReturns, WorkerGoto, WorkerStates
  <2>4. StatesOK'
    BY <2>1, <2>3, <1>i DEF StatesOK
  <2>5. Consistent'
    BY <2>1, <2>3, <1>i, <1>w DEF StatesOK, Consistent
  <2>. QED  BY <2>2, <2>4, <2>5 DEF QueueTypes
<1>6. ASSUME NEW s \in Stoppers, PoolStops(s) PROVE QueueTypes'
  <2>1. UNCHANGED worker /\ UNCHANGED queueVars
    BY <1>6 DEF PoolStops, StopStep, StopClaim, StopCancel, StopClose, StopReturns, StopTimesOut,
        StopGoto, workers
  <2>. QED  BY <2>1, <1>0, QueueRests
<1>7. CASE UNCHANGED allVars
  BY <1>7, <1>0, QueueRests DEF allVars, vars, workers
<1>. QED  BY <1>1, <1>2, <1>3, <1>4, <1>5, <1>6, <1>7 DEF QueueNext

LEMMA TypesInitially == QueueInit => QueueTypes
<1>. SUFFICES ASSUME QueueInit PROVE QueueTypes
  OBVIOUS
<1>1. NewItem \in ItemRecord
  BY QueueConstants DEF NewItem, ItemRecord
<1>2. ItemsOK
  BY <1>1 DEF QueueInit, ItemsOK
<1>3. HeapOK
  BY FS_EmptySet, QueueConstants DEF QueueInit, HeapOK
<1>4. LettersOK
  BY QueueConstants DEF QueueInit, LettersOK
<1>5. StatesOK /\ Consistent
  BY DEF QueueInit, StatesOK, Consistent
<1>. QED  BY <1>2, <1>3, <1>4, <1>5 DEF QueueTypes

\* With the queue on top of it, the pool keeps its invariant (each accepted task in one
\* place), and the queue's own fields keep their types.
THEOREM QueueHolds == QueueSpec => [](Where /\ QueueTypes)
<1>1. QueueInit => Where /\ QueueTypes
  BY WhereInitially, TypesInitially DEF QueueInit
<1>2. Where /\ QueueTypes /\ [QueueNext]_allVars => Where' /\ QueueTypes'
  BY PoolSteps, WhereInductive, TypesInductive DEF QueueTypes
<1>. QED  BY <1>1, <1>2, PTL DEF QueueSpec

\* The priority queue and the dead letters stay within their capacities, no item is
\* retried more than MaxRetries times, and everything keeps its type (QueueTypeOK).
THEOREM QueueTypeCorrect == QueueSpec => []QueueTypeOK
<1>1. QueueTypes => QueueTypeOK
  BY DEF QueueTypes, ItemsOK, ItemRecord, HeapOK, LettersOK, StatesOK, QueueTypeOK
<1>. QED  BY <1>1, QueueHolds, PTL

-----------------------------------------------------------------------------
(* Only requests that were taken are anywhere *)

Taken == {i \in Items : item[i].caller \in {"waiting", "ok", "error"}}

Begun(t) == submit[t] # "unsubmitted"

OnlyTaken ==
    /\ heap \subseteq Taken /\ timers \subseteq Taken
    /\ inHand \in Taken \cup {NoItem}
    /\ deadLetters \in Seq(Taken)
    /\ \A t \in Tasks : Begun(t) => t[1] \in Taken

\* Nothing was sent to a caller whose request was not taken.
NothingSent == \A i \in Items \ Taken : item[i].chan = "empty" /\ item[i].sent = 0

\* No submission starts unless processLoop submits.
LEMMA PoolBegins ==
    ASSUME Shapes, NEW w \in Workers, WorkerStep(w)
    PROVE  \A t \in Tasks : Begun(t)' => Begun(t)
<1>1. CASE Receive(w)
  BY <1>1 DEF Receive, Begun, Shapes
<1>2. CASE BeginFn(w) \/ CountFailure(w) \/ WorkerExit(w) \/ \E failed \in BOOLEAN : FnReturns(w, failed)
  BY <1>2 DEF BeginFn, CountFailure, WorkerExit, FnReturns, WorkerGoto, Begun
<1>. QED  BY <1>1, <1>2 DEF WorkerStep

LEMMA StopBegins ==
    ASSUME Shapes, NEW s \in Stoppers, StopStep(s)
    PROVE  \A t \in Tasks : Begun(t)' => Begun(t)
BY DEF StopStep, StopClaim, StopCancel, StopClose, StopReturns, StopTimesOut, Begun, Shapes

LEMMA SubmitBegins ==
    ASSUME Shapes, NEW t \in Tasks, SubmitStep(t)
    PROVE  \A u \in Tasks \ {t} : submit'[u] = submit[u]
BY DEF SubmitStep, SubmitLoadStopped, SubmitMeasure, SubmitCount, SubmitSend, SubmitPanics,
    SubmitRefused, SubmitParks, SubmitWithdraws, SubmitRollback, SubmitGoto, Shapes

\* The callers and the channels of all items but i.
LEMMA OneSent ==
    ASSUME ItemsOK, NEW i \in Items, NEW result, item' = Sent(i, result)
    PROVE  /\ Taken' = Taken
           /\ \A j \in Items \ {i} : item'[j] = item[j]
           /\ item'[i].caller = item[i].caller /\ item'[i].requeues = item[i].requeues
           /\ item'[i].retries = item[i].retries /\ item'[i].queued = item[i].queued
           /\ item'[i].sent = item[i].sent + 1
           /\ item'[i].chan = IF item[i].chan = "empty" THEN result ELSE item[i].chan
<1> DEFINE r == [item[i] EXCEPT !.sent = item[i].sent + 1,
                                !.chan = IF item[i].chan = "empty" THEN result ELSE item[i].chan]
<1>1. item' = [item EXCEPT ![i] = r] /\ item \in [Items -> ItemRecord]
  BY DEF Sent, ItemsOK
<1>2. item[i] \in ItemRecord
  BY <1>1
<1>3. /\ r.caller = item[i].caller /\ r.requeues = item[i].requeues /\ r.retries = item[i].retries
      /\ r.sent = item[i].sent + 1 /\ r.queued = item[i].queued
      /\ r.chan = IF item[i].chan = "empty" THEN result ELSE item[i].chan
  BY <1>2 DEF ItemRecord
<1>. HIDE DEF r
<1>4. item'[i] = r /\ \A j \in Items \ {i} : item'[j] = item[j]
  BY <1>1
<1>5. Taken' = Taken
  BY <1>3, <1>4 DEF Taken
<1>. QED  BY <1>3, <1>4, <1>5

LEMMA OneRetried ==
    ASSUME ItemsOK, NEW i \in Items, Retries(i)
    PROVE  /\ Taken' = Taken
           /\ \A j \in Items \ {i} : item'[j] = item[j]
           /\ item'[i].caller = item[i].caller /\ item'[i].requeues = item[i].requeues
           /\ item'[i].sent = item[i].sent /\ item'[i].chan = item[i].chan
           /\ item'[i].queued = item[i].queued /\ timers' = timers \cup {i}
<1> DEFINE r == [item[i] EXCEPT !.retries = item[i].retries + 1]
<1>1. item' = [item EXCEPT ![i] = r] /\ item \in [Items -> ItemRecord] /\ timers' = timers \cup {i}
  BY DEF Retries, ItemsOK
<1>2. item[i] \in ItemRecord
  BY <1>1
<1>3. /\ r.caller = item[i].caller /\ r.requeues = item[i].requeues
      /\ r.sent = item[i].sent /\ r.chan = item[i].chan /\ r.queued = item[i].queued
  BY <1>2 DEF ItemRecord
<1>. HIDE DEF r
<1>4. item'[i] = r /\ \A j \in Items \ {i} : item'[j] = item[j]
  BY <1>1
<1>5. Taken' = Taken
  BY <1>3, <1>4 DEF Taken
<1>. QED  BY <1>1, <1>3, <1>4, <1>5

LEMMA OneRequeued ==
    ASSUME ItemsOK, LettersOK, Requeuing
    PROVE  Taken' = Taken /\ \A j \in Items : /\ item'[j].caller = item[j].caller
                                             /\ item'[j].chan = item[j].chan
                                             /\ item'[j].sent = item[j].sent
<1>1. ASSUME NEW i \in Items, Renews(i) \/ Returns(i)
      PROVE  \A j \in Items : /\ item'[j].caller = item[j].caller /\ item'[j].chan = item[j].chan
                              /\ item'[j].sent = item[j].sent
  BY <1>1, RequeueFields
<1>2. \A j \in Items : /\ item'[j].caller = item[j].caller /\ item'[j].chan = item[j].chan
                       /\ item'[j].sent = item[j].sent
  BY <1>1, RequeueMoves DEF GoesHome
<1>. QED  BY <1>2 DEF Taken

\* A step of a caller, at the record of its item and at the heap.
LEMMA OneCalls ==
    ASSUME ItemsOK, NEW i \in Items, CallerStep(i)
    PROVE  /\ \A j \in Items \ {i} : item'[j] = item[j]
           /\ item'[i].requeues = item[i].requeues /\ item'[i].sent = item[i].sent
           /\ item'[i].queued = item[i].queued \/ item'[i].queued = item[i].queued + 1
           /\ \/ /\ heap' = heap
                 /\ item[i].caller = "new" /\ item'[i].caller \in {"push", "refused"}
                 /\ item'[i].chan = item[i].chan
              \/ /\ item[i].caller = "push" /\ item'[i].chan = item[i].chan
                 /\ \/ heap' = heap /\ item'[i].caller = "refused"
                    \/ /\ heap' = heap \cup {i} /\ item'[i].caller = "waiting"
                       /\ item'[i].queued = item[i].queued + 1
              \/ /\ heap' = heap /\ item[i].caller = "waiting" /\ item[i].chan # "empty"
                 /\ item'[i].caller = item[i].chan /\ item'[i].chan = "empty"
              \/ /\ heap' = heap /\ item'[i].caller = item[i].caller /\ item'[i].chan = item[i].chan
<1>i. item \in [Items -> ItemRecord] /\ item[i] \in ItemRecord
  BY DEF ItemsOK
<1>1. CASE CallerChecks(i)
  <2> DEFINE c == IF QueueStopped THEN "refused" ELSE "push"
             r == [item[i] EXCEPT !.caller = c]
  <2>1. item' = [item EXCEPT ![i] = r] /\ heap' = heap /\ item[i].caller = "new"
    BY <1>1 DEF CallerChecks, Call
  <2>2. r.requeues = item[i].requeues /\ r.sent = item[i].sent /\ r.queued = item[i].queued /\ r.chan = item[i].chan /\ r.caller = c
    BY <1>i DEF ItemRecord
  <2>3. c \in {"push", "refused"}
    OBVIOUS
  <2>. HIDE DEF r, c
  <2>. QED  BY <1>i, <2>1, <2>2, <2>3
<1>2. CASE CallerPushes(i)
  <2> DEFINE c == IF HeapFull THEN "refused" ELSE "waiting"
             n == IF HeapFull THEN item[i].queued ELSE item[i].queued + 1
             r == [item[i] EXCEPT !.caller = c, !.submittedAt = Now, !.queued = n]
  <2>1. item' = [item EXCEPT ![i] = r] /\ heap' = Pushed(i) /\ item[i].caller = "push"
    BY <1>2 DEF CallerPushes
  <2>2. /\ r.requeues = item[i].requeues /\ r.sent = item[i].sent /\ r.chan = item[i].chan
        /\ r.caller = c /\ r.queued = n
    BY <1>i DEF ItemRecord
  <2>3. \/ heap' = heap /\ c = "refused" /\ n = item[i].queued
        \/ heap' = heap \cup {i} /\ c = "waiting" /\ n = item[i].queued + 1
    BY <2>1 DEF Pushed
  <2>. HIDE DEF r, c, n
  <2>. QED  BY <1>i, <2>1, <2>2, <2>3
<1>3. CASE CallerReceives(i)
  <2> DEFINE r == [item[i] EXCEPT !.caller = item[i].chan, !.chan = "empty"]
  <2>1. item' = [item EXCEPT ![i] = r] /\ heap' = heap /\ item[i].caller = "waiting" /\ item[i].chan # "empty"
    BY <1>3 DEF CallerReceives
  <2>2. r.requeues = item[i].requeues /\ r.sent = item[i].sent /\ r.queued = item[i].queued /\ r.chan = "empty" /\ r.caller = item[i].chan
    BY <1>i DEF ItemRecord
  <2>. HIDE DEF r
  <2>. QED  BY <1>i, <2>1, <2>2
<1>4. CASE ContextExpires(i)
  <2> DEFINE r == [item[i] EXCEPT !.expired = TRUE]
  <2>1. item' = [item EXCEPT ![i] = r] /\ heap' = heap
    BY <1>4 DEF ContextExpires
  <2>2. r.requeues = item[i].requeues /\ r.sent = item[i].sent /\ r.queued = item[i].queued /\ r.chan = item[i].chan /\ r.caller = item[i].caller
    BY <1>i DEF ItemRecord
  <2>. HIDE DEF r
  <2>. QED  BY <1>i, <2>1, <2>2
<1>. QED  BY <1>1, <1>2, <1>3, <1>4 DEF CallerStep

\* What the task's function handles was taken.
LEMMA WorkIsTaken ==
    ASSUME Where, Consistent, OnlyTaken, NEW w \in Workers, fn[w] # "idle"
    PROVE  Working(w) \in Taken
<1>1. holds[w] \in Tasks /\ holds[w] \in Accepted
  BY AtWork
<1>2. Begun(holds[w])
  BY <1>1 DEF Accepted, Begun
<1>. QED  BY <1>1, <1>2 DEF OnlyTaken, Working

\* The dead letters gain an item.
LEMMA LettersGainOf ==
    ASSUME NEW S, deadLetters \in Seq(S), NEW i \in S, Buries(i)
    PROVE  deadLetters' \in Seq(S)
<1> DEFINE q == IF Len(deadLetters) >= DeadLetterCap THEN Tail(deadLetters) ELSE deadLetters
<1>1. q \in Seq(S)
  <2>1. CASE Len(deadLetters) >= DeadLetterCap
    <3>1. deadLetters # <<>>
      BY <2>1, QueueConstants
    <3>. QED  BY <2>1, <3>1
  <2>. QED  BY <2>1
<1>2. deadLetters' = Append(q, i)
  BY DEF Buries
<1>. HIDE DEF q
<1>. QED  BY <1>1, <1>2

\* No step of the queue but processLoop's submission starts a submission.
LEMMA StepBegins ==
    ASSUME Where, [QueueNext]_allVars, ~LoopSubmits
    PROVE  \A t \in Tasks : Begun(t)' => Begun(t)
<1>s. Shapes
  BY DEF Where
<1>1. CASE QueueStep \/ UNCHANGED allVars
  BY <1>1 DEF QueueStep, allVars, vars, Begun
<1>2. CASE StartClaim \/ StartWorkers
  BY <1>2 DEF StartClaim, StartWorkers, Begun
<1>3. ASSUME NEW w \in Workers, WorkerAlone(w) \/ WorkerBegins(w) \/ WorkerReturns(w)
      PROVE  \A t \in Tasks : Begun(t)' => Begun(t)
  <2>1. WorkerStep(w)
    BY <1>3 DEF WorkerAlone, WorkerBegins, WorkerReturns, WorkerStep
  <2>. QED  BY <1>s, <2>1, PoolBegins
<1>4. ASSUME NEW s \in Stoppers, PoolStops(s) PROVE \A t \in Tasks : Begun(t)' => Begun(t)
  BY <1>4, <1>s, StopBegins DEF PoolStops
<1>. QED  BY <1>1, <1>2, <1>3, <1>4 DEF QueueNext

LEMMA OnlyTakenInductive ==
    ASSUME Where, QueueTypes, OnlyTaken, NothingSent, [QueueNext]_allVars
    PROVE  OnlyTaken' /\ NothingSent'
<1>i. ItemsOK /\ HeapOK /\ LettersOK /\ StatesOK /\ Consistent
  BY DEF QueueTypes
<1>o. /\ heap \subseteq Taken /\ timers \subseteq Taken /\ inHand \in Taken \cup {NoItem}
      /\ deadLetters \in Seq(Taken) /\ \A t \in Tasks : Begun(t) => t[1] \in Taken
  BY DEF OnlyTaken
<1>c. NoItem \notin Items
  BY QueueConstants
<1>1. ASSUME UNCHANGED item PROVE Taken' = Taken /\ NothingSent'
  BY <1>1 DEF Taken, NothingSent
<1>2. ASSUME NEW i \in Taken, NEW result \in {"ok", "error"}, item' = Sent(i, result)
      PROVE  Taken' = Taken /\ NothingSent'
  <2>1. Taken' = Taken /\ \A j \in Items \ {i} : item'[j] = item[j]
    BY <1>2, <1>i, OneSent DEF Taken
  <2>. QED  BY <1>2, <2>1 DEF NothingSent
<1>3. ASSUME NEW i \in Taken, Retries(i)
      PROVE  Taken' = Taken /\ NothingSent' /\ timers' \subseteq Taken
  <2>1. Taken' = Taken /\ (\A j \in Items \ {i} : item'[j] = item[j]) /\ timers' = timers \cup {i}
    BY <1>3, <1>i, OneRetried DEF Taken
  <2>. QED  BY <1>3, <1>o, <2>1 DEF NothingSent
<1>4. ASSUME NEW i \in Items, CallerStep(i), UNCHANGED vars PROVE OnlyTaken' /\ NothingSent'
  <2>1. /\ \A j \in Items \ {i} : item'[j] = item[j]
        /\ item'[i].sent = item[i].sent
        /\ item[i] \in ItemRecord
    BY <1>4, <1>i, OneCalls DEF ItemsOK
  <2>2. UNCHANGED <<timers, deadLetters, requeueVars, loop, inHand, fn, processed, queueStop>>
    BY <1>4, CallerTypes
  <2>3. \A t \in Tasks : Begun(t)' => Begun(t)
    BY <1>4 DEF vars, Begun
  <2>4. /\ Taken \subseteq Taken' /\ heap' \subseteq Taken'
        /\ i \notin Taken' => i \notin Taken /\ item'[i].chan = item[i].chan
    <3>1. CASE /\ heap' = heap
               /\ item[i].caller = "new" /\ item'[i].caller \in {"push", "refused"}
               /\ item'[i].chan = item[i].chan
      BY <2>1, <3>1, <1>o DEF Taken
    <3>2. CASE /\ item[i].caller = "push" /\ item'[i].chan = item[i].chan
               /\ \/ heap' = heap /\ item'[i].caller = "refused"
                  \/ heap' = heap \cup {i} /\ item'[i].caller = "waiting"
      BY <2>1, <3>2, <1>o DEF Taken
    <3>3. CASE /\ heap' = heap /\ item[i].caller = "waiting" /\ item[i].chan # "empty"
               /\ item'[i].caller = item[i].chan /\ item'[i].chan = "empty"
      <4>1. item[i].chan \in {"ok", "error"}
        BY <2>1, <3>3 DEF ItemRecord
      <4>. QED  BY <2>1, <3>3, <4>1, <1>o DEF Taken
    <3>4. CASE /\ heap' = heap /\ item'[i].caller = item[i].caller /\ item'[i].chan = item[i].chan
      BY <2>1, <3>4, <1>o DEF Taken
    <3>. QED  BY <1>4, <1>i, <3>1, <3>2, <3>3, <3>4, OneCalls
  <2>5. OnlyTaken'
    <3>1. deadLetters' \in Seq(Taken')
      <4>1. deadLetters \in Seq(Taken')
        BY <1>o, <2>4
      <4>. QED  BY <2>2, <4>1
    <3>. QED  BY <1>o, <2>2, <2>3, <2>4, <3>1 DEF OnlyTaken
  <2>6. NothingSent'
    BY <2>1, <2>4 DEF NothingSent, Taken
  <2>. QED  BY <2>5, <2>6
<1>5. CASE QueueStep
  <2>u. UNCHANGED vars
    BY <1>5 DEF QueueStep
  <2>b. \A t \in Tasks : Begun(t)' => Begun(t)
    BY <2>u DEF vars, Begun
  <2>1. ASSUME Taken' = Taken, NothingSent', heap' \subseteq Taken, timers' \subseteq Taken,
               inHand' \in Taken \cup {NoItem}, deadLetters' \in Seq(Taken)
        PROVE  OnlyTaken' /\ NothingSent'
    BY <2>1, <2>b, <1>o DEF OnlyTaken
  <2>2. ASSUME NEW i \in Items, TimerFires(i) PROVE OnlyTaken' /\ NothingSent'
    BY <2>2, <2>1, <1>1, <1>o DEF TimerFires, Pushed
  <2>3. CASE LoopStep
    <3>1. CASE LoopStarts \/ LoopChecks \/ LoopPops
      BY <3>1, <2>1, <1>1, <1>o DEF LoopStarts, LoopChecks, LoopPops
    <3>2. CASE LoopChecksContext
      <4>1. inHand \in Taken
        BY <3>2, <1>i, <1>o, <1>c DEF LoopChecksContext, LoopGoto, Consistent
      <4>2. CASE item' = Sent(inHand, "error") /\ inHand' = NoItem
        BY <3>2, <4>1, <4>2, <2>1, <1>2, <1>o DEF LoopChecksContext
      <4>3. CASE UNCHANGED <<item, inHand>>
        BY <3>2, <4>3, <2>1, <1>1, <1>o DEF LoopChecksContext
      <4>. QED  BY <3>2, <4>2, <4>3 DEF LoopChecksContext
    <3>3. CASE LoopRetries
      <4>1. inHand \in Taken
        BY <3>3, <1>i, <1>o, <1>c DEF LoopRetries, LoopGoto, Consistent
      <4>. QED  BY <3>3, <4>1, <2>1, <1>3, <1>o DEF LoopRetries
    <3>4. CASE LoopBuries
      <4>1. inHand \in Taken
        BY <3>4, <1>i, <1>o, <1>c DEF LoopBuries, LoopGoto, Consistent
      <4>2. deadLetters' \in Seq(Taken)
        BY <3>4, <4>1, <1>o, LettersGainOf DEF LoopBuries
      <4>. QED  BY <3>4, <4>2, <2>1, <1>1, <1>o DEF LoopBuries
    <3>5. CASE LoopGivesUp
      <4>1. inHand \in Taken
        BY <3>5, <1>i, <1>o, <1>c DEF LoopGivesUp, LoopGoto, Consistent
      <4>. QED  BY <3>5, <4>1, <2>1, <1>2, <1>o DEF LoopGivesUp
    <3>. QED  BY <2>3, <3>1, <3>2, <3>3, <3>4, <3>5 DEF LoopStep
  <2>4. ASSUME NEW w \in Workers, FnStep(w) PROVE OnlyTaken' /\ NothingSent'
    <3>0. Working(w) \in Taken /\ UNCHANGED <<heap, inHand>>
      <4>1. fn[w] # "idle" /\ UNCHANGED <<heap, inHand>>
        BY <2>4 DEF FnStep, ProcessorSucceeds, ProcessorRetries, ProcessorBuries, WorkerAnswers, FnGoto
      <4>. QED  BY <4>1, <1>i, WorkIsTaken
    <3>1. CASE ProcessorSucceeds(w)
      BY <3>0, <3>1, <2>1, <1>1, <1>o DEF ProcessorSucceeds
    <3>2. CASE ProcessorRetries(w)
      BY <3>0, <3>2, <2>1, <1>3, <1>o DEF ProcessorRetries
    <3>3. CASE ProcessorBuries(w)
      <4>1. deadLetters' \in Seq(Taken)
        BY <3>0, <3>3, <1>o, LettersGainOf DEF ProcessorBuries
      <4>. QED  BY <3>0, <3>3, <4>1, <2>1, <1>1, <1>o DEF ProcessorBuries
    <3>4. CASE WorkerAnswers(w)
      <4>1. Taken' = Taken /\ NothingSent'
        BY <3>0, <3>4, <1>2 DEF WorkerAnswers
      <4>. QED  BY <3>0, <3>4, <4>1, <2>1, <1>o DEF WorkerAnswers
    <3>. QED  BY <2>4, <3>1, <3>2, <3>3, <3>4 DEF FnStep
  <2>5. CASE Requeuing
    <3>1. Taken' = Taken /\ NothingSent'
      BY <2>5, <1>i, OneRequeued DEF NothingSent
    <3>2. UNCHANGED <<timers, inHand>>
      BY <2>5, <1>i, RequeueMoves
    <3>3. ASSUME NEW i \in Items, Renews(i) \/ Returns(i)
          PROVE  heap' \subseteq Taken /\ deadLetters' \in Seq(Taken)
      <4>1. i \in Elements(deadLetters) /\ heap' \subseteq heap \cup {i} /\ deadLetters' = deadLetters
        BY <3>3 DEF Renews, Returns
      <4>2. i \in Taken
        BY <4>1, <1>o DEF Elements
      <4>. QED  BY <4>1, <4>2, <1>o
    <3>4. CASE GoesHome
      <4>1. heap' = heap
        BY <3>4 DEF GoesHome
      <4>2. deadLetters' \in Seq(Taken)
        <5>1. requeue # "no" => letter \in 1 .. Len(deadLetters)
          BY <1>i DEF LettersOK
        <5>. QED  BY <3>4, <5>1, <1>o, CutOut DEF GoesHome
      <4>. QED  BY <2>1, <3>1, <3>2, <4>1, <4>2, <1>o
    <3>. QED  BY <2>1, <2>5, <1>i, <1>o, <3>1, <3>2, <3>3, <3>4, RequeueMoves
  <2>6. CASE Clear
    BY <2>6, <2>1, <1>1, <1>o DEF Clear
  <2>7. CASE QueueStopStep
    BY <2>7, <2>1, <1>1, <1>o DEF QueueStopStep, QueueStopClaims, QueueStopReturns, QueueStopTimesOut,
        QueueStopGoto
  <2>. QED  BY <1>5, <2>u, <1>4, <2>2, <2>3, <2>4, <2>5, <2>6, <2>7 DEF QueueStep, Requeuing
<1>6. CASE LoopSubmits
  <2>1. inHand \in Taken /\ inHand \in Items
    BY <1>6, <1>i, <1>o, <1>c DEF LoopSubmits, Consistent
  <2>2. Attempt(inHand) \in Tasks /\ Attempt(inHand)[1] = inHand
    BY <1>i, <2>1, AttemptIsTask
  <2>3. SubmitStep(Attempt(inHand)) /\ UNCHANGED <<item, heap, timers, deadLetters>> /\ inHand' \in {inHand, NoItem}
    BY <1>6 DEF LoopSubmits
  <2>4. \A u \in Tasks \ {Attempt(inHand)} : submit'[u] = submit[u]
    BY <2>2, <2>3, SubmitBegins DEF Where
  <2>5. \A u \in Tasks : Begun(u)' => u[1] \in Taken
    BY <2>1, <2>2, <2>4, <1>o DEF Begun
  <2>. QED  BY <2>1, <2>3, <2>5, <1>1, <1>o DEF OnlyTaken
<1>7. CASE UNCHANGED queueVars /\ ~LoopSubmits
  <2>1. \A t \in Tasks : Begun(t)' => Begun(t)
    BY <1>7, StepBegins
  <2>. QED  BY <1>7, <2>1, <1>1, <1>o DEF OnlyTaken, queueVars
<1>8. ASSUME NEW w \in Workers, WorkerBegins(w) \/ WorkerReturns(w), ~LoopSubmits
      PROVE  OnlyTaken' /\ NothingSent'
  <2>1. \A t \in Tasks : Begun(t)' => Begun(t)
    BY <1>8, StepBegins
  <2>2. UNCHANGED <<item, heap, inHand, timers, deadLetters>>
    BY <1>8 DEF WorkerBegins, WorkerReturns, FnGoto
  <2>. QED  BY <2>1, <2>2, <1>1, <1>o DEF OnlyTaken
<1>9. ASSUME NEW w \in Workers, WorkerAlone(w), ~LoopSubmits PROVE OnlyTaken' /\ NothingSent'
  BY <1>7, <1>9 DEF WorkerAlone
<1>10. ASSUME NEW s \in Stoppers, PoolStops(s), ~LoopSubmits PROVE OnlyTaken' /\ NothingSent'
  BY <1>7, <1>10 DEF PoolStops
<1>11. CASE UNCHANGED allVars
  BY <1>11, <1>6, <1>7 DEF allVars
<1>. QED  BY <1>5, <1>6, <1>7, <1>8, <1>9, <1>10, <1>11 DEF QueueNext

LEMMA OnlyTakenInitially == QueueInit => OnlyTaken /\ NothingSent
<1>. SUFFICES ASSUME QueueInit PROVE OnlyTaken /\ NothingSent
  OBVIOUS
<1>1. \A i \in Items : item[i].chan = "empty" /\ item[i].sent = 0
  BY DEF QueueInit, NewItem
<1>2. \A t \in Tasks : ~Begun(t)
  BY DEF QueueInit, Init, Begun
<1>. QED  BY <1>1, <1>2 DEF QueueInit, OnlyTaken, NothingSent

\* Whatever the queue, processLoop, the timers, the dead letters and the pool have was
\* taken by Submit, and nothing was sent to a caller whose request was not.
THEOREM TakenHolds == QueueSpec => [](OnlyTaken /\ NothingSent)
BY OnlyTakenInitially, OnlyTakenInductive, QueueHolds, PTL DEF QueueSpec

-----------------------------------------------------------------------------
(* The promise to the callers *)

Statuses == [i \in Items |-> StatusOf(i)]

\* The status of a request, by its caller and its channel.
LEMMA StatusByCaller ==
    ASSUME NEW i \in Items
    PROVE  /\ item[i].caller \in {"new", "push"} => StatusOf(i) = "new"
           /\ item[i].caller = "waiting" /\ item[i].chan = "empty" => StatusOf(i) = "pending"
           /\ item[i].caller = "waiting" /\ item[i].chan # "empty" => StatusOf(i) = item[i].chan
           /\ item[i].caller \in {"refused", "ok", "error"} => StatusOf(i) = item[i].caller
BY DEF StatusOf

\* Only the status of request i changes.
LEMMA StatusMoves ==
    ASSUME NEW i \in Items, \A j \in Items \ {i} : item'[j] = item[j]
    PROVE  /\ StatusOf(i)' = StatusOf(i) => Statuses' = Statuses
           /\ \A s : StatusOf(i)' = s => Statuses' = [Statuses EXCEPT ![i] = s]
<1>1. \A j \in Items \ {i} : StatusOf(j)' = StatusOf(j)
  BY DEF StatusOf
<1>. QED  BY <1>1 DEF Statuses

\* A result that is sent answers a pending request, or is dropped.
LEMMA SentReplies ==
    ASSUME ItemsOK, NEW i \in Taken, NEW result \in {"ok", "error"}, item' = Sent(i, result)
    PROVE  [Callers!Next]_Statuses
<1>1. i \in Items /\ item[i] \in ItemRecord /\ item[i].caller \in {"waiting", "ok", "error"}
  BY DEF Taken, ItemsOK
<1>2. /\ \A j \in Items \ {i} : item'[j] = item[j]
      /\ item'[i].caller = item[i].caller
      /\ item'[i].chan = IF item[i].chan = "empty" THEN result ELSE item[i].chan
  BY <1>1, OneSent
<1>3. CASE item[i].caller = "waiting" /\ item[i].chan = "empty"
  <2>1. StatusOf(i) = "pending" /\ StatusOf(i)' = result
    BY <1>1, <1>2, <1>3 DEF StatusOf
  <2>2. Statuses' = [Statuses EXCEPT ![i] = result] /\ Statuses[i] = "pending"
    BY <1>1, <1>2, <2>1, StatusMoves DEF Statuses
  <2>. QED  BY <1>1, <2>2 DEF Callers!Next, Callers!Reply, Statuses
<1>4. CASE ~(item[i].caller = "waiting" /\ item[i].chan = "empty")
  <2>1. item'[i].chan = item[i].chan \/ item[i].caller # "waiting"
    BY <1>2, <1>4
  <2>2. StatusOf(i)' = StatusOf(i)
    BY <1>1, <1>2, <2>1 DEF StatusOf
  <2>. QED  BY <1>1, <1>2, <2>2, StatusMoves
<1>. QED  BY <1>3, <1>4

LEMMA CallerKeepsPromise ==
    ASSUME ItemsOK, NothingSent, NEW i \in Items, CallerStep(i)
    PROVE  [Callers!Next]_Statuses
<1>1. \A j \in Items \ {i} : item'[j] = item[j]
  BY OneCalls
<1>2. item[i] \in ItemRecord
  BY DEF ItemsOK
<1>3. ASSUME Statuses[i] = "new", NEW s \in {"pending", "refused"}, StatusOf(i)' = s
      PROVE  Callers!Next
  <2>1. Statuses' = [Statuses EXCEPT ![i] = s]
    BY <1>1, <1>3, StatusMoves
  <2>. QED  BY <1>3, <2>1 DEF Callers!Next, Callers!Submit, Statuses
<1>4. ASSUME StatusOf(i)' = StatusOf(i) PROVE Statuses' = Statuses
  BY <1>1, <1>4, StatusMoves
<1>5. CASE item[i].caller = "new" /\ item'[i].caller \in {"push", "refused"}
  <2>1. StatusOf(i) = "new" /\ StatusOf(i)' \in {"new", "refused"}
    BY <1>5 DEF StatusOf
  <2>. QED  BY <2>1, <1>3, <1>4 DEF Statuses
<1>6. CASE item[i].caller = "push" /\ item'[i].caller \in {"refused", "waiting"} /\ item'[i].chan = item[i].chan
  <2>1. item[i].chan = "empty"
    BY <1>6 DEF NothingSent, Taken
  <2>2. StatusOf(i) = "new" /\ StatusOf(i)' \in {"pending", "refused"}
    BY <1>6, <2>1 DEF StatusOf
  <2>. QED  BY <2>2, <1>3 DEF Statuses
<1>7. CASE /\ item[i].caller = "waiting" /\ item[i].chan # "empty"
           /\ item'[i].caller = item[i].chan /\ item'[i].chan = "empty"
  <2>1. item'[i].caller \in {"ok", "error"}
    BY <1>2, <1>7 DEF ItemRecord
  <2>2. StatusOf(i) = item[i].chan /\ StatusOf(i)' = item[i].chan
    BY <1>7, <2>1 DEF StatusOf
  <2>. QED  BY <2>2, <1>4
<1>8. CASE item'[i].caller = item[i].caller /\ item'[i].chan = item[i].chan
  <2>1. StatusOf(i)' = StatusOf(i)
    BY <1>8 DEF StatusOf
  <2>. QED  BY <2>1, <1>4
<1>. QED  BY <1>5, <1>6, <1>7, <1>8, OneCalls

LEMMA PromiseKept ==
    ASSUME Where, QueueTypes, OnlyTaken, NothingSent, [QueueNext]_allVars
    PROVE  [Callers!Next]_Statuses
<1>i. ItemsOK /\ LettersOK /\ Consistent
  BY DEF QueueTypes
<1>o. inHand \in Taken \cup {NoItem} /\ NoItem \notin Items /\ deadLetters \in Seq(Taken) /\ Taken \subseteq Items
  BY QueueConstants DEF OnlyTaken, Taken
<1>1. CASE UNCHANGED item
  BY <1>1 DEF Statuses, StatusOf
<1>2. ASSUME NEW i \in Items, Retries(i) PROVE [Callers!Next]_Statuses
  <2>1. /\ \A j \in Items \ {i} : item'[j] = item[j]
        /\ item'[i].caller = item[i].caller /\ item'[i].chan = item[i].chan
    BY <1>2, <1>i, OneRetried
  <2>2. StatusOf(i)' = StatusOf(i)
    BY <2>1 DEF StatusOf
  <2>. QED  BY <2>1, <2>2, StatusMoves
<1>3. CASE LoopStep
  <2>1. CASE LoopStarts \/ LoopChecks \/ LoopPops \/ LoopBuries
    BY <2>1, <1>1 DEF LoopStarts, LoopChecks, LoopPops, LoopBuries
  <2>2. CASE LoopChecksContext \/ LoopGivesUp
    <3>1. inHand \in Taken
      BY <2>2, <1>i, <1>o DEF LoopChecksContext, LoopGivesUp, LoopGoto, Consistent
    <3>2. CASE item' = Sent(inHand, "error")
      BY <3>1, <3>2, <1>i, SentReplies
    <3>. QED  BY <2>2, <3>2, <1>1 DEF LoopChecksContext, LoopGivesUp
  <2>3. CASE LoopRetries
    <3>1. inHand \in Taken
      BY <2>3, <1>i, <1>o DEF LoopRetries, LoopGoto, Consistent
    <3>. QED  BY <2>3, <3>1, <1>o, <1>2 DEF LoopRetries
  <2>. QED  BY <1>3, <2>1, <2>2, <2>3 DEF LoopStep
<1>4. ASSUME NEW w \in Workers, FnStep(w) PROVE [Callers!Next]_Statuses
  <2>1. fn[w] # "idle"
    BY <1>4 DEF FnStep, ProcessorSucceeds, ProcessorRetries, ProcessorBuries, WorkerAnswers, FnGoto
  <2>2. Working(w) \in Taken
    BY <2>1, <1>i, WorkIsTaken
  <2>3. CASE ProcessorSucceeds(w) \/ ProcessorBuries(w)
    BY <2>3, <1>1 DEF ProcessorSucceeds, ProcessorBuries
  <2>4. CASE ProcessorRetries(w)
    BY <2>2, <2>4, <1>o, <1>2 DEF ProcessorRetries
  <2>5. CASE WorkerAnswers(w)
    BY <2>2, <2>5, <1>i, SentReplies DEF WorkerAnswers
  <2>. QED  BY <1>4, <2>3, <2>4, <2>5 DEF FnStep
<1>5. CASE Requeuing
  <2>1. \A j \in Items : StatusOf(j)' = StatusOf(j)
    <3>1. \A j \in Items : item'[j].caller = item[j].caller /\ item'[j].chan = item[j].chan
      BY <1>5, <1>i, OneRequeued
    <3>. QED  BY <3>1 DEF StatusOf
  <2>. QED  BY <2>1 DEF Statuses
<1>6. CASE QueueStep
  <2>1. CASE \/ \E i \in Items : TimerFires(i)
             \/ Clear \/ QueueStopStep
    BY <2>1, <1>1 DEF TimerFires, Clear, QueueStopStep, QueueStopClaims, QueueStopReturns,
        QueueStopTimesOut, QueueStopGoto
  <2>. QED  BY <1>6, <2>1, <1>i, <1>3, <1>4, <1>5, CallerKeepsPromise DEF QueueStep, Requeuing
<1>7. CASE \/ LoopSubmits \/ UNCHANGED queueVars \/ UNCHANGED allVars
           \/ \E w \in Workers : WorkerAlone(w) \/ WorkerBegins(w) \/ WorkerReturns(w)
           \/ \E s \in Stoppers : PoolStops(s)
  BY <1>7, <1>1 DEF LoopSubmits, queueVars, allVars, WorkerAlone, WorkerBegins, WorkerReturns, PoolStops
<1>. QED  BY <1>6, <1>7 DEF QueueNext

\* The queue on its pool implements RequestReply: a request is refused at once or
\* becomes pending, a pending request gets at most one reply, and a reply is never
\* changed or withdrawn (KeepsPromise).
THEOREM QueueKeepsPromise == QueueSpec => KeepsPromise
<1>1. QueueInit => Callers!Init
  <2>. SUFFICES ASSUME QueueInit PROVE Statuses = [i \in Items |-> "new"]
    BY DEF Callers!Init, Statuses
  <2>1. \A i \in Items : StatusOf(i) = "new"
    BY DEF QueueInit, NewItem, StatusOf
  <2>. QED  BY <2>1 DEF Statuses
<1>2. Where /\ QueueTypes /\ OnlyTaken /\ NothingSent /\ [QueueNext]_allVars => [Callers!Next]_Statuses
  BY PromiseKept
<1>. QED  BY <1>1, <1>2, QueueHolds, TakenHolds, PTL DEF QueueSpec, KeepsPromise, Callers!Spec, Statuses

-----------------------------------------------------------------------------
(* Who has an item *)

Looped == IF loop \in {"context", "submit"} THEN {inHand} ELSE {}

\* The accepted tasks whose processing is not over, and their items.
Live == {t \in Accepted \ finished :
             \A w \in Workers : holds[w] = t => fn[w] \in {"idle", "process"}}
LiveItems == {t[1] : t \in Live}

\* The dead letters, but for one that is back on the queue and only to be removed.
BeingRemoved == IF requeue = "remove" THEN {deadLetters[letter]} ELSE {}
Letters == Elements(deadLetters) \ BeingRemoved
LettersDistinct == Distinct(deadLetters)

\* Submissions are made by Submit, never by SubmitWithTimeout, and so never wait.
Untimed == \A t \in Tasks : submit[t] \notin {"countTimed", "sendTimed", "parked"}

Apart ==
    /\ heap \cap timers = {} /\ heap \cap Looped = {} /\ heap \cap LiveItems = {}
    /\ heap \cap Letters = {}
    /\ timers \cap Looped = {} /\ timers \cap LiveItems = {} /\ timers \cap Letters = {}
    /\ Looped \cap LiveItems = {} /\ Looped \cap Letters = {}
    /\ LiveItems \cap Letters = {}

OneTask == \A t, u \in Live : t[1] = u[1] => t = u

Exclusive == Apart /\ OneTask /\ LettersDistinct

\* Item i moves, and is in one place afterwards.
LEMMA MovesApart ==
    ASSUME Apart, NEW i,
           heap' \subseteq heap \cup {i}, timers' \subseteq timers \cup {i},
           Looped' \subseteq Looped \cup {i}, LiveItems' \subseteq LiveItems \cup {i},
           Letters' \subseteq Letters \cup {i},
           \/ i \notin timers' \cup Looped' \cup LiveItems' \cup Letters'
           \/ i \notin heap' \cup Looped' \cup LiveItems' \cup Letters'
           \/ i \notin heap' \cup timers' \cup LiveItems' \cup Letters'
           \/ i \notin heap' \cup timers' \cup Looped' \cup Letters'
           \/ i \notin heap' \cup timers' \cup Looped' \cup LiveItems'
    PROVE  Apart'
BY DEF Apart

LEMMA StaysApart ==
    ASSUME Apart, heap' \subseteq heap, timers' \subseteq timers, Looped' \subseteq Looped,
           LiveItems' \subseteq LiveItems, Letters' \subseteq Letters
    PROVE  Apart'
BY DEF Apart

LEMMA LettersOne ==
    ASSUME LettersOK, LettersDistinct, NEW i \in Items, i \notin Letters,
           Buries(i), UNCHANGED requeueVars
    PROVE  LettersDistinct' /\ Letters' \subseteq Letters \cup {i}
<1>0. requeue = "no" /\ requeue' = "no"
  BY DEF Buries, requeueVars
<1>1. deadLetters \in Seq(Items) /\ Distinct(deadLetters) /\ i \notin Elements(deadLetters)
  BY <1>0 DEF LettersOK, LettersDistinct, Letters, BeingRemoved
<1>2. PICK q \in Seq(Items) : /\ deadLetters' = Append(q, i) /\ Distinct(q)
                              /\ Elements(q) \subseteq Elements(deadLetters)
  <2>1. CASE Len(deadLetters) >= DeadLetterCap
    <3>1. deadLetters # <<>>
      BY <1>1, <2>1, QueueConstants
    <3>2. /\ Tail(deadLetters) \in Seq(Items) /\ Distinct(Tail(deadLetters))
          /\ Elements(Tail(deadLetters)) = Elements(deadLetters) \ {Head(deadLetters)}
      BY <1>1, <3>1, Removed
    <3>. QED  BY <2>1, <3>2 DEF Buries
  <2>2. CASE ~(Len(deadLetters) >= DeadLetterCap)
    BY <1>1, <2>2 DEF Buries
  <2>. QED  BY <2>1, <2>2
<1>3. Distinct(Append(q, i)) /\ Elements(Append(q, i)) = Elements(q) \cup {i}
  BY <1>1, <1>2, Appended
<1>4. LettersDistinct' <=> Distinct(deadLetters')
  BY DEF LettersDistinct, Distinct
<1>5. Letters' = Elements(deadLetters') /\ Letters = Elements(deadLetters)
  BY <1>0 DEF Letters, BeingRemoved, Elements
<1>. QED  BY <1>1, <1>2, <1>3, <1>4, <1>5

LEMMA LettersRest ==
    ASSUME UNCHANGED deadLetters, UNCHANGED requeueVars
    PROVE  Letters' = Letters /\ (LettersDistinct' <=> LettersDistinct)
BY DEF Letters, BeingRemoved, LettersDistinct, Elements, Distinct, requeueVars

LEMMA LettersRequeued ==
    ASSUME LettersOK, LettersDistinct
    PROVE  /\ \A i \in Items : Renews(i) => LettersDistinct' /\ i \in Letters /\ Letters' = Letters
           /\ \A i \in Items : Returns(i) => LettersDistinct' /\ i \in Letters /\ Letters' = Letters \ {i}
           /\ GoesHome => LettersDistinct' /\ Letters' = Letters
<1>1. deadLetters \in Seq(Items) /\ Distinct(deadLetters)
  BY DEF LettersOK, LettersDistinct
<1>2. deadLetters' = deadLetters => LettersDistinct' /\ Elements(deadLetters') = Elements(deadLetters)
  BY DEF LettersDistinct, Distinct
<1>3. Letters' = Elements(deadLetters') \ (IF requeue' = "remove" THEN {deadLetters'[letter']} ELSE {})
  BY DEF Letters, BeingRemoved, Elements
<1>4. ASSUME NEW i \in Items, Renews(i) PROVE LettersDistinct' /\ i \in Letters /\ Letters' = Letters
  BY <1>2, <1>3, <1>4 DEF Renews, Letters, BeingRemoved
<1>5. ASSUME NEW i \in Items, Returns(i) PROVE LettersDistinct' /\ i \in Letters /\ Letters' = Letters \ {i}
  BY <1>2, <1>3, <1>5 DEF Returns, Letters, BeingRemoved
<1>6. ASSUME GoesHome PROVE LettersDistinct' /\ Letters' = Letters
  <2>1. requeue' = "no"
    BY <1>6 DEF GoesHome
  <2>2. CASE requeue = "push" /\ deadLetters' = deadLetters
    BY <1>2, <1>3, <2>1, <2>2 DEF Letters, BeingRemoved
  <2>3. CASE /\ requeue = "remove"
             /\ deadLetters' = SubSeq(deadLetters, 1, letter - 1) \o
                               SubSeq(deadLetters, letter + 1, Len(deadLetters))
    <3>1. letter \in 1 .. Len(deadLetters)
      BY <2>3 DEF LettersOK
    <3>2. deadLetters' \in Seq(Items) /\ Without(deadLetters, letter, deadLetters')
      BY <1>1, <2>3, <3>1, CutOut
    <3>3. Distinct(deadLetters') /\ Elements(deadLetters') = Elements(deadLetters) \ {deadLetters[letter]}
      BY <1>1, <3>1, <3>2, TakenOut
    <3>4. LettersDistinct'
      BY <3>3 DEF LettersDistinct, Distinct
    <3>. QED  BY <1>3, <2>1, <2>3, <3>3, <3>4 DEF Letters, BeingRemoved
  <2>. QED  BY <1>6, <2>2, <2>3 DEF GoesHome
<1>. QED  BY <1>4, <1>5, <1>6

-----------------------------------------------------------------------------
(* The tasks being processed *)

\* A task that is processed moves on: its processing is over.
LEMMA WorkEnds ==
    ASSUME Where, StatesOK, Consistent, NEW w \in Workers, UNCHANGED vars,
           NEW there \in {"sendOk", "sendError", "returnError"}, FnGoto(w, "process", there)
    PROVE  /\ holds[w] \in Live /\ Live' = Live \ {holds[w]}
           /\ Working(w) \in LiveItems
<1>1. fn \in [Workers -> FnStates] /\ fn[w] = "process" /\ fn' = [fn EXCEPT ![w] = there]
  BY DEF StatesOK, FnStates, FnGoto
<1>2. /\ holds[w] \in Accepted /\ holds[w] \notin finished
      /\ \A v \in Workers : holds[v] = holds[w] => v = w
  BY <1>1, AtWork
<1>3. UNCHANGED <<submit, finished, holds>>
  BY DEF vars, workers
<1>4. Accepted' = Accepted
  BY <1>3 DEF Accepted
<1>5. holds[w] \in Live
  BY <1>1, <1>2 DEF Live
<1>6. \A v \in Workers \ {w} : fn'[v] = fn[v]
  BY <1>1
<1>7. fn'[w] \notin {"idle", "process"}
  BY <1>1
<1>8. Live' = Live \ {holds[w]}
  <2>1. ASSUME NEW t \in Live' PROVE t \in Live \ {holds[w]}
    BY <1>1, <1>3, <1>4, <1>6, <1>7 DEF Live
  <2>2. ASSUME NEW t \in Live, t # holds[w] PROVE t \in Live'
    BY <2>2, <1>3, <1>4, <1>6 DEF Live
  <2>. QED  BY <2>1, <2>2
<1>. QED  BY <1>5, <1>8 DEF LiveItems, Working

\* No processing begins or ends.
LEMMA LiveRests ==
    ASSUME Accepted' = Accepted, UNCHANGED <<finished, holds>>,
           \A w \in Workers : fn'[w] \in {"idle", "process"} <=> fn[w] \in {"idle", "process"}
    PROVE  Live' = Live /\ LiveItems' = LiveItems
<1>1. Live' = Live
  BY DEF Live
<1>. QED  BY <1>1 DEF LiveItems

LEMMA UntimedInductive ==
    ASSUME Where, QueueTypes, Untimed, [QueueNext]_allVars
    PROVE  Untimed'
<1>s. submit \in [Tasks -> SubmitStates] /\ \A t \in Tasks : submit[t] # "parked"
  BY DEF Where, Shapes, Untimed
<1>1. ASSUME UNCHANGED submit PROVE Untimed'
  BY <1>1 DEF Untimed
<1>2. CASE QueueStep \/ StartClaim \/ StartWorkers \/ UNCHANGED allVars
  BY <1>2, <1>1 DEF QueueStep, StartClaim, StartWorkers, allVars, vars
<1>3. CASE LoopSubmits
  <2>1. PICK t \in Tasks : SubmitStep(t) /\ submit'[t] # "countTimed"
    <3>1. inHand \in Items /\ ItemsOK
      BY <1>3 DEF LoopSubmits, QueueTypes, Consistent
    <3>2. Attempt(inHand) \in Tasks
      BY <3>1, AttemptIsTask
    <3>. QED  BY <1>3, <3>2 DEF LoopSubmits
  <2>2. \A u \in Tasks \ {t} : submit'[u] = submit[u]
    BY <2>1, SubmitBegins DEF Where
  <2>3. submit'[t] \notin {"sendTimed", "parked"}
    BY <2>1, <1>s DEF SubmitStep, SubmitLoadStopped, SubmitMeasure, SubmitCount, SubmitSend, SubmitPanics,
        SubmitRefused, SubmitParks, SubmitWithdraws, SubmitRollback, SubmitGoto, Untimed
  <2>. QED  BY <2>1, <2>2, <2>3 DEF Untimed
<1>4. ASSUME NEW w \in Workers, WorkerAlone(w) \/ WorkerBegins(w) \/ WorkerReturns(w) PROVE UNCHANGED submit
  <2>1. ~ \E t \in {u \in Tasks : submit[u] = "parked"} : TRUE
    BY <1>s
  <2>. QED  BY <1>4, <2>1 DEF WorkerAlone, WorkerBegins, WorkerReturns, Receive, CountFailure, WorkerExit, BeginFn,
        FnReturns, WorkerGoto
<1>5. ASSUME NEW s \in Stoppers, PoolStops(s) PROVE UNCHANGED submit
  <2>1. [t \in Tasks |-> IF submit[t] = "parked" THEN "withdraw" ELSE submit[t]] = submit
    BY <1>s
  <2>. QED  BY <1>5, <2>1 DEF PoolStops, StopStep, StopClaim, StopCancel, StopClose, StopReturns, StopTimesOut
<1>. QED  BY <1>1, <1>2, <1>3, <1>4, <1>5 DEF QueueNext

\* The pool's own steps neither begin nor end the processing of a task.
LEMMA PoolLive ==
    ASSUME Where, QueueTypes, Untimed,
           \/ StartClaim /\ UNCHANGED queueVars
           \/ StartWorkers /\ UNCHANGED queueVars
           \/ \E w \in Workers : WorkerAlone(w) \/ WorkerBegins(w) \/ WorkerReturns(w)
           \/ \E s \in Stoppers : PoolStops(s)
    PROVE  Live' = Live /\ LiveItems' = LiveItems
<1>s. /\ submit \in [Tasks -> SubmitStates] /\ \A t \in Tasks : submit[t] # "parked"
      /\ fn \in [Workers -> FnStates] /\ holds \in [Workers -> Tasks \cup {NoTask}] /\ NoTask \notin Tasks
  BY QueueConstants DEF Where, Shapes, Untimed, QueueTypes, StatesOK, FnStates
<1>1. CASE (StartClaim \/ StartWorkers) /\ UNCHANGED queueVars
  <2>1. UNCHANGED <<submit, finished, holds, fn>>
    BY <1>1 DEF StartClaim, StartWorkers, queueVars, workers
  <2>. QED  BY <2>1, LiveRests DEF Accepted
<1>2. ASSUME NEW s \in Stoppers, PoolStops(s) PROVE Live' = Live /\ LiveItems' = LiveItems
  <2>1. [t \in Tasks |-> IF submit[t] = "parked" THEN "withdraw" ELSE submit[t]] = submit
    BY <1>s
  <2>2. UNCHANGED <<submit, finished, holds, fn>>
    BY <1>2, <2>1 DEF PoolStops, StopStep, StopClaim, StopCancel, StopClose, StopReturns, StopTimesOut,
        StopGoto, queueVars, workers
  <2>. QED  BY <2>2, LiveRests DEF Accepted
<1>3. ASSUME NEW w \in Workers, WorkerAlone(w) \/ WorkerBegins(w) \/ WorkerReturns(w)
      PROVE  Live' = Live /\ LiveItems' = LiveItems
  <2>0. ~ \E t \in {u \in Tasks : submit[u] = "parked"} : TRUE
    BY <1>s
  <2>a. UNCHANGED submit
    BY <1>3, <2>0 DEF WorkerAlone, WorkerBegins, WorkerReturns, Receive, CountFailure, WorkerExit, BeginFn,
        FnReturns, WorkerGoto
  <2>b. Accepted' = Accepted
    BY <2>a DEF Accepted
  <2>1. CASE Receive(w) /\ UNCHANGED queueVars
    <3>1. fn[w] = "idle" /\ UNCHANGED <<fn, finished>> /\ holds[w] = NoTask
      BY <2>1 DEF Receive, queueVars, QueueTypes, Consistent, Where, Placed, Busy
    <3>2. \A v \in Workers \ {w} : holds'[v] = holds[v]
      BY <2>1, <1>s DEF Receive
    <3>3. Live' = Live
      BY <3>1, <3>2, <2>b DEF Live
    <3>. QED  BY <3>3 DEF LiveItems
  <2>2. CASE (CountFailure(w) \/ WorkerExit(w)) /\ UNCHANGED queueVars
    <3>1. UNCHANGED <<finished, holds, fn>>
      BY <2>2 DEF CountFailure, WorkerExit, queueVars
    <3>. QED  BY <2>b, <3>1, LiveRests
  <2>3. CASE WorkerBegins(w)
    <3>1. UNCHANGED <<finished, holds>> /\ fn' = [fn EXCEPT ![w] = "process"] /\ fn[w] = "idle"
      BY <2>3 DEF WorkerBegins, BeginFn, FnGoto
    <3>2. \A v \in Workers : fn'[v] \in {"idle", "process"} <=> fn[v] \in {"idle", "process"}
      BY <3>1, <1>s
    <3>. QED  BY <2>b, <3>1, <3>2, LiveRests
  <2>4. CASE WorkerReturns(w)
    <3>1. /\ fn[w] \in {"returnOk", "returnError"} /\ fn' = [fn EXCEPT ![w] = "idle"]
          /\ finished' = finished \cup {holds[w]} /\ holds' = [holds EXCEPT ![w] = NoTask]
      BY <2>4 DEF WorkerReturns, FnReturns, FnGoto
    <3>2. holds[w] \notin Live
      BY <3>1 DEF Live
    <3>3. \A v \in Workers \ {w} : holds'[v] = holds[v] /\ fn'[v] = fn[v]
      BY <3>1, <1>s
    <3>4. holds'[w] = NoTask
      BY <3>1, <1>s
    <3>5. ASSUME NEW t \in Live' PROVE t \in Live
      <4>1. t \in Accepted /\ t \notin finished /\ t # holds[w]
        BY <3>1, <3>5, <2>b DEF Live
      <4>2. ASSUME NEW v \in Workers, holds[v] = t PROVE fn[v] \in {"idle", "process"}
        BY <3>3, <3>5, <4>1, <4>2 DEF Live
      <4>. QED  BY <4>1, <4>2 DEF Live
    <3>6. ASSUME NEW t \in Live PROVE t \in Live'
      <4>1. t \in Tasks /\ t \in Accepted' /\ t \notin finished'
        BY <3>1, <3>2, <2>b DEF Live, Accepted
      <4>2. ASSUME NEW v \in Workers, holds'[v] = t PROVE fn'[v] \in {"idle", "process"}
        BY <3>3, <3>4, <4>1, <4>2, <1>s DEF Live
      <4>. QED  BY <4>1, <4>2 DEF Live
    <3>7. Live' = Live
      BY <3>5, <3>6
    <3>. QED  BY <3>7 DEF LiveItems
  <2>. QED  BY <1>3, <2>1, <2>2, <2>3, <2>4 DEF WorkerAlone
<1>. QED  BY <1>1, <1>2, <1>3

\* processLoop's submission moves on, or puts the attempt in hand in the pool.
LEMMA SubmitLive ==
    ASSUME Where, QueueTypes, LoopSubmits
    PROVE  \/ UNCHANGED <<loop, inHand>> /\ Live' = Live /\ LiveItems' = LiveItems
           \/ /\ loop' = "check" /\ loop = "submit" /\ inHand \in Items
              /\ Live' = Live \cup {Attempt(inHand)} /\ LiveItems' = LiveItems \cup {inHand}
              /\ Attempt(inHand)[1] = inHand
<1>1. loop = "submit" /\ inHand \in Items /\ ItemsOK
  BY DEF LoopSubmits, QueueTypes, Consistent
<1>2. PICK t \in Tasks : t = Attempt(inHand) /\ t[1] = inHand
  BY <1>1, AttemptIsTask
<1>3. /\ SubmitStep(t) /\ UNCHANGED fn
      /\ IF submit'[t] = "accepted" THEN loop' = "check" /\ inHand' = NoItem ELSE UNCHANGED <<loop, inHand>>
  BY <1>2 DEF LoopSubmits
<1>4. UNCHANGED <<finished, holds>>
  BY <1>3 DEF SubmitStep, SubmitLoadStopped, SubmitMeasure, SubmitCount, SubmitSend, SubmitPanics,
      SubmitRefused, SubmitParks, SubmitWithdraws, SubmitRollback, SubmitGoto, workers
<1>5. \A u \in Tasks \ {t} : submit'[u] = submit[u]
  BY <1>3, SubmitBegins DEF Where
<1>6. submit[t] # "accepted"
  BY <1>3 DEF SubmitStep, SubmitLoadStopped, SubmitMeasure, SubmitCount, SubmitSend, SubmitPanics,
      SubmitRefused, SubmitParks, SubmitWithdraws, SubmitRollback, SubmitGoto
<1>7. t \notin Accepted /\ t \notin finished /\ \A w \in Workers : holds[w] # t
  <2>1. t \notin Accepted /\ t # NoTask
    BY <1>6, QueueConstants DEF Accepted
  <2>. QED  BY <2>1 DEF Where, Placed, Held
<1>8. CASE submit'[t] = "accepted"
  <2>1. Accepted' = Accepted \cup {t}
    BY <1>5, <1>8 DEF Accepted
  <2>2. Live' = Live \cup {t}
    BY <1>3, <1>4, <1>7, <2>1 DEF Live
  <2>3. LiveItems' = LiveItems \cup {inHand}
    <3>1. ASSUME NEW i \in LiveItems' PROVE i \in LiveItems \cup {inHand}
      BY <1>2, <2>2, <3>1 DEF LiveItems
    <3>2. ASSUME NEW i \in LiveItems \cup {inHand} PROVE i \in LiveItems'
      BY <1>2, <2>2, <3>2 DEF LiveItems
    <3>. QED  BY <3>1, <3>2
  <2>. QED  BY <1>1, <1>2, <1>3, <1>8, <2>2, <2>3
<1>9. CASE submit'[t] # "accepted"
  <2>1. Accepted' = Accepted
    BY <1>5, <1>6, <1>9 DEF Accepted
  <2>. QED  BY <1>3, <1>4, <1>9, <2>1, LiveRests
<1>. QED  BY <1>8, <1>9

-----------------------------------------------------------------------------
(* Nobody shares an item *)

\* processLoop's steps, by what they do with the item in hand.
LEMMA LoopMoves ==
    ASSUME QueueTypes, LoopStep, UNCHANGED vars
    PROVE  /\ Live' = Live /\ LiveItems' = LiveItems
           /\ \/ /\ LoopStarts \/ LoopChecks \/ LoopGivesUp \/ LoopPops \/ LoopChecksContext
                 /\ Looped' \subseteq Looped /\ heap' = heap /\ UNCHANGED <<timers, deadLetters>>
              \/ \E i \in heap : /\ LoopPops /\ inHand' = i
                                 /\ Looped' = {i} /\ heap' = heap \ {i} /\ UNCHANGED <<timers, deadLetters>>
              \/ /\ LoopRetries \/ LoopBuries
                 /\ inHand \in Items /\ Looped = {inHand} /\ Looped' = {} /\ heap' = heap
<1>0. UNCHANGED <<fn, submit, finished, holds>> /\ Accepted' = Accepted
  BY DEF LoopStep, LoopStarts, LoopChecks, LoopPops, LoopChecksContext, LoopRetries, LoopBuries,
      LoopGivesUp, LoopGoto, vars, workers, Accepted
<1>1. Live' = Live /\ LiveItems' = LiveItems
  BY <1>0, LiveRests
<1>2. CASE LoopStarts \/ LoopChecks \/ LoopGivesUp \/ LoopChecksContext
  BY <1>1, <1>2 DEF LoopStarts, LoopChecks, LoopGivesUp, LoopChecksContext, LoopGoto, Looped
<1>3. CASE LoopPops
  BY <1>1, <1>3 DEF LoopPops, LoopGoto, Looped
<1>4. CASE LoopRetries \/ LoopBuries
  <2>1. inHand \in Items
    BY <1>4 DEF LoopRetries, LoopBuries, LoopGoto, QueueTypes, Consistent
  <2>. QED  BY <1>1, <1>4, <2>1 DEF LoopRetries, LoopBuries, LoopGoto, Looped
<1>. QED  BY <1>2, <1>3, <1>4 DEF LoopStep

\* A request that was not taken is nowhere.
LEMMA NotTaken ==
    ASSUME QueueTypes, OnlyTaken, NEW i \in Items, i \notin Taken
    PROVE  /\ i \notin heap /\ i \notin timers /\ i \notin Looped /\ i \notin LiveItems
           /\ i \notin Letters /\ inHand # i
<1>1. i \notin heap /\ i \notin timers /\ inHand # i
  BY QueueConstants DEF OnlyTaken
<1>2. i \notin Looped
  BY <1>1 DEF Looped
<1>3. i \notin LiveItems
  BY DEF OnlyTaken, LiveItems, Live, Accepted, Begun
<1>4. i \notin Letters
  <2>1. \A k \in DOMAIN deadLetters : deadLetters[k] \in Taken
    BY DEF OnlyTaken
  <2>. QED  BY <2>1 DEF Letters, Elements
<1>. QED  BY <1>1, <1>2, <1>3, <1>4

\* A worker whose processing is over no longer has the item, and neither has anybody else.
LEMMA LetsGo ==
    ASSUME Where, QueueTypes, Exclusive, NEW w \in Workers, UNCHANGED vars,
           NEW there \in {"sendOk", "sendError", "returnError"}, FnGoto(w, "process", there)
    PROVE  \E i \in Items :
               /\ i = Working(w) /\ i \in LiveItems
               /\ Live' \subseteq Live /\ LiveItems' = LiveItems \ {i}
               /\ i \notin heap /\ i \notin timers /\ i \notin Looped /\ i \notin Letters
<1>i. StatesOK /\ Consistent
  BY DEF QueueTypes
<1>1. holds[w] \in Live /\ Live' = Live \ {holds[w]} /\ Working(w) \in LiveItems
  BY <1>i, WorkEnds
<1>2. PICK i \in Items : i = Working(w)
  BY <1>i, AtWork DEF FnGoto
<1>3. LiveItems' = LiveItems \ {i}
  <2>1. ASSUME NEW j \in LiveItems' PROVE j \in LiveItems \ {i}
    BY <1>1, <1>2, <2>1 DEF LiveItems, OneTask, Working, Exclusive
  <2>2. ASSUME NEW j \in LiveItems, j # i PROVE j \in LiveItems'
    BY <1>1, <1>2, <2>2 DEF LiveItems, Working
  <2>. QED  BY <2>1, <2>2
<1>4. i \notin heap /\ i \notin timers /\ i \notin Looped /\ i \notin Letters
  BY <1>1, <1>2 DEF Apart, Exclusive
<1>. QED  BY <1>1, <1>2, <1>3, <1>4

LEMMA ExclusiveElsewhere ==
    ASSUME Where, QueueTypes, OnlyTaken, Untimed, Exclusive, [QueueNext]_allVars, ~Requeuing
    PROVE  Exclusive'
<1>r. UNCHANGED requeueVars
  BY RequeueRests
<1>i. ItemsOK /\ HeapOK /\ LettersOK /\ StatesOK /\ Consistent
  BY DEF QueueTypes
<1>e. Apart /\ OneTask /\ LettersDistinct
  BY DEF Exclusive
<1>1. ASSUME Live' \subseteq Live PROVE OneTask' /\ LiveItems' \subseteq LiveItems
  BY <1>1, <1>e DEF OneTask, LiveItems
<1>2. ASSUME UNCHANGED <<heap, timers, deadLetters>>, Looped' \subseteq Looped, Live' \subseteq Live
      PROVE  Exclusive'
  <2>1. Apart'
    BY <1>1, <1>2, <1>e, StaysApart, <1>r, LettersRest
  <2>. QED  BY <1>1, <1>2, <1>e, <2>1, <1>r, LettersRest DEF Exclusive
<1>3. ASSUME UNCHANGED vars, UNCHANGED fn PROVE Live' = Live /\ LiveItems' = LiveItems
  <2>1. UNCHANGED <<submit, finished, holds>>
    BY <1>3 DEF vars, workers
  <2>. QED  BY <1>3, <2>1, LiveRests DEF Accepted
<1>4. CASE QueueStep
  <2>u. UNCHANGED vars
    BY <1>4 DEF QueueStep
  <2>1. ASSUME NEW i \in Items, CallerStep(i) PROVE Exclusive'
    <3>1. UNCHANGED <<timers, deadLetters, loop, inHand, fn>>
      BY <2>1, CallerTypes
    <3>2. Looped' = Looped
      BY <3>1 DEF Looped
    <3>3. Live' = Live /\ LiveItems' = LiveItems
      BY <2>u, <3>1, <1>3
    <3>4. CASE heap' = heap
      BY <3>1, <3>2, <3>3, <3>4, <1>2
    <3>5. CASE heap' # heap
      <4>1. item[i].caller = "push" /\ heap' = heap \cup {i}
        BY <2>1, <3>5, <1>i, OneCalls
      <4>2. i \notin Taken
        BY <4>1 DEF Taken
      <4>3. Apart'
        BY <3>1, <3>2, <3>3, <4>1, <4>2, <1>e, NotTaken, MovesApart, <1>r, LettersRest
      <4>. QED  BY <3>1, <3>3, <4>3, <1>1, <1>e, <1>r, LettersRest DEF Exclusive
    <3>. QED  BY <3>4, <3>5
  <2>2. ASSUME NEW i \in Items, TimerFires(i) PROVE Exclusive'
    <3>1. /\ i \in timers /\ timers' = timers \ {i} /\ heap' \subseteq heap \cup {i}
          /\ UNCHANGED <<deadLetters, loop, inHand, fn>>
      BY <2>2 DEF TimerFires, Pushed
    <3>2. Looped' = Looped /\ Live' = Live /\ LiveItems' = LiveItems
      BY <2>u, <3>1, <1>3 DEF Looped
    <3>3. i \notin Looped /\ i \notin LiveItems /\ i \notin Letters
      BY <3>1, <1>e DEF Apart
    <3>4. Apart'
      BY <3>1, <3>2, <3>3, <1>e, MovesApart, <1>r, LettersRest
    <3>. QED  BY <3>1, <3>2, <3>4, <1>1, <1>e, <1>r, LettersRest DEF Exclusive
  <2>3. CASE LoopStep
    <3>0. Live' = Live /\ LiveItems' = LiveItems
      BY <2>3, <2>u, LoopMoves
    <3>1. CASE Looped' \subseteq Looped /\ heap' = heap /\ UNCHANGED <<timers, deadLetters>>
      BY <3>0, <3>1, <1>2
    <3>2. ASSUME NEW i \in heap, Looped' = {i}, heap' = heap \ {i}, UNCHANGED <<timers, deadLetters>>
          PROVE  Exclusive'
      <4>1. i \notin timers /\ i \notin LiveItems /\ i \notin Letters
        BY <1>e DEF Apart
      <4>2. Apart'
        BY <3>0, <3>2, <4>1, <1>e, MovesApart, <1>r, LettersRest
      <4>. QED  BY <3>0, <3>2, <4>2, <1>1, <1>e, <1>r, LettersRest DEF Exclusive
    <3>3. ASSUME LoopRetries \/ LoopBuries, inHand \in Items, Looped = {inHand}, Looped' = {}, heap' = heap
          PROVE  Exclusive'
      <4>1. PICK i \in Items : i = inHand
        BY <3>3
      <4>2. i \notin heap /\ i \notin timers /\ i \notin LiveItems /\ i \notin Letters
        BY <3>3, <4>1, <1>e DEF Apart
      <4>3. CASE LoopRetries
        <5>1. timers' = timers \cup {i} /\ UNCHANGED deadLetters
          BY <4>1, <4>3 DEF LoopRetries, Retries
        <5>2. Apart'
          BY <3>0, <3>3, <4>2, <5>1, <1>e, MovesApart, <1>r, LettersRest
        <5>. QED  BY <3>0, <5>1, <5>2, <1>1, <1>e, <1>r, LettersRest DEF Exclusive
      <4>4. CASE LoopBuries
        <5>1. timers' = timers /\ LettersDistinct' /\ Letters' \subseteq Letters \cup {i}
          BY <4>1, <4>2, <4>4, <1>i, <1>e, <1>r, LettersOne DEF LoopBuries
        <5>2. Apart'
          BY <3>0, <3>3, <4>2, <5>1, <1>e, MovesApart
        <5>. QED  BY <3>0, <5>1, <5>2, <1>1, <1>e DEF Exclusive
      <4>. QED  BY <3>3, <4>3, <4>4
    <3>. QED  BY <2>3, <2>u, <3>1, <3>2, <3>3, LoopMoves
  <2>4. ASSUME NEW w \in Workers, FnStep(w) PROVE Exclusive'
    <3>0. UNCHANGED <<heap, loop, inHand>> /\ Looped' = Looped
      BY <2>4 DEF FnStep, ProcessorSucceeds, ProcessorRetries, ProcessorBuries, WorkerAnswers, FnGoto, Looped
    <3>1. CASE WorkerAnswers(w)
      <4>1. \A v \in Workers : fn'[v] \in {"idle", "process"} <=> fn[v] \in {"idle", "process"}
        BY <3>1, <1>i DEF WorkerAnswers, FnGoto, StatesOK
      <4>2. UNCHANGED <<submit, finished, holds>>
        BY <2>u DEF vars, workers
      <4>3. Live' = Live
        BY <4>1, <4>2, LiveRests DEF Accepted
      <4>. QED  BY <3>0, <3>1, <4>3, <1>2 DEF WorkerAnswers
    <3>2. ASSUME NEW there \in {"sendOk", "sendError", "returnError"}, FnGoto(w, "process", there)
          PROVE  \E i \in Items : /\ i = Working(w) /\ i \notin LiveItems' /\ LiveItems' \subseteq LiveItems
                                  /\ OneTask' /\ Live' \subseteq Live
                                  /\ i \notin heap /\ i \notin timers /\ i \notin Looped /\ i \notin Letters
      BY <2>u, <3>2, <1>1, LetsGo
    <3>3. CASE ProcessorSucceeds(w)
      <4>1. UNCHANGED <<timers, deadLetters>> /\ Live' \subseteq Live
        BY <3>2, <3>3 DEF ProcessorSucceeds
      <4>. QED  BY <3>0, <4>1, <1>2
    <3>4. CASE ProcessorRetries(w)
      <4>1. PICK i \in Items : /\ i = Working(w) /\ i \notin LiveItems' /\ LiveItems' \subseteq LiveItems
                               /\ OneTask' /\ i \notin heap /\ i \notin Looped /\ i \notin Letters
        BY <3>2, <3>4 DEF ProcessorRetries
      <4>2. timers' = timers \cup {i} /\ UNCHANGED deadLetters
        BY <3>4, <4>1 DEF ProcessorRetries, Retries
      <4>3. Apart'
        BY <3>0, <4>1, <4>2, <1>e, MovesApart, <1>r, LettersRest
      <4>. QED  BY <4>1, <4>2, <4>3, <1>e, <1>r, LettersRest DEF Exclusive
    <3>5. CASE ProcessorBuries(w)
      <4>1. PICK i \in Items : /\ i = Working(w) /\ i \notin LiveItems' /\ LiveItems' \subseteq LiveItems
                               /\ OneTask' /\ i \notin heap /\ i \notin timers /\ i \notin Looped
                               /\ i \notin Letters
        BY <3>2, <3>5 DEF ProcessorBuries
      <4>2. timers' = timers /\ LettersDistinct' /\ Letters' \subseteq Letters \cup {i}
        BY <3>5, <4>1, <1>i, <1>e, <1>r, LettersOne DEF ProcessorBuries
      <4>3. Apart'
        BY <3>0, <4>1, <4>2, <1>e, MovesApart
      <4>. QED  BY <4>1, <4>2, <4>3 DEF Exclusive
    <3>. QED  BY <2>4, <3>1, <3>3, <3>4, <3>5 DEF FnStep
  <2>6. CASE Clear
    <3>1. heap' = {} /\ UNCHANGED <<timers, deadLetters, loop, inHand, fn>>
      BY <2>6 DEF Clear
    <3>2. Looped' = Looped /\ Live' = Live /\ LiveItems' = LiveItems
      BY <2>u, <3>1, <1>3 DEF Looped
    <3>3. Apart'
      BY <3>1, <3>2, <1>e, StaysApart, <1>r, LettersRest
    <3>. QED  BY <3>1, <3>2, <3>3, <1>1, <1>e, <1>r, LettersRest DEF Exclusive
  <2>7. CASE QueueStopStep
    <3>1. UNCHANGED <<heap, timers, deadLetters, loop, inHand, fn>>
      BY <2>7 DEF QueueStopStep, QueueStopClaims, QueueStopReturns, QueueStopTimesOut, QueueStopGoto
    <3>2. Looped' = Looped /\ Live' = Live
      BY <2>u, <3>1, <1>3 DEF Looped
    <3>. QED  BY <3>1, <3>2, <1>2
  <2>. QED  BY <1>4, <2>1, <2>2, <2>3, <2>4, <2>6, <2>7 DEF QueueStep, Requeuing
<1>5. CASE LoopSubmits
  <2>0. UNCHANGED <<heap, timers, deadLetters>>
    BY <1>5 DEF LoopSubmits
  <2>1. CASE UNCHANGED <<loop, inHand>> /\ Live' = Live
    <3>1. Looped' = Looped
      BY <2>1 DEF Looped
    <3>. QED  BY <2>0, <2>1, <3>1, <1>2
  <2>2. CASE /\ loop' = "check" /\ loop = "submit" /\ inHand \in Items
             /\ Live' = Live \cup {Attempt(inHand)} /\ LiveItems' = LiveItems \cup {inHand}
             /\ Attempt(inHand)[1] = inHand
    <3>1. Looped = {inHand} /\ Looped' = {}
      BY <2>2 DEF Looped
    <3>2. PICK i \in Items : i = inHand
      BY <2>2
    <3>3. i \notin heap /\ i \notin timers /\ i \notin LiveItems /\ i \notin Letters
      BY <3>1, <3>2, <1>e DEF Apart
    <3>4. Apart'
      BY <2>0, <2>2, <3>1, <3>2, <3>3, <1>e, MovesApart, <1>r, LettersRest
    <3>5. OneTask'
      <4>1. \A t \in Live : t[1] # i
        BY <3>3 DEF LiveItems
      <4>2. PICK a : a = Attempt(inHand) /\ a[1] = i
        BY <2>2, <3>2
      <4>3. Live' = Live \cup {a}
        BY <2>2, <4>2
      <4>. QED  BY <4>1, <4>2, <4>3, <1>e DEF OneTask
    <3>. QED  BY <2>0, <3>4, <3>5, <1>e, <1>r, LettersRest DEF Exclusive
  <2>. QED  BY <1>5, <2>1, <2>2, SubmitLive
<1>6. CASE UNCHANGED allVars
  <2>1. UNCHANGED vars /\ UNCHANGED <<heap, timers, deadLetters, loop, inHand, fn>>
    BY <1>6 DEF allVars, queueVars
  <2>2. Looped' = Looped /\ Live' = Live
    BY <2>1, <1>3 DEF Looped
  <2>. QED  BY <2>1, <2>2, <1>2
<1>7. CASE \/ StartClaim /\ UNCHANGED queueVars
           \/ StartWorkers /\ UNCHANGED queueVars
           \/ \E w \in Workers : WorkerAlone(w) \/ WorkerBegins(w) \/ WorkerReturns(w)
           \/ \E s \in Stoppers : PoolStops(s)
  <2>1. Live' = Live
    BY <1>7, PoolLive
  <2>2. UNCHANGED <<heap, timers, deadLetters, loop, inHand>>
    BY <1>7 DEF queueVars, WorkerAlone, WorkerBegins, WorkerReturns, FnGoto, PoolStops
  <2>3. Looped' = Looped
    BY <2>2 DEF Looped
  <2>. QED  BY <2>1, <2>2, <2>3, <1>2
<1>. QED  BY <1>4, <1>5, <1>6, <1>7 DEF QueueNext

LEMMA ExclusiveRequeuing ==
    ASSUME Where, QueueTypes, Exclusive, QueueStep, Requeuing
    PROVE  Exclusive'
<1>i. ItemsOK /\ LettersOK
  BY DEF QueueTypes
<1>e. Apart /\ OneTask /\ LettersDistinct
  BY DEF Exclusive
<1>1. UNCHANGED <<timers, loop, inHand, fn>>
  BY <1>i, RequeueMoves
<1>2. UNCHANGED <<submit, finished, holds>>
  BY DEF QueueStep, vars, workers
<1>3. Looped' = Looped /\ Live' = Live /\ LiveItems' = LiveItems
  BY <1>1, <1>2, LiveRests DEF Accepted, Looped
<1>4. OneTask'
  BY <1>3, <1>e DEF OneTask
<1>5. ASSUME heap' = heap, Letters' = Letters, LettersDistinct' PROVE Exclusive'
  <2>1. Apart'
    BY <1>1, <1>3, <1>5, <1>e, StaysApart
  <2>. QED  BY <1>4, <1>5, <2>1 DEF Exclusive
<1>6. ASSUME NEW i \in Items, Renews(i) PROVE Exclusive'
  BY <1>5, <1>6, <1>i, <1>e, LettersRequeued DEF Renews
<1>7. ASSUME NEW i \in Items, Returns(i) PROVE Exclusive'
  <2>1. LettersDistinct' /\ i \in Letters /\ Letters' = Letters \ {i} /\ heap' = heap \cup {i}
    BY <1>7, <1>i, <1>e, LettersRequeued DEF Returns
  <2>2. i \notin timers /\ i \notin Looped /\ i \notin LiveItems
    BY <2>1, <1>e DEF Apart
  <2>3. Apart'
    BY <1>1, <1>3, <2>1, <2>2, <1>e, MovesApart
  <2>. QED  BY <1>4, <2>1, <2>3 DEF Exclusive
<1>8. CASE GoesHome
  BY <1>5, <1>8, <1>i, <1>e, LettersRequeued DEF GoesHome
<1>. QED  BY <1>6, <1>7, <1>8, <1>i, RequeueMoves

LEMMA ExclusiveInductive ==
    ASSUME Where, QueueTypes, OnlyTaken, Untimed, Exclusive, [QueueNext]_allVars
    PROVE  Exclusive'
<1>1. CASE Requeuing
  BY <1>1, RequeuingIs, ExclusiveRequeuing
<1>2. CASE ~Requeuing
  BY <1>2, ExclusiveElsewhere
<1>. QED  BY <1>1, <1>2

LEMMA ExclusiveInitially == QueueInit => Untimed /\ Exclusive
<1>. SUFFICES ASSUME QueueInit PROVE Untimed /\ Exclusive
  OBVIOUS
<1>1. Untimed /\ Live = {}
  BY DEF QueueInit, Init, Untimed, Live, Accepted
<1>2. LiveItems = {} /\ heap = {} /\ timers = {} /\ Looped = {}
  BY <1>1 DEF LiveItems, QueueInit, Looped
<1>3. Letters = {} /\ LettersDistinct
  BY DEF QueueInit, Letters, BeingRemoved, LettersDistinct, Elements, Distinct
<1>. QED  BY <1>1, <1>2, <1>3 DEF Exclusive, Apart, OneTask

\* The places of an item exclude each other, and one task at most works on it.
THEOREM ExclusiveHolds == QueueSpec => [](Untimed /\ Exclusive)
BY ExclusiveInitially, ExclusiveInductive, UntimedInductive, QueueHolds, TakenHolds, PTL DEF QueueSpec

\* A set with at most one element.
LEMMA AtMostOne ==
    ASSUME NEW S, \A x, y \in S : x = y
    PROVE  /\ IsFiniteSet(S) /\ Cardinality(S) \in Nat /\ Cardinality(S) <= 1
           /\ S = {} <=> Cardinality(S) = 0
<1>1. CASE S = {}
  BY <1>1, FS_EmptySet
<1>2. ASSUME NEW x \in S PROVE Cardinality(S) = 1 /\ IsFiniteSet(S) /\ S # {}
  <2>1. S = {x}
    OBVIOUS
  <2>. QED  BY <2>1, FS_Singleton
<1>. QED  BY <1>1, <1>2

\* What the owners of an item add up to.
LEMMA OwnersCount ==
    ASSUME QueueTypes, Exclusive, NEW i \in Items
    PROVE  /\ Owners(i) + Cardinality(Graves(i)) <= 1
           /\ Owners(i) \in Nat
           /\ Owners(i) # 0 => i \in heap \cup timers \cup Looped \cup LiveItems
<1>e. Apart /\ OneTask /\ LettersDistinct
  BY DEF Exclusive
<1> DEFINE P == InPool(i)
           G == Graves(i)
<1>1. P = {t \in Live : t[1] = i}
  BY DEF InPool, Live, Accepted
<1>2. /\ Cardinality(P) \in Nat /\ Cardinality(P) <= 1
      /\ Cardinality(P) # 0 <=> i \in LiveItems
  <2>1. \A t, u \in P : t = u
    BY <1>1, <1>e DEF OneTask
  <2>2. P # {} <=> i \in LiveItems
    BY <1>1 DEF LiveItems
  <2>. HIDE DEF P
  <2>. QED  BY <2>1, <2>2, AtMostOne
<1>3. /\ Cardinality(G) \in Nat /\ Cardinality(G) <= 1
      /\ Cardinality(G) # 0 <=> i \in Letters
  <2>1. \A j, k \in G : j = k
    BY <1>e DEF Graves, LettersDistinct, Distinct
  <2>2. G # {} <=> i \in Letters
    <3>1. requeue = "remove" => letter \in DOMAIN deadLetters
      BY DEF QueueTypes, LettersOK
    <3>2. G # {} => i \in Letters
      BY <3>1, <1>e DEF Graves, Letters, BeingRemoved, Elements, LettersDistinct, Distinct
    <3>3. i \in Letters => G # {}
      BY <3>1 DEF Graves, Letters, BeingRemoved, Elements
    <3>. QED  BY <3>2, <3>3
  <2>. HIDE DEF G
  <2>. QED  BY <2>1, <2>2, AtMostOne
<1>4. InLoop(i) <=> i \in Looped
  BY DEF InLoop, Looped
<1>5. Owners(i) = One(i \in heap) + One(InLoop(i)) + One(i \in timers) + Cardinality(P)
  BY DEF Owners
<1>. HIDE DEF P, G
<1> DEFINE a == One(i \in heap)
           b == One(InLoop(i))
           c == One(i \in timers)
<1>6. /\ a \in {0, 1} /\ b \in {0, 1} /\ c \in {0, 1}
      /\ (a # 0 <=> i \in heap) /\ (b # 0 <=> i \in Looped) /\ (c # 0 <=> i \in timers)
  BY <1>4 DEF One
<1>. HIDE DEF a, b, c
<1>7. Owners(i) = a + b + c + Cardinality(P)
  BY <1>5 DEF a, b, c
<1>8. Cardinality(P) \in {0, 1} /\ Cardinality(G) \in {0, 1}
  BY <1>2, <1>3
<1>9. /\ ~(i \in heap /\ i \in timers) /\ ~(i \in heap /\ i \in Looped) /\ ~(i \in heap /\ i \in LiveItems)
      /\ ~(i \in heap /\ i \in Letters)
      /\ ~(i \in timers /\ i \in Looped) /\ ~(i \in timers /\ i \in LiveItems)
      /\ ~(i \in timers /\ i \in Letters)
      /\ ~(i \in Looped /\ i \in LiveItems) /\ ~(i \in Looped /\ i \in Letters)
      /\ ~(i \in LiveItems /\ i \in Letters)
  BY <1>e DEF Apart
<1>10. Owners(i) + Cardinality(G) <= 1 /\ Owners(i) \in Nat
  BY <1>2, <1>3, <1>6, <1>7, <1>8, <1>9
<1>11. Owners(i) # 0 => a # 0 \/ b # 0 \/ c # 0 \/ Cardinality(P) # 0
  BY <1>6, <1>7, <1>8
<1>. QED  BY <1>2, <1>6, <1>10, <1>11 DEF G

\* RetryCount, SubmittedAt and ProcessedAt, which are written without a lock, have one
\* writer: never do two of the priority queue, processLoop, a retry goroutine, the pool
\* and the dead letters have the same item, nor one of them twice (SingleOwner).
THEOREM OneOwner == QueueSpec => []SingleOwner
<1>1. QueueTypes /\ Exclusive => SingleOwner
  BY OwnersCount DEF SingleOwner
<1>. QED  BY <1>1, QueueHolds, ExclusiveHolds, PTL

-----------------------------------------------------------------------------
(* Results *)

Owned(i) == i \in heap \cup timers \cup Looped \cup LiveItems

\* The workers that are about to send a result of item i.
Answers(i) == {w \in Workers : fn[w] \in {"sendOk", "sendError"} /\ Working(w) = i}
GivesUp(i) == One(inHand = i /\ loop = "giveUp")

\* The results that were sent for item i or are about to be.
Dues(i) == item[i].sent + Cardinality(Answers(i)) + GivesUp(i)

Due(i) == /\ Dues(i) <= item[i].queued
          /\ Owned(i) => Dues(i) + 1 <= item[i].queued
AllDue == \A i \in Items : Due(i)

LEMMA DuesNat ==
    ASSUME ItemsOK, NEW i \in Items
    PROVE  /\ item[i].sent \in Nat /\ item[i].queued \in Nat /\ GivesUp(i) \in {0, 1}
           /\ IsFiniteSet(Answers(i)) /\ Cardinality(Answers(i)) \in Nat /\ Dues(i) \in Nat
<1>1. item[i].sent \in Nat /\ item[i].queued \in Nat
  BY DEF ItemsOK, ItemRecord
<1>2. GivesUp(i) \in {0, 1}
  BY DEF GivesUp, One
<1>3. IsFiniteSet(Answers(i)) /\ Cardinality(Answers(i)) \in Nat
  BY QueueConstants, FS_Subset, FS_CardinalityType DEF Answers
<1>. QED  BY <1>1, <1>2, <1>3, QueueConstants DEF Dues

\* The three ways in which what is due for an item may change.
LEMMA DueMoves ==
    ASSUME ItemsOK, NEW i \in Items, Due(i),
           \/ Dues(i)' = Dues(i) /\ item'[i].queued = item[i].queued /\ (Owned(i)' => Owned(i))
           \/ Dues(i)' = Dues(i) + 1 /\ item'[i].queued = item[i].queued /\ Owned(i) /\ ~Owned(i)'
           \/ Dues(i)' = Dues(i) /\ item'[i].queued = item[i].queued + 1
    PROVE  Due(i)'
BY DuesNat DEF Due

\* The workers about to send results do not change.
LEMMA AnswersRest ==
    ASSUME NEW i,
           \A w \in Workers : /\ fn'[w] \in {"sendOk", "sendError"} <=> fn[w] \in {"sendOk", "sendError"}
                              /\ fn[w] \in {"sendOk", "sendError"} => holds'[w] = holds[w]
    PROVE  Answers(i)' = Answers(i)
BY DEF Answers, Working

LEMMA DuesRest ==
    ASSUME NEW i, item'[i].sent = item[i].sent, Answers(i)' = Answers(i), GivesUp(i)' = GivesUp(i)
    PROVE  Dues(i)' = Dues(i)
BY DEF Dues

\* Nothing happens to item i but that it may be dropped.
LEMMA DueRests ==
    ASSUME ItemsOK, NEW i \in Items, Due(i), item'[i] = item[i],
           Answers(i)' = Answers(i), GivesUp(i)' = GivesUp(i), Owned(i)' => Owned(i)
    PROVE  Due(i)'
BY DuesRest, DueMoves

LEMMA CallerDue ==
    ASSUME QueueTypes, AllDue, UNCHANGED vars,
           NEW i \in Items, CallerStep(i), NEW j \in Items
    PROVE  Due(j)'
<1>i. ItemsOK /\ Due(j)
  BY DEF QueueTypes, AllDue
<1>1. UNCHANGED <<timers, deadLetters, loop, inHand, fn>>
  BY CallerTypes
<1>2. UNCHANGED <<submit, finished, holds>>
  BY DEF vars, workers
<1>3. Live' = Live /\ LiveItems' = LiveItems
  BY <1>1, <1>2, LiveRests DEF Accepted
<1>4. Looped' = Looped /\ GivesUp(j)' = GivesUp(j)
  BY <1>1 DEF Looped, GivesUp
<1>5. Answers(j)' = Answers(j)
  BY <1>1, <1>2, AnswersRest
<1>6. item'[j].sent = item[j].sent
  BY <1>i, OneCalls
<1>7. Dues(j)' = Dues(j)
  BY <1>4, <1>5, <1>6, DuesRest
<1>8. CASE item'[j].queued = item[j].queued + 1
  BY <1>i, <1>7, <1>8, DueMoves
<1>9. CASE item'[j].queued # item[j].queued + 1
  <2>1. item'[j].queued = item[j].queued /\ (j \in heap' => j \in heap)
    BY <1>i, <1>9, OneCalls
  <2>2. Owned(j)' => Owned(j)
    BY <1>1, <1>3, <1>4, <2>1 DEF Owned
  <2>. QED  BY <1>i, <1>7, <2>1, <2>2, DueMoves
<1>. QED  BY <1>8, <1>9

LEMMA LoopDue ==
    ASSUME QueueTypes, Exclusive, AllDue, LoopStep, UNCHANGED vars, NEW j \in Items
    PROVE  Due(j)'
<1>i. ItemsOK /\ StatesOK /\ Consistent /\ Due(j) /\ Apart /\ NoItem \notin Items
  BY QueueConstants DEF QueueTypes, AllDue, Exclusive
<1>1. UNCHANGED <<fn, holds>>
  BY DEF LoopStep, LoopStarts, LoopChecks, LoopPops, LoopChecksContext, LoopRetries, LoopBuries,
      LoopGivesUp, LoopGoto, vars, workers
<1>2. Answers(j)' = Answers(j)
  BY <1>1, AnswersRest
<1>3. LiveItems' = LiveItems
  BY LoopMoves
<1>4. CASE LoopStarts \/ LoopChecks \/ LoopPops
  <2>1. item' = item /\ heap' \cup Looped' \subseteq heap \cup Looped /\ timers' = timers
    BY <1>4 DEF LoopStarts, LoopChecks, LoopPops, LoopGoto, Looped
  <2>2. GivesUp(j)' = GivesUp(j)
    BY <1>4 DEF LoopStarts, LoopChecks, LoopPops, LoopGoto, GivesUp, One
  <2>3. Owned(j)' => Owned(j)
    BY <1>3, <2>1 DEF Owned
  <2>. QED  BY <1>i, <1>2, <2>1, <2>2, <2>3, DueRests
<1>5. CASE LoopChecksContext
  <2>0. inHand \in Items /\ UNCHANGED <<heap, timers>> /\ Looped = {inHand}
    BY <1>5, <1>i DEF LoopChecksContext, LoopGoto, Consistent, Looped
  <2>1. GivesUp(j)' = GivesUp(j)
    BY <1>5 DEF LoopChecksContext, LoopGoto, GivesUp, One
  <2>2. CASE UNCHANGED <<item, inHand>>
    <3>1. Owned(j)' => Owned(j)
      BY <1>3, <2>0, <2>2 DEF Owned, Looped
    <3>. QED  BY <1>i, <1>2, <2>1, <2>2, <3>1, DueRests
  <2>3. CASE loop' = "check" /\ item' = Sent(inHand, "error")
    <3>1. PICK i \in Items : i = inHand
      BY <2>0
    <3>2. /\ \A k \in Items \ {i} : item'[k] = item[k]
          /\ item'[i].queued = item[i].queued /\ item'[i].sent = item[i].sent + 1
      BY <1>i, <2>3, <3>1, OneSent
    <3>3. Looped' = {} /\ Owned(i) /\ ~Owned(i)'
      BY <1>i, <1>3, <2>0, <2>3, <3>1 DEF Owned, Looped, Apart
    <3>4. CASE j = i
      <4>1. Dues(j)' = Dues(j) + 1
        BY <1>i, <1>2, <2>1, <3>2, <3>4, DuesNat DEF Dues
      <4>. QED  BY <1>i, <3>2, <3>3, <3>4, <4>1, DueMoves
    <3>5. CASE j # i
      <4>1. Owned(j)' => Owned(j)
        BY <1>3, <2>0, <3>3 DEF Owned
      <4>. QED  BY <1>i, <1>2, <2>1, <3>2, <3>5, <4>1, DueRests
    <3>. QED  BY <3>4, <3>5
  <2>. QED  BY <1>5, <2>2, <2>3 DEF LoopChecksContext, LoopGoto
<1>6. CASE LoopRetries
  <2>1. PICK i \in Items : i = inHand
    BY <1>6, <1>i DEF LoopRetries, LoopGoto, Consistent
  <2>2. /\ \A k \in Items \ {i} : item'[k] = item[k]
        /\ item'[i].queued = item[i].queued /\ item'[i].sent = item[i].sent
        /\ timers' = timers \cup {i} /\ heap' = heap
    BY <1>6, <1>i, <2>1, OneRetried DEF LoopRetries
  <2>3. Looped = {i} /\ Looped' = {}
    BY <1>6, <2>1 DEF LoopRetries, LoopGoto, Looped
  <2>4. GivesUp(j)' = GivesUp(j)
    BY <1>6 DEF LoopRetries, LoopGoto, GivesUp, One
  <2>5. Owned(j)' => Owned(j)
    BY <1>3, <2>2, <2>3 DEF Owned
  <2>6. item'[j].queued = item[j].queued /\ item'[j].sent = item[j].sent
    BY <2>2
  <2>. QED  BY <1>i, <1>2, <2>4, <2>5, <2>6, DuesRest, DueMoves
<1>7. CASE LoopBuries
  <2>1. PICK i \in Items : i = inHand
    BY <1>7, <1>i DEF LoopBuries, LoopGoto, Consistent
  <2>2. item' = item /\ heap' = heap /\ timers' = timers /\ inHand' = inHand
    BY <1>7 DEF LoopBuries
  <2>3. Looped = {i} /\ Looped' = {} /\ Owned(i) /\ ~Owned(i)'
    BY <1>7, <1>i, <1>3, <2>1, <2>2 DEF LoopBuries, LoopGoto, Looped, Owned, Apart
  <2>4. CASE j = i
    <3>1. GivesUp(j) = 0 /\ GivesUp(j)' = 1
      BY <1>7, <2>1, <2>2, <2>4 DEF LoopBuries, LoopGoto, GivesUp, One
    <3>2. Dues(j)' = Dues(j) + 1
      BY <1>i, <1>2, <2>2, <3>1, DuesNat DEF Dues
    <3>. QED  BY <1>i, <2>2, <2>3, <2>4, <3>2, DueMoves
  <2>5. CASE j # i
    <3>1. GivesUp(j)' = GivesUp(j)
      BY <2>1, <2>2, <2>5 DEF GivesUp, One
    <3>2. Owned(j)' => Owned(j)
      BY <1>3, <2>2, <2>3 DEF Owned
    <3>. QED  BY <1>i, <1>2, <2>2, <3>1, <3>2, DueRests
  <2>. QED  BY <2>4, <2>5
<1>8. CASE LoopGivesUp
  <2>1. PICK i \in Items : i = inHand
    BY <1>8, <1>i DEF LoopGivesUp, LoopGoto, Consistent
  <2>2. /\ \A k \in Items \ {i} : item'[k] = item[k]
        /\ item'[i].queued = item[i].queued /\ item'[i].sent = item[i].sent + 1
    BY <1>8, <1>i, <2>1, OneSent DEF LoopGivesUp
  <2>3. Owned(j)' => Owned(j)
    BY <1>8, <1>3 DEF LoopGivesUp, LoopGoto, Looped, Owned
  <2>4. CASE j = i
    <3>1. GivesUp(j) = 1 /\ GivesUp(j)' = 0
      BY <1>8, <2>1, <2>4 DEF LoopGivesUp, LoopGoto, GivesUp, One
    <3>2. Dues(j)' = Dues(j)
      BY <1>i, <1>2, <2>2, <2>4, <3>1, DuesNat DEF Dues
    <3>. QED  BY <1>i, <2>2, <2>3, <2>4, <3>2, DueMoves
  <2>5. CASE j # i
    <3>1. GivesUp(j)' = GivesUp(j)
      BY <1>8, <1>i, <2>1, <2>5 DEF LoopGivesUp, LoopGoto, GivesUp, One
    <3>. QED  BY <1>i, <1>2, <2>2, <2>3, <2>5, <3>1, DueRests
  <2>. QED  BY <2>4, <2>5
<1>. QED  BY <1>4, <1>5, <1>6, <1>7, <1>8 DEF LoopStep

LEMMA FnDue ==
    ASSUME Where, QueueTypes, Exclusive, AllDue, NEW w \in Workers, FnStep(w), UNCHANGED vars,
           NEW j \in Items
    PROVE  Due(j)'
<1>i. ItemsOK /\ StatesOK /\ Consistent /\ Due(j) /\ fn \in [Workers -> FnStates]
  BY DEF QueueTypes, AllDue, StatesOK, FnStates
<1>1. UNCHANGED <<heap, loop, inHand, submit, finished, holds>> /\ fn[w] # "idle"
  BY DEF FnStep, ProcessorSucceeds, ProcessorRetries, ProcessorBuries, WorkerAnswers, FnGoto, vars, workers
<1>2. Looped' = Looped /\ GivesUp(j)' = GivesUp(j)
  BY <1>1 DEF Looped, GivesUp
<1>3. PICK i \in Items : i = Working(w)
  BY <1>1, <1>i, AtWork
<1>4. \A v \in Workers : Working(v)' = Working(v)
  BY <1>1 DEF Working
<1>5. CASE ProcessorRetries(w)
  <2>1. i \in LiveItems /\ LiveItems' = LiveItems \ {i}
    BY <1>3, <1>5, LetsGo DEF ProcessorRetries
  <2>2. /\ \A k \in Items \ {i} : item'[k] = item[k]
        /\ item'[i].queued = item[i].queued /\ item'[i].sent = item[i].sent
        /\ timers' = timers \cup {i}
    BY <1>3, <1>5, <1>i, OneRetried DEF ProcessorRetries
  <2>3. Owned(j)' => Owned(j)
    BY <1>1, <1>2, <2>1, <2>2 DEF Owned
  <2>4. Answers(j)' = Answers(j)
    BY <1>1, <1>5, <1>i, AnswersRest DEF ProcessorRetries, FnGoto
  <2>5. item'[j].queued = item[j].queued /\ item'[j].sent = item[j].sent
    BY <2>2
  <2>. QED  BY <1>i, <1>2, <2>3, <2>4, <2>5, DuesRest, DueMoves
<1>6. CASE ProcessorSucceeds(w) \/ ProcessorBuries(w)
  <2>1. PICK there \in {"sendOk", "sendError"} : FnGoto(w, "process", there)
    BY <1>6 DEF ProcessorSucceeds, ProcessorBuries
  <2>2. item' = item /\ timers' = timers
    BY <1>6 DEF ProcessorSucceeds, ProcessorBuries
  <2>3. /\ i \in LiveItems /\ LiveItems' = LiveItems \ {i}
        /\ i \notin heap /\ i \notin timers /\ i \notin Looped
    BY <1>3, <2>1, LetsGo
  <2>4. fn[w] = "process" /\ fn' = [fn EXCEPT ![w] = there]
    BY <2>1 DEF FnGoto
  <2>5. CASE j = i
    <3>1. Answers(j)' = Answers(j) \cup {w} /\ w \notin Answers(j)
      BY <1>i, <1>3, <1>4, <2>4, <2>5 DEF Answers
    <3>2. Cardinality(Answers(j)') = Cardinality(Answers(j)) + 1
      BY <1>i, <3>1, DuesNat, FS_AddElement
    <3>3. Dues(j)' = Dues(j) + 1
      BY <1>i, <1>2, <2>2, <3>2, DuesNat DEF Dues
    <3>4. Owned(j) /\ ~Owned(j)'
      BY <1>1, <1>2, <2>2, <2>3, <2>5 DEF Owned
    <3>. QED  BY <1>i, <2>2, <3>3, <3>4, DueMoves
  <2>6. CASE j # i
    <3>1. Answers(j)' = Answers(j)
      BY <1>i, <1>3, <1>4, <2>4, <2>6 DEF Answers
    <3>2. Owned(j)' => Owned(j)
      BY <1>1, <1>2, <2>2, <2>3 DEF Owned
    <3>. QED  BY <1>i, <1>2, <2>2, <3>1, <3>2, DueRests
  <2>. QED  BY <2>5, <2>6
<1>7. CASE WorkerAnswers(w)
  <2>1. PICK result \in {"ok", "error"} : item' = Sent(i, result)
    BY <1>3, <1>7 DEF WorkerAnswers
  <2>2. /\ fn[w] \in {"sendOk", "sendError"} /\ timers' = timers
        /\ \E there \in {"returnOk", "returnError"} : fn' = [fn EXCEPT ![w] = there]
    BY <1>7 DEF WorkerAnswers, FnGoto
  <2>3. /\ \A k \in Items \ {i} : item'[k] = item[k]
        /\ item'[i].queued = item[i].queued /\ item'[i].sent = item[i].sent + 1
    BY <1>i, <2>1, OneSent
  <2>4. LiveItems' = LiveItems
    <3>1. \A v \in Workers : fn'[v] \in {"idle", "process"} <=> fn[v] \in {"idle", "process"}
      BY <1>i, <2>2
    <3>. QED  BY <1>1, <3>1, LiveRests DEF Accepted
  <2>5. Owned(j)' => Owned(j)
    BY <1>1, <1>2, <2>2, <2>4 DEF Owned
  <2>6. CASE j = i
    <3>1. Answers(j)' = Answers(j) \ {w} /\ w \in Answers(j)
      BY <1>i, <1>3, <1>4, <2>2, <2>6 DEF Answers
    <3>2. Cardinality(Answers(j)') = Cardinality(Answers(j)) - 1
      BY <1>i, <3>1, DuesNat, FS_RemoveElement
    <3>3. Dues(j)' = Dues(j)
      BY <1>i, <1>2, <2>3, <2>6, <3>2, DuesNat DEF Dues
    <3>. QED  BY <1>i, <2>3, <2>5, <2>6, <3>3, DueMoves
  <2>7. CASE j # i
    <3>1. Answers(j)' = Answers(j)
      BY <1>i, <1>3, <1>4, <2>2, <2>7 DEF Answers
    <3>. QED  BY <1>i, <1>2, <2>3, <2>5, <2>7, <3>1, DueRests
  <2>. QED  BY <2>6, <2>7
<1>. QED  BY <1>5, <1>6, <1>7 DEF FnStep

\* The pool's own steps send nothing.
LEMMA PoolAnswers ==
    ASSUME Where, QueueTypes, NEW j,
           \/ StartClaim /\ UNCHANGED queueVars
           \/ StartWorkers /\ UNCHANGED queueVars
           \/ \E w \in Workers : WorkerAlone(w) \/ WorkerBegins(w) \/ WorkerReturns(w)
           \/ \E s \in Stoppers : PoolStops(s)
    PROVE  Answers(j)' = Answers(j)
<1>i. /\ fn \in [Workers -> FnStates] /\ holds \in [Workers -> Tasks \cup {NoTask}]
      /\ \A w \in Workers : fn[w] # "idle" => worker[w] = "running"
  BY DEF QueueTypes, StatesOK, FnStates, Where, Shapes, Consistent
<1>1. CASE (StartClaim \/ StartWorkers) /\ UNCHANGED queueVars
  BY <1>1, AnswersRest DEF StartClaim, StartWorkers, queueVars, workers
<1>2. ASSUME NEW s \in Stoppers, PoolStops(s) PROVE Answers(j)' = Answers(j)
  <2>1. UNCHANGED <<fn, holds>>
    BY <1>2 DEF PoolStops, StopStep, StopClaim, StopCancel, StopClose, StopReturns, StopTimesOut,
        StopGoto, queueVars, workers
  <2>. QED  BY <2>1, AnswersRest
<1>3. ASSUME NEW w \in Workers, WorkerAlone(w) PROVE Answers(j)' = Answers(j)
  <2>1. /\ UNCHANGED fn
        /\ \/ holds' = holds
           \/ worker[w] # "running" /\ \E t : holds' = [holds EXCEPT ![w] = t]
    <3>1. CASE Receive(w)
      <4>1. holds' = [holds EXCEPT ![w] = Head(taskChan)] /\ worker[w] # "running"
        BY <3>1 DEF Receive
      <4>2. \E t : holds' = [holds EXCEPT ![w] = t]
        BY <4>1, Zenon
      <4>3. UNCHANGED fn
        BY <1>3 DEF WorkerAlone, queueVars
      <4>. QED  BY <4>1, <4>2, <4>3
    <3>2. CASE CountFailure(w) \/ WorkerExit(w)
      BY <1>3, <3>2 DEF WorkerAlone, CountFailure, WorkerExit, queueVars
    <3>. QED  BY <1>3, <3>1, <3>2 DEF WorkerAlone
  <2>2. \A v \in Workers : fn[v] \in {"sendOk", "sendError"} => holds'[v] = holds[v]
    BY <1>i, <2>1
  <2>. QED  BY <2>1, <2>2, AnswersRest
<1>4. ASSUME NEW w \in Workers, WorkerBegins(w) \/ WorkerReturns(w) PROVE Answers(j)' = Answers(j)
  <2>1. /\ fn[w] \notin {"sendOk", "sendError"}
        /\ \E there \in {"idle", "process"} : fn' = [fn EXCEPT ![w] = there]
        /\ holds' = holds \/ \E t : holds' = [holds EXCEPT ![w] = t]
    BY <1>4 DEF WorkerBegins, WorkerReturns, FnGoto, BeginFn, FnReturns
  <2>2. \A v \in Workers :
            /\ fn'[v] \in {"sendOk", "sendError"} <=> fn[v] \in {"sendOk", "sendError"}
            /\ fn[v] \in {"sendOk", "sendError"} => holds'[v] = holds[v]
    BY <1>i, <2>1
  <2>. QED  BY <2>2, AnswersRest
<1>. QED  BY <1>1, <1>2, <1>3, <1>4

LEMMA DueInductive ==
    ASSUME Where, QueueTypes, OnlyTaken, NothingSent, Untimed, Exclusive, AllDue, [QueueNext]_allVars
    PROVE  AllDue'
<1>. SUFFICES ASSUME NEW j \in Items PROVE Due(j)'
  BY DEF AllDue
<1>i. ItemsOK /\ LettersOK /\ StatesOK /\ Consistent /\ Due(j) /\ NoItem \notin Items
      /\ LettersDistinct
  BY QueueConstants DEF QueueTypes, AllDue, Exclusive
<1>1. ASSUME UNCHANGED vars, UNCHANGED <<fn, loop, inHand>>
      PROVE  /\ Live' = Live /\ LiveItems' = LiveItems /\ Looped' = Looped
             /\ Answers(j)' = Answers(j) /\ GivesUp(j)' = GivesUp(j)
  <2>1. UNCHANGED <<submit, finished, holds>>
    BY <1>1 DEF vars, workers
  <2>. QED  BY <1>1, <2>1, LiveRests, AnswersRest DEF Accepted, Looped, GivesUp
<1>2. CASE QueueStep
  <2>u. UNCHANGED vars
    BY <1>2 DEF QueueStep
  <2>1. ASSUME NEW i \in Items, TimerFires(i) PROVE Due(j)'
    <3>1. /\ i \in timers /\ timers' = timers \ {i} /\ heap' \subseteq heap \cup {i}
          /\ UNCHANGED <<item, loop, inHand, fn>>
      BY <2>1 DEF TimerFires, Pushed
    <3>2. Owned(j)' => Owned(j)
      BY <3>1, <2>u, <1>1 DEF Owned
    <3>. QED  BY <1>i, <3>1, <3>2, <2>u, <1>1, DueRests
  <2>2. CASE Requeuing
    <3>1. UNCHANGED <<timers, loop, inHand, fn>>
      BY <2>2, <1>i, RequeueMoves
    <3>2. item'[j].sent = item[j].sent
      BY <2>2, <1>i, OneRequeued
    <3>3. Dues(j)' = Dues(j)
      BY <2>u, <3>1, <3>2, <1>1, DuesRest
    <3>4. ASSUME item'[j].queued = item[j].queued, j \in heap' => j \in heap PROVE Due(j)'
      <4>1. Owned(j)' => Owned(j)
        BY <3>1, <3>4, <2>u, <1>1 DEF Owned
      <4>. QED  BY <1>i, <3>3, <3>4, <4>1, DueMoves
    <3>5. ASSUME NEW i \in Items, Renews(i) PROVE Due(j)'
      <4>1. item'[j].queued = item[j].queued /\ heap' = heap
        BY <3>5, <1>i, RequeueFields DEF Renews
      <4>. QED  BY <3>4, <4>1
    <3>6. ASSUME NEW i \in Items, Returns(i) PROVE Due(j)'
      <4>0. heap' = heap \cup {i}
        BY <3>6 DEF Returns
      <4>1. item'[j].queued = IF j = i THEN item[j].queued + 1 ELSE item[j].queued
        BY <3>6, <1>i, RequeueFields
      <4>2. CASE j = i
        BY <1>i, <3>3, <4>1, <4>2, DueMoves
      <4>3. CASE j # i
        BY <3>4, <4>0, <4>1, <4>3
      <4>. QED  BY <4>2, <4>3
    <3>7. CASE GoesHome
      BY <3>4, <3>7 DEF GoesHome
    <3>. QED  BY <2>2, <1>i, <3>5, <3>6, <3>7, RequeueMoves
  <2>3. CASE Clear \/ QueueStopStep
    <3>1. heap' \subseteq heap /\ UNCHANGED <<item, timers, loop, inHand, fn>>
      BY <2>3 DEF Clear, QueueStopStep, QueueStopClaims, QueueStopReturns, QueueStopTimesOut,
          QueueStopGoto
    <3>2. Owned(j)' => Owned(j)
      BY <3>1, <2>u, <1>1 DEF Owned
    <3>. QED  BY <1>i, <3>1, <3>2, <2>u, <1>1, DueRests
  <2>. QED  BY <1>2, <2>u, <2>1, <2>2, <2>3, CallerDue, LoopDue, FnDue DEF QueueStep, Requeuing
<1>3. CASE LoopSubmits
  <2>1. UNCHANGED <<item, heap, timers, fn>> /\ loop = "submit"
    BY <1>3 DEF LoopSubmits
  <2>2. UNCHANGED holds
    BY <1>3 DEF LoopSubmits, SubmitStep, SubmitLoadStopped, SubmitMeasure, SubmitCount, SubmitSend,
        SubmitPanics, SubmitRefused, SubmitParks, SubmitWithdraws, SubmitRollback, SubmitGoto, workers
  <2>3. Answers(j)' = Answers(j)
    BY <2>1, <2>2, AnswersRest
  <2>4. CASE UNCHANGED <<loop, inHand>> /\ LiveItems' = LiveItems
    <3>1. GivesUp(j)' = GivesUp(j) /\ (Owned(j)' => Owned(j))
      BY <2>1, <2>4 DEF GivesUp, Owned, Looped
    <3>. QED  BY <1>i, <2>1, <2>3, <3>1, DueRests
  <2>5. CASE loop' = "check" /\ LiveItems' = LiveItems \cup {inHand}
    <3>1. GivesUp(j)' = GivesUp(j) /\ (Owned(j)' => Owned(j))
      BY <2>1, <2>5 DEF GivesUp, One, Owned, Looped
    <3>. QED  BY <1>i, <2>1, <2>3, <3>1, DueRests
  <2>. QED  BY <1>3, <2>4, <2>5, SubmitLive
<1>4. CASE UNCHANGED allVars
  <2>1. UNCHANGED vars /\ UNCHANGED <<item, heap, timers, loop, inHand, fn>>
    BY <1>4 DEF allVars, queueVars
  <2>2. Owned(j)' => Owned(j)
    BY <2>1, <1>1 DEF Owned
  <2>. QED  BY <1>i, <2>1, <2>2, <1>1, DueRests
<1>5. CASE \/ StartClaim /\ UNCHANGED queueVars
           \/ StartWorkers /\ UNCHANGED queueVars
           \/ \E w \in Workers : WorkerAlone(w) \/ WorkerBegins(w) \/ WorkerReturns(w)
           \/ \E s \in Stoppers : PoolStops(s)
  <2>1. UNCHANGED <<item, heap, timers, loop, inHand>>
    BY <1>5 DEF queueVars, WorkerAlone, WorkerBegins, WorkerReturns, FnGoto, PoolStops
  <2>2. LiveItems' = LiveItems /\ Answers(j)' = Answers(j)
    BY <1>5, PoolLive, PoolAnswers
  <2>3. GivesUp(j)' = GivesUp(j) /\ (Owned(j)' => Owned(j))
    BY <2>1, <2>2 DEF GivesUp, Owned, Looped
  <2>. QED  BY <1>i, <2>1, <2>2, <2>3, DueRests
<1>. QED  BY <1>2, <1>3, <1>4, <1>5 DEF QueueNext

LEMMA DueInitially == QueueInit => AllDue
<1>. SUFFICES ASSUME QueueInit, NEW i \in Items PROVE Due(i)
  BY DEF AllDue
<1>0. LiveItems = {}
  BY DEF QueueInit, Init, LiveItems, Live, Accepted
<1>1. item[i].sent = 0 /\ item[i].queued = 0 /\ ~Owned(i) /\ GivesUp(i) = 0
  BY <1>0 DEF QueueInit, NewItem, GivesUp, One, Owned, Looped
<1>2. Answers(i) = {}
  BY DEF QueueInit, Answers
<1>. QED  BY <1>1, <1>2, FS_EmptySet DEF Due, Dues

\* An item gets one result for each time it was put on the queue, and while anybody
\* still works on it the last of them has not been sent (AnsweredOnce).
THEOREM ItemsAnsweredOnce == QueueSpec => []AnsweredOnce
<1>1. QueueTypes /\ Exclusive /\ AllDue => AnsweredOnce
  <2>. SUFFICES ASSUME QueueTypes, Exclusive, AllDue, NEW i \in Items
                PROVE  /\ item[i].sent <= item[i].queued
                       /\ item[i].sent = item[i].queued => Owners(i) = 0
    BY DEF AnsweredOnce
  <2>1. /\ item[i].sent \in Nat /\ item[i].queued \in Nat
        /\ item[i].sent <= Dues(i) /\ Dues(i) \in Nat
    BY DuesNat DEF QueueTypes, Dues
  <2>2. Owners(i) # 0 => Owned(i)
    BY OwnersCount DEF Owned
  <2>. QED  BY <2>1, <2>2 DEF AllDue, Due
<1>2. Where /\ QueueTypes /\ OnlyTaken /\ NothingSent /\ Untimed /\ Exclusive /\ AllDue
          /\ [QueueNext]_allVars => AllDue'
  BY DueInductive
<1>. QED  BY <1>1, <1>2, DueInitially, QueueHolds, TakenHolds, ExclusiveHolds, PTL DEF QueueSpec

-----------------------------------------------------------------------------
(* What loses a request *)

Followed(i) == Owned(i) \/ (inHand = i /\ loop = "giveUp") \/ Answers(i) # {}

\* A request whose caller waits and that had no result yet is with somebody, or its
\* result is about to be sent: NothingLost, for one item.
Kept(i) == item[i].caller = "waiting" /\ item[i].sent = 0 => Followed(i)

\* A retry that meets a full priority queue, and Clear.
Loses(i) == \/ TimerFires(i) /\ HeapFull
            \/ Clear /\ i \in heap

LEMMA StaysKept ==
    ASSUME NEW i, Kept(i), Followed(i) => Followed(i)',
           item'[i].caller = "waiting" /\ item'[i].sent = 0 =>
               item[i].caller = "waiting" /\ item[i].sent = 0
    PROVE  Kept(i)'
BY DEF Kept

\* Who gives nothing up, sends nothing and lets go of nothing keeps following the item.
LEMMA StaysFollowed ==
    ASSUME NEW i, Owned(i) => Owned(i)', Answers(i)' = Answers(i),
           inHand = i /\ loop = "giveUp" => inHand' = i /\ loop' = "giveUp"
    PROVE  Followed(i) => Followed(i)'
BY DEF Followed

\* An item that has been sent a result is kept.
LEMMA SentIsKept ==
    ASSUME ItemsOK, NEW i \in Items, NEW result, item' = Sent(i, result)
    PROVE  Kept(i)'
<1>1. item'[i].sent = item[i].sent + 1 /\ item[i].sent \in Nat
  BY OneSent DEF ItemsOK, ItemRecord
<1>. QED  BY <1>1 DEF Kept

LEMMA CallerKeeps ==
    ASSUME QueueTypes, Where, UNCHANGED vars, NEW i \in Items, CallerStep(i), NEW j \in Items, Kept(j)
    PROVE  Kept(j)'
<1>i. ItemsOK /\ item[j] \in ItemRecord
  BY DEF QueueTypes, ItemsOK
<1>1. UNCHANGED <<timers, loop, inHand, fn>>
  BY CallerTypes DEF QueueTypes
<1>2. UNCHANGED <<submit, finished, holds>>
  BY DEF vars, workers
<1>3. LiveItems' = LiveItems /\ Looped' = Looped /\ Answers(j)' = Answers(j)
  BY <1>1, <1>2, LiveRests, AnswersRest DEF Accepted, Looped
<1>4. heap \subseteq heap'
  BY <1>i, OneCalls
<1>5. Followed(j) => Followed(j)'
  BY <1>1, <1>3, <1>4, StaysFollowed DEF Owned
<1>6. item'[j].sent = item[j].sent
  BY <1>i, OneCalls
<1>7. CASE item[j].caller = "waiting"
  BY <1>5, <1>6, <1>7, StaysKept
<1>8. CASE item'[j].caller = "waiting" /\ item[j].caller # "waiting"
  <2>1. item[j].chan \in {"empty", "ok", "error"}
    BY <1>i DEF ItemRecord
  <2>2. heap' = heap \cup {j}
    BY <1>i, <1>8, <2>1, OneCalls
  <2>. QED  BY <2>2 DEF Owned, Followed, Kept
<1>9. CASE item'[j].caller # "waiting"
  BY <1>9 DEF Kept
<1>. QED  BY <1>7, <1>8, <1>9

LEMMA LoopKeeps ==
    ASSUME QueueTypes, Where, UNCHANGED vars, LoopStep, NEW j \in Items, Kept(j)
    PROVE  Kept(j)'
<1>i. ItemsOK /\ Consistent /\ NoItem \notin Items
  BY QueueConstants DEF QueueTypes
<1>1. UNCHANGED <<fn, holds>>
  BY DEF LoopStep, LoopStarts, LoopChecks, LoopPops, LoopChecksContext, LoopRetries, LoopBuries,
      LoopGivesUp, LoopGoto, vars, workers
<1>2. Answers(j)' = Answers(j) /\ LiveItems' = LiveItems
  BY <1>1, AnswersRest, LoopMoves
<1>3. ASSUME item' = item, Followed(j) => Followed(j)' PROVE Kept(j)'
  BY <1>3, StaysKept
<1>4. CASE LoopStarts \/ LoopChecks
  <2>1. UNCHANGED <<item, heap, timers, inHand>> /\ Looped = {} /\ loop # "giveUp"
    BY <1>4 DEF LoopStarts, LoopChecks, LoopGoto, Looped
  <2>. QED  BY <1>2, <1>3, <2>1, StaysFollowed DEF Owned
<1>5. CASE LoopPops
  <2>1. UNCHANGED <<item, timers>> /\ Looped = {} /\ loop # "giveUp"
    BY <1>5 DEF LoopPops, LoopGoto, Looped
  <2>2. heap \subseteq heap' \cup Looped'
    BY <1>5 DEF LoopPops, LoopGoto, Looped
  <2>. QED  BY <1>2, <1>3, <2>1, <2>2, StaysFollowed DEF Owned
<1>6. CASE LoopChecksContext
  <2>0. inHand \in Items /\ UNCHANGED <<heap, timers>> /\ Looped = {inHand} /\ loop # "giveUp"
    BY <1>6, <1>i DEF LoopChecksContext, LoopGoto, Consistent, Looped
  <2>1. CASE UNCHANGED <<item, inHand>>
    <3>1. Looped' = Looped
      BY <1>6, <2>0, <2>1, <1>i DEF LoopChecksContext, LoopGoto, Looped
    <3>. QED  BY <1>2, <1>3, <2>0, <2>1, <3>1, StaysFollowed DEF Owned
  <2>2. CASE item' = Sent(inHand, "error")
    <3>1. CASE j = inHand
      BY <1>i, <2>0, <2>2, <3>1, SentIsKept
    <3>2. CASE j # inHand
      <4>1. item'[j] = item[j]
        BY <1>i, <2>0, <2>2, <3>2, OneSent
      <4>2. Owned(j) => Owned(j)'
        BY <1>2, <2>0, <3>2 DEF Owned
      <4>. QED  BY <1>2, <2>0, <4>1, <4>2, StaysFollowed, StaysKept
    <3>. QED  BY <3>1, <3>2
  <2>. QED  BY <1>6, <2>1, <2>2 DEF LoopChecksContext
<1>7. CASE LoopRetries
  <2>1. PICK i \in Items : i = inHand
    BY <1>7, <1>i DEF LoopRetries, LoopGoto, Consistent
  <2>2. /\ \A k \in Items \ {i} : item'[k] = item[k]
        /\ item'[i].caller = item[i].caller /\ item'[i].sent = item[i].sent
        /\ timers' = timers \cup {i} /\ heap' = heap
    BY <1>7, <1>i, <2>1, OneRetried DEF LoopRetries
  <2>3. Looped = {i} /\ loop # "giveUp"
    BY <1>7, <2>1 DEF LoopRetries, LoopGoto, Looped
  <2>4. Owned(j) => Owned(j)'
    BY <1>2, <2>2, <2>3 DEF Owned
  <2>5. item'[j].caller = item[j].caller /\ item'[j].sent = item[j].sent
    BY <2>2
  <2>. QED  BY <1>2, <2>3, <2>4, <2>5, StaysFollowed, StaysKept
<1>8. CASE LoopBuries
  <2>1. inHand \in Items /\ Looped = {inHand} /\ loop' = "giveUp" /\ UNCHANGED <<item, heap, timers, inHand>>
    BY <1>8, <1>i DEF LoopBuries, LoopGoto, Consistent, Looped
  <2>2. CASE j = inHand
    BY <2>1, <2>2 DEF Followed, Kept
  <2>3. CASE j # inHand
    <3>1. Owned(j) => Owned(j)'
      BY <1>2, <2>1, <2>3 DEF Owned
    <3>. QED  BY <1>2, <1>3, <2>1, <2>3, <3>1, StaysFollowed
  <2>. QED  BY <2>2, <2>3
<1>9. CASE LoopGivesUp
  <2>1. inHand \in Items /\ item' = Sent(inHand, "error") /\ UNCHANGED <<heap, timers>> /\ Looped = {}
    BY <1>9, <1>i DEF LoopGivesUp, LoopGoto, Consistent, Looped
  <2>2. CASE j = inHand
    BY <1>i, <2>1, <2>2, SentIsKept
  <2>3. CASE j # inHand
    <3>1. item'[j] = item[j]
      BY <1>i, <2>1, <2>3, OneSent
    <3>2. Owned(j) => Owned(j)'
      BY <1>2, <2>1 DEF Owned
    <3>. QED  BY <1>2, <2>3, <3>1, <3>2, StaysFollowed, StaysKept
  <2>. QED  BY <2>2, <2>3
<1>. QED  BY <1>4, <1>5, <1>6, <1>7, <1>8, <1>9 DEF LoopStep

LEMMA FnKeeps ==
    ASSUME QueueTypes, Where, Exclusive, UNCHANGED vars, NEW w \in Workers, FnStep(w),
           NEW j \in Items, Kept(j)
    PROVE  Kept(j)'
<1>i. ItemsOK /\ StatesOK /\ Consistent /\ fn \in [Workers -> FnStates]
  BY DEF QueueTypes, StatesOK, FnStates
<1>1. UNCHANGED <<heap, loop, inHand>> /\ Looped' = Looped /\ fn[w] # "idle"
  BY DEF FnStep, ProcessorSucceeds, ProcessorRetries, ProcessorBuries, WorkerAnswers, FnGoto, Looped
<1>2. PICK i \in Items : i = Working(w)
  BY <1>i, <1>1, AtWork
<1>3. UNCHANGED <<submit, finished, holds>>
  BY DEF vars, workers
<1>4. ASSUME NEW here, NEW there, FnGoto(w, here, there), j # i
      PROVE  Answers(j)' = Answers(j)
  <2>1. \A v \in Workers \ {w} : fn'[v] = fn[v]
    BY <1>4, <1>i DEF FnGoto
  <2>. QED  BY <1>2, <1>3, <1>4, <2>1 DEF Answers, Working
<1>5. CASE WorkerAnswers(w)
  <2>1. timers' = timers /\ \E result : item' = Sent(i, result)
    BY <1>2, <1>5 DEF WorkerAnswers
  <2>2. CASE j = i
    BY <1>i, <2>1, <2>2, SentIsKept
  <2>3. CASE j # i
    <3>1. \A v \in Workers : fn'[v] \in {"idle", "process"} <=> fn[v] \in {"idle", "process"}
      BY <1>5, <1>i DEF WorkerAnswers, FnGoto
    <3>2. LiveItems' = LiveItems
      BY <1>3, <3>1, LiveRests DEF Accepted
    <3>3. Answers(j)' = Answers(j)
      BY <1>4, <1>5, <2>3 DEF WorkerAnswers
    <3>4. item'[j] = item[j]
      BY <1>i, <2>1, <2>3, OneSent
    <3>. QED  BY <1>1, <2>1, <3>2, <3>3, <3>4, StaysFollowed, StaysKept DEF Owned
  <2>. QED  BY <2>2, <2>3
<1>6. ASSUME NEW there \in {"sendOk", "sendError", "returnError"}, FnGoto(w, "process", there),
             timers \subseteq timers', there = "returnError" => i \in timers',
             \A k \in Items : item'[k].caller = item[k].caller /\ item'[k].sent = item[k].sent
      PROVE  Kept(j)'
  <2>1. LiveItems' = LiveItems \ {i}
    BY <1>2, <1>6, LetsGo
  <2>2. CASE j = i
    <3>1. CASE there = "returnError"
      BY <1>6, <2>2, <3>1 DEF Owned, Followed, Kept
    <3>2. CASE there \in {"sendOk", "sendError"}
      <4>1. fn'[w] \in {"sendOk", "sendError"} /\ holds'[w][1] = j
        BY <1>2, <1>3, <1>6, <1>i, <2>2, <3>2 DEF FnGoto, Working
      <4>2. w \in Answers(j)'
        BY <4>1 DEF Answers, Working
      <4>. QED  BY <4>2 DEF Followed, Kept
    <3>. QED  BY <3>1, <3>2
  <2>3. CASE j # i
    <3>1. Answers(j)' = Answers(j)
      BY <1>4, <1>6, <2>3
    <3>2. Owned(j) => Owned(j)'
      BY <1>1, <1>6, <2>1, <2>3 DEF Owned
    <3>. QED  BY <1>1, <1>6, <3>1, <3>2, StaysFollowed, StaysKept
  <2>. QED  BY <2>2, <2>3
<1>7. CASE ProcessorSucceeds(w) \/ ProcessorBuries(w)
  <2>1. item' = item /\ timers' = timers /\ \E there \in {"sendOk", "sendError"} : FnGoto(w, "process", there)
    BY <1>7 DEF ProcessorSucceeds, ProcessorBuries
  <2>. QED  BY <1>6, <2>1
<1>8. CASE ProcessorRetries(w)
  <2>1. FnGoto(w, "process", "returnError") /\ Retries(i)
    BY <1>2, <1>8 DEF ProcessorRetries
  <2>2. /\ \A k \in Items \ {i} : item'[k] = item[k]
        /\ item'[i].caller = item[i].caller /\ item'[i].sent = item[i].sent
        /\ timers' = timers \cup {i}
    BY <1>i, <2>1, OneRetried
  <2>3. \A k \in Items : item'[k].caller = item[k].caller /\ item'[k].sent = item[k].sent
    BY <2>2
  <2>. QED  BY <1>6, <2>1, <2>2, <2>3
<1>. QED  BY <1>5, <1>7, <1>8 DEF FnStep

LEMMA KeptStep ==
    ASSUME Where, QueueTypes, Untimed, Exclusive, [QueueNext]_allVars,
           NEW j \in Items, Kept(j), ~Loses(j)
    PROVE  Kept(j)'
<1>i. ItemsOK /\ LettersOK /\ LettersDistinct /\ StatesOK
  BY DEF QueueTypes, Exclusive
<1>1. ASSUME UNCHANGED vars, UNCHANGED <<fn, loop, inHand>>
      PROVE  LiveItems' = LiveItems /\ Looped' = Looped /\ Answers(j)' = Answers(j)
  <2>1. UNCHANGED <<submit, finished, holds>>
    BY <1>1 DEF vars, workers
  <2>. QED  BY <1>1, <2>1, LiveRests, AnswersRest DEF Accepted, Looped
<1>2. CASE QueueStep
  <2>u. UNCHANGED vars
    BY <1>2 DEF QueueStep
  <2>1. ASSUME NEW i \in Items, TimerFires(i) PROVE Kept(j)'
    <3>1. /\ heap \subseteq heap' /\ (j = i => j \in heap')
          /\ timers' = timers \ {i} /\ UNCHANGED <<item, loop, inHand, fn>>
      BY <2>1 DEF TimerFires, Pushed, Loses
    <3>2. Owned(j) => Owned(j)'
      BY <2>u, <3>1, <1>1 DEF Owned
    <3>. QED  BY <2>u, <3>1, <3>2, <1>1, StaysFollowed, StaysKept
  <2>2. CASE Requeuing
    <3>1. UNCHANGED <<timers, loop, inHand, fn>> /\ heap \subseteq heap'
      BY <2>2, <1>i, RequeueMoves DEF Renews, Returns, GoesHome
    <3>2. Owned(j) => Owned(j)'
      BY <2>u, <3>1, <1>1 DEF Owned
    <3>3. item'[j].caller = item[j].caller /\ item'[j].sent = item[j].sent
      BY <2>2, <1>i, OneRequeued
    <3>. QED  BY <2>u, <3>1, <3>2, <3>3, <1>1, StaysFollowed, StaysKept
  <2>3. CASE Clear \/ QueueStopStep
    <3>1. j \in heap => j \in heap'
      BY <2>3 DEF Loses, QueueStopStep, QueueStopClaims, QueueStopReturns, QueueStopTimesOut, QueueStopGoto
    <3>2. UNCHANGED <<item, timers, loop, inHand, fn>>
      BY <2>3 DEF Clear, QueueStopStep, QueueStopClaims, QueueStopReturns, QueueStopTimesOut, QueueStopGoto
    <3>3. Owned(j) => Owned(j)'
      BY <2>u, <3>1, <3>2, <1>1 DEF Owned
    <3>. QED  BY <2>u, <3>2, <3>3, <1>1, StaysFollowed, StaysKept
  <2>. QED  BY <1>2, <2>u, <2>1, <2>2, <2>3, CallerKeeps, LoopKeeps, FnKeeps DEF QueueStep, Requeuing
<1>3. CASE LoopSubmits
  <2>1. UNCHANGED <<item, heap, timers, fn>> /\ loop = "submit"
    BY <1>3 DEF LoopSubmits
  <2>2. UNCHANGED holds
    BY <1>3 DEF LoopSubmits, SubmitStep, SubmitLoadStopped, SubmitMeasure, SubmitCount, SubmitSend,
        SubmitPanics, SubmitRefused, SubmitParks, SubmitWithdraws, SubmitRollback, SubmitGoto, workers
  <2>3. Answers(j)' = Answers(j)
    BY <2>1, <2>2, AnswersRest
  <2>4. Looped \cup LiveItems \subseteq Looped' \cup LiveItems'
    BY <1>3, <2>1, SubmitLive DEF Looped
  <2>5. Owned(j) => Owned(j)'
    BY <2>1, <2>4 DEF Owned
  <2>. QED  BY <2>1, <2>3, <2>5, StaysFollowed, StaysKept
<1>4. CASE UNCHANGED allVars
  <2>1. UNCHANGED vars /\ UNCHANGED <<item, heap, timers, loop, inHand, fn>>
    BY <1>4 DEF allVars, queueVars
  <2>2. Owned(j) => Owned(j)'
    BY <2>1, <1>1 DEF Owned
  <2>. QED  BY <2>1, <2>2, <1>1, StaysFollowed, StaysKept
<1>5. CASE \/ StartClaim /\ UNCHANGED queueVars
           \/ StartWorkers /\ UNCHANGED queueVars
           \/ \E w \in Workers : WorkerAlone(w) \/ WorkerBegins(w) \/ WorkerReturns(w)
           \/ \E s \in Stoppers : PoolStops(s)
  <2>1. UNCHANGED <<item, heap, timers, loop, inHand>>
    BY <1>5 DEF queueVars, WorkerAlone, WorkerBegins, WorkerReturns, FnGoto, PoolStops
  <2>2. LiveItems' = LiveItems /\ Answers(j)' = Answers(j)
    BY <1>5, PoolLive, PoolAnswers
  <2>3. Owned(j) => Owned(j)'
    BY <2>1, <2>2 DEF Owned, Looped
  <2>. QED  BY <2>1, <2>2, <2>3, StaysFollowed, StaysKept
<1>. QED  BY <1>2, <1>3, <1>4, <1>5 DEF QueueNext

\* A request that is being followed is dropped by a retry that meets a full priority
\* queue, or by Clear, and by nothing else, whatever callers, processLoop, workers,
\* timers and Stop do.
THEOREM OnlyOverflowAndClearLose ==
    QueueSpec => [][\A i \in Items : Kept(i) /\ ~Loses(i) => Kept(i)']_allVars
<1>1. Where /\ QueueTypes /\ Untimed /\ Exclusive /\ [QueueNext]_allVars =>
          \A i \in Items : Kept(i) /\ ~Loses(i) => Kept(i)'
  BY KeptStep
<1>. QED  BY <1>1, QueueHolds, ExclusiveHolds, PTL DEF QueueSpec

\* An item with an owner has one.
LEMMA OwnedOnce ==
    ASSUME QueueTypes, Exclusive, NEW i \in Items, Owned(i)
    PROVE  Owners(i) = 1
<1> DEFINE P == InPool(i)
           a == One(i \in heap)
           b == One(InLoop(i))
           c == One(i \in timers)
           n == Cardinality(P)
<1>1. Owners(i) = a + b + c + n /\ Owners(i) \in Nat
  BY OwnersCount DEF Owners
<1>2. Owners(i) + Cardinality(Graves(i)) <= 1 /\ Cardinality(Graves(i)) \in Nat
  <2>1. \A j, k \in Graves(i) : j = k
    BY DEF Graves, Exclusive, LettersDistinct, Distinct
  <2>. QED  BY <2>1, OwnersCount, AtMostOne
<1>3. a \in {0, 1} /\ b \in {0, 1} /\ c \in {0, 1}
      /\ (i \in heap => a = 1) /\ (i \in Looped => b = 1) /\ (i \in timers => c = 1)
  BY DEF One, InLoop, Looped
<1>4. n \in Nat /\ (i \in LiveItems => n >= 1)
  <2>1. P = {t \in Live : t[1] = i}
    BY DEF InPool, Live, Accepted
  <2>2. \A t, u \in P : t = u
    BY <2>1 DEF OneTask, Exclusive
  <2>3. i \in LiveItems => P # {}
    BY <2>1 DEF LiveItems
  <2>. HIDE DEF P
  <2>. QED  BY <2>2, <2>3, AtMostOne
<1>. HIDE DEF a, b, c, n
<1>. QED  BY <1>1, <1>2, <1>3, <1>4 DEF Owned

\* With room in the priority queue for every item, and without Clear, no request that
\* was taken is ever lost: then NothingLost, which does not hold in general, does.
THEOREM NothingLostWithRoom ==
    Cardinality(Items) <= Capacity /\ ~MayClear => (QueueSpec => []NothingLost)
<1>. SUFFICES ASSUME Cardinality(Items) <= Capacity, ~MayClear PROVE QueueSpec => []NothingLost
  OBVIOUS
<1>1. QueueTypes /\ Exclusive => \A i \in Items : ~Loses(i)
  <2>. SUFFICES ASSUME QueueTypes, Exclusive, NEW i \in Items, TimerFires(i), HeapFull PROVE FALSE
    BY DEF Loses, Clear
  <2>1. heap \subseteq Items \ {i}
    BY DEF TimerFires, Exclusive, Apart, QueueTypes, HeapOK
  <2>2. Cardinality(Items \ {i}) = Cardinality(Items) - 1 /\ IsFiniteSet(Items \ {i})
    BY QueueConstants, FS_RemoveElement
  <2>3. Cardinality(heap) <= Cardinality(Items \ {i})
    BY <2>1, <2>2, FS_Subset
  <2>4. Cardinality(Items) \in Nat /\ Cardinality(heap) \in Nat
    BY <2>1, <2>2, QueueConstants, FS_CardinalityType, FS_Subset
  <2>. QED  BY <2>2, <2>3, <2>4, QueueConstants DEF HeapFull
<1>2. QueueInit => \A i \in Items : Kept(i)
  BY DEF QueueInit, NewItem, Kept
<1>3. Where /\ QueueTypes /\ Untimed /\ Exclusive /\ (\A i \in Items : Kept(i)) /\ [QueueNext]_allVars
          => (\A i \in Items : Kept(i))'
  BY <1>1, KeptStep
<1>4. QueueTypes /\ Exclusive /\ (\A i \in Items : Kept(i)) => NothingLost
  BY OwnedOnce DEF NothingLost, Kept, Followed, Answering, Answers
<1>. QED  BY <1>2, <1>3, <1>4, QueueHolds, ExclusiveHolds, PTL DEF QueueSpec

-----------------------------------------------------------------------------
(* Every attempt is a new task *)

Unsubmitted(t) == submit[t] = "unsubmitted"

\* An attempt that item t[1] has not come to yet.
Later(t) == \/ t[2] > item[t[1]].requeues
            \/ t[2] = item[t[1]].requeues /\ t[3] > item[t[1]].retries

\* The dead letter whose RetryCount was reset and which is about to be put on the queue.
Renewed == IF requeue = "push" THEN {deadLetters[letter]} ELSE {}

\* The item is on its way to be submitted.
Coming(i) == i \in heap \cup timers \cup Renewed \/ (loop = "context" /\ inHand = i)

LEMMA RenewedRests ==
    ASSUME [QueueNext]_allVars, ~Requeuing
    PROVE  Renewed' = Renewed
BY RequeueRests DEF Renewed, requeueVars

\* Where an attempt is while processLoop submits it.
OnItsWay == {"unsubmitted", "measure", "count", "send", "refused"}

\* No attempt is submitted before its time, and none twice.
Fresh ==
    /\ \A t \in Tasks : Later(t) => Unsubmitted(t)
    /\ \A i \in Items : Coming(i) => Unsubmitted(Attempt(i))
    /\ loop = "submit" => submit[Attempt(inHand)] \in OnItsWay

SameAttempts ==
    \A i \in Items : item'[i].requeues = item[i].requeues /\ item'[i].retries = item[i].retries

LEMMA AttemptFields ==
    ASSUME ItemsOK, NEW i \in Items
    PROVE  /\ item[i].requeues \in 0 .. MaxRequeues /\ item[i].retries \in 0 .. MaxRetries
           /\ item[i].requeues \in Int /\ item[i].retries \in Int
<1>1. item[i].requeues \in 0 .. MaxRequeues /\ item[i].retries \in 0 .. MaxRetries
  BY DEF ItemsOK, ItemRecord
<1>. QED  BY <1>1, QueueConstants

LEMMA TaskFields ==
    ASSUME NEW t \in Tasks
    PROVE  t[1] \in Items /\ t[2] \in Int /\ t[3] \in Int /\ t = <<t[1], t[2], t[3]>>
BY QueueConstants

LEMMA CallsNoAttempt ==
    ASSUME ItemsOK, NEW i \in Items, CallerStep(i)
    PROVE  SameAttempts
<1>i. item \in [Items -> ItemRecord] /\ item[i] \in ItemRecord
  BY DEF ItemsOK
<1>1. ASSUME NEW r, item' = [item EXCEPT ![i] = r], r.requeues = item[i].requeues, r.retries = item[i].retries
      PROVE  SameAttempts
  BY <1>i, <1>1 DEF SameAttempts
<1>2. CASE CallerChecks(i)
  <2> DEFINE r == [item[i] EXCEPT !.caller = IF QueueStopped THEN "refused" ELSE "push"]
  <2>1. item' = [item EXCEPT ![i] = r]
    BY <1>2 DEF CallerChecks, Call
  <2>2. r.requeues = item[i].requeues /\ r.retries = item[i].retries
    BY <1>i DEF ItemRecord
  <2>. HIDE DEF r
  <2>. QED  BY <1>1, <2>1, <2>2
<1>3. CASE CallerPushes(i)
  <2> DEFINE r == [item[i] EXCEPT !.caller = IF HeapFull THEN "refused" ELSE "waiting", !.submittedAt = Now,
                               !.queued = IF HeapFull THEN item[i].queued ELSE item[i].queued + 1]
  <2>1. item' = [item EXCEPT ![i] = r]
    BY <1>3 DEF CallerPushes
  <2>2. r.requeues = item[i].requeues /\ r.retries = item[i].retries
    BY <1>i DEF ItemRecord
  <2>. HIDE DEF r
  <2>. QED  BY <1>1, <2>1, <2>2
<1>4. CASE CallerReceives(i)
  <2> DEFINE r == [item[i] EXCEPT !.caller = item[i].chan, !.chan = "empty"]
  <2>1. item' = [item EXCEPT ![i] = r]
    BY <1>4 DEF CallerReceives
  <2>2. r.requeues = item[i].requeues /\ r.retries = item[i].retries
    BY <1>i DEF ItemRecord
  <2>. HIDE DEF r
  <2>. QED  BY <1>1, <2>1, <2>2
<1>5. CASE ContextExpires(i)
  <2> DEFINE r == [item[i] EXCEPT !.expired = TRUE]
  <2>1. item' = [item EXCEPT ![i] = r]
    BY <1>5 DEF ContextExpires
  <2>2. r.requeues = item[i].requeues /\ r.retries = item[i].retries
    BY <1>i DEF ItemRecord
  <2>. HIDE DEF r
  <2>. QED  BY <1>1, <2>1, <2>2
<1>. QED  BY <1>2, <1>3, <1>4, <1>5 DEF CallerStep

LEMMA RetriedNow ==
    ASSUME ItemsOK, NEW i \in Items, Retries(i)
    PROVE  /\ \A j \in Items \ {i} : item'[j] = item[j]
           /\ item'[i].requeues = item[i].requeues /\ item'[i].retries = item[i].retries + 1
           /\ item[i].retries < MaxRetries /\ timers' = timers \cup {i}
<1> DEFINE r == [item[i] EXCEPT !.retries = item[i].retries + 1]
<1>1. item' = [item EXCEPT ![i] = r] /\ item \in [Items -> ItemRecord]
  BY DEF Retries, ItemsOK
<1>2. r.retries = item[i].retries + 1 /\ r.requeues = item[i].requeues
  BY <1>1 DEF ItemRecord
<1>3. item[i].retries < MaxRetries /\ timers' = timers \cup {i}
  BY DEF Retries, CanRetry
<1>. HIDE DEF r
<1>. QED  BY <1>1, <1>2, <1>3

LEMMA SentNoAttempt ==
    ASSUME ItemsOK, NEW i \in Items, NEW result, item' = Sent(i, result)
    PROVE  SameAttempts
<1>1. /\ \A j \in Items \ {i} : item'[j] = item[j]
      /\ item'[i].requeues = item[i].requeues /\ item'[i].retries = item[i].retries
  BY OneSent
<1>. QED  BY <1>1 DEF SameAttempts

LEMMA AttemptIsNext == ASSUME ItemsOK', NEW i \in Items PROVE Attempt(i)' \in Tasks
<1>1. item'[i].requeues \in 0 .. MaxRequeues /\ item'[i].retries \in 0 .. MaxRetries
  BY DEF ItemsOK, ItemRecord
<1>. QED  BY <1>1, QueueConstants DEF Attempt

\* Nothing is submitted and no item comes to another attempt.
LEMMA FreshRests ==
    ASSUME Fresh, UNCHANGED submit, SameAttempts,
           \A i \in Items : Coming(i)' => Unsubmitted(Attempt(i)),
           loop' = "submit" => inHand' \in Items /\ submit[Attempt(inHand')] \in OnItsWay
    PROVE  Fresh'
<1>1. \A i \in Items : Attempt(i)' = Attempt(i)
  BY DEF Attempt, SameAttempts
<1>2. \A t \in Tasks : Later(t)' <=> Later(t)
  BY TaskFields DEF Later, SameAttempts
<1>3. \A t \in Tasks : Later(t)' => Unsubmitted(t)'
  BY <1>2 DEF Fresh, Unsubmitted
<1>4. \A i \in Items : Coming(i)' => Unsubmitted(Attempt(i))'
  BY <1>1 DEF Unsubmitted
<1>5. (loop = "submit" => submit[Attempt(inHand)] \in OnItsWay)'
  BY DEF Attempt, SameAttempts
<1>. QED  BY <1>3, <1>4, <1>5 DEF Fresh

\* Nothing is submitted, and item i comes to a later attempt.
LEMMA FreshMovesOn ==
    ASSUME Fresh, ItemsOK, UNCHANGED submit, NEW i \in Items, Attempt(i)' \in Tasks,
           \A j \in Items \ {i} : item'[j] = item[j],
           \/ item'[i].requeues = item[i].requeues + 1 /\ item'[i].retries = 0
           \/ item'[i].requeues = item[i].requeues /\ item'[i].retries = item[i].retries + 1,
           \A j \in Items \ {i} : Coming(j)' => Coming(j),
           loop' = "submit" => loop = "submit" /\ inHand' = inHand /\ inHand \in Items \ {i}
    PROVE  Fresh'
<1>1. item[i].requeues \in Int /\ item[i].retries \in Int
  BY AttemptFields
<1>2. ASSUME NEW t \in Tasks, Later(t)' PROVE Later(t)
  <2>1. CASE t[1] = i
    BY <1>1, <1>2, <2>1, TaskFields DEF Later
  <2>2. CASE t[1] # i
    BY <1>2, <2>2, TaskFields DEF Later
  <2>. QED  BY <2>1, <2>2
<1>3. \A t \in Tasks : Later(t)' => Unsubmitted(t)'
  BY <1>2 DEF Fresh, Unsubmitted
<1>4. Unsubmitted(Attempt(i))'
  <2> DEFINE a == Attempt(i)'
  <2>1. a \in Tasks /\ a[1] = i /\ a[2] = item'[i].requeues /\ a[3] = item'[i].retries
    BY DEF Attempt
  <2>2. Later(a)
    BY <1>1, <2>1 DEF Later
  <2>3. Unsubmitted(a)
    BY <2>1, <2>2 DEF Fresh
  <2>. QED  BY <2>3 DEF Unsubmitted
<1>5. \A j \in Items \ {i} : Attempt(j)' = Attempt(j)
  BY DEF Attempt
<1>6. \A j \in Items : Coming(j)' => Unsubmitted(Attempt(j))'
  <2>1. \A j \in Items \ {i} : Coming(j)' => Unsubmitted(Attempt(j))
    BY DEF Fresh
  <2>. QED  BY <1>4, <1>5, <2>1 DEF Unsubmitted
<1>7. (loop = "submit" => submit[Attempt(inHand)] \in OnItsWay)'
  BY DEF Attempt, Fresh
<1>. QED  BY <1>3, <1>6, <1>7 DEF Fresh

\* processLoop's submission brings the attempt in hand on.
LEMMA SubmissionMoves ==
    ASSUME Where, QueueTypes, Untimed, Fresh, LoopSubmits
    PROVE  /\ inHand \in Items /\ Attempt(inHand) \in Tasks
           /\ \A t \in Tasks \ {Attempt(inHand)} : submit'[t] = submit[t]
           /\ UNCHANGED <<item, heap, timers, fn>> /\ loop = "submit"
           /\ \/ loop' = "check"
              \/ crashed' /\ UNCHANGED <<submit, loop, inHand>>
              \/ /\ UNCHANGED <<loop, inHand>>
                 /\ <<submit[Attempt(inHand)], submit'[Attempt(inHand)]>> \in
                        {<<"unsubmitted", "measure">>, <<"unsubmitted", "refused">>,
                         <<"measure", "count">>, <<"measure", "refused">>,
                         <<"count", "send">>, <<"send", "refused">>}
<1>1. inHand \in Items /\ loop = "submit" /\ UNCHANGED <<item, heap, timers, fn>>
  BY DEF LoopSubmits, QueueTypes, Consistent
<1>2. PICK t \in Tasks : t = Attempt(inHand)
  BY <1>1, AttemptIsTask DEF QueueTypes
<1>3. /\ SubmitStep(t) /\ submit'[t] # "countTimed"
      /\ IF submit'[t] = "accepted" THEN loop' = "check" /\ inHand' = NoItem ELSE UNCHANGED <<loop, inHand>>
  BY <1>2 DEF LoopSubmits
<1>4. submit \in [Tasks -> SubmitStates] /\ submit[t] \in OnItsWay
  BY <1>1, <1>2 DEF Where, Shapes, Fresh
<1>5. \A u \in Tasks \ {t} : submit'[u] = submit[u]
  BY <1>3, SubmitBegins DEF Where
<1>6. \/ crashed' /\ UNCHANGED submit /\ submit[t] # "accepted"
      \/ submit'[t] = "accepted"
      \/ <<submit[t], submit'[t]>> \in
             {<<"unsubmitted", "measure">>, <<"unsubmitted", "refused">>,
              <<"measure", "count">>, <<"measure", "refused">>,
              <<"count", "send">>, <<"send", "refused">>}
  <2>1. CASE SubmitLoadStopped(t)
    BY <2>1, <1>3, <1>4 DEF SubmitLoadStopped, SubmitGoto
  <2>2. CASE SubmitMeasure(t)
    BY <2>2, <1>4 DEF SubmitMeasure, SubmitGoto
  <2>3. CASE SubmitCount(t)
    BY <2>3, <1>4 DEF SubmitCount, SubmitGoto, OnItsWay
  <2>4. CASE SubmitSend(t)
    BY <2>4, <1>4 DEF SubmitSend, SubmitGoto
  <2>5. CASE SubmitPanics(t)
    BY <2>5, <1>4 DEF SubmitPanics, OnItsWay
  <2>6. CASE SubmitRefused(t)
    BY <2>6, <1>4 DEF SubmitRefused, SubmitGoto
  <2>7. CASE SubmitParks(t) \/ SubmitWithdraws(t) \/ SubmitRollback(t)
    BY <2>7, <1>4 DEF SubmitParks, SubmitWithdraws, SubmitRollback, SubmitGoto, OnItsWay
  <2>. QED  BY <1>3, <2>1, <2>2, <2>3, <2>4, <2>5, <2>6, <2>7 DEF SubmitStep
<1>. QED  BY <1>1, <1>2, <1>3, <1>5, <1>6

LEMMA RenewedIsLetter == ASSUME LettersOK PROVE Renewed \subseteq Letters
BY DEF LettersOK, Renewed, Letters, BeingRemoved, Elements

LEMMA SubmissionFresh ==
    ASSUME Where, QueueTypes, Untimed, Exclusive, Fresh, LoopSubmits
    PROVE  Fresh'
<1>1. /\ inHand \in Items /\ Attempt(inHand) \in Tasks /\ loop = "submit"
      /\ \A t \in Tasks \ {Attempt(inHand)} : submit'[t] = submit[t]
      /\ UNCHANGED <<item, heap, timers>>
  BY SubmissionMoves
<1>2. ItemsOK
  BY DEF QueueTypes
<1>3. \A i \in Items : Attempt(i)' = Attempt(i) /\ Attempt(i) \in Tasks /\ Attempt(i)[1] = i
  BY <1>1, <1>2, AttemptIsTask DEF Attempt
<1>4. ~Later(Attempt(inHand))
  BY <1>1, <1>2, AttemptFields DEF Later, Attempt
<1>5. \A t \in Tasks : Later(t)' => Unsubmitted(t)'
  <2>1. \A t \in Tasks : Later(t)' <=> Later(t)
    BY <1>1 DEF Later
  <2>. QED  BY <1>1, <1>4, <2>1 DEF Fresh, Unsubmitted
<1>6. \A i \in Items : Coming(i)' => Unsubmitted(Attempt(i))'
  <2>. SUFFICES ASSUME NEW i \in Items, Coming(i)' PROVE Unsubmitted(Attempt(i))'
    OBVIOUS
  <2>1. loop' # "context"
    BY SubmissionMoves, <1>1
  <2>0. Renewed' = Renewed
    BY DEF LoopSubmits, Renewed, requeueVars
  <2>2. i \in heap \cup timers \cup Renewed
    BY <1>1, <2>0, <2>1 DEF Coming
  <2>3. inHand \in Looped
    BY <1>1 DEF Looped
  <2>4. i # inHand
    BY <2>2, <2>3, RenewedIsLetter DEF Exclusive, Apart, QueueTypes
  <2>5. Attempt(i) # Attempt(inHand) /\ Unsubmitted(Attempt(i))
    BY <1>1, <1>3, <2>2, <2>4 DEF Fresh, Coming
  <2>. QED  BY <1>1, <1>3, <2>5 DEF Unsubmitted
<1>7. (loop = "submit" => submit[Attempt(inHand)] \in OnItsWay)'
  <2>1. CASE loop' = "check"
    BY <2>1
  <2>2. CASE UNCHANGED <<loop, inHand>>
    <3>1. Attempt(inHand)' = Attempt(inHand)
      BY <1>1, <2>2 DEF Attempt
    <3>2. submit[Attempt(inHand)] \in OnItsWay
      BY <1>1 DEF Fresh
    <3>3. submit'[Attempt(inHand)] \in OnItsWay \/ loop' = "check"
      BY <3>2, SubmissionMoves DEF OnItsWay
    <3>. QED  BY <3>1, <3>3
  <2>. QED  BY <2>1, <2>2, SubmissionMoves
<1>. QED  BY <1>5, <1>6, <1>7 DEF Fresh

\* The pool's own steps submit nothing.
LEMMA PoolSubmitsNothing ==
    ASSUME Where, Untimed,
           \/ StartClaim \/ StartWorkers
           \/ \E w \in Workers : WorkerAlone(w) \/ WorkerBegins(w) \/ WorkerReturns(w)
           \/ \E s \in Stoppers : PoolStops(s)
    PROVE  UNCHANGED submit
<1>s. submit \in [Tasks -> SubmitStates] /\ \A t \in Tasks : submit[t] # "parked"
  BY DEF Where, Shapes, Untimed
<1>1. CASE StartClaim \/ StartWorkers
  BY <1>1 DEF StartClaim, StartWorkers
<1>2. ASSUME NEW w \in Workers, WorkerAlone(w) \/ WorkerBegins(w) \/ WorkerReturns(w) PROVE UNCHANGED submit
  BY <1>2, <1>s DEF WorkerAlone, WorkerBegins, WorkerReturns, Receive, CountFailure, WorkerExit, BeginFn,
      FnReturns, WorkerGoto
<1>3. ASSUME NEW s \in Stoppers, PoolStops(s) PROVE UNCHANGED submit
  <2>1. CASE StopCancel(s)
    <3>1. submit' = [t \in Tasks |-> submit[t]]
      BY <2>1, <1>s DEF StopCancel
    <3>. QED  BY <3>1, <1>s
  <2>2. CASE ~StopCancel(s)
    BY <1>3, <2>2 DEF PoolStops, StopStep, StopClaim, StopClose, StopReturns, StopTimesOut
  <2>. QED  BY <2>1, <2>2
<1>. QED  BY <1>1, <1>2, <1>3

LEMMA FreshElsewhere ==
    ASSUME Where, QueueTypes, OnlyTaken, Untimed, Exclusive, Fresh, ItemsOK', [QueueNext]_allVars,
           ~Requeuing
    PROVE  Fresh'
<1>n. Renewed' = Renewed
  BY RenewedRests
<1>i. ItemsOK /\ LettersOK /\ LettersDistinct /\ StatesOK /\ Consistent /\ Apart /\ NoItem \notin Items
  BY QueueConstants DEF QueueTypes, Exclusive
<1>f. /\ \A i \in Items : Coming(i) => Unsubmitted(Attempt(i))
      /\ loop = "submit" => inHand \in Items /\ submit[Attempt(inHand)] \in OnItsWay
  BY <1>i DEF Fresh, Consistent
<1>1. ASSUME UNCHANGED <<submit, loop, inHand>>, SameAttempts,
             heap' \cup timers' \subseteq heap \cup timers
      PROVE  Fresh'
  <2>1. \A i \in Items : Coming(i)' => Coming(i)
    BY <1>n, <1>1 DEF Coming
  <2>. QED  BY <1>1, <1>f, <2>1, FreshRests
<1>2. item' = item => SameAttempts
  BY DEF SameAttempts
<1>3. CASE QueueStep
  <2>u. UNCHANGED submit
    BY <1>3 DEF QueueStep, vars
  <2>1. ASSUME NEW i \in Items, CallerStep(i) PROVE Fresh'
    <3>1. SameAttempts /\ UNCHANGED <<timers, loop, inHand>>
      BY <1>i, <2>1, CallsNoAttempt, CallerTypes
    <3>2. CASE heap' = heap
      BY <2>u, <3>1, <3>2, <1>1
    <3>3. CASE item[i].caller = "push" /\ heap' = heap \cup {i}
      <4>1. i \notin Taken /\ Attempt(i) \in Tasks /\ Attempt(i)[1] = i
        BY <1>i, <3>3, AttemptIsTask DEF Taken
      <4>2. Unsubmitted(Attempt(i))
        BY <4>1 DEF OnlyTaken, Begun, Unsubmitted
      <4>3. \A j \in Items : Coming(j)' => j = i \/ Coming(j)
        BY <1>n, <3>1, <3>3 DEF Coming
      <4>4. \A j \in Items : Coming(j)' => Unsubmitted(Attempt(j))
        BY <1>f, <4>2, <4>3
      <4>. QED  BY <1>f, <2>u, <3>1, <4>4, FreshRests
    <3>. QED  BY <1>i, <2>1, <3>2, <3>3, OneCalls
  <2>2. ASSUME NEW i \in Items, TimerFires(i) PROVE Fresh'
    <3>1. heap' \cup timers' \subseteq heap \cup timers /\ UNCHANGED <<item, loop, inHand>>
      BY <2>2 DEF TimerFires, Pushed
    <3>. QED  BY <2>u, <3>1, <1>1, <1>2
  <2>3. CASE Clear \/ QueueStopStep
    <3>1. heap' \cup timers' \subseteq heap \cup timers /\ UNCHANGED <<item, loop, inHand>>
      BY <2>3 DEF Clear, QueueStopStep, QueueStopClaims, QueueStopReturns, QueueStopTimesOut, QueueStopGoto
    <3>. QED  BY <2>u, <3>1, <1>1, <1>2
  <2>5. ASSUME NEW w \in Workers, FnStep(w) PROVE Fresh'
    <3>1. UNCHANGED <<heap, loop, inHand>> /\ fn[w] # "idle"
      BY <2>5 DEF FnStep, ProcessorSucceeds, ProcessorRetries, ProcessorBuries, WorkerAnswers, FnGoto
    <3>2. PICK i \in Items : i = Working(w)
      BY <1>i, <3>1, AtWork
    <3>3. CASE ProcessorSucceeds(w) \/ ProcessorBuries(w)
      BY <2>u, <3>1, <3>3, <1>1, <1>2 DEF ProcessorSucceeds, ProcessorBuries
    <3>4. CASE WorkerAnswers(w)
      <4>1. timers' = timers /\ \E result : item' = Sent(i, result)
        BY <3>2, <3>4 DEF WorkerAnswers
      <4>. QED  BY <1>i, <2>u, <3>1, <4>1, <1>1, SentNoAttempt
    <3>5. CASE ProcessorRetries(w)
      <4>1. FnGoto(w, "process", "returnError") /\ Retries(i)
        BY <3>2, <3>5 DEF ProcessorRetries
      <4>2. /\ \A j \in Items \ {i} : item'[j] = item[j]
            /\ item'[i].requeues = item[i].requeues /\ item'[i].retries = item[i].retries + 1
            /\ timers' = timers \cup {i}
        BY <1>i, <4>1, RetriedNow
      <4>3. i \notin Looped
        BY <1>3, <3>2, <4>1, LetsGo DEF QueueStep
      <4>4. loop = "submit" => inHand \in Items \ {i}
        BY <1>f, <4>3 DEF Looped
      <4>5. \A j \in Items \ {i} : Coming(j)' => Coming(j)
        BY <1>n, <3>1, <4>2 DEF Coming
      <4>. QED  BY <1>i, <2>u, <3>1, <4>2, <4>4, <4>5, AttemptIsNext, FreshMovesOn
    <3>. QED  BY <2>5, <3>3, <3>4, <3>5 DEF FnStep
  <2>6. CASE LoopStep
    <3>1. CASE LoopStarts \/ LoopChecks
      <4>1. UNCHANGED <<item, heap, timers, inHand>> /\ loop' \notin {"context", "submit"}
        BY <3>1 DEF LoopStarts, LoopChecks, LoopGoto
      <4>2. \A i \in Items : Coming(i)' => Coming(i)
        BY <1>n, <4>1 DEF Coming
      <4>. QED  BY <1>2, <1>f, <2>u, <4>1, <4>2, FreshRests
    <3>2. CASE LoopPops
      <4>1. UNCHANGED <<item, timers>> /\ loop' # "submit" /\ heap' \subseteq heap
        BY <3>2 DEF LoopPops, LoopGoto
      <4>2. loop' = "context" => inHand' \in heap
        BY <3>2 DEF LoopPops, LoopGoto
      <4>3. \A i \in Items : Coming(i)' => Coming(i)
        BY <1>n, <4>1, <4>2 DEF Coming
      <4>. QED  BY <1>2, <1>f, <2>u, <4>1, <4>3, FreshRests
    <3>3. CASE LoopChecksContext
      <4>1. inHand \in Items /\ loop = "context" /\ UNCHANGED <<heap, timers>> /\ loop' # "context"
        BY <1>i, <3>3 DEF LoopChecksContext, LoopGoto, Consistent
      <4>2. SameAttempts
        BY <1>2, <1>i, <3>3, <4>1, SentNoAttempt DEF LoopChecksContext
      <4>3. \A i \in Items : Coming(i)' => Coming(i)
        BY <1>n, <4>1 DEF Coming
      <4>4. loop' = "submit" => inHand' = inHand
        BY <3>3 DEF LoopChecksContext, LoopGoto
      <4>5. submit[Attempt(inHand)] \in OnItsWay
        BY <1>f, <4>1 DEF Coming, Unsubmitted, OnItsWay
      <4>. QED  BY <1>f, <2>u, <4>1, <4>2, <4>3, <4>4, <4>5, FreshRests
    <3>4. CASE LoopRetries
      <4>1. PICK i \in Items : i = inHand
        BY <1>i, <3>4 DEF LoopRetries, LoopGoto, Consistent
      <4>2. Retries(i) /\ heap' = heap /\ loop' = "check"
        BY <3>4, <4>1 DEF LoopRetries, LoopGoto
      <4>3. /\ \A j \in Items \ {i} : item'[j] = item[j]
            /\ item'[i].requeues = item[i].requeues /\ item'[i].retries = item[i].retries + 1
            /\ timers' = timers \cup {i}
        BY <1>i, <4>2, RetriedNow
      <4>4. \A j \in Items \ {i} : Coming(j)' => Coming(j)
        BY <1>n, <4>2, <4>3 DEF Coming
      <4>. QED  BY <1>i, <2>u, <4>2, <4>3, <4>4, AttemptIsNext, FreshMovesOn
    <3>5. CASE LoopBuries \/ LoopGivesUp
      <4>1. UNCHANGED <<heap, timers>> /\ loop' \notin {"context", "submit"}
        BY <3>5 DEF LoopBuries, LoopGivesUp, LoopGoto
      <4>2. SameAttempts
        BY <1>2, <1>i, <3>5, SentNoAttempt DEF LoopBuries, LoopGivesUp, LoopGoto, Consistent
      <4>3. \A i \in Items : Coming(i)' => Coming(i)
        BY <1>n, <4>1 DEF Coming
      <4>. QED  BY <1>f, <2>u, <4>1, <4>2, <4>3, FreshRests
    <3>. QED  BY <2>6, <3>1, <3>2, <3>3, <3>4, <3>5 DEF LoopStep
  <2>. QED  BY <1>3, <2>1, <2>2, <2>3, <2>5, <2>6 DEF QueueStep, Requeuing
<1>4. CASE LoopSubmits
  BY <1>4, SubmissionFresh
<1>5. CASE UNCHANGED allVars
  BY <1>5, <1>1, <1>2 DEF allVars, queueVars, vars
<1>6. CASE \/ StartClaim /\ UNCHANGED queueVars
           \/ StartWorkers /\ UNCHANGED queueVars
           \/ \E w \in Workers : WorkerAlone(w) \/ WorkerBegins(w) \/ WorkerReturns(w)
           \/ \E s \in Stoppers : PoolStops(s)
  <2>1. UNCHANGED <<item, heap, timers, loop, inHand>>
    BY <1>6 DEF queueVars, WorkerAlone, WorkerBegins, WorkerReturns, FnGoto, PoolStops
  <2>. QED  BY <1>1, <1>2, <1>6, <2>1, PoolSubmitsNothing
<1>. QED  BY <1>3, <1>4, <1>5, <1>6 DEF QueueNext

LEMMA FreshRequeuing ==
    ASSUME QueueTypes, Exclusive, Fresh, ItemsOK', Requeuing, UNCHANGED submit
    PROVE  Fresh'
<1>i. ItemsOK /\ LettersOK /\ LettersDistinct /\ Consistent /\ Apart
  BY DEF QueueTypes, Exclusive
<1>f. /\ \A i \in Items : Coming(i) => Unsubmitted(Attempt(i))
      /\ loop = "submit" => inHand \in Items /\ submit[Attempt(inHand)] \in OnItsWay
  BY <1>i DEF Fresh, Consistent
<1>1. UNCHANGED <<timers, loop, inHand>>
  BY <1>i, RequeueMoves
<1>2. ASSUME NEW i \in Items, Renews(i) PROVE Fresh'
  <2>1. i \in Letters
    BY <1>2, <1>i, LettersRequeued
  <2>2. loop = "submit" => inHand \in Items \ {i}
    BY <2>1, <1>f, <1>i DEF Looped, Apart
  <2>3. \A j \in Items \ {i} : Coming(j)' => Coming(j)
    BY <1>1, <1>2 DEF Renews, Coming, Renewed
  <2>4. Attempt(i)' \in Tasks
    BY AttemptIsNext
  <2>. QED  BY <1>1, <1>2, <1>i, <2>2, <2>3, <2>4, RequeueFields, FreshMovesOn
<1>3. ASSUME SameAttempts, \A j \in Items : Coming(j)' => Coming(j) PROVE Fresh'
  BY <1>1, <1>3, <1>f, FreshRests
<1>4. ASSUME NEW i \in Items, Returns(i) PROVE Fresh'
  <2>1. SameAttempts
    BY <1>4, <1>i, RequeueFields DEF SameAttempts
  <2>2. \A j \in Items : Coming(j)' => Coming(j)
    BY <1>1, <1>4 DEF Returns, Coming, Renewed
  <2>. QED  BY <1>3, <2>1, <2>2
<1>5. CASE GoesHome
  <2>1. SameAttempts
    BY <1>5 DEF GoesHome, SameAttempts
  <2>2. \A j \in Items : Coming(j)' => Coming(j)
    BY <1>1, <1>5 DEF GoesHome, Coming, Renewed
  <2>. QED  BY <1>3, <2>1, <2>2
<1>. QED  BY <1>2, <1>4, <1>5, <1>i, RequeueMoves

LEMMA FreshStep ==
    ASSUME Where, QueueTypes, OnlyTaken, Untimed, Exclusive, Fresh, ItemsOK', [QueueNext]_allVars
    PROVE  Fresh'
<1>1. CASE Requeuing
  <2>1. UNCHANGED submit
    BY <1>1, RequeuingIs DEF QueueStep, vars
  <2>. QED  BY <1>1, <2>1, FreshRequeuing
<1>2. CASE ~Requeuing
  BY <1>2, FreshElsewhere
<1>. QED  BY <1>1, <1>2

LEMMA FreshInitially == QueueInit => Fresh
BY DEF QueueInit, Init, Fresh, Unsubmitted, Coming, Renewed

\* An item that is put on the queue, waits for its retry or is about to be submitted
\* has an attempt that the pool has not seen, and no attempt is seen before its turn:
\* a retry or a requeue never runs into a submission of an earlier time.
THEOREM AttemptsAreFresh == QueueSpec => []Fresh
<1>1. Where /\ QueueTypes /\ QueueTypes' /\ OnlyTaken /\ Untimed /\ Exclusive /\ Fresh
          /\ [QueueNext]_allVars => Fresh'
  BY FreshStep DEF QueueTypes
<1>. QED  BY <1>1, FreshInitially, QueueHolds, TakenHolds, ExclusiveHolds, PTL DEF QueueSpec

-----------------------------------------------------------------------------
(* The dead letters' lock is given back *)

\* RequeueDeadLetterItem holds the lock.
Locked == requeue # "no"

\* Its weak fairness: it can go on as long as it holds the lock.
RequeuerGoesOn ==
    []<>(crashed \/ ~Locked) \/ []<><<~crashed /\ RequeueProceeds /\ UNCHANGED vars>>_allVars

\* What it still has to do.
RequeueLeft ==
    CASE requeue = "push"   -> 2
      [] requeue = "remove" -> 1
      [] OTHER              -> 0

LEMMA RequeueAdvances ==
    ASSUME QueueTypes, requeue # "no", [QueueNext]_allVars
    PROVE  /\ requeue' = requeue \/ RequeueLeft' < RequeueLeft
           /\ RequeueProceeds => RequeueLeft' < RequeueLeft
<1>1. ASSUME RequeueProceeds PROVE RequeueLeft' < RequeueLeft
  <2>1. <<requeue, requeue'>> \in {<<"push", "no">>, <<"push", "remove">>, <<"remove", "no">>}
    BY <1>1 DEF RequeueProceeds, RequeueFails, RequeuePushes, RequeueRemoves
  <2>. QED  BY <2>1 DEF RequeueLeft
<1>2. CASE Requeuing
  BY <1>1, <1>2 DEF Requeuing, RequeueBegins
<1>3. CASE ~Requeuing
  BY <1>3, RequeueRests DEF requeueVars, Requeuing
<1>. QED  BY <1>1, <1>2, <1>3

\* RequeueDeadLetterItem holds the dead letters' lock for two more steps of its own at most.
LEMMA LockGivenBack == QueueSpec /\ RequeuerGoesOn => []<>(crashed \/ ~Locked)
<1> DEFINE Done == ~Locked
           Left == RequeueLeft
           Acts == <<~crashed /\ RequeueProceeds /\ UNCHANGED vars>>_allVars
<1>1. QueueTypes /\ ~Done /\ [QueueNext]_allVars =>
          Done' \/ ((Left <= 1 => (Left <= 1)') /\ (Left <= 2)')
  <2>. SUFFICES ASSUME QueueTypes, ~Done, [QueueNext]_allVars
                PROVE  Left' <= Left /\ Left \in 0 .. 2 /\ Left' \in 0 .. 2
    OBVIOUS
  <2>1. RequeueLeft \in 0 .. 2 /\ RequeueLeft' \in 0 .. 2 /\ (requeue' = requeue => RequeueLeft' = RequeueLeft)
    BY DEF RequeueLeft
  <2>. QED  BY <2>1, RequeueAdvances DEF Locked
<1>2. QueueTypes /\ ~Done /\ [QueueNext]_allVars /\ Acts =>
          Done' \/ (~(Left <= 1) /\ (Left <= 2 => (Left <= 1)'))
  <2>. SUFFICES ASSUME QueueTypes, ~Done, [QueueNext]_allVars, RequeueProceeds, ~Done'
                PROVE  Left' < Left /\ Left' # 0 /\ Left \in 0 .. 2 /\ Left' \in 0 .. 2
    OBVIOUS
  <2>1. requeue \in {"push", "remove"} /\ requeue' \in {"push", "remove"}
    BY DEF Locked, QueueTypes, LettersOK, RequeueProceeds, RequeueFails, RequeuePushes, RequeueRemoves
  <2>2. RequeueLeft \in 1 .. 2 /\ RequeueLeft' \in 1 .. 2
    BY <2>1 DEF RequeueLeft, Locked
  <2>. QED  BY <2>2, RequeueAdvances DEF Locked
<1>3. QueueTypes => Left <= 2
  BY DEF RequeueLeft
<1>4. QueueSpec => []QueueTypes
  BY QueueHolds, PTL
<1>5. Done <=> ~Locked
  OBVIOUS
<1>. HIDE DEF Left, Done
<1>. QED  BY <1>1, <1>2, <1>3, <1>4, <1>5, PTL DEF QueueSpec, RequeuerGoesOn

-----------------------------------------------------------------------------
(* processLoop never waits with an item in hand *)

\* processLoop has popped an item and has not let go of it.
LoopBusy == loop \in {"context", "submit", "giveUp"}

LoopDoes == LoopSubmits \/ (LoopStep /\ UNCHANGED vars)

\* Strong fairness of processLoop: LoopBusy implies its guard, but while somebody else holds
\* the dead letters' lock.
LoopGoesOn ==
    <>[](crashed \/ ~LoopBusy \/ Locked) \/ []<><<~crashed /\ LoopDoes>>_allVars

SubmitLeft(state) ==
    CASE state = "unsubmitted" -> 6
      [] state = "measure"     -> 5
      [] state = "count"       -> 4
      [] state = "send"        -> 3
      [] OTHER                 -> 2

\* What processLoop still has to do with the item in hand.
LoopLeft ==
    CASE loop = "context" -> 7
      [] loop = "submit"  -> SubmitLeft(submit[Attempt(inHand)])
      [] loop = "giveUp"  -> 1
      [] OTHER            -> 0

LEMMA LoopLeftIs == LoopLeft \in 0 .. 7 /\ LoopLeft' \in 0 .. 7
BY DEF LoopLeft, SubmitLeft

\* Nobody else moves processLoop, comes between it and its submission or changes the
\* attempt it submits.
LEMMA LoopAlone ==
    ASSUME Where, QueueTypes, Untimed, Exclusive, LoopBusy, [QueueNext]_allVars, ~LoopDoes
    PROVE  UNCHANGED <<loop, inHand>> /\ (loop = "submit" => LoopLeft' = LoopLeft)
<1>i. ItemsOK /\ LettersOK /\ LettersDistinct /\ StatesOK /\ Consistent /\ Apart /\ inHand \in Items
  BY DEF QueueTypes, Exclusive, LoopBusy, Consistent
<1>1. ASSUME UNCHANGED <<submit, loop, inHand>>,
             loop = "submit" => /\ item'[inHand].requeues = item[inHand].requeues
                                /\ item'[inHand].retries = item[inHand].retries
      PROVE  UNCHANGED <<loop, inHand>> /\ (loop = "submit" => LoopLeft' = LoopLeft)
  <2>1. loop = "submit" => Attempt(inHand)' = Attempt(inHand)
    BY <1>1 DEF Attempt
  <2>. QED  BY <1>1, <2>1 DEF LoopLeft
<1>2. CASE QueueStep
  <2>u. UNCHANGED submit /\ UNCHANGED vars
    BY <1>2 DEF QueueStep, vars
  <2>1. ASSUME NEW i \in Items, CallerStep(i) PROVE SameAttempts /\ UNCHANGED <<loop, inHand>>
    BY <1>i, <2>1, CallsNoAttempt, CallerTypes
  <2>2. ASSUME (\E i \in Items : TimerFires(i)) \/ Clear \/ QueueStopStep
        PROVE  UNCHANGED <<item, loop, inHand>>
    BY <2>2 DEF TimerFires, Clear, QueueStopStep, QueueStopClaims, QueueStopReturns, QueueStopTimesOut,
        QueueStopGoto
  <2>3. ASSUME Requeuing
        PROVE  /\ UNCHANGED <<loop, inHand>>
               /\ loop = "submit" => /\ item'[inHand].requeues = item[inHand].requeues
                                     /\ item'[inHand].retries = item[inHand].retries
    <3>1. UNCHANGED <<loop, inHand>>
      BY <1>i, <2>3, RequeueMoves
    <3>2. ASSUME NEW i \in Items, Renews(i), loop = "submit" PROVE item'[inHand] = item[inHand]
      <4>1. i \notin Looped
        BY <1>i, <3>2, LettersRequeued DEF Apart
      <4>. QED  BY <1>i, <3>2, <4>1, RequeueFields DEF Looped
    <3>3. ASSUME NEW i \in Items, Returns(i)
          PROVE  item'[inHand].requeues = item[inHand].requeues /\ item'[inHand].retries = item[inHand].retries
      <4>1. CASE i = inHand
        BY <1>i, <3>3, <4>1, RequeueFields
      <4>2. CASE i # inHand
        BY <1>i, <3>3, <4>2, RequeueFields
      <4>. QED  BY <4>1, <4>2
    <3>4. GoesHome => item' = item
      BY DEF GoesHome
    <3>. QED  BY <1>i, <2>3, <3>1, <3>2, <3>3, <3>4, RequeueMoves
  <2>4. ASSUME NEW w \in Workers, FnStep(w)
        PROVE  /\ UNCHANGED <<loop, inHand>>
               /\ loop = "submit" => /\ item'[inHand].requeues = item[inHand].requeues
                                     /\ item'[inHand].retries = item[inHand].retries
    <3>1. UNCHANGED <<loop, inHand>> /\ fn[w] # "idle"
      BY <2>4 DEF FnStep, ProcessorSucceeds, ProcessorRetries, ProcessorBuries, WorkerAnswers, FnGoto
    <3>2. PICK i \in Items : i = Working(w)
      BY <1>i, <3>1, AtWork
    <3>3. CASE ProcessorSucceeds(w) \/ ProcessorBuries(w)
      BY <3>1, <3>3 DEF ProcessorSucceeds, ProcessorBuries
    <3>4. CASE WorkerAnswers(w)
      <4>1. \E result : item' = Sent(i, result)
        BY <3>2, <3>4 DEF WorkerAnswers
      <4>. QED  BY <1>i, <3>1, <4>1, SentNoAttempt DEF SameAttempts
    <3>5. CASE ProcessorRetries(w)
      <4>1. FnGoto(w, "process", "returnError") /\ Retries(i)
        BY <3>2, <3>5 DEF ProcessorRetries
      <4>2. \A j \in Items \ {i} : item'[j] = item[j]
        BY <1>i, <4>1, RetriedNow
      <4>3. i \notin Looped
        BY <2>u, <3>2, <4>1, LetsGo
      <4>. QED  BY <1>i, <3>1, <4>2, <4>3 DEF Looped
    <3>. QED  BY <2>4, <3>3, <3>4, <3>5 DEF FnStep
  <2>5. ~LoopStep
    BY <2>u DEF LoopDoes
  <2>6. UNCHANGED <<loop, inHand>>
    BY <1>2, <2>1, <2>2, <2>3, <2>4, <2>5 DEF QueueStep, Requeuing
  <2>7. loop = "submit" => /\ item'[inHand].requeues = item[inHand].requeues
                           /\ item'[inHand].retries = item[inHand].retries
    BY <1>i, <1>2, <2>1, <2>2, <2>3, <2>4, <2>5 DEF QueueStep, SameAttempts, Requeuing
  <2>. QED  BY <1>1, <2>u, <2>6, <2>7
<1>3. CASE UNCHANGED allVars
  BY <1>3, <1>1 DEF allVars, queueVars, vars
<1>4. CASE \/ StartClaim /\ UNCHANGED queueVars
           \/ StartWorkers /\ UNCHANGED queueVars
           \/ \E w \in Workers : WorkerAlone(w) \/ WorkerBegins(w) \/ WorkerReturns(w)
           \/ \E s \in Stoppers : PoolStops(s)
  <2>1. UNCHANGED <<item, loop, inHand>>
    BY <1>4 DEF queueVars, WorkerAlone, WorkerBegins, WorkerReturns, FnGoto, PoolStops
  <2>. QED  BY <1>1, <1>4, <2>1, PoolSubmitsNothing
<1>. QED  BY <1>2, <1>3, <1>4 DEF QueueNext, LoopDoes

\* Every step of processLoop brings it closer to letting go of the item.
LEMMA LoopAdvances ==
    ASSUME Where, QueueTypes, Untimed, Fresh, LoopBusy, LoopDoes, ~crashed'
    PROVE  ~LoopBusy' \/ LoopLeft' < LoopLeft
<1>1. CASE LoopSubmits
  <2>1. loop = "submit"
    BY <1>1 DEF LoopSubmits
  <2>2. CASE loop' = "check"
    BY <2>2 DEF LoopBusy
  <2>3. CASE /\ UNCHANGED <<loop, inHand>>
             /\ <<submit[Attempt(inHand)], submit'[Attempt(inHand)]>> \in
                    {<<"unsubmitted", "measure">>, <<"unsubmitted", "refused">>,
                     <<"measure", "count">>, <<"measure", "refused">>,
                     <<"count", "send">>, <<"send", "refused">>}
    <3>1. UNCHANGED item
      BY <1>1, SubmissionMoves
    <3>2. Attempt(inHand)' = Attempt(inHand)
      BY <2>3, <3>1 DEF Attempt
    <3>3. LoopLeft = SubmitLeft(submit[Attempt(inHand)]) /\ LoopLeft' = SubmitLeft(submit'[Attempt(inHand)])
      BY <2>1, <2>3, <3>2 DEF LoopLeft, SubmitLeft
    <3>. QED  BY <2>3, <3>3 DEF SubmitLeft
  <2>. QED  BY <1>1, <2>2, <2>3, SubmissionMoves
<1>2. CASE LoopStep /\ UNCHANGED vars
  <2>1. CASE LoopStarts \/ LoopChecks \/ LoopPops
    BY <2>1 DEF LoopStarts, LoopChecks, LoopPops, LoopGoto, LoopBusy
  <2>2. CASE LoopChecksContext
    <3>1. loop = "context" /\ loop' \in {"check", "submit"}
      BY <2>2 DEF LoopChecksContext, LoopGoto
    <3>. QED  BY <3>1 DEF LoopBusy, LoopLeft, SubmitLeft
  <2>3. CASE LoopRetries \/ LoopGivesUp
    BY <2>3 DEF LoopRetries, LoopGivesUp, LoopGoto, LoopBusy
  <2>4. CASE LoopBuries
    <3>1. loop = "submit" /\ loop' = "giveUp"
      BY <2>4 DEF LoopBuries, LoopGoto
    <3>. QED  BY <3>1 DEF LoopLeft, SubmitLeft
  <2>. QED  BY <1>2, <2>1, <2>2, <2>3, <2>4 DEF LoopStep
<1>. QED  BY <1>1, <1>2 DEF LoopDoes

\* processLoop lets go of every item it pops, in at most seven steps of its own and whatever
\* the callers, the workers and Stop do: with an item in hand it waits for nothing but the dead
\* letters' lock, which is given back, and in particular not for a full pool (the part of
\* EveryRequestAnswered that is processLoop's).
THEOREM LoopLetsGo ==
    QueueSpec /\ LoopGoesOn /\ RequeuerGoesOn => (LoopBusy ~> crashed \/ ~LoopBusy)
<1> DEFINE Inv == Where /\ QueueTypes /\ Untimed /\ Exclusive /\ Fresh
           Left == LoopLeft
           Acts == <<~crashed /\ LoopDoes>>_allVars
<1>1. Inv /\ LoopBusy /\ [QueueNext]_allVars =>
          \/ crashed' \/ ~LoopBusy'
          \/ /\ Left <= 1 => (Left <= 1)'
             /\ Left <= 2 => (Left <= 2)'
             /\ Left <= 3 => (Left <= 3)'
             /\ Left <= 4 => (Left <= 4)'
             /\ Left <= 5 => (Left <= 5)'
             /\ Left <= 6 => (Left <= 6)'
             /\ (Left <= 7)'
  <2>. SUFFICES ASSUME Inv, LoopBusy, [QueueNext]_allVars, ~crashed', LoopBusy'
                PROVE  Left' <= Left
    BY LoopLeftIs
  <2>1. CASE LoopDoes
    BY <2>1, LoopAdvances, LoopLeftIs
  <2>2. CASE ~LoopDoes
    <3>1. UNCHANGED loop /\ (loop = "submit" => LoopLeft' = LoopLeft)
      BY <2>2, LoopAlone
    <3>2. loop # "submit" => LoopLeft' = LoopLeft
      BY <3>1 DEF LoopLeft
    <3>. QED  BY <3>1, <3>2, LoopLeftIs
  <2>. QED  BY <2>1, <2>2
<1>2. Inv /\ LoopBusy /\ [QueueNext]_allVars /\ Acts =>
          \/ crashed' \/ ~LoopBusy'
          \/ /\ ~(Left <= 1)
             /\ Left <= 2 => (Left <= 1)'
             /\ Left <= 3 => (Left <= 2)'
             /\ Left <= 4 => (Left <= 3)'
             /\ Left <= 5 => (Left <= 4)'
             /\ Left <= 6 => (Left <= 5)'
             /\ Left <= 7 => (Left <= 6)'
  <2>. SUFFICES ASSUME Inv, LoopBusy, LoopDoes, ~crashed', LoopBusy'
                PROVE  Left' < Left /\ Left' >= 1
    BY LoopLeftIs
  <2>1. Left' >= 1
    BY DEF LoopLeft, LoopBusy, SubmitLeft
  <2>. QED  BY <2>1, LoopAdvances
<1>3. Inv => Left <= 7
  BY LoopLeftIs
<1>4. QueueSpec => []Inv
  BY QueueHolds, ExclusiveHolds, AttemptsAreFresh, PTL
<1>. HIDE DEF Left, Inv
<1>. QED  BY <1>1, <1>2, <1>3, <1>4, LockGivenBack, PTL DEF QueueSpec, LoopGoesOn

-----------------------------------------------------------------------------
(* The pool task of an item comes to its end *)

\* What worker w does in the task's function, and around it.
WorkerActs(w) ==
    \/ WorkerAlone(w) \/ WorkerBegins(w) \/ WorkerReturns(w)
    \/ FnStep(w) /\ UNCHANGED vars

\* Strong fairness of worker w: it may act whenever it is in the task's function, but while
\* somebody else holds the dead letters' lock.
WorkerServes(w) ==
    <>[](crashed \/ fn[w] = "idle" \/ Locked) \/ []<><<~crashed /\ WorkerActs(w)>>_allVars

FnLeft(w) ==
    CASE fn[w] = "process"               -> 3
      [] fn[w] \in {"sendOk", "sendError"} -> 2
      [] fn[w] = "idle"                  -> 0
      [] OTHER                           -> 1

LEMMA FnLeftIs ==
    ASSUME NEW w \in Workers
    PROVE  /\ FnLeft(w) \in 0 .. 3 /\ FnLeft(w)' \in 0 .. 3
           /\ (FnLeft(w) = 0 <=> fn[w] = "idle") /\ (FnLeft(w)' = 0 <=> fn'[w] = "idle")
BY DEF FnLeft

\* Only worker w moves in the function it runs, and each of its steps is one forward.
LEMMA FnProceeds ==
    ASSUME QueueTypes, NEW w \in Workers, fn[w] # "idle", [QueueNext]_allVars
    PROVE  /\ fn'[w] = fn[w] \/ FnLeft(w)' < FnLeft(w)
           /\ WorkerActs(w) => FnLeft(w)' < FnLeft(w)
<1>f. /\ fn \in [Workers -> {"idle", "process", "sendOk", "sendError", "returnOk", "returnError"}]
      /\ worker[w] = "running"
  BY DEF QueueTypes, StatesOK, Consistent
<1>1. ASSUME FnStep(w) \/ WorkerReturns(w) PROVE FnLeft(w)' < FnLeft(w)
  <2>1. <<fn[w], fn'[w]>> \in
            {<<"process", "sendOk">>, <<"process", "returnError">>, <<"process", "sendError">>,
             <<"sendOk", "returnOk">>, <<"sendError", "returnError">>,
             <<"returnOk", "idle">>, <<"returnError", "idle">>}
    BY <1>1, <1>f DEF FnStep, ProcessorSucceeds, ProcessorRetries, ProcessorBuries, WorkerAnswers,
        WorkerReturns, FnGoto
  <2>. QED  BY <2>1 DEF FnLeft
<1>2. ~WorkerAlone(w) /\ ~WorkerBegins(w)
  BY <1>f DEF WorkerAlone, WorkerBegins, Receive, CountFailure, WorkerExit, WorkerGoto, FnGoto
<1>3. ASSUME NEW v \in Workers \ {w}, FnStep(v) \/ WorkerAlone(v) \/ WorkerBegins(v) \/ WorkerReturns(v)
      PROVE  fn'[w] = fn[w]
  BY <1>3, <1>f DEF FnStep, ProcessorSucceeds, ProcessorRetries, ProcessorBuries, WorkerAnswers,
      WorkerAlone, WorkerBegins, WorkerReturns, FnGoto, queueVars
<1>4. ASSUME \/ \E i \in Items : CallerStep(i) \/ TimerFires(i)
             \/ LoopStep \/ LoopSubmits \/ Clear \/ QueueStopStep
             \/ \E k \in DOMAIN deadLetters : RequeueBegins(k)
             \/ RequeueProceeds
             \/ UNCHANGED queueVars
      PROVE  fn' = fn
  BY <1>4 DEF CallerStep, CallerChecks, CallerPushes, CallerReceives, ContextExpires, Call, TimerFires,
      LoopStep, LoopStarts, LoopChecks, LoopPops, LoopChecksContext, LoopRetries, LoopBuries, LoopGivesUp,
      LoopGoto, LoopSubmits, Clear, QueueStopStep, QueueStopClaims, QueueStopReturns, QueueStopTimesOut,
      QueueStopGoto, RequeueBegins, RequeueProceeds, RequeueFails, RequeuePushes, RequeueRemoves, queueVars
<1>5. CASE WorkerActs(w)
  BY <1>5, <1>1, <1>2 DEF WorkerActs
<1>6. CASE ~WorkerActs(w)
  <2>1. CASE FnStep(w)
    BY <2>1, <1>1, <1>6
  <2>2. CASE ~FnStep(w)
    BY <2>2, <1>3, <1>4, <1>6 DEF QueueNext, QueueStep, WorkerActs, PoolStops, allVars, queueVars
  <2>. QED  BY <2>1, <2>2
<1>. QED  BY <1>5, <1>6

\* A worker leaves the function it runs for an item in at most three steps: processing and the
\* answer wait for nobody, the caller need not take the result, and the dead letters' lock is
\* given back (the part of EveryRequestAnswered that is the workers').
THEOREM ProcessingEnds ==
    \A w \in Workers : QueueSpec /\ WorkerServes(w) /\ RequeuerGoesOn =>
        (fn[w] # "idle" ~> crashed \/ fn[w] = "idle")
<1>. SUFFICES ASSUME NEW w \in Workers
              PROVE  QueueSpec /\ WorkerServes(w) /\ RequeuerGoesOn =>
                         (fn[w] # "idle" ~> crashed \/ fn[w] = "idle")
  OBVIOUS
<1> DEFINE Done == fn[w] = "idle"
           Left == FnLeft(w)
           Acts == <<~crashed /\ WorkerActs(w)>>_allVars
<1>1. QueueTypes /\ ~Done /\ [QueueNext]_allVars =>
          \/ Done'
          \/ /\ Left <= 1 => (Left <= 1)'
             /\ Left <= 2 => (Left <= 2)'
             /\ (Left <= 3)'
  <2>. SUFFICES ASSUME QueueTypes, ~Done, [QueueNext]_allVars PROVE Left' <= Left
    BY FnLeftIs
  <2>1. CASE fn'[w] = fn[w]
    <3>1. Left' = Left
      BY <2>1 DEF FnLeft
    <3>. QED  BY <3>1, FnLeftIs
  <2>. QED  BY <2>1, FnProceeds, FnLeftIs
<1>2. QueueTypes /\ ~Done /\ [QueueNext]_allVars /\ Acts =>
          \/ Done'
          \/ /\ ~(Left <= 1)
             /\ Left <= 2 => (Left <= 1)'
             /\ Left <= 3 => (Left <= 2)'
  <2>. SUFFICES ASSUME QueueTypes, ~Done, [QueueNext]_allVars, WorkerActs(w), ~Done'
                PROVE  Left' < Left /\ Left' # 0
    BY FnLeftIs
  <2>. QED  BY FnProceeds, FnLeftIs
<1>3. QueueTypes => Left <= 3
  BY FnLeftIs
<1>4. QueueSpec => []QueueTypes
  BY QueueHolds, PTL
<1>5. Done <=> fn[w] = "idle"
  OBVIOUS
<1>. HIDE DEF Left, Done
<1>. QED  BY <1>1, <1>2, <1>3, <1>4, <1>5, LockGivenBack, PTL DEF QueueSpec, WorkerServes
=============================================================================
