---------------------------- MODULE SearchProofs ----------------------------
(***************************************************************************)
(* The invariants of the instance manager and its searches, for any list   *)
(* of instances, any number of concurrent searches and any intervals and   *)
(* cooldowns.                                                              *)
(***************************************************************************)
EXTENDS SearchHistory, WellFoundedInduction, TLAPS

-----------------------------------------------------------------------------
(* Cooldowns *)

LEMMA Limits ==
    /\ ErrorBase \in Nat \ {0} /\ ErrorStep \in Nat \ {0}
    /\ MaxCooldown \in Nat \ {0} /\ MaxErrorCooldown \in Nat \ {0}
<1>1. \A m \in {ErrorBase, ErrorStep, MaxCooldown, MaxErrorCooldown} : m \in Nat \ {0}
  BY ManagerAssumption
<1>. QED  BY <1>1, Zenon

LEMMA OneMoreError ==
    ASSUME NEW errors \in 0 .. MaxErrors
    PROVE  OneMore(errors) \in 1 .. MaxErrors
BY ManagerAssumption DEF OneMore, Least

\* A rate limit's cooldown is a number of ticks, at least one.
LEMMA RateLimitCools ==
    ASSUME NEW n \in 1 .. MaxErrors, NEW d \in RateLimitCooldowns(n)
    PROVE  d \in Nat \ {0}
<1>1. PICK b \in BaseCooldowns : d = Least(MaxCooldown, b * <<1, 2, 4, 8>>[Least(n, 4)])
  BY DEF RateLimitCooldowns
<1>2. n \in Nat /\ b \in Nat \ {0} /\ MaxCooldown \in Nat \ {0}
  BY Limits, ManagerAssumption
<1>3. Least(n, 4) \in 1 .. 4
  BY <1>2 DEF Least
<1>4. <<1, 2, 4, 8>>[Least(n, 4)] \in {1, 2, 4, 8}
  BY <1>3
<1>5. b * <<1, 2, 4, 8>>[Least(n, 4)] \in Nat \ {0}
  BY <1>2, <1>4
<1>. QED  BY <1>1, <1>2, <1>5 DEF Least

\* So is an error's.
LEMMA ErrorCools ==
    ASSUME NEW n \in 1 .. MaxErrors, NEW d \in ErrorCooldowns(n)
    PROVE  d \in Nat \ {0}
<1>1. n \in Nat /\ ErrorBase \in Nat \ {0} /\ ErrorStep \in Nat \ {0} /\ MaxErrorCooldown \in Nat \ {0}
  BY Limits, ManagerAssumption
<1>2. ErrorStep * n \in Nat
  BY <1>1
<1>3. ErrorBase + ErrorStep * n \in Nat \ {0}
  BY <1>1, <1>2
<1> DEFINE base == ErrorBase + ErrorStep * n
<1>4. PICK jitter \in 0 .. base - 1 : d = Least(MaxErrorCooldown, base + jitter)
  BY <1>3, Zenon DEF ErrorCooldowns
<1>5. ErrorBase + ErrorStep * n + jitter \in Nat \ {0}
  BY <1>3
<1>. QED  BY <1>1, <1>4, <1>5 DEF Least

LEMMA LongestType == Longest \in Nat
<1>1. Longest \in QuietIntervals \cup ErrorIntervals
  BY IntervalAssumption DEF Longest
<1>. QED  BY <1>1, ManagerAssumption

-----------------------------------------------------------------------------
(* Health records *)

HealthRecord == [errors : 0 .. MaxErrors, cooling : Nat, idle : 0 .. Longest,
                 available : BOOLEAN, protected : BOOLEAN]

\* A cooldown stands for errors, and only protection makes an instance unavailable.
Consistent(h) == (h.cooling > 0 => h.errors > 0) /\ (~h.protected => h.available)

HealthOK ==
    /\ health \in [URLs -> HealthRecord]
    /\ \A i \in URLs : Consistent(health[i])

\* One record is replaced by a consistent one.
LEMMA OneRecord ==
    ASSUME HealthOK, NEW i \in URLs, NEW h \in HealthRecord, Consistent(h),
           health' = [health EXCEPT ![i] = h]
    PROVE  HealthOK'
<1>1. health' \in [URLs -> HealthRecord]
  BY DEF HealthOK
<1>2. ASSUME NEW j \in URLs PROVE Consistent(health'[j])
  BY DEF HealthOK
<1>. QED  BY <1>1, <1>2 DEF HealthOK, Consistent

\* A record with one more error, and perhaps a cooldown.
LEMMA Errs ==
    ASSUME NEW h \in HealthRecord, Consistent(h), NEW n \in 1 .. MaxErrors, NEW d \in Nat
    PROVE  /\ [h EXCEPT !.errors = n] \in HealthRecord
           /\ Consistent([h EXCEPT !.errors = n])
           /\ [h EXCEPT !.errors = n, !.cooling = d] \in HealthRecord
           /\ Consistent([h EXCEPT !.errors = n, !.cooling = d])
<1>1. n \in 0 .. MaxErrors /\ n > 0
  BY ManagerAssumption
<1>. QED  BY <1>1 DEF HealthRecord, Consistent

LEMMA MarkRateLimitKeeps ==
    ASSUME HealthOK, NEW i \in URLs, MarkRateLimit(i)
    PROVE  HealthOK'
<1>1. health[i] \in HealthRecord /\ Consistent(health[i])
  BY DEF HealthOK
<1>2. OneMore(health[i].errors) \in 1 .. MaxErrors
  BY <1>1, OneMoreError DEF HealthRecord
<1>3. PICK d \in RateLimitCooldowns(OneMore(health[i].errors)) :
          health' = [health EXCEPT ![i].errors = OneMore(@), ![i].cooling = d]
  BY DEF MarkRateLimit
<1>4. d \in Nat \ {0}
  BY <1>2, RateLimitCools
<1> DEFINE n == OneMore(health[i].errors)
           h == [health[i] EXCEPT !.errors = n, !.cooling = d]
<1>5. health' = [health EXCEPT ![i] = h]
  BY <1>3
<1>6. n \in 1 .. MaxErrors
  BY <1>2
<1>. HIDE DEF n
<1>7. h \in HealthRecord /\ Consistent(h)
  BY <1>1, <1>4, <1>6, Errs
<1>. QED  BY <1>5, <1>7, OneRecord

LEMMA MarkErrorKeeps ==
    ASSUME HealthOK, NEW i \in URLs, MarkError(i)
    PROVE  HealthOK'
<1> DEFINE n == OneMore(health[i].errors)
<1>1. health[i] \in HealthRecord /\ Consistent(health[i])
  BY DEF HealthOK
<1>2. n \in 1 .. MaxErrors
  BY <1>1, OneMoreError DEF HealthRecord
<1>0. \/ health' = [health EXCEPT ![i].errors = n]
      \/ \E d \in ErrorCooldowns(n) :
             health' = [health EXCEPT ![i].errors = n, ![i].cooling = d]
  BY DEF MarkError
<1>. HIDE DEF n
<1>3. CASE health' = [health EXCEPT ![i].errors = n]
  <2> DEFINE h == [health[i] EXCEPT !.errors = n]
  <2>1. health' = [health EXCEPT ![i] = h]
    BY <1>3
  <2>2. h \in HealthRecord /\ Consistent(h)
    BY <1>1, <1>2, Errs
  <2>. QED  BY <2>1, <2>2, OneRecord
<1>4. ASSUME NEW d \in ErrorCooldowns(n),
             health' = [health EXCEPT ![i].errors = n, ![i].cooling = d]
      PROVE  HealthOK'
  <2> DEFINE h == [health[i] EXCEPT !.errors = n, !.cooling = d]
  <2>1. health' = [health EXCEPT ![i] = h]
    BY <1>4
  <2>2. d \in Nat \ {0}
    BY <1>2, ErrorCools
  <2>3. h \in HealthRecord /\ Consistent(h)
    BY <1>1, <1>2, <2>2, Errs
  <2>. QED  BY <2>1, <2>3, OneRecord
<1>. QED  BY <1>0, <1>3, <1>4

LEMMA MarkSuccessKeeps ==
    ASSUME HealthOK, NEW i \in URLs, MarkSuccess(i)
    PROVE  HealthOK'
<1> DEFINE h == [health[i] EXCEPT !.errors = 0, !.available = TRUE, !.cooling = 0]
<1>1. health[i] \in HealthRecord
  BY DEF HealthOK
<1>2. health' = [health EXCEPT ![i] = h]
  BY DEF MarkSuccess
<1>3. 0 \in 0 .. MaxErrors
  BY ManagerAssumption
<1>4. h \in HealthRecord
  BY <1>1, <1>3 DEF HealthRecord
<1>5. h.cooling = 0 /\ h.available
  BY <1>1 DEF HealthRecord
<1>6. Consistent(h)
  BY <1>5 DEF Consistent
<1>. QED  BY <1>2, <1>4, <1>6, OneRecord

LEMMA MarkProtectedKeeps ==
    ASSUME HealthOK, NEW i \in URLs, MarkAnubisProtected(i)
    PROVE  HealthOK'
<1> DEFINE h == [health[i] EXCEPT !.protected = TRUE, !.available = FALSE]
<1>1. health[i] \in HealthRecord /\ Consistent(health[i])
  BY DEF HealthOK
<1>2. health' = [health EXCEPT ![i] = h]
  BY DEF MarkAnubisProtected
<1>3. h \in HealthRecord /\ Consistent(h)
  BY <1>1 DEF HealthRecord, Consistent
<1>. QED  BY <1>2, <1>3, OneRecord

LEMMA HandsOutKeeps ==
    ASSUME HealthOK, NEW k \in Nat, Candidate(k) \in URLs, HandsOut(k)
    PROVE  HealthOK'
<1> DEFINE i == Candidate(k)
           h == [health[i] EXCEPT !.idle = 0]
<1>1. health[i] \in HealthRecord /\ Consistent(health[i])
  BY DEF HealthOK
<1>2. health' = [health EXCEPT ![i] = h]
  BY DEF HandsOut
<1>3. h \in HealthRecord /\ Consistent(h)
  BY <1>1, LongestType DEF HealthRecord, Consistent
<1>. QED  BY <1>2, <1>3, OneRecord

LEMMA TickKeeps ==
    ASSUME HealthOK, Tick
    PROVE  HealthOK'
<1> DEFINE Later(h) == [h EXCEPT !.cooling = IF @ > 0 THEN @ - 1 ELSE 0,
                                 !.idle = Least(@ + 1, Longest)]
<1>1. ASSUME NEW h \in HealthRecord, Consistent(h)
      PROVE  Later(h) \in HealthRecord /\ Consistent(Later(h))
  <2>1. Least(h.idle + 1, Longest) \in 0 .. Longest
    BY LongestType DEF HealthRecord, Least
  <2>2. (IF h.cooling > 0 THEN h.cooling - 1 ELSE 0) \in Nat
    BY DEF HealthRecord
  <2>3. Later(h) \in HealthRecord
    BY <2>1, <2>2 DEF HealthRecord
  <2>. QED  BY <1>1, <2>3 DEF HealthRecord, Consistent
<1>2. health' = [i \in URLs |-> Later(health[i])]
  BY DEF Tick
<1>. HIDE DEF Later
<1>3. health' \in [URLs -> HealthRecord]
  BY <1>1, <1>2 DEF HealthOK
<1>4. ASSUME NEW i \in URLs PROVE Consistent(health'[i])
  BY <1>1, <1>2 DEF HealthOK
<1>. QED  BY <1>3, <1>4 DEF HealthOK, Consistent

-----------------------------------------------------------------------------
(* The list *)

N == Len(Instances)

LEMMA ListFacts ==
    /\ N \in Nat /\ \A p \in 1 .. N : Instances[p] \in URLs
    /\ Instances # <<>> => N > 0
BY ListAssumption DEF N, URLs

LEMMA Remainder ==
    ASSUME NEW n \in Nat, n # 0, NEW a \in Nat
    PROVE  a % n \in 0 .. n - 1
OBVIOUS

LEMMA CandidateListed ==
    ASSUME current \in Nat, NEW k \in 1 .. N
    PROVE  Candidate(k) \in URLs /\ After(k) \in 0 .. N - 1
<1>1. N \in Nat /\ N # 0
  BY ListFacts
<1>2. (current + k - 1) % N \in 0 .. N - 1 /\ (current + k) % N \in 0 .. N - 1
  BY <1>1, Remainder
<1>. QED  BY <1>1, <1>2, ListFacts DEF Candidate, After, N

CurrentOK == current \in 0 .. N /\ (Instances # <<>> => current < N)

-----------------------------------------------------------------------------
(* Searches *)

SearchRecord == [at : {"idle", "pick", "exchange", "doomed"}, attempt : 0 .. MaxAttempts,
                 instance : URLs \cup {NoURL}, gone : BOOLEAN]

\* Only a search that has picked an instance holds one.
Holding(q) ==
    /\ q.at \in {"exchange", "doomed"} => q.instance \in URLs
    /\ q.at \in {"idle", "pick"} => q.instance = NoURL

SearchOK ==
    /\ search \in [Searchers -> SearchRecord]
    /\ \A s \in Searchers : Holding(search[s])

IInv == CurrentOK /\ HealthOK /\ SearchOK

LEMMA GotoKeeps ==
    ASSUME SearchOK, NEW s \in Searchers, NEW q \in SearchRecord, Holding(q), Goto(s, q)
    PROVE  SearchOK'
<1>1. search' \in [Searchers -> SearchRecord]
  BY DEF SearchOK, Goto
<1>2. ASSUME NEW t \in Searchers PROVE Holding(search'[t])
  BY DEF SearchOK, Goto
<1>. QED  BY <1>1, <1>2 DEF SearchOK, Holding

LEMMA IdleFits == Idle \in SearchRecord /\ Holding(Idle)
  BY SearchAssumption DEF Idle, SearchRecord, Holding

LEMMA ContinueKeeps ==
    ASSUME SearchOK, NEW s \in Searchers, Continue(s)
    PROVE  SearchOK'
<1> DEFINE q == [search[s] EXCEPT !.at = "pick", !.attempt = @ + 1, !.instance = NoURL]
<1>1. CASE search[s].attempt = MaxAttempts
  BY <1>1, IdleFits, GotoKeeps DEF Continue
<1>2. CASE search[s].attempt # MaxAttempts
  <2>1. search[s] \in SearchRecord
    BY DEF SearchOK
  <2>2. search[s].attempt + 1 \in 0 .. MaxAttempts
    BY <1>2, <2>1, SearchAssumption DEF SearchRecord
  <2>3. q \in SearchRecord /\ Holding(q)
    BY <2>1, <2>2 DEF SearchRecord, Holding
  <2>4. Goto(s, q)
    BY <1>2 DEF Continue
  <2>. QED  BY <2>3, <2>4, GotoKeeps
<1>. QED  BY <1>1, <1>2

LEMMA Initially == Init => IInv
<1>. SUFFICES ASSUME Init PROVE IInv
  OBVIOUS
<1>1. CurrentOK
  BY ListFacts DEF Init, ManagerInit, CurrentOK
<1>2. Fresh \in HealthRecord /\ Consistent(Fresh)
  BY LongestType, ManagerAssumption DEF Fresh, HealthRecord, Consistent
<1>3. HealthOK
  BY <1>2 DEF Init, ManagerInit, HealthOK
<1>4. SearchOK
  BY IdleFits DEF Init, SearchOK
<1>. QED  BY <1>1, <1>3, <1>4 DEF IInv

LEMMA Inductive == IInv /\ [Next]_vars => IInv'
<1>. SUFFICES ASSUME IInv, [Next]_vars PROVE IInv'
  OBVIOUS
<1>i. CurrentOK /\ HealthOK /\ SearchOK
  BY DEF IInv
<1>c. ASSUME UNCHANGED current PROVE CurrentOK'
  BY <1>c, <1>i DEF CurrentOK
<1>h. ASSUME UNCHANGED health PROVE HealthOK'
  BY <1>h, <1>i DEF HealthOK
<1>s. ASSUME UNCHANGED search PROVE SearchOK'
  BY <1>s, <1>i DEF SearchOK
<1>1. CASE Tick /\ UNCHANGED search
  BY <1>1, <1>i, <1>c, <1>s, TickKeeps DEF Tick, IInv
<1>2. ASSUME NEW s \in Searchers, Begin(s) PROVE IInv'
  <2> DEFINE q == [Idle EXCEPT !.at = "pick", !.attempt = 1]
  <2>0. 1 \in 0 .. MaxAttempts
    BY SearchAssumption
  <2>1. Idle \in SearchRecord /\ Idle.instance = NoURL
    BY IdleFits DEF Idle
  <2>2. q \in SearchRecord
    BY <2>0, <2>1 DEF SearchRecord
  <2>3. q.at = "pick" /\ q.instance = NoURL
    BY <2>1 DEF SearchRecord
  <2>4. Goto(s, q)
    BY <1>2 DEF Begin
  <2>5. Holding(q)
    BY <2>3 DEF Holding
  <2>. QED  BY <1>2, <2>2, <2>4, <2>5, <1>i, <1>c, <1>h, GotoKeeps DEF Begin, IInv
<1>3. ASSUME NEW s \in Searchers, Leaves(s) PROVE IInv'
  <2> DEFINE q == [search[s] EXCEPT !.gone = TRUE]
  <2>1. search[s] \in SearchRecord /\ Holding(search[s])
    BY <1>i DEF SearchOK
  <2>2. q \in SearchRecord /\ Holding(q)
    BY <2>1 DEF SearchRecord, Holding
  <2>3. Goto(s, q)
    BY <1>3 DEF Leaves
  <2>. QED  BY <1>3, <2>2, <2>3, <1>i, <1>c, <1>h, GotoKeeps DEF Leaves, IInv
<1>4. ASSUME NEW s \in Searchers, Pick(s) PROVE IInv'
  <2>1. PICK k \in 1 .. N :
            /\ HandsOut(k)
            /\ Goto(s, [search[s] EXCEPT !.at = IF search[s].gone THEN "doomed" ELSE "exchange",
                                         !.instance = Candidate(k)])
    BY <1>4 DEF Pick, N
  <2>2. Candidate(k) \in URLs /\ After(k) \in 0 .. N - 1
    BY <1>i, ListFacts, CandidateListed DEF CurrentOK
  <2>3. CurrentOK'
    BY <2>1, <2>2, ListFacts DEF HandsOut, CurrentOK
  <2>4. HealthOK'
    BY <2>1, <2>2, <1>i, ListFacts, HandsOutKeeps
  <2> DEFINE at == IF search[s].gone THEN "doomed" ELSE "exchange"
             q == [search[s] EXCEPT !.at = at, !.instance = Candidate(k)]
  <2>5. search[s] \in SearchRecord
    BY <1>i DEF SearchOK
  <2>6. at \in {"doomed", "exchange"} /\ Goto(s, q)
    BY <2>1
  <2>. HIDE DEF at
  <2>7. q \in SearchRecord /\ Holding(q)
    BY <2>2, <2>5, <2>6 DEF SearchRecord, Holding
  <2>8. SearchOK'
    BY <2>6, <2>7, <1>i, GotoKeeps
  <2>. QED  BY <2>3, <2>4, <2>8 DEF IInv
<1>5. ASSUME NEW s \in Searchers, PickFails(s) PROVE IInv'
  BY <1>5, <1>i, <1>c, <1>h, ContinueKeeps DEF PickFails, HandsOutNone, IInv
<1>6. ASSUME NEW s \in Searchers, search[s].at \in {"exchange", "doomed"}
      PROVE  search[s].instance \in URLs
  BY <1>6, <1>i DEF SearchOK, Holding
<1>7. ASSUME NEW s \in Searchers, Fails(s) PROVE IInv'
  <2>1. search[s].instance \in URLs
    BY <1>6, <1>7 DEF Fails
  <2>2. HealthOK' /\ CurrentOK'
    BY <2>1, <1>7, <1>i, <1>c, MarkErrorKeeps DEF Fails, MarkError
  <2>. QED  BY <2>2, <1>7, <1>i, ContinueKeeps DEF Fails, IInv
<1>8. ASSUME NEW s \in Searchers, RateLimited(s) PROVE IInv'
  <2>1. search[s].instance \in URLs
    BY <1>6, <1>8 DEF RateLimited
  <2>2. HealthOK' /\ CurrentOK'
    BY <2>1, <1>8, <1>i, <1>c, MarkRateLimitKeeps DEF RateLimited, MarkRateLimit
  <2>. QED  BY <2>2, <1>8, <1>i, ContinueKeeps DEF RateLimited, IInv
<1>9. ASSUME NEW s \in Searchers, Protected(s) PROVE IInv'
  <2>1. search[s].instance \in URLs
    BY <1>6, <1>9 DEF Protected
  <2>2. HealthOK' /\ CurrentOK'
    BY <2>1, <1>9, <1>i, <1>c, MarkProtectedKeeps DEF Protected, MarkAnubisProtected
  <2>. QED  BY <2>2, <1>9, <1>i, ContinueKeeps DEF Protected, IInv
<1>10. ASSUME NEW s \in Searchers, Succeeds(s) PROVE IInv'
  <2>1. search[s].instance \in URLs
    BY <1>6, <1>10 DEF Succeeds
  <2>2. HealthOK' /\ CurrentOK'
    BY <2>1, <1>10, <1>i, <1>c, MarkSuccessKeeps DEF Succeeds, MarkSuccess
  <2>. QED  BY <2>2, <1>10, <1>i, IdleFits, GotoKeeps DEF Succeeds, IInv
<1>11. CASE UNCHANGED vars
  BY <1>11, <1>c, <1>h, <1>s DEF vars, IInv
<1>. QED
  BY <1>1, <1>2, <1>3, <1>4, <1>5, <1>7, <1>8, <1>9, <1>10, <1>11 DEF Next, HandlerStep

\* Positions, health records and searches are always well-formed: the strengthening
\* of the invariants below, about every operation of the manager and the handlers.
THEOREM InvariantHolds == Spec => []IInv
<1>. QED  BY Initially, Inductive, PTL DEF Spec

\* Everything keeps its type (TypeOK).
THEOREM TypeCorrect == Spec => []TypeOK
<1>1. IInv => TypeOK
  BY DEF IInv, CurrentOK, HealthOK, SearchOK, HealthRecord, SearchRecord, TypeOK, N
<1>. QED  BY <1>1, InvariantHolds, PTL

\* The count of usable instances and the choice among them go by different fields,
\* which always agree (CountMatchesUse).
THEOREM CountsWhatIsUsed == Spec => []CountMatchesUse
<1>1. IInv => CountMatchesUse
  <2>. SUFFICES ASSUME IInv, NEW i \in URLs PROVE Counted(i) <=> ~Barred(i)
    BY DEF CountMatchesUse
  <2>1. health[i] \in HealthRecord /\ Consistent(health[i])
    BY DEF IInv, HealthOK
  <2>2. health[i].cooling = 0 <=> ~(health[i].cooling > 0)
    BY <2>1 DEF HealthRecord
  <2>. QED  BY <2>1, <2>2 DEF Consistent, Counted, Barred
<1>. QED  BY <1>1, InvariantHolds, PTL

\* A cooldown never outlives the success that wiped its errors out
\* (CoolingHasErrors).
THEOREM CooldownsStandForErrors == Spec => []CoolingHasErrors
<1>1. IInv => CoolingHasErrors
  BY DEF IInv, HealthOK, Consistent, CoolingHasErrors
<1>. QED  BY <1>1, InvariantHolds, PTL

-----------------------------------------------------------------------------
(* Turns *)

\* How many places the loop looks at before it comes to place p.
Ahead(p) == IF p - 1 >= current THEN p - 1 - current ELSE p - 1 - current + N

\* An instance that has been overtaken is ready, and as many places fewer than the
\* list has are still ahead of each place it is in.
Turns ==
    /\ overtaken \in [URLs -> Nat]
    /\ \A i \in URLs : ~Ready(i) => overtaken[i] = 0
    /\ \A p \in 1 .. N : overtaken[Instances[p]] + Ahead(p) < N

LEMMA PlacesBetween ==
    ASSUME NEW c \in 0 .. N - 1, NEW p \in 1 .. N
    PROVE  (IF p - 1 >= c THEN p - 1 - c ELSE p - 1 - c + N) \in 0 .. N - 1
BY ListFacts

LEMMA CurrentInList ==
    ASSUME CurrentOK, NEW p \in 1 .. N
    PROVE  N \in Nat /\ N # 0 /\ current \in 0 .. N - 1
<1>1. N \in Nat /\ N > 0 /\ current \in 0 .. N
  BY ListFacts DEF CurrentOK
<1>2. Instances # <<>>
  BY <1>1 DEF N
<1>. QED  BY <1>1, <1>2 DEF CurrentOK

LEMMA AheadInRange ==
    ASSUME CurrentOK, NEW p \in 1 .. N
    PROVE  Ahead(p) \in 0 .. N - 1
BY CurrentInList, PlacesBetween DEF Ahead

LEMMA RemainderValue ==
    ASSUME NEW n \in Nat, n # 0, NEW a \in 0 .. 2 * n - 1
    PROVE  a % n = IF a < n THEN a ELSE a - n
OBVIOUS

\* The loop reaches place p after the places ahead of it.
LEMMA ReachesPlace ==
    ASSUME CurrentOK, NEW p \in 1 .. N
    PROVE  Candidate(Ahead(p) + 1) = Instances[p]
<1>1. N \in Nat /\ N # 0 /\ current \in 0 .. N - 1
  BY CurrentInList
<1>2. current + (Ahead(p) + 1) - 1 \in 0 .. 2 * N - 1
  BY <1>1 DEF Ahead
<1> DEFINE a == current + (Ahead(p) + 1) - 1
<1>4. a % N = IF a < N THEN a ELSE a - N
  BY <1>1, <1>2, RemainderValue
<1>5. a = IF p - 1 >= current THEN p - 1 ELSE p - 1 + N
  BY <1>1 DEF Ahead
<1>3. a % N = p - 1
  BY <1>1, <1>4, <1>5
<1>. QED  BY <1>1, <1>3 DEF Candidate, N

\* An instance handed out brings the loop closer to each place it did not reach.
LEMMA Closer ==
    ASSUME CurrentOK, NEW p \in 1 .. N, NEW k \in 1 .. N, k <= Ahead(p), current' = After(k)
    PROVE  Ahead(p)' = Ahead(p) - k
<1>1. N \in Nat /\ N # 0 /\ current \in 0 .. N - 1
  BY CurrentInList
<1>2. current + k \in 0 .. 2 * N - 1
  BY <1>1
<1>4. (current + k) % N = IF current + k < N THEN current + k ELSE current + k - N
  <2> DEFINE a == current + k
  <2>1. a \in 0 .. 2 * N - 1
    BY <1>2
  <2>. HIDE DEF a
  <2>2. a % N = IF a < N THEN a ELSE a - N
    BY <1>1, <2>1, RemainderValue
  <2>. QED  BY <1>1, <2>1, <2>2 DEF a
<1>3. current' = IF current + k < N THEN current + k ELSE current + k - N
  BY <1>4 DEF After, N
<1>. QED  BY <1>1, <1>3 DEF Ahead

\* GetNextInstance hands an instance to a search, or leaves current alone.
LEMMA HandsOrStays ==
    ASSUME SearchOK, [Next]_vars
    PROVE  \/ \E k \in 1 .. N : HandsOut(k)
           \/ UNCHANGED current /\ \A s \in Searchers : ~Handed(s)
<1>i. \A s \in Searchers : search[s].at = "pick" => search[s].instance = NoURL
  BY DEF SearchOK, Holding
<1>q. search \in [Searchers -> SearchRecord]
  BY DEF SearchOK
<1>g. ASSUME NEW s \in Searchers, NEW q, q.at = q.at, q.instance = NoURL \/ search[s].at # "pick",
             Goto(s, q), UNCHANGED current
      PROVE  UNCHANGED current /\ \A t \in Searchers : ~Handed(t)
  <2>. SUFFICES ASSUME NEW t \in Searchers, Handed(t) PROVE FALSE
    BY <1>g
  <2>1. search[t].at = "pick" /\ search[t].instance = NoURL /\ search'[t].instance # NoURL
    BY <1>i DEF Handed
  <2>. QED  BY <2>1, <1>g, <1>q DEF Goto
<1>k. ASSUME NEW s \in Searchers, Continue(s), UNCHANGED current
      PROVE  UNCHANGED current /\ \A t \in Searchers : ~Handed(t)
  <2>1. search[s] \in SearchRecord
    BY <1>q
  <2> DEFINE q == [search[s] EXCEPT !.at = "pick", !.attempt = @ + 1, !.instance = NoURL]
  <2>2. q.instance = NoURL /\ Idle.instance = NoURL
    BY <2>1 DEF SearchRecord, Idle
  <2>3. Goto(s, Idle) \/ Goto(s, q)
    BY <1>k DEF Continue
  <2>. QED  BY <2>2, <2>3, <1>k, <1>g
<1>u. ASSUME UNCHANGED <<current, search>>
      PROVE  UNCHANGED current /\ \A t \in Searchers : ~Handed(t)
  BY <1>u, <1>i DEF Handed
<1>1. CASE Tick /\ UNCHANGED search
  BY <1>1, <1>u DEF Tick
<1>2. ASSUME NEW s \in Searchers, Begin(s)
      PROVE  UNCHANGED current /\ \A t \in Searchers : ~Handed(t)
  BY <1>2, <1>g DEF Begin
<1>3. ASSUME NEW s \in Searchers, Leaves(s)
      PROVE  UNCHANGED current /\ \A t \in Searchers : ~Handed(t)
  <2> DEFINE q == [search[s] EXCEPT !.gone = TRUE]
  <2>1. search[s] \in SearchRecord /\ Goto(s, q)
    BY <1>3, <1>q DEF Leaves
  <2>2. q.instance = search[s].instance
    BY <2>1 DEF SearchRecord
  <2>. QED  BY <2>1, <2>2, <1>3, <1>i, <1>g DEF Leaves
<1>4. ASSUME NEW s \in Searchers, Pick(s)
      PROVE  \E k \in 1 .. N : HandsOut(k)
  BY <1>4 DEF Pick, N
<1>5. ASSUME NEW s \in Searchers,
             PickFails(s) \/ Fails(s) \/ RateLimited(s) \/ Protected(s)
      PROVE  UNCHANGED current /\ \A t \in Searchers : ~Handed(t)
  <2>1. Continue(s) /\ UNCHANGED current
    BY <1>5 DEF PickFails, HandsOutNone, Fails, MarkError, RateLimited, MarkRateLimit,
                Protected, MarkAnubisProtected
  <2>. QED  BY <2>1, <1>k
<1>6. ASSUME NEW s \in Searchers, Succeeds(s)
      PROVE  UNCHANGED current /\ \A t \in Searchers : ~Handed(t)
  <2>1. Goto(s, Idle) /\ UNCHANGED current /\ Idle.instance = NoURL
    BY <1>6 DEF Succeeds, MarkSuccess, Idle
  <2>. QED  BY <2>1, <1>g
<1>7. CASE UNCHANGED vars
  BY <1>7, <1>u DEF vars
<1>. QED  BY <1>1, <1>2, <1>3, <1>4, <1>5, <1>6, <1>7 DEF Next, HandlerStep

\* A ready instance that is not handed out was not reached.
LEMMA NotReached ==
    ASSUME CurrentOK, HealthOK, NEW k \in 1 .. N, HandsOut(k), NEW p \in 1 .. N,
           Ready(Instances[p]), Ready(Instances[p])'
    PROVE  k <= Ahead(p)
<1> DEFINE i == Instances[p]
<1>1. Ahead(p) \in 0 .. N - 1 /\ N \in Nat
  BY AheadInRange, ListFacts
<1>2. Candidate(Ahead(p) + 1) = i /\ i \in URLs
  BY ReachesPlace, ListFacts
<1>3. ASSUME k > Ahead(p) + 1 PROVE FALSE
  <2>1. Ahead(p) + 1 \in 1 .. k - 1
    BY <1>1, <1>3
  <2>2. MaySkip(i)
    BY <1>2, <2>1 DEF HandsOut
  <2>. QED  BY <2>2 DEF Ready
<1>4. ASSUME k = Ahead(p) + 1 PROVE FALSE
  <2>1. health' = [health EXCEPT ![i].idle = 0]
    BY <1>2, <1>4 DEF HandsOut
  <2>2. health[i] \in HealthRecord /\ health \in [URLs -> HealthRecord]
    BY <1>2 DEF HealthOK
  <2>3. health'[i].idle = 0
    BY <2>1, <2>2, <1>2 DEF HealthRecord
  <2>4. (\E d \in ErrorIntervals : 0 < d) /\ (\E d \in QuietIntervals : 0 < d)
    <3>1. PICK d \in ErrorIntervals : d \in Nat \ {0}
      BY ManagerAssumption
    <3>2. PICK e \in QuietIntervals : e \in Nat \ {0}
      BY ManagerAssumption
    <3>. QED  BY <3>1, <3>2
  <2>5. MaySkip(i)'
    BY <2>3, <2>4 DEF MaySkip, Intervals
  <2>. QED  BY <2>5 DEF Ready
<1>. QED  BY <1>1, <1>3, <1>4

LEMMA TurnsInitially == HistoryInit => Turns
<1>. SUFFICES ASSUME HistoryInit PROVE Turns
  OBVIOUS
<1>1. CurrentOK
  BY Initially DEF HistoryInit, IInv
<1>2. overtaken = [i \in URLs |-> 0]
  BY DEF HistoryInit
<1>3. ASSUME NEW p \in 1 .. N PROVE overtaken[Instances[p]] + Ahead(p) < N
  BY <1>1, <1>2, <1>3, AheadInRange, ListFacts
<1>. QED  BY <1>2, <1>3 DEF Turns

LEMMA TurnsInductive == IInv /\ Turns /\ [Next /\ Record]_<<vars, overtaken>> => Turns'
<1>. SUFFICES ASSUME IInv, Turns, [Next /\ Record]_<<vars, overtaken>> PROVE Turns'
  OBVIOUS
<1>i. CurrentOK /\ HealthOK /\ SearchOK /\ CurrentOK' /\ [Next]_vars
  BY Inductive DEF IInv, vars
<1>n. N \in Nat
  BY ListFacts
<1>1. CASE UNCHANGED <<vars, overtaken>>
  <2>1. UNCHANGED <<current, health, overtaken>>
    BY <1>1 DEF vars
  <2>. QED  BY <2>1 DEF Turns, Ready, MaySkip, Barred, Intervals, Ahead
<1>2. CASE Next /\ Record
  <2>0. overtaken' = [i \in URLs |->
            IF ~Ready(i)' THEN 0
            ELSE IF Ready(i) /\ \E s \in Searchers : Handed(s) THEN overtaken[i] + 1
            ELSE overtaken[i]]
    BY <1>2 DEF Record
  <2>1. overtaken' \in [URLs -> Nat]
    BY <2>0 DEF Turns
  <2>2. ASSUME NEW i \in URLs, ~Ready(i)' PROVE overtaken'[i] = 0
    BY <2>0, <2>2
  <2>3. ASSUME NEW p \in 1 .. N PROVE overtaken'[Instances[p]] + Ahead(p)' < N
    <3> DEFINE i == Instances[p]
    <3>1. i \in URLs /\ overtaken[i] \in Nat
      BY ListFacts DEF Turns
    <3>0. current' \in 0 .. N - 1
      <4>1. Instances # <<>>
        BY <1>n DEF N
      <4>. QED  BY <4>1, <1>i, <1>n DEF CurrentOK
    <3>2. Ahead(p) \in 0 .. N - 1 /\ Ahead(p)' \in 0 .. N - 1
      <4>1. Ahead(p) \in 0 .. N - 1
        BY <1>i, AheadInRange
      <4>2. Ahead(p)' \in 0 .. N - 1
        <5>1. N' = N
          BY DEF N
        <5>2. Ahead(p)' = IF p - 1 >= current' THEN p - 1 - current' ELSE p - 1 - current' + N
          BY <5>1 DEF Ahead
        <5>3. (IF p - 1 >= current' THEN p - 1 - current' ELSE p - 1 - current' + N) \in 0 .. N - 1
          BY <3>0, PlacesBetween
        <5>. QED  BY <5>2, <5>3
      <4>. QED  BY <4>1, <4>2
    <3>3. CASE overtaken'[i] = 0
      BY <3>2, <3>3, <1>n
    <3>4. CASE overtaken'[i] # 0
      <4>1. Ready(i)'
        BY <3>1, <3>4, <2>0
      <4>2. Ready(i)
        BY <3>1, <3>4, <4>1, <2>0 DEF Turns
      <4>3. ASSUME NEW k \in 1 .. N, HandsOut(k) PROVE overtaken'[i] + Ahead(p)' < N
        <5>1. k <= Ahead(p)
          BY <1>i, <4>1, <4>2, <4>3, NotReached
        <5>2. Ahead(p)' = Ahead(p) - k
          BY <1>i, <4>3, <5>1, Closer DEF HandsOut
        <5>3. overtaken'[i] <= overtaken[i] + 1
          BY <3>1, <4>1, <2>0
        <5>4. overtaken'[i] \in Nat /\ overtaken[i] + Ahead(p) < N
          BY <2>1, <3>1 DEF Turns
        <5>. HIDE DEF i
        <5>. QED  BY <5>2, <5>3, <5>4, <3>1, <3>2, <1>n
      <4>4. CASE UNCHANGED current /\ \A s \in Searchers : ~Handed(s)
        <5>1. overtaken'[i] = overtaken[i]
          BY <3>1, <4>1, <4>4, <2>0
        <5>2. Ahead(p)' = Ahead(p)
          BY <4>4 DEF Ahead
        <5>. QED  BY <5>1, <5>2 DEF Turns
      <4>. QED  BY <1>i, <4>3, <4>4, HandsOrStays
    <3>. QED  BY <3>3, <3>4
  <2>. QED  BY <2>1, <2>2, <2>3 DEF Turns
<1>. QED  BY <1>1, <1>2

\* A ready instance is handed out before any other has had two turns more
\* (RoundRobin).
THEOREM TakesTurns == HistorySpec => []RoundRobin
<1>1. HistoryInit => IInv /\ Turns
  BY Initially, TurnsInitially DEF HistoryInit
<1>2. IInv /\ Turns /\ [Next /\ Record]_<<vars, overtaken>> => IInv' /\ Turns'
  <2>. SUFFICES ASSUME IInv, Turns, [Next /\ Record]_<<vars, overtaken>> PROVE IInv' /\ Turns'
    OBVIOUS
  <2>1. [Next]_vars
    BY DEF vars
  <2>. QED  BY <2>1, Inductive, TurnsInductive
<1>3. IInv /\ Turns => RoundRobin
  <2>. SUFFICES ASSUME IInv, Turns, NEW i \in URLs PROVE overtaken[i] < Len(Instances)
    BY DEF RoundRobin
  <2>1. PICK p \in 1 .. N : i = Instances[p]
    BY DEF URLs, N
  <2>2. Ahead(p) \in 0 .. N - 1 /\ N \in Nat
    BY AheadInRange, ListFacts DEF IInv
  <2>3. overtaken[i] \in Nat /\ overtaken[i] + Ahead(p) < N
    BY <2>1 DEF Turns
  <2>. QED  BY <2>2, <2>3 DEF N
<1>. QED  BY <1>1, <1>2, <1>3, PTL DEF HistorySpec

-----------------------------------------------------------------------------
(* What EverySearchEnds and CooldownEnds rest on: a request has less left    *)
(* after every step of its handler, and what keeps an instance in cooldown   *)
(* gets less.  That a step which can always be taken is taken is assumed in  *)
(* terms of the guards, without ENABLED.                                     *)

\* The operations of the manager that a request may still make.
Remaining(q) ==
    IF q.at = "idle" THEN 0
    ELSE 2 * (MaxAttempts - q.attempt) + (IF q.at = "pick" THEN 2 ELSE 1)

LEMMA RemainingType ==
    ASSUME NEW q \in SearchRecord
    PROVE  /\ Remaining(q) \in Nat
           /\ q.at # "idle" => Remaining(q) > 0
           /\ q.at = "idle" => Remaining(q) = 0
<1>1. q.attempt \in 0 .. MaxAttempts /\ MaxAttempts \in Nat
  BY SearchAssumption DEF SearchRecord
<1>2. MaxAttempts - q.attempt \in Nat
  BY <1>1
<1>. QED  BY <1>2 DEF Remaining

\* A step changes the record of one request.
LEMMA OneRequest ==
    ASSUME SearchOK, NEW s \in Searchers, NEW q, Goto(s, q)
    PROVE  search'[s] = q /\ \A t \in Searchers : t # s => search'[t] = search[t]
BY DEF SearchOK, Goto

LEMMA ContinueLessens ==
    ASSUME SearchOK, NEW s \in Searchers, search[s].at # "idle", Continue(s)
    PROVE  /\ Remaining(search'[s]) < Remaining(search[s])
           /\ search'[s].instance = NoURL
           /\ \A t \in Searchers : t # s => search'[t] = search[t]
<1> DEFINE q == [search[s] EXCEPT !.at = "pick", !.attempt = @ + 1, !.instance = NoURL]
<1>1. search[s] \in SearchRecord
  BY DEF SearchOK
<1>2. search[s].attempt \in 0 .. MaxAttempts /\ MaxAttempts \in Nat
  BY <1>1, SearchAssumption DEF SearchRecord
<1>3. CASE search[s].attempt = MaxAttempts
  <2>1. Goto(s, Idle)
    BY <1>3 DEF Continue
  <2>2. search'[s] = Idle /\ \A t \in Searchers : t # s => search'[t] = search[t]
    BY <2>1, OneRequest
  <2>3. Idle.at = "idle" /\ Idle.instance = NoURL
    BY DEF Idle
  <2>. QED  BY <1>1, <2>2, <2>3, RemainingType DEF Remaining
<1>4. CASE search[s].attempt # MaxAttempts
  <2>1. Goto(s, q)
    BY <1>4 DEF Continue
  <2>2. search'[s] = q /\ \A t \in Searchers : t # s => search'[t] = search[t]
    BY <2>1, OneRequest
  <2>3. q.at = "pick" /\ q.attempt = search[s].attempt + 1 /\ q.instance = NoURL
    BY <1>1 DEF SearchRecord
  <2>. QED  BY <1>2, <2>2, <2>3 DEF Remaining
<1>. QED  BY <1>3, <1>4

LEMMA HandlerLessens ==
    ASSUME IInv, NEW s \in Searchers, HandlerStep(s)
    PROVE  /\ Remaining(search'[s]) < Remaining(search[s])
           /\ \A t \in Searchers : t # s => search'[t] = search[t]
<1>1. SearchOK /\ search[s] \in SearchRecord
  BY DEF IInv, SearchOK
<1>2. CASE Pick(s)
  <2>1. PICK k \in 1 .. N :
            Goto(s, [search[s] EXCEPT !.at = IF search[s].gone THEN "doomed" ELSE "exchange",
                                      !.instance = Candidate(k)])
    BY <1>2 DEF Pick, N
  <2> DEFINE at == IF search[s].gone THEN "doomed" ELSE "exchange"
             q == [search[s] EXCEPT !.at = at, !.instance = Candidate(k)]
  <2>2. Goto(s, q) /\ at \in {"doomed", "exchange"}
    BY <2>1
  <2>. HIDE DEF at
  <2>3. q.at = at /\ q.attempt = search[s].attempt
    BY <1>1 DEF SearchRecord
  <2>4. search'[s] = q /\ \A t \in Searchers : t # s => search'[t] = search[t]
    BY <1>1, <2>2, OneRequest
  <2>5. search[s].at = "pick"
    BY <1>2 DEF Pick
  <2>6. search[s].attempt \in 0 .. MaxAttempts /\ MaxAttempts \in Nat
    BY <1>1, SearchAssumption DEF SearchRecord
  <2>. HIDE DEF q
  <2>7. Remaining(q) = 2 * (MaxAttempts - search[s].attempt) + 1
    BY <2>2, <2>3 DEF Remaining
  <2>8. Remaining(search[s]) = 2 * (MaxAttempts - search[s].attempt) + 2
    BY <2>5 DEF Remaining
  <2>. QED  BY <2>4, <2>6, <2>7, <2>8
<1>3. CASE Succeeds(s)
  <2>1. search'[s] = Idle /\ \A t \in Searchers : t # s => search'[t] = search[t]
    BY <1>1, <1>3, OneRequest DEF Succeeds
  <2>2. Idle.at = "idle" /\ search[s].at = "exchange"
    BY <1>3 DEF Idle, Succeeds
  <2>. QED  BY <1>1, <2>1, <2>2, RemainingType DEF Remaining
<1>4. CASE PickFails(s) \/ Fails(s) \/ RateLimited(s) \/ Protected(s)
  <2>1. Continue(s) /\ search[s].at # "idle"
    BY <1>4 DEF PickFails, Fails, RateLimited, Protected
  <2>. QED  BY <1>1, <2>1, ContinueLessens
<1>. QED  BY <1>2, <1>3, <1>4 DEF HandlerStep

\* Only a new request has more left.
EndsInSight ==
    \A s \in Searchers :
        /\ HandlerStep(s) => Remaining(search'[s]) < Remaining(search[s])
        /\ ~Begin(s) => Remaining(search'[s]) <= Remaining(search[s])

LEMMA StepLessens == IInv /\ [Next]_vars => EndsInSight
<1>. SUFFICES ASSUME IInv, [Next]_vars, NEW s \in Searchers
              PROVE  /\ HandlerStep(s) => Remaining(search'[s]) < Remaining(search[s])
                     /\ ~Begin(s) => Remaining(search'[s]) <= Remaining(search[s])
  BY DEF EndsInSight
<1>1. SearchOK /\ search[s] \in SearchRecord /\ Remaining(search[s]) \in Nat
  BY RemainingType DEF IInv, SearchOK
<1>2. SearchOK' /\ search'[s] \in SearchRecord /\ Remaining(search'[s]) \in Nat
  <2>1. SearchOK'
    BY Inductive DEF IInv
  <2>. QED  BY <2>1, RemainingType DEF SearchOK
<1>3. HandlerStep(s) => Remaining(search'[s]) < Remaining(search[s])
  BY HandlerLessens
<1>4. ASSUME ~Begin(s) PROVE Remaining(search'[s]) <= Remaining(search[s])
  <2>1. CASE UNCHANGED search
    BY <1>1, <2>1
  <2>2. ASSUME NEW t \in Searchers, HandlerStep(t)
        PROVE  Remaining(search'[s]) <= Remaining(search[s])
    BY <1>1, <1>2, <2>2, HandlerLessens
  <2>3. ASSUME NEW t \in Searchers, Begin(t)
        PROVE  Remaining(search'[s]) <= Remaining(search[s])
    <3>1. t # s
      BY <1>4, <2>3
    <3>2. search'[s] = search[s]
      BY <1>1, <2>3, <3>1, OneRequest DEF Begin
    <3>. QED  BY <1>1, <3>2
  <2>4. ASSUME NEW t \in Searchers, Leaves(t)
        PROVE  Remaining(search'[s]) <= Remaining(search[s])
    <3> DEFINE q == [search[t] EXCEPT !.gone = TRUE]
    <3>1. search[t] \in SearchRecord
      BY <1>1 DEF SearchOK
    <3>2. q.at = search[t].at /\ q.attempt = search[t].attempt
      BY <3>1 DEF SearchRecord
    <3>3. search'[t] = q /\ \A r \in Searchers : r # t => search'[r] = search[r]
      BY <1>1, <2>4, OneRequest DEF Leaves
    <3>4. Remaining(q) = Remaining(search[t])
      BY <3>2 DEF Remaining
    <3>. QED  BY <1>1, <3>3, <3>4
  <2>. QED  BY <2>1, <2>2, <2>3, <2>4 DEF Next, vars
<1>. QED  BY <1>3, <1>4

\* Every operation that a handler makes of the manager uses up some of what its
\* request has left, and nothing but a new request adds to it: not the disconnecting
\* caller, and not an attempt that found no instance.
THEOREM EveryStepCounts == Spec => [][EndsInSight]_vars
<1>. QED  BY InvariantHolds, StepLessens, PTL DEF Spec

\* The guards of the handler's steps, which but for them only assign.
CanGo(s) ==
    \/ /\ search[s].at = "pick"
       /\ \/ \A k \in 1 .. N : MaySkip(Candidate(k))
          \/ \E k \in 1 .. N : /\ MayTake(Candidate(k))
                               /\ \A j \in 1 .. k - 1 : MaySkip(Candidate(j))
    \/ /\ search[s].at \in {"exchange", "doomed"}
       /\ search[s].instance \in URLs
       /\ LET n == OneMore(health[search[s].instance].errors)
          IN  n < 2 \/ ErrorCooldowns(n) # {}

LEMMA LeastOf ==
    ASSUME NEW S \in SUBSET Nat, S # {}
    PROVE  \E m \in S : \A n \in S : m <= n
<1> DEFINE R == OpToRel(<, Nat)
<1>1. IsWellFoundedOn(R, Nat)
  BY NatLessThanWellFounded
<1>2. \A m, n \in Nat : m < n => <<m, n>> \in R
  BY DEF OpToRel
<1> HIDE DEF R
<1>3. PICK m \in S : \A n \in S : ~ (<<n, m>> \in R)
  BY <1>1, WFMin
<1>4. ASSUME NEW n \in S PROVE m <= n
  <2>1. m \in Nat /\ n \in Nat /\ ~(<<n, m>> \in R)
    BY <1>3
  <2>2. ~(n < m)
    BY <1>2, <2>1
  <2>. QED  BY <2>1, <2>2
<1>. QED  BY <1>4

\* The interval is drawn again for every instance: whatever it is, the instance is
\* taken or skipped.
LEMMA TakeOrSkip ==
    ASSUME HealthOK, NEW i \in URLs
    PROVE  MayTake(i) \/ MaySkip(i)
<1>1. Intervals(i) # {} /\ Intervals(i) \subseteq Nat
  BY ManagerAssumption DEF Intervals
<1>2. PICK d \in Intervals(i) : TRUE
  BY <1>1
<1>3. health[i].idle \in Nat /\ d \in Nat
  BY <1>1, LongestType DEF HealthOK, HealthRecord
<1>4. health[i].idle >= d \/ health[i].idle < d
  BY <1>3
<1>. QED  BY <1>2, <1>4 DEF MayTake, MaySkip

LEMMA Picks ==
    ASSUME HealthOK, CurrentOK
    PROVE  \/ \A k \in 1 .. N : MaySkip(Candidate(k))
           \/ \E k \in 1 .. N : /\ MayTake(Candidate(k))
                                /\ \A j \in 1 .. k - 1 : MaySkip(Candidate(j))
<1> DEFINE Takes == {k \in 1 .. N : ~MaySkip(Candidate(k))}
<1>1. N \in Nat
  BY ListFacts
<1>2. \A k \in 1 .. N : Candidate(k) \in URLs
  BY ListFacts, CandidateListed DEF CurrentOK
<1>3. CASE Takes = {}
  BY <1>3
<1>4. CASE Takes # {}
  <2>1. PICK k \in Takes : \A j \in Takes : k <= j
    <3>1. Takes \in SUBSET Nat
      BY <1>1
    <3>. HIDE DEF Takes
    <3>. QED  BY <1>4, <3>1, LeastOf
  <2>2. k \in 1 .. N /\ MayTake(Candidate(k))
    BY <1>2, <2>1, TakeOrSkip
  <2>3. ASSUME NEW j \in 1 .. k - 1 PROVE MaySkip(Candidate(j))
    <3>1. j \in 1 .. N /\ ~(k <= j)
      BY <1>1, <2>2
    <3>. QED  BY <2>1, <3>1
  <2>. QED  BY <2>2, <2>3
<1>. QED  BY <1>3, <1>4

LEMMA MayCool ==
    ASSUME NEW n \in Nat
    PROVE  ErrorCooldowns(n) # {}
<1>1. ErrorBase + ErrorStep * n \in Nat \ {0}
  <2>1. ErrorStep * n \in Nat
    BY Limits
  <2>. QED  BY <2>1, Limits
<1> DEFINE base == ErrorBase + ErrorStep * n
<1>2. base \in Nat \ {0}
  BY <1>1
<1>3. ErrorCooldowns(n) = {Least(MaxErrorCooldown, base + jitter) : jitter \in 0 .. base - 1}
  BY Zenon DEF ErrorCooldowns
<1>. HIDE DEF base
<1>4. 0 \in 0 .. base - 1
  BY <1>2
<1>. QED  BY <1>3, <1>4

\* A request under way always has its next operation of the manager to make: the
\* choice of an instance ends, with one or with none, and no mark is refused.
THEOREM NeverStuck == Spec => [](\A s \in Searchers : search[s].at # "idle" => CanGo(s))
<1>1. IInv => \A s \in Searchers : search[s].at # "idle" => CanGo(s)
  <2>. SUFFICES ASSUME IInv, NEW s \in Searchers, search[s].at # "idle" PROVE CanGo(s)
    OBVIOUS
  <2>1. search[s] \in SearchRecord /\ Holding(search[s]) /\ HealthOK /\ CurrentOK
    BY DEF IInv, SearchOK
  <2>2. CASE search[s].at = "pick"
    BY <2>1, <2>2, Picks DEF CanGo
  <2>3. CASE search[s].at \in {"exchange", "doomed"}
    <3>1. search[s].instance \in URLs
      BY <2>1, <2>3 DEF Holding
    <3>2. health[search[s].instance].errors \in 0 .. MaxErrors
      BY <2>1, <3>1 DEF HealthOK, HealthRecord
    <3>3. OneMore(health[search[s].instance].errors) \in Nat
      BY <3>2, OneMoreError
    <3>. QED  BY <2>3, <3>1, <3>3, MayCool DEF CanGo
  <2>. QED  BY <2>1, <2>2, <2>3 DEF SearchRecord
<1>. QED  BY <1>1, InvariantHolds, PTL

\* Weak fairness of HandlerStep(s), which a request under way can always take.
GoesOn(s) == []<>(search[s].at = "idle") \/ []<><<HandlerStep(s)>>_vars

\* A request that has so much left has less before long, or has ended. By induction
\* on that number it ends (EverySearchEnds).
THEOREM RequestGoesOn ==
    \A s \in Searchers : \A n \in Nat :
        Spec /\ GoesOn(s) =>
            (search[s].at # "idle" /\ Remaining(search[s]) = n
                ~> search[s].at = "idle" \/ Remaining(search[s]) < n)
<1>. SUFFICES ASSUME NEW s \in Searchers, NEW n \in Nat
              PROVE  Spec /\ GoesOn(s) =>
                         (search[s].at # "idle" /\ Remaining(search[s]) = n
                            ~> search[s].at = "idle" \/ Remaining(search[s]) < n)
  OBVIOUS
<1> DEFINE Under == search[s].at # "idle" /\ Remaining(search[s]) = n
           Less == search[s].at = "idle" \/ Remaining(search[s]) < n
<1>1. IInv /\ Under /\ [Next]_vars => Under' \/ Less'
  <2>. SUFFICES ASSUME IInv, Under, [Next]_vars PROVE Under' \/ Less'
    OBVIOUS
  <2>1. Remaining(search'[s]) <= n
    BY StepLessens DEF EndsInSight, Begin
  <2>2. Remaining(search'[s]) \in Nat
    <3>1. SearchOK'
      BY Inductive DEF IInv
    <3>. QED  BY <3>1, RemainingType DEF SearchOK
  <2>. QED  BY <2>1, <2>2
<1>2. IInv /\ Under /\ <<HandlerStep(s)>>_vars => Less'
  BY HandlerLessens
<1>3. Under => ~(search[s].at = "idle")
  OBVIOUS
<1>. QED  BY <1>1, <1>2, <1>3, InvariantHolds, PTL DEF Spec, GoesOn

\* The requests that hold instance i.
InUse(i) == {s \in Searchers : search[s].instance = i}

\* Nobody comes to hold a cooling instance, and as long as nobody lets go of it its
\* cooldown is not renewed.
CoolsDown ==
    \A i \in URLs :
        health[i].cooling > 0 =>
            /\ InUse(i)' \subseteq InUse(i)
            /\ InUse(i)' = InUse(i) => health'[i].cooling <= health[i].cooling

LEMMA PickLeavesCooling ==
    ASSUME IInv, NEW s \in Searchers, Pick(s), NEW i \in URLs, health[i].cooling > 0
    PROVE  InUse(i)' = InUse(i) /\ health'[i].cooling = health[i].cooling
<1>1. PICK k \in 1 .. N :
          /\ HandsOut(k)
          /\ Goto(s, [search[s] EXCEPT !.at = IF search[s].gone THEN "doomed" ELSE "exchange",
                                       !.instance = Candidate(k)])
  BY DEF Pick, N
<1>2. search \in [Searchers -> SearchRecord] /\ SearchOK /\ health \in [URLs -> HealthRecord]
  BY DEF IInv, SearchOK, HealthOK
<1>3. Candidate(k) # i /\ health' = [health EXCEPT ![Candidate(k)].idle = 0]
  BY <1>1 DEF HandsOut, MayTake, Barred
<1> DEFINE at == IF search[s].gone THEN "doomed" ELSE "exchange"
           q == [search[s] EXCEPT !.at = at, !.instance = Candidate(k)]
<1>4. search'[s] = q /\ \A t \in Searchers : t # s => search'[t] = search[t]
  BY <1>1, <1>2, OneRequest
<1>. HIDE DEF at
<1>5. q.instance = Candidate(k)
  BY <1>2 DEF SearchRecord
<1>6. search[s].instance = NoURL
  BY DEF IInv, SearchOK, Holding, Pick
<1>7. NoURL # i
  BY SearchAssumption
<1>8. \A t \in Searchers : search'[t].instance = i <=> search[t].instance = i
  BY <1>3, <1>4, <1>5, <1>6, <1>7
<1>9. health'[i] = health[i]
  BY <1>2, <1>3
<1>. QED  BY <1>8, <1>9 DEF InUse

\* A request that lets go of its instance marks that one alone.
LEMMA MarkLeavesOthers ==
    ASSUME IInv, NEW s \in Searchers, NEW i \in URLs, health[i].cooling > 0,
           PickFails(s) \/ Fails(s) \/ RateLimited(s) \/ Protected(s) \/ Succeeds(s)
    PROVE  /\ InUse(i)' \subseteq InUse(i)
           /\ InUse(i)' = InUse(i) => health'[i].cooling = health[i].cooling
<1>1. SearchOK /\ search \in [Searchers -> SearchRecord] /\ health \in [URLs -> HealthRecord]
  BY DEF IInv, SearchOK, HealthOK
<1>2. search'[s].instance = NoURL /\ \A t \in Searchers : t # s => search'[t] = search[t]
  <2>1. CASE Succeeds(s)
    BY <1>1, <2>1, OneRequest DEF Succeeds, Idle
  <2>2. CASE PickFails(s) \/ Fails(s) \/ RateLimited(s) \/ Protected(s)
    <3>1. Continue(s) /\ search[s].at # "idle"
      BY <2>2 DEF PickFails, Fails, RateLimited, Protected
    <3>. QED  BY <1>1, <3>1, ContinueLessens
  <2>. QED  BY <2>1, <2>2
<1>3. NoURL # i
  BY SearchAssumption
<1>4. InUse(i)' \subseteq InUse(i)
  BY <1>2, <1>3 DEF InUse
<1>5. ASSUME InUse(i)' = InUse(i) PROVE health'[i] = health[i]
  <2>1. search[s].instance # i
    BY <1>2, <1>3, <1>5 DEF InUse
  <2>. QED
    BY <1>1, <2>1 DEF PickFails, HandsOutNone, Fails, MarkError, RateLimited, MarkRateLimit,
                      Protected, MarkAnubisProtected, Succeeds, MarkSuccess
<1>. QED  BY <1>4, <1>5

LEMMA TickCools ==
    ASSUME HealthOK, Tick, NEW i \in URLs, health[i].cooling > 0
    PROVE  health'[i].cooling = health[i].cooling - 1
<1>1. health[i] \in HealthRecord
  BY DEF HealthOK
<1>2. health'[i] = [health[i] EXCEPT !.cooling = IF @ > 0 THEN @ - 1 ELSE 0,
                                     !.idle = Least(@ + 1, Longest)]
  BY DEF Tick
<1>. QED  BY <1>1, <1>2 DEF HealthRecord

LEMMA StepCools == IInv /\ [Next]_vars => CoolsDown
<1>. SUFFICES ASSUME IInv, [Next]_vars, NEW i \in URLs, health[i].cooling > 0
              PROVE  /\ InUse(i)' \subseteq InUse(i)
                     /\ InUse(i)' = InUse(i) => health'[i].cooling <= health[i].cooling
  BY DEF CoolsDown
<1>1. health[i].cooling \in Nat /\ SearchOK
  BY DEF IInv, HealthOK, HealthRecord
<1>2. CASE Tick /\ UNCHANGED search
  BY <1>1, <1>2, TickCools DEF InUse, IInv
<1>3. CASE UNCHANGED vars
  BY <1>1, <1>3 DEF InUse, vars
<1>4. ASSUME NEW s \in Searchers, Begin(s) \/ Leaves(s)
      PROVE  InUse(i)' = InUse(i) /\ health' = health
  <2> DEFINE q == [search[s] EXCEPT !.gone = TRUE]
             p == [Idle EXCEPT !.at = "pick", !.attempt = 1]
  <2>1. search[s] \in SearchRecord /\ p.instance = NoURL
    BY <1>1 DEF SearchOK, Idle
  <2>2. q.instance = search[s].instance
    BY <2>1 DEF SearchRecord
  <2>3. /\ search'[s] = q \/ (search[s].at = "idle" /\ search'[s] = p)
        /\ \A t \in Searchers : t # s => search'[t] = search[t]
    BY <1>1, <1>4, OneRequest DEF Begin, Leaves
  <2>4. search[s].at = "idle" => search[s].instance = NoURL
    BY <1>1 DEF SearchOK, Holding
  <2>5. \A t \in Searchers : search'[t].instance = search[t].instance
    BY <2>1, <2>2, <2>3, <2>4
  <2>. QED  BY <1>4, <2>5 DEF InUse, Begin, Leaves
<1>5. ASSUME NEW s \in Searchers, HandlerStep(s)
      PROVE  /\ InUse(i)' \subseteq InUse(i)
             /\ InUse(i)' = InUse(i) => health'[i].cooling <= health[i].cooling
  <2>1. CASE Pick(s)
    BY <1>1, <2>1, PickLeavesCooling
  <2>2. CASE PickFails(s) \/ Fails(s) \/ RateLimited(s) \/ Protected(s) \/ Succeeds(s)
    BY <1>1, <2>2, MarkLeavesOthers
  <2>. QED  BY <1>5, <2>1, <2>2 DEF HandlerStep
<1>. QED  BY <1>1, <1>2, <1>3, <1>4, <1>5 DEF Next

\* A cooling instance gets no new request, and only a request that had it since before
\* and now lets go of it can renew the cooldown.
THEOREM CooldownsRunOut == Spec => [][CoolsDown]_vars
<1>. QED  BY InvariantHolds, StepCools, PTL DEF Spec

\* Weak fairness of the clock, which can always tick while i cools down.
ClockGoesOn(i) ==
    []<>(health[i].cooling = 0) \/ []<><<Tick /\ UNCHANGED search>>_vars

\* While time passes, a cooldown of so many ticks with these requests holding the
\* instance gives way to a shorter one or to fewer requests, and never to more: by
\* induction on both it ends (CooldownEnds).
THEOREM CooldownGoesOn ==
    \A i \in URLs : \A n \in Nat \ {0} : \A users \in SUBSET Searchers :
        Spec /\ ClockGoesOn(i) =>
            (health[i].cooling = n /\ InUse(i) = users
                ~> /\ InUse(i) \subseteq users
                   /\ InUse(i) = users => health[i].cooling < n)
<1>. SUFFICES ASSUME NEW i \in URLs, NEW n \in Nat \ {0}, NEW users \in SUBSET Searchers
              PROVE  Spec /\ ClockGoesOn(i) =>
                        (health[i].cooling = n /\ InUse(i) = users
                            ~> /\ InUse(i) \subseteq users
                               /\ InUse(i) = users => health[i].cooling < n)
  OBVIOUS
<1> DEFINE Cooling == health[i].cooling = n /\ InUse(i) = users
           Less == /\ InUse(i) \subseteq users
                   /\ InUse(i) = users => health[i].cooling < n
<1>1. IInv /\ Cooling /\ [Next]_vars => Cooling' \/ Less'
  <2>. SUFFICES ASSUME IInv, Cooling, [Next]_vars PROVE Cooling' \/ Less'
    OBVIOUS
  <2>1. /\ InUse(i)' \subseteq users
        /\ InUse(i)' = users => health'[i].cooling <= n
    BY StepCools DEF CoolsDown
  <2>2. health'[i].cooling \in Nat
    BY Inductive DEF IInv, HealthOK, HealthRecord
  <2>. QED  BY <2>1, <2>2
<1>2. IInv /\ Cooling /\ <<Tick /\ UNCHANGED search>>_vars => Less'
  <2>. SUFFICES ASSUME IInv, Cooling, Tick, UNCHANGED search PROVE Less'
    OBVIOUS
  <2>1. health'[i].cooling = n - 1 /\ InUse(i)' = users
    BY TickCools DEF IInv, InUse
  <2>. QED  BY <2>1
<1>3. Cooling => ~(health[i].cooling = 0)
  OBVIOUS
<1>. QED  BY <1>1, <1>2, <1>3, InvariantHolds, PTL DEF Spec, ClockGoesOn
=============================================================================
