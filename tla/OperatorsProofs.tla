-------------------------- MODULE OperatorsProofs ---------------------------
(***************************************************************************)
(* Proofs about the pure algorithms of Operators: what the run compares    *)
(* on small inputs, for inputs of any size.                                *)
(***************************************************************************)
EXTENDS Operators, FiniteSetTheorems, WellFoundedInduction, SequenceTheorems, TLAPS

-----------------------------------------------------------------------------
(* Induction, in terms of sets, and the ends of a set of numbers *)

LEMMA NumberInduction ==
    ASSUME NEW T, 0 \in T, \A n \in Nat : n \in T => n + 1 \in T
    PROVE  \A n \in Nat : n \in T
<1> DEFINE Bad == Nat \ T
           R == OpToRel(<, Nat)
<1>1. SUFFICES ASSUME Bad # {} PROVE FALSE
  OBVIOUS
<1>2. IsWellFoundedOn(R, Nat) /\ Bad \subseteq Nat
  BY NatLessThanWellFounded
<1>3. \A m, n \in Nat : m < n => <<m, n>> \in R
  BY DEF OpToRel
<1> HIDE DEF R, Bad
<1>4. PICK n \in Bad : \A m \in Bad : ~ (<<m, n>> \in R)
  BY <1>1, <1>2, WFMin
<1>5. n \in Nat /\ n # 0 /\ n - 1 \in Nat
  BY <1>2, <1>4 DEF Bad
<1>6. n - 1 \in T
  <2>1. n - 1 < n
    BY <1>5
  <2>2. <<n - 1, n>> \in R
    BY <1>3, <1>5, <2>1
  <2>3. n - 1 \notin Bad
    BY <1>4, <2>2
  <2> QED
    BY <1>5, <2>3 DEF Bad
<1> QED
  BY <1>4, <1>5, <1>6 DEF Bad

LEMMA SetInduction ==
    ASSUME NEW S, IsFiniteSet(S), NEW T, {} \in T,
           \A U \in SUBSET S : \A x \in S \ U : U \in T => U \cup {x} \in T
    PROVE  \A U \in SUBSET S : U \in T
<1> DEFINE Counts == {n \in Nat : \A U \in SUBSET S : Cardinality(U) = n => U \in T}
<1>1. \A U \in SUBSET S : IsFiniteSet(U) /\ Cardinality(U) \in Nat
  BY FS_Subset, FS_CardinalityType
<1>2. 0 \in Counts
  BY <1>1, FS_EmptySet
<1>3. ASSUME NEW n \in Nat, n \in Counts PROVE n + 1 \in Counts
  <2> SUFFICES ASSUME NEW U \in SUBSET S, Cardinality(U) = n + 1
               PROVE  U \in T
    OBVIOUS
  <2>1. PICK x : x \in U
    BY <1>1, FS_EmptySet
  <2>2. Cardinality(U \ {x}) = n /\ U \ {x} \in SUBSET S
    <3>1. IsFiniteSet(U)
      BY <1>1
    <3>2. Cardinality(U \ {x}) = Cardinality(U) - 1
      BY <2>1, <3>1, FS_RemoveElement
    <3> QED
      BY <3>2
  <2>3. U \ {x} \in T /\ x \in S \ (U \ {x})
    BY <1>3, <2>1, <2>2
  <2>4. (U \ {x}) \cup {x} = U
    BY <2>1
  <2> QED
    BY <2>2, <2>3, <2>4
<1>4. \A n \in Nat : n \in Counts
  <2> HIDE DEF Counts
  <2> QED
    BY <1>2, <1>3, NumberInduction
<1> QED
  BY <1>1, <1>4

\* The least of some numbers.
LEMMA MinHolds ==
    ASSUME NEW S, S \subseteq Nat, S # {}
    PROVE  Min(S) \in S /\ \A n \in S : Min(S) <= n
<1> DEFINE R == OpToRel(<, Nat)
<1>1. IsWellFoundedOn(R, Nat)
  BY NatLessThanWellFounded
<1>2. \A m, n \in Nat : m < n => <<m, n>> \in R
  BY DEF OpToRel
<1> HIDE DEF R
<1>3. PICK m \in S : \A n \in S : ~ (<<n, m>> \in R)
  BY <1>1, WFMin
<1>4. ASSUME NEW n \in S PROVE m <= n
  <2>1. n \in Nat /\ m \in Nat /\ ~ (n < m)
    BY <1>2, <1>3
  <2> QED
    BY <2>1
<1> QED
  BY <1>3, <1>4 DEF Min

\* The largest of some numbers with a bound.
LEMMA MaxHolds ==
    ASSUME NEW S, S \subseteq Nat, S # {}, NEW b \in Nat, \A n \in S : n <= b
    PROVE  Max(S) \in S /\ \A n \in S : n <= Max(S)
<1> DEFINE T == {k \in Nat : b - k \in S}
<1>1. T \subseteq Nat /\ T # {}
  <2>1. PICK n \in S : TRUE
    OBVIOUS
  <2>2. b - n \in Nat /\ b - (b - n) = n
    BY <2>1
  <2>3. b - n \in T
    BY <2>1, <2>2
  <2> QED
    BY <2>3
<1>2. \A n \in S : n \in Nat /\ b - n \in Nat /\ b - n \in T
  BY DEF T
<1>3. PICK k : k = Min(T)
  OBVIOUS
<1>4. k \in T /\ \A j \in T : k <= j
  <2> HIDE DEF T
  <2> QED
    BY <1>1, <1>3, MinHolds
<1>5. b - k \in S /\ \A n \in S : n <= b - k
  BY <1>2, <1>4
<1>6. \E x \in S : \A y \in S : x >= y
  BY <1>5
<1> QED
  BY <1>6 DEF Max

-----------------------------------------------------------------------------
(* Inputs *)

InstanceRecords == [weight : Nat, score : 0 .. 4, active : Nat, time : Nat]

\* The counters of a pool agree with each other.
PoolCounters(p) ==
    /\ p.running \in BOOLEAN
    /\ p.queued \in Nat /\ p.maxQueue \in Nat \ {0} /\ p.queued <= p.maxQueue
    /\ p.jobs \in Nat /\ p.failedJobs \in Nat /\ p.failedJobs <= p.jobs
    /\ p.active \in Nat /\ p.workers \in Nat \ {0} /\ p.active <= p.workers

\* So do those of the balancer.
BalancerCounters(b) ==
    /\ b.instances \in Nat /\ b.healthy \in Nat /\ b.healthy <= b.instances
    /\ b.average \in 0 .. 1000

\* The inputs the theorems are about, those of a behaviour among them: of any length and
\* size, where the run bounds both.
Inputs ==
    /\ input.of = "list" =>
          (\E n \in Nat \ {0} : input.list \in [1 .. n -> InstanceRecords]) /\ input.now \in Nat
    /\ input.of = "latencies" => \E n \in Nat : input.latencies \in [1 .. n -> Nat]
    /\ input.of = "health" =>
          /\ PoolCounters(input.workers)
          /\ BalancerCounters(input.balancer)
          /\ input.searches \in Nat /\ input.failed \in Nat /\ input.failed <= input.searches
          /\ input.rps \in Nat /\ input.p95 \in Nat
    /\ input.of = "page" =>
          \E n \in Nat \ {0} : /\ input.page.parent \in Trees(n)
                               /\ input.page.kind \in [1 .. n -> {"container", "title", "link", "lesser"}]
    /\ input.of = "scores" =>
          /\ \E n \in Nat : input.scores \in [1 .. n -> Nat]
          /\ input.least \in Nat /\ input.most \in Nat \ {0}
    /\ input.of = "text" =>
          /\ input.length \in Nat /\ input.spaces \in SUBSET (1 .. MaxLength)
          /\ input.max \in Nat \ {0} /\ input.indicator \in Nat
    /\ input.of = "response" =>
          /\ input.response.signatures \in Nat /\ input.response.scripts \in Nat
          /\ input.response.status \in Nat /\ input.response.headers \in 0 .. 5
          /\ input.response.short \in BOOLEAN /\ input.response.minimal \in BOOLEAN
          /\ input.response.captcha \in BOOLEAN

\* The inputs of a behaviour are of these types.
LEMMA InputsHold == InputSpec => []Inputs
<1> USE BoundsAssumption
<1>1. InputInit => Inputs
  BY DEF InputInit, Inputs
<1>2. Inputs /\ [InputNext]_input => Inputs'
  <2> SUFFICES ASSUME Inputs, [InputNext]_input
               PROVE  Inputs'
    OBVIOUS
  <2>1. CASE Balances
    BY <2>1 DEF Inputs, Balances, Given, Lists, InstanceRecords
  <2>2. CASE Measures
    BY <2>2 DEF Inputs, Measures, Given
  <2>3. CASE Reports
    <3>1. /\ input'.of = "health" /\ input'.workers \in WorkerPools /\ input'.balancer \in LoadBalancers
          /\ input'.searches = 10 /\ input'.failed \in 0 .. 10
          /\ input'.rps \in {9, 99, 101} /\ input'.p95 \in {0, 1000, 5001}
      BY <2>3 DEF Reports, Given
    <3>2. \A p \in WorkerPools : PoolCounters(p)
      BY DEF WorkerPools, PoolCounters
    <3>3. \A b \in LoadBalancers : BalancerCounters(b)
      BY DEF LoadBalancers, BalancerCounters
    <3> QED
      BY <3>1, <3>2, <3>3 DEF Inputs
  <2>4. CASE Extracts
    BY <2>4 DEF Inputs, Extracts, Given, Pages
  <2>5. CASE Selects
    BY <2>5 DEF Inputs, Selects, Given
  <2>6. CASE Truncates
    BY <2>6 DEF Inputs, Truncates, Given
  <2>7. CASE Detects
    BY <2>7 DEF Inputs, Detects, Given
  <2>8. CASE UNCHANGED input
    BY <2>8 DEF Inputs
  <2> QED
    BY <2>1, <2>2, <2>3, <2>4, <2>5, <2>6, <2>7, <2>8 DEF InputNext
<1> QED
  BY <1>1, <1>2, PTL DEF InputSpec

-----------------------------------------------------------------------------
(* BotDetection *)

\* The points of an ordinary page of status 200 are fewer than the threshold, for any
\* number of scripts and headers.
LEMMA OrdinaryPoints ==
    ASSUME NEW r, r.signatures \in Nat, r.scripts \in Nat, r.status = 200, r.headers \in 0 .. 5,
           r.short \in BOOLEAN, r.minimal \in BOOLEAN, ~r.captcha,
           \/ r.signatures = 0 /\ r.scripts = 0
           \/ r.signatures <= 1 /\ ~r.short /\ ~r.minimal
    PROVE  ~IsAnubisProtected(r)
<1>1. PICK scripts, short, minimal :
        scripts = ScriptPoints(r) /\ short = If(r.short, 5) /\ minimal = If(r.minimal, 5)
  OBVIOUS
<1>2. scripts \in 0 .. 15 /\ (r.scripts = 0 => scripts = 0)
  BY <1>1 DEF ScriptPoints
<1>3. StatusPoints(r) = 0 /\ If(r.captcha, 8) = 0
  BY DEF StatusPoints, If
<1>4. short \in 0 .. 5 /\ minimal \in 0 .. 5 /\ (~r.short => short = 0) /\ (~r.minimal => minimal = 0)
  BY <1>1 DEF If
<1>5. PICK points \in Nat : points = 5 * r.signatures + scripts + 0 + 3 * r.headers
                                     + short + minimal + 0
  <2>1. scripts \in Nat /\ short \in Nat /\ minimal \in Nat /\ 3 * r.headers \in Nat
        /\ 5 * r.signatures \in Nat
    BY <1>2, <1>4
  <2> QED
    BY <2>1
<1>6. Confidence(r) = Min({100, points})
  BY <1>1, <1>3, <1>5 DEF Confidence
<1>7. Confidence(r) = IF 100 <= points THEN 100 ELSE points
  BY <1>5, <1>6 DEF Min
<1>8. points < 40
  <2>1. CASE r.signatures = 0 /\ r.scripts = 0
    BY <1>2, <1>4, <1>5, <2>1
  <2>2. CASE r.signatures <= 1 /\ ~r.short /\ ~r.minimal
    BY <1>2, <1>4, <1>5, <2>2
  <2> QED
    BY <2>1, <2>2
<1> QED
  BY <1>5, <1>7, <1>8 DEF IsAnubisProtected

\* No ordinary page bars its instance, however many scripts it has.
THEOREM OrdinaryNotBarredHolds == (Inputs => OrdinaryNotBarred) /\ (InputSpec => []OrdinaryNotBarred)
<1>1. Inputs => OrdinaryNotBarred
  BY OrdinaryPoints DEF Inputs, OrdinaryNotBarred, Outcome
<1> QED
  BY <1>1, InputsHold, PTL

-----------------------------------------------------------------------------
(* Health *)

LEMMA DivBounds ==
    ASSUME NEW a \in Nat, NEW b \in Nat \ {0}
    PROVE  /\ a \div b \in Nat
           /\ b * (a \div b) <= a
           /\ a < b * (a \div b) + b
  OBVIOUS

InUnit(score) == score \in Nat /\ score <= 1000

\* A part of a whole is between none and all of it.
LEMMA RatioInUnit ==
    ASSUME NEW part, NEW whole, part \in Nat, whole \in Nat, whole > 0, part <= whole
    PROVE  InUnit(Ratio(part, whole))
<1>1. part * 1000 \in Nat /\ part * 1000 <= whole * 1000
  OBVIOUS
<1>2. PICK q : q = (part * 1000) \div whole
  OBVIOUS
<1>3. q \in Nat /\ whole * q <= part * 1000
  BY <1>1, <1>2, DivBounds
<1>4. q <= 1000
  <2>1. \A m, n \in Nat : n >= 1001 => m * n >= m * 1001
    OBVIOUS
  <2>2. SUFFICES ASSUME q >= 1001 PROVE FALSE
    BY <1>3
  <2>3. whole * q >= whole * 1001
    BY <1>3, <2>1, <2>2
  <2>4. whole * q \in Nat
    BY <1>3
  <2> QED
    BY <1>1, <1>3, <2>3, <2>4
<1> QED
  BY <1>2, <1>3, <1>4 DEF Ratio, InUnit

SearchCounters(h) ==
    /\ h.total \in Nat /\ h.failed \in Nat /\ h.rps \in Nat /\ h.p95 \in Nat

LEMMA PoolScore ==
    ASSUME NEW p, PoolCounters(p)
    PROVE  InUnit(WorkerPoolHealth(p))
<1>1. PICK queued, maxQueue, jobs, failedJobs, active, workers :
        /\ queued = p.queued /\ maxQueue = p.maxQueue
        /\ jobs = p.jobs /\ failedJobs = p.failedJobs
        /\ active = p.active /\ workers = p.workers
  OBVIOUS
<1>2. /\ queued \in Nat /\ maxQueue \in Nat /\ queued <= maxQueue /\ maxQueue > 0
      /\ jobs \in Nat /\ failedJobs \in Nat /\ failedJobs <= jobs
      /\ active \in Nat /\ workers \in Nat /\ active <= workers /\ workers > 0
  BY <1>1 DEF PoolCounters
<1>3. PICK success : success = IF jobs > 0 THEN Ratio(jobs - failedJobs, jobs) ELSE 1000
  OBVIOUS
<1>4. InUnit(success)
  <2>1. CASE jobs > 0
    <3>1. jobs - failedJobs \in Nat /\ jobs - failedJobs <= jobs
      BY <1>2
    <3>2. InUnit(Ratio(jobs - failedJobs, jobs))
      BY <1>2, <2>1, <3>1, RatioInUnit
    <3> QED
      BY <1>3, <2>1, <3>2
  <2>2. CASE ~(jobs > 0)
    BY <1>3, <2>2 DEF InUnit
  <2> QED
    BY <2>1, <2>2
<1>5. PICK busy, full : busy = Ratio(active, workers) /\ full = Ratio(queued, maxQueue)
  OBVIOUS
<1>6. InUnit(busy) /\ InUnit(full)
  BY <1>2, <1>5, RatioInUnit
<1>7. PICK score : score = (1000 - full + success
                             + (IF busy > 800 THEN 1000 - 2 * (busy - 800) ELSE 1000)) \div 3
  OBVIOUS
<1>8. InUnit(score)
  BY <1>4, <1>6, <1>7 DEF InUnit
<1>9. WorkerPoolHealth(p) = IF ~p.running THEN 0 ELSE score
  BY <1>1, <1>3, <1>5, <1>7 DEF WorkerPoolHealth
<1> QED
  BY <1>8, <1>9 DEF InUnit

LEMMA BalancerScore ==
    ASSUME NEW b, BalancerCounters(b)
    PROVE  InUnit(LoadBalancerHealth(b))
<1>1. PICK instances, healthy, average :
        instances = b.instances /\ healthy = b.healthy /\ average = b.average
  OBVIOUS
<1>2. instances \in Nat /\ healthy \in Nat /\ InUnit(average) /\ healthy <= instances
  BY <1>1 DEF BalancerCounters, InUnit
<1>3. PICK share : share = Ratio(healthy, instances)
  OBVIOUS
<1>4. PICK score : score = IF instances = 0 THEN 0 ELSE (share + average) \div 2
  OBVIOUS
<1>5. instances # 0 => InUnit(share)
  BY <1>2, <1>3, RatioInUnit
<1>6. InUnit(score)
  BY <1>2, <1>4, <1>5 DEF InUnit
<1>7. LoadBalancerHealth(b) = score
  BY <1>1, <1>3, <1>4 DEF LoadBalancerHealth
<1> QED
  BY <1>6, <1>7

LEMMA SearchScore ==
    ASSUME NEW h, SearchCounters(h)
    PROVE  InUnit(HTTPHealth(h)) /\ InUnit(ThroughputScore(h.rps))
<1>1. InUnit(ThroughputScore(h.rps))
  BY DEF SearchCounters, ThroughputScore, InUnit
<1>2. InUnit(LatencyScore(h.p95))
  BY DEF SearchCounters, LatencyScore, InUnit
<1>3. InUnit(ErrorRateScore(h))
  BY DEF ErrorRateScore, InUnit
<1>4. PICK throughput, latency, errors : throughput = ThroughputScore(h.rps)
                                          /\ latency = LatencyScore(h.p95) /\ errors = ErrorRateScore(h)
  OBVIOUS
<1>5. PICK score : score = (throughput + latency + errors) \div 3
  OBVIOUS
<1>6. InUnit(throughput) /\ InUnit(latency) /\ InUnit(errors)
  BY <1>1, <1>2, <1>3, <1>4
<1>7. InUnit(score)
  BY <1>5, <1>6 DEF InUnit
<1>8. HTTPHealth(h) = score
  BY <1>4, <1>5 DEF HTTPHealth
<1> QED
  BY <1>1, <1>7, <1>8

\* Every health score is between 0 and 1, whatever the counters, as long as they agree.
LEMMA ScoresBounded ==
    ASSUME NEW p, NEW b, NEW h, PoolCounters(p), BalancerCounters(b), SearchCounters(h)
    PROVE  InUnit(SystemHealth(p, b, h))
<1>1. PICK x, y, z : x = WorkerPoolHealth(p) /\ y = LoadBalancerHealth(b) /\ z = HTTPHealth(h)
  OBVIOUS
<1>2. InUnit(x) /\ InUnit(y) /\ InUnit(z)
  BY <1>1, PoolScore, BalancerScore, SearchScore
<1>3. PICK score : score = (x + y + z) \div 3
  OBVIOUS
<1>4. InUnit(score)
  BY <1>2, <1>3 DEF InUnit
<1>5. SystemHealth(p, b, h) = score
  BY <1>1, <1>3 DEF SystemHealth
<1> QED
  BY <1>4, <1>5

\* The error warning of twice counted searches: active when more than a fifth of them
\* failed, silent when none did.
LEMMA ErrorWarning ==
    ASSUME NEW p, NEW b, NEW searches \in Nat, NEW failed \in Nat, NEW rps, NEW p95
    PROVE  LET alerts == Alerts(p, b, Searched(searches, failed, rps, p95))
           IN  /\ 5 * failed > searches => "errors" \in alerts
               /\ failed = 0 => "errors" \notin alerts
<1>1. PICK h : h = Searched(searches, failed, rps, p95)
  OBVIOUS
<1>2. h.total = 2 * searches /\ h.failed = failed
  BY <1>1 DEF Searched
<1>3. "errors" \in Alerts(p, b, h) <=> ErrorRateScore(h) < 600
  BY DEF Alerts
<1>4. 5 * failed > searches => ErrorRateScore(h) < 600
  BY <1>2 DEF ErrorRateScore, AtMost
<1>5. failed = 0 => ErrorRateScore(h) = 1000
  BY <1>2 DEF ErrorRateScore, AtMost
<1> QED
  BY <1>1, <1>3, <1>4, <1>5

\* The health scores stay between 0 and 1, and the error warning tells a fifth of
\* failed searches from none.
THEOREM HealthSoundHolds == (Inputs => HealthSound) /\ (InputSpec => []HealthSound)
<1>1. Inputs => HealthSound
  <2> SUFFICES ASSUME Inputs, input.of = "health"
               PROVE  ScoresInUnit /\ ErrorsAlert
    BY DEF HealthSound, ScoresInUnit, ErrorsAlert
  <2>1. PICK p, b, h : p = input.workers /\ b = input.balancer /\ h = HTTP(input)
    OBVIOUS
  <2>2. PoolCounters(p)
    BY <2>1 DEF Inputs
  <2>3. BalancerCounters(b)
    BY <2>1 DEF Inputs
  <2>4. SearchCounters(h) /\ h.rps = input.rps
    BY <2>1 DEF Inputs, SearchCounters, HTTP, Searched
  <2>5. ScoresInUnit
    <3>1. \A score : InUnit(score) => score \in 0 .. 1000
      BY DEF InUnit
    <3>2. InUnit(WorkerPoolHealth(p)) /\ InUnit(LoadBalancerHealth(b)) /\ InUnit(HTTPHealth(h))
      BY <2>2, <2>3, <2>4, PoolScore, BalancerScore, SearchScore
    <3>3. InUnit(ThroughputScore(input.rps)) /\ InUnit(SystemHealth(p, b, h))
      BY <2>2, <2>3, <2>4, SearchScore, ScoresBounded
    <3> QED
      BY <2>1, <3>1, <3>2, <3>3 DEF ScoresInUnit
  <2>6. ErrorsAlert
    BY <2>1, ErrorWarning DEF Inputs, ErrorsAlert, HTTP
  <2> QED
    BY <2>5, <2>6
<1> QED
  BY <1>1, InputsHold, PTL

-----------------------------------------------------------------------------
(* Truncation *)

\* A truncated text fits, a text that fits is left alone, and the others keep what
\* they can, wherever the spaces are.
LEMMA TruncatedFits ==
    ASSUME NEW length \in Nat, NEW spaces, spaces \subseteq Nat, NEW max \in Nat, NEW indicator \in Nat
    PROVE  Fits(length, spaces, max, indicator)
<1>1. PICK t : t = Truncated(length, spaces, max, indicator)
  OBVIOUS
<1>2. \A a, b \in Nat : Min({a, b}) = IF a <= b THEN a ELSE b
  BY DEF Min
<1>3. max \div 2 \in Nat /\ max \div 2 <= max
  OBVIOUS
<1>4. PICK half \in Nat : half = max \div 2 /\ half <= max
  BY <1>3
<1>5. \/ length <= max /\ t = [kept |-> length, added |-> 0]
      \/ length > max /\ max <= indicator /\ t = [kept |-> max, added |-> 0]
      \/ /\ length > max /\ max > indicator
         /\ \E last \in 0 .. max - indicator :
              t = [kept |-> IF last - 1 > half THEN last - 1 ELSE max - indicator, added |-> indicator]
  <2>1. CASE length <= max
    BY <1>1, <2>1 DEF Truncated
  <2>2. CASE length > max /\ max <= indicator
    BY <1>1, <2>2 DEF Truncated
  <2>3. CASE length > max /\ max > indicator
    <3> DEFINE before == {0} \cup {s \in spaces : s <= max - indicator}
    <3>1. max - indicator \in Nat
      BY <2>3
    <3>2. before \subseteq Nat /\ before # {} /\ \A n \in before : n <= max - indicator
      <4>1. {s \in spaces : s <= max - indicator} \subseteq Nat
        OBVIOUS
      <4> QED
        BY <3>1, <4>1
    <3>3. PICK last : last = Max(before)
      OBVIOUS
    <3>4. last \in before
      <4> HIDE DEF before
      <4> QED
        BY <3>1, <3>2, <3>3, MaxHolds
    <3>5. t = [kept |-> IF last - 1 > half THEN last - 1 ELSE max - indicator, added |-> indicator]
      BY <1>1, <1>4, <2>3, <3>3 DEF Truncated, Cut
    <3> QED
      BY <2>3, <3>1, <3>2, <3>4, <3>5
  <2> QED
    BY <2>1, <2>2, <2>3
<1>6. /\ t.kept \in Nat /\ t.added \in Nat /\ t.kept + t.added <= max
      /\ length <= max <=> t = [kept |-> length, added |-> 0]
      /\ length > max => t.kept >= half \/ t.kept >= max - t.added
  <2>1. CASE length <= max /\ t = [kept |-> length, added |-> 0]
    BY <2>1
  <2>2. CASE length > max /\ max <= indicator /\ t = [kept |-> max, added |-> 0]
    BY <2>2
  <2>3. CASE /\ length > max /\ max > indicator
             /\ \E last \in 0 .. max - indicator :
                  t = [kept |-> IF last - 1 > half THEN last - 1 ELSE max - indicator,
                       added |-> indicator]
    BY <2>3
  <2> QED
    BY <1>5, <2>1, <2>2, <2>3
<1>7. max - t.added \in Nat
  BY <1>6
<1>8. length > max => t.kept >= Min({half, max - t.added})
  BY <1>2, <1>6, <1>7
<1> QED
  BY <1>1, <1>4, <1>6, <1>8 DEF Fits

-----------------------------------------------------------------------------
(* Ranking *)

\* The positions that come before k, or are k.
NotBehind(S, key, k) == {j \in S : NotAfter(key, j, k)}

LEMMA NotAfterOrders ==
    ASSUME NEW S, S \subseteq Int, NEW key, \A k \in S : key[k] \in Int
    PROVE  /\ \A k \in S : NotAfter(key, k, k)
           /\ \A j, k \in S : NotAfter(key, j, k) \/ NotAfter(key, k, j)
           /\ \A j, k \in S : NotAfter(key, j, k) /\ NotAfter(key, k, j) => j = k
           /\ \A i, j, k \in S : NotAfter(key, i, j) /\ NotAfter(key, j, k) => NotAfter(key, i, k)
  BY DEF NotAfter

\* The ranks of the positions are different, so that every rank up to their number
\* occurs.
LEMMA RanksHold ==
    ASSUME NEW S, IsFiniteSet(S), S \subseteq Int, NEW key, \A k \in S : key[k] \in Int
    PROVE  /\ \A k \in S : Cardinality(NotBehind(S, key, k)) \in 1 .. Cardinality(S)
           /\ \A j, k \in S : j # k /\ NotAfter(key, j, k) =>
                 Cardinality(NotBehind(S, key, j)) < Cardinality(NotBehind(S, key, k))
           /\ \A i \in 1 .. Cardinality(S) : \E k \in S : Cardinality(NotBehind(S, key, k)) = i
<1> DEFINE n == Cardinality(S)
           rank == [k \in S |-> Cardinality(NotBehind(S, key, k))]
<1>1. n \in Nat
  BY FS_CardinalityType
<1>2. \A k \in S : /\ NotBehind(S, key, k) \in SUBSET S /\ k \in NotBehind(S, key, k)
                   /\ IsFiniteSet(NotBehind(S, key, k))
  BY NotAfterOrders, FS_Subset DEF NotBehind
<1>3. ASSUME NEW k \in S PROVE Cardinality(NotBehind(S, key, k)) \in 1 .. n
  <2>1. PICK B : B = NotBehind(S, key, k)
    OBVIOUS
  <2>2. B \in SUBSET S /\ B # {} /\ IsFiniteSet(B)
    BY <1>2, <2>1
  <2>3. Cardinality(B) \in Nat /\ Cardinality(B) # 0 /\ Cardinality(B) <= n
    BY <2>2, FS_Subset, FS_CardinalityType, FS_EmptySet
  <2> QED
    BY <1>1, <2>1, <2>3
<1>4. ASSUME NEW j \in S, NEW k \in S, j # k, NotAfter(key, j, k)
      PROVE  Cardinality(NotBehind(S, key, j)) < Cardinality(NotBehind(S, key, k))
  <2>1. PICK A, B : A = NotBehind(S, key, j) /\ B = NotBehind(S, key, k)
    OBVIOUS
  <2>2. A \in SUBSET B
    BY <1>4, <2>1, NotAfterOrders DEF NotBehind
  <2>3. k \in B /\ k \notin A
    BY <1>2, <1>4, <2>1, NotAfterOrders DEF NotBehind
  <2>4. IsFiniteSet(B) /\ IsFiniteSet(A)
    BY <1>2, <2>1
  <2>5. Cardinality(A) <= Cardinality(B) /\ Cardinality(A) # Cardinality(B)
    BY <2>2, <2>3, <2>4, FS_Subset
  <2>6. Cardinality(A) \in Nat /\ Cardinality(B) \in Nat
    BY <2>4, FS_CardinalityType
  <2> QED
    BY <2>1, <2>5, <2>6
<1>5. rank \in Injection(S, 1 .. n)
  <2>1. rank \in [S -> 1 .. n]
    BY <1>3
  <2>2. ASSUME NEW j \in S, NEW k \in S, rank[j] = rank[k] PROVE j = k
    <3>1. rank[j] \in Nat
      BY <1>3
    <3>2. NotAfter(key, j, k) \/ NotAfter(key, k, j)
      BY NotAfterOrders
    <3>3. rank[j] = Cardinality(NotBehind(S, key, j)) /\ rank[k] = Cardinality(NotBehind(S, key, k))
      OBVIOUS
    <3> HIDE DEF rank
    <3>4. \A m \in Nat : ~ (m < m)
      OBVIOUS
    <3>5. j # k => rank[j] < rank[k] \/ rank[k] < rank[j]
      BY <1>4, <3>2, <3>3
    <3> QED
      BY <2>2, <3>1, <3>4, <3>5
  <2> QED
    BY <2>1, <2>2 DEF Injection, IsInjective
<1>6. IsFiniteSet(1 .. n) /\ Cardinality(1 .. n) = n
  BY <1>1, FS_Interval
<1>7. rank \in Surjection(S, 1 .. n)
  <2> HIDE DEF rank
  <2> QED
    BY <1>5, <1>6, FS_Injection
<1> QED
  BY <1>3, <1>4, <1>7 DEF Surjection

\* A gives every position once, in the order of the keys, and the i-th one has i - 1
\* before it.
Arranges(A, S, key) ==
    LET n == Cardinality(S)
    IN  /\ n \in Nat /\ A \in [1 .. n -> S]
        /\ \A i \in 1 .. n : Cardinality(NotBehind(S, key, A[i])) = i
        /\ \A k \in S : \E i \in 1 .. n : A[i] = k
        /\ \A i, j \in 1 .. n : i <= j => NotAfter(key, A[i], A[j])

LEMMA ArrangedHolds ==
    ASSUME NEW S, IsFiniteSet(S), S \subseteq Int, NEW key, \A k \in S : key[k] \in Int
    PROVE  Arranges(Arranged(S, key), S, key)
<1> DEFINE n == Cardinality(S)
           A == Arranged(S, key)
           rank(k) == Cardinality(NotBehind(S, key, k))
<1>1. n \in Nat
  BY FS_CardinalityType
<1>2. A = [i \in 1 .. n |-> CHOOSE k \in S : rank(k) = i]
  BY DEF Arranged, NotBehind
<1> HIDE DEF A
<1>3. ASSUME NEW i \in 1 .. n PROVE A[i] \in S /\ rank(A[i]) = i
  <2>1. \E k \in S : rank(k) = i
    BY RanksHold
  <2> QED
    BY <1>2, <2>1
<1>4. A \in [1 .. n -> S]
  BY <1>2, <1>3
<1>5. ASSUME NEW k \in S PROVE \E i \in 1 .. n : A[i] = k
  <2>1. rank(k) \in 1 .. n
    BY RanksHold
  <2>2. PICK j : j = A[rank(k)]
    OBVIOUS
  <2>3. j \in S /\ rank(j) = rank(k)
    BY <1>3, <2>1, <2>2
  <2>4. j = k
    <3>1. NotAfter(key, j, k) \/ NotAfter(key, k, j)
      BY <2>3, NotAfterOrders
    <3>2. \A x, y \in S : x # y /\ NotAfter(key, x, y) => rank(x) < rank(y)
      BY RanksHold
    <3>3. rank(k) \in Nat
      BY <2>1
    <3> HIDE DEF rank
    <3> QED
      BY <2>3, <3>1, <3>2, <3>3
  <2> QED
    BY <2>1, <2>2, <2>4
<1>6. ASSUME NEW i \in 1 .. n, NEW j \in 1 .. n, i <= j PROVE NotAfter(key, A[i], A[j])
  <2>1. A[i] \in S /\ A[j] \in S /\ rank(A[i]) = i /\ rank(A[j]) = j
    BY <1>3
  <2>2. \A x, y \in S : x # y /\ NotAfter(key, x, y) => rank(x) < rank(y)
    BY RanksHold
  <2>3. NotAfter(key, A[i], A[j]) \/ (A[j] # A[i] /\ NotAfter(key, A[j], A[i]))
    BY <2>1, NotAfterOrders
  <2> HIDE DEF rank
  <2>4. ASSUME A[j] # A[i], NotAfter(key, A[j], A[i]) PROVE FALSE
    <3>1. rank(A[j]) < rank(A[i])
      BY <2>1, <2>2, <2>4
    <3>2. j < i
      BY <2>1, <3>1
    <3> QED
      BY <1>6, <3>2
  <2> QED
    BY <2>3, <2>4
<1> QED
  BY <1>1, <1>3, <1>4, <1>5, <1>6 DEF A, Arranges

-----------------------------------------------------------------------------
(* processResults *)

Times(s, seq) == {k \in DOMAIN seq : seq[k] = s}

\* What is kept of any scores is the best of what is good enough.
LEMMA KeptIsBest ==
    ASSUME NEW n \in Nat, NEW scores \in [1 .. n -> Int], NEW least \in Int, NEW most \in Nat
    PROVE  KeepsBest(scores, least, most)
<1>0. PICK good, key : good = {k \in DOMAIN scores : scores[k] >= least}
                       /\ key = [k \in good |-> -scores[k]]
  OBVIOUS
<1>1. IsFiniteSet(1 .. n) /\ good \in SUBSET (1 .. n)
  BY <1>0, FS_Interval
<1> DEFINE N == Cardinality(good)
<1>2. IsFiniteSet(good) /\ good \subseteq Int /\ \A k \in good : key[k] \in Int
  <2>1. IsFiniteSet(good)
    BY <1>1, FS_Subset
  <2>2. \A k \in good : k \in 1 .. n /\ key[k] = -scores[k] /\ scores[k] \in Int
    BY <1>0, <1>1
  <2> QED
    BY <2>1, <2>2
<1>3. PICK order : order = Arranged(good, key)
  OBVIOUS
<1>4. /\ N \in Nat /\ order \in [1 .. N -> good]
      /\ \A i \in 1 .. N : Cardinality(NotBehind(good, key, order[i])) = i
      /\ \A k \in good : \E i \in 1 .. N : order[i] = k
      /\ \A i, j \in 1 .. N : i <= j => NotAfter(key, order[i], order[j])
  <2>1. Arranges(order, good, key)
    BY <1>2, <1>3, ArrangedHolds
  <2> QED
    BY <2>1 DEF Arranges
<1>5. PICK m : m = Min({most, N})
  OBVIOUS
<1>6. m \in Nat /\ m <= N /\ m <= most /\ (m = N \/ m = most)
  <2>1. \A a, b \in Nat : Min({a, b}) = IF a <= b THEN a ELSE b
    BY DEF Min
  <2> QED
    BY <1>4, <1>5, <2>1
<1>7. PICK kept : kept = [i \in 1 .. m |-> scores[order[i]]]
  OBVIOUS
<1>8. kept = Kept(scores, least, most)
  BY <1>0, <1>3, <1>5, <1>7 DEF Kept
<1>9. \A i \in 1 .. m : i \in 1 .. N /\ order[i] \in good /\ kept[i] = scores[order[i]]
  BY <1>4, <1>6, <1>7
<1>10. Len(kept) = m /\ DOMAIN kept = 1 .. m
  <2>1. \A i \in 1 .. m : scores[order[i]] \in Int
    BY <1>1, <1>9
  <2>2. kept \in Seq(Int)
    BY <1>6, <1>7, <2>1, IsASeq
  <2> QED
    BY <1>6, <1>7, <2>2
<1>11. \A i, j \in 1 .. N : i <= j => scores[order[i]] >= scores[order[j]]
  <2> SUFFICES ASSUME NEW i \in 1 .. N, NEW j \in 1 .. N, i <= j
               PROVE  scores[order[i]] >= scores[order[j]]
    OBVIOUS
  <2>1. NotAfter(key, order[i], order[j])
    BY <1>4
  <2>2. order[i] \in good /\ order[j] \in good
    BY <1>4
  <2>3. key[order[i]] = -scores[order[i]] /\ key[order[j]] = -scores[order[j]]
    BY <1>0, <2>2
  <2>4. scores[order[i]] \in Int /\ scores[order[j]] \in Int
    BY <1>1, <2>2
  <2> QED
    BY <2>1, <2>3, <2>4 DEF NotAfter
<1>12. \A i, j \in 1 .. N : order[i] = order[j] => i = j
  BY <1>4
<1>13. ASSUME NEW s PROVE Cardinality(Times(s, kept)) <= Cardinality(Times(s, scores))
  <2> DEFINE I == Times(s, kept)
             J == Times(s, scores)
             f == [i \in I |-> order[i]]
  <2>1. f \in Injection(I, J)
    BY <1>1, <1>9, <1>10, <1>12 DEF Times, Injection, IsInjective
  <2>2. IsFiniteSet(J)
    BY <1>1, FS_Subset DEF Times
  <2> HIDE DEF I, J, f
  <2>3. Cardinality(I) <= Cardinality(J)
    BY <2>1, <2>2, FS_Injection
  <2> QED
    BY <2>3 DEF I, J
<1>14. ASSUME NEW k \in DOMAIN scores, scores[k] >= least,
              Cardinality(Times(scores[k], kept)) < Cardinality(Times(scores[k], scores))
       PROVE  m = most /\ \A a \in 1 .. m : kept[a] >= scores[k]
  <2> DEFINE s == scores[k]
             I == Times(s, kept)
             J == Times(s, scores)
             f == [i \in I |-> order[i]]
  <2>1. f \in [I -> J]
    BY <1>1, <1>9, <1>10 DEF Times
  <2>2. IsFiniteSet(I) /\ IsFiniteSet(J)
    <3>1. IsFiniteSet(1 .. m) /\ I \in SUBSET (1 .. m) /\ J \in SUBSET (1 .. n)
      BY <1>6, <1>10, FS_Interval DEF Times
    <3> QED
      BY <1>1, <3>1, FS_Subset
  <2>3. f \notin Surjection(I, J)
    <3> HIDE DEF I, J, f
    <3>1. SUFFICES ASSUME f \in Surjection(I, J) PROVE FALSE
      OBVIOUS
    <3>2. Cardinality(J) <= Cardinality(I)
      BY <2>2, <3>1, FS_Surjection
    <3>3. Cardinality(I) \in Nat /\ Cardinality(J) \in Nat
      BY <2>2, FS_CardinalityType
    <3>4. Cardinality(I) < Cardinality(J)
      BY <1>14 DEF I, J
    <3> QED
      BY <3>2, <3>3, <3>4
  <2>4. PICK j \in J : \A i \in I : order[i] # j
    BY <2>1, <2>3 DEF Surjection
  <2>5. j \in good /\ scores[j] = s
    BY <1>0, <1>14 DEF Times
  <2>6. PICK i \in 1 .. N : order[i] = j
    BY <1>4, <2>5
  <2>7. ~ (i <= m)
    <3>1. SUFFICES ASSUME i \in 1 .. m PROVE FALSE
      BY <1>6
    <3>2. kept[i] = s
      BY <1>9, <2>5, <2>6, <3>1
    <3>3. i \in I
      BY <1>10, <3>1, <3>2 DEF Times
    <3> QED
      BY <2>4, <2>6, <3>3
  <2>8. m = most
    BY <1>4, <1>6, <2>7
  <2>9. ASSUME NEW a \in 1 .. m PROVE kept[a] >= s
    <3>1. a \in 1 .. N /\ a <= i
      BY <1>4, <1>6, <2>7
    <3> QED
      BY <1>9, <1>11, <2>5, <2>6, <3>1
  <2> QED
    BY <2>8, <2>9
<1>15. ASSUME NEW a \in 1 .. m, NEW b \in 1 .. m, a <= b PROVE kept[a] >= kept[b]
  BY <1>9, <1>11, <1>15
<1> QED
  BY <1>6, <1>8, <1>10, <1>13, <1>14, <1>15 DEF KeepsBest, Times

\* What is kept of the results is the best of what is good enough, and a truncated
\* text fits and keeps as much as it promises.
THEOREM SelectionFitsHolds == (Inputs => SelectionFits) /\ (InputSpec => []SelectionFits)
<1>1. Inputs => SelectionFits
  <2> SUFFICES ASSUME Inputs PROVE KeepsTheBest /\ TruncationFits
    BY DEF SelectionFits
  <2>1. KeepsTheBest
    <3> SUFFICES ASSUME input.of = "scores"
                 PROVE  KeepsBest(input.scores, input.least, input.most)
      BY DEF KeepsTheBest
    <3>1. PICK n \in Nat : input.scores \in [1 .. n -> Nat]
      BY DEF Inputs
    <3>2. input.scores \in [1 .. n -> Int] /\ input.least \in Int /\ input.most \in Nat
      BY <3>1 DEF Inputs
    <3> QED
      BY <3>2, KeptIsBest
  <2>2. TruncationFits
    <3> SUFFICES ASSUME input.of = "text"
                 PROVE  Fits(input.length, input.spaces, input.max, input.indicator)
      BY DEF TruncationFits
    <3>1. input.length \in Nat /\ input.spaces \subseteq Nat /\ input.max \in Nat /\ input.indicator \in Nat
      BY DEF Inputs
    <3> QED
      BY <3>1, TruncatedFits
  <2> QED
    BY <2>1, <2>2
<1> QED
  BY <1>1, InputsHold, PTL

-----------------------------------------------------------------------------
(* traverseHTML *)

\* The nodes of a set, put in order.
ListsInOrder(order, S) ==
    /\ order \in [1 .. Cardinality(S) -> S]
    /\ S # {} => 1 \in DOMAIN order
    /\ \A j, k \in S : j <= k => \E a, b \in DOMAIN order : a <= b /\ order[a] = j /\ order[b] = k

LEMMA InOrderHolds ==
    ASSUME NEW n \in Nat, NEW S, S \subseteq 1 .. n
    PROVE  ListsInOrder(InOrder(S), S)
<1>1. PICK key, order : key = [k \in S |-> k] /\ order = Arranged(S, key)
  OBVIOUS
<1>2. IsFiniteSet(S) /\ S \subseteq Int /\ \A k \in S : key[k] = k /\ key[k] \in Int
  <2>1. IsFiniteSet(1 .. n) /\ S \in SUBSET (1 .. n)
    BY FS_Interval
  <2>2. IsFiniteSet(S)
    BY <2>1, FS_Subset
  <2>3. \A k \in S : k \in Int /\ key[k] = k
    BY <1>1
  <2> QED
    BY <2>2, <2>3
<1>3. Arranges(order, S, key)
  BY <1>1, <1>2, ArrangedHolds
<1>4. order = InOrder(S)
  BY <1>1 DEF InOrder
<1>5. S # {} => 1 \in 1 .. Cardinality(S)
  <2>1. Cardinality(S) \in Nat /\ \A k \in S : \E i \in 1 .. Cardinality(S) : order[i] = k
    BY <1>3 DEF Arranges
  <2>2. S # {} => \E i \in 1 .. Cardinality(S) : TRUE
    BY <2>1
  <2> QED
    BY <2>1, <2>2
<1>6. ASSUME NEW j \in S, NEW k \in S, j <= k
      PROVE  \E a, b \in 1 .. Cardinality(S) : a <= b /\ order[a] = j /\ order[b] = k
  <2>1. PICK a \in 1 .. Cardinality(S) : order[a] = j
    BY <1>3 DEF Arranges
  <2>2. PICK b \in 1 .. Cardinality(S) : order[b] = k
    BY <1>3 DEF Arranges
  <2>3. CASE a <= b
    BY <2>1, <2>2, <2>3
  <2>4. CASE b <= a
    <3>1. NotAfter(key, k, j)
      BY <1>3, <2>1, <2>2, <2>4 DEF Arranges
    <3>2. j = k
      BY <1>2, <1>6, <3>1 DEF NotAfter
    <3> QED
      BY <1>3, <2>1, <3>2 DEF Arranges
  <2> QED
    BY <2>3, <2>4
<1> QED
  BY <1>3, <1>4, <1>5, <1>6 DEF Arranges, ListsInOrder

\* Every innermost container of any page is listed.
LEMMA InnermostListed ==
    ASSUME NEW page, NEW n \in Nat, Nodes(page) = 1 .. n
    PROVE  /\ ListsInnermost(page)
           /\ (\E k \in Nodes(page) : page.kind[k] = "link") => Extracted(page) # <<>>
<1>1. PICK complete, order : /\ complete = {k \in Containers(page) : Complete(Result(page, k))}
                             /\ order = InOrder(complete)
  OBVIOUS
<1>2. complete \subseteq 1 .. n
  BY <1>1 DEF Containers
<1>3. Found(page) = [i \in DOMAIN order |-> Result(page, order[i])]
  BY <1>1 DEF Found
<1>4. ListsInOrder(order, complete)
  BY <1>1, <1>2, InOrderHolds
<1>5. complete # {} => Found(page) # <<>>
  <2>1. complete # {} => 1 \in DOMAIN order
    BY <1>4 DEF ListsInOrder
  <2> QED
    BY <1>3, <2>1
<1>6. ListsInnermost(page)
  <2> DEFINE inner == {k \in Nodes(page) : Of(page, k, {"container"}) = {k} /\ page.kind[k] = "container"
                                           /\ Complete(Result(page, k))}
  <2>1. inner \subseteq complete
    BY <1>1 DEF Containers
  <2> SUFFICES ASSUME NEW j \in inner, NEW k \in inner, j <= k
               PROVE  \E a, b \in DOMAIN Extracted(page) :
                         a <= b /\ Extracted(page)[a] = Result(page, j) /\ Extracted(page)[b] = Result(page, k)
    BY DEF ListsInnermost
  <2>2. j \in complete /\ k \in complete
    BY <2>1
  <2> HIDE DEF inner
  <2>3. Extracted(page) = Found(page)
    BY <1>5, <2>2 DEF Extracted
  <2>4. PICK a, b \in DOMAIN order : a <= b /\ order[a] = j /\ order[b] = k
    BY <1>4, <2>2 DEF ListsInOrder
  <2> QED
    BY <1>3, <2>3, <2>4
<1>7. ASSUME NEW k \in Nodes(page), page.kind[k] = "link" PROVE Extracted(page) # <<>>
  <2>1. PICK links, all : links = {l \in Nodes(page) : page.kind[l] = "link"} /\ all = InOrder(links)
    OBVIOUS
  <2>2. links \subseteq 1 .. n /\ links # {}
    BY <1>7, <2>1
  <2>3. Fallback(page) = [i \in DOMAIN all |-> [title |-> all[i], url |-> all[i]]]
    BY <2>1 DEF Fallback
  <2>4. 1 \in DOMAIN all
    BY <2>1, <2>2, InOrderHolds DEF ListsInOrder
  <2>5. Fallback(page) # <<>>
    BY <2>3, <2>4
  <2> QED
    BY <2>5 DEF Extracted
<1> QED
  BY <1>6, <1>7

\* However containers are nested, every innermost one with a link is listed with its
\* own title and link, in document order, and a page without one still gives its links.
THEOREM EveryResultListedHolds == (Inputs => EveryResultListed) /\ (InputSpec => []EveryResultListed)
<1>1. Inputs => EveryResultListed
  <2> SUFFICES ASSUME Inputs, input.of = "page" PROVE EveryResultListed
    BY DEF EveryResultListed
  <2>1. PICK n \in Nat : input.page.kind \in [1 .. n -> {"container", "title", "link", "lesser"}]
    BY DEF Inputs
  <2>2. PICK page : page = input.page
    OBVIOUS
  <2>3. Nodes(page) = 1 .. n
    BY <2>1, <2>2 DEF Nodes
  <2>4. /\ ListsInnermost(page)
        /\ (\E k \in Nodes(page) : page.kind[k] = "link") => Extracted(page) # <<>>
    BY <2>3, InnermostListed
  <2> QED
    BY <2>2, <2>4 DEF EveryResultListed
<1> QED
  BY <1>1, InputsHold, PTL

-----------------------------------------------------------------------------
(* Folds: what the recursive functions in MapThenFoldSet are *)

\* The sets of at most n elements of S.
Small(S, n) == {s \in SUBSET S : Cardinality(s) <= n}

LEMMA SmallSets ==
    ASSUME NEW S, IsFiniteSet(S), NEW n \in Nat, NEW m \in Nat, m = n + 1
    PROVE  /\ {} \in Small(S, n)
           /\ \A s \in Small(S, 0) : s = {}
           /\ Small(S, n) \subseteq Small(S, m)
           /\ \A s \in Small(S, m) : \A x \in s : s \ {x} \in Small(S, n)
           /\ Small(S, Cardinality(S)) = SUBSET S
<1>1. \A s \in SUBSET S : /\ IsFiniteSet(s) /\ Cardinality(s) \in Nat /\ (Cardinality(s) = 0 <=> s = {})
                          /\ Cardinality(s) <= Cardinality(S)
  BY FS_Subset, FS_CardinalityType, FS_EmptySet
<1>2. {} \in Small(S, n)
  BY FS_EmptySet DEF Small
<1>3. ASSUME NEW s \in Small(S, 0) PROVE s = {}
  <2>1. Cardinality(s) <= 0 /\ s \in SUBSET S
    BY DEF Small
  <2>2. Cardinality(s) \in Nat /\ (Cardinality(s) = 0 <=> s = {})
    BY <1>1, <2>1
  <2> QED
    BY <2>1, <2>2
<1>4. ASSUME NEW s \in Small(S, n) PROVE s \in Small(S, m)
  <2>1. Cardinality(s) <= n /\ s \in SUBSET S
    BY DEF Small
  <2>2. Cardinality(s) \in Nat
    BY <1>1, <2>1
  <2>3. Cardinality(s) <= m
    BY <2>1, <2>2
  <2> QED
    BY <2>1, <2>3 DEF Small
<1>5. ASSUME NEW s \in Small(S, m), NEW x \in s PROVE s \ {x} \in Small(S, n)
  <2>1. Cardinality(s) <= m /\ s \in SUBSET S
    BY DEF Small
  <2>2. Cardinality(s) \in Nat /\ Cardinality(s \ {x}) = Cardinality(s) - 1
    BY <1>1, <2>1, FS_RemoveElement
  <2>3. Cardinality(s \ {x}) <= n /\ s \ {x} \in SUBSET S
    BY <2>1, <2>2
  <2> QED
    BY <2>3 DEF Small
<1>6. Small(S, Cardinality(S)) = SUBSET S
  BY <1>1 DEF Small
<1> QED
  BY <1>2, <1>3, <1>4, <1>5, <1>6

\* it is the fold over the sets T that takes away pick[s] of a set s first.
IsFold(it, T, base, pick, step) ==
    \A s \in T : it[s] = IF s = {} THEN base ELSE step[<<pick[s], it[s \ {pick[s]}]>>]

\* There is a fold over the subsets of a finite set.
LEMMA FoldExists ==
    ASSUME NEW S, IsFiniteSet(S), NEW V, NEW base \in V,
           NEW pick, \A s \in SUBSET S : s # {} => pick[s] \in s,
           NEW step, \A x \in S : \A v \in V : step[<<x, v>>] \in V
    PROVE  \E it \in [SUBSET S -> V] : IsFold(it, SUBSET S, base, pick, step)
<1> DEFINE Done == {n \in Nat : \E it \in [Small(S, n) -> V] : IsFold(it, Small(S, n), base, pick, step)}
<1>2. 0 \in Done
  <2>1. PICK g : g = [s \in Small(S, 0) |-> base]
    OBVIOUS
  <2>2. g \in [Small(S, 0) -> V]
    BY <2>1
  <2>3. IsFold(g, Small(S, 0), base, pick, step)
    <3>1. 0 \in Nat /\ 1 \in Nat /\ 1 = 0 + 1
      OBVIOUS
    <3>2. \A s \in Small(S, 0) : s = {}
      BY <3>1, SmallSets
    <3> QED
      BY <2>1, <3>2 DEF IsFold
  <2> QED
    BY <2>2, <2>3
<1>3. ASSUME NEW n \in Nat, n \in Done PROVE n + 1 \in Done
  <2>0. PICK m \in Nat : m = n + 1
    OBVIOUS
  <2>1. PICK g \in [Small(S, n) -> V] : IsFold(g, Small(S, n), base, pick, step)
    BY <1>3
  <2>2. PICK h : h = [s \in Small(S, m) |-> IF s = {} THEN base ELSE step[<<pick[s], g[s \ {pick[s]}]>>]]
    OBVIOUS
  <2>3. ASSUME NEW s \in Small(S, m), s # {}
        PROVE  pick[s] \in S /\ s \ {pick[s]} \in Small(S, n)
    <3>1. s \in SUBSET S /\ pick[s] \in s
      BY <2>3 DEF Small
    <3> QED
      BY <2>0, <3>1, SmallSets
  <2>4. ASSUME NEW s \in Small(S, m) PROVE h[s] \in V
    <3>1. CASE s = {}
      BY <2>2, <3>1
    <3>2. CASE s # {}
      BY <2>2, <2>3, <3>2
    <3> QED
      BY <3>1, <3>2
  <2>5. \A s \in Small(S, n) : s \in Small(S, m) /\ h[s] = g[s]
    BY <2>0, <2>1, <2>2, SmallSets DEF IsFold
  <2>6. IsFold(h, Small(S, m), base, pick, step)
    <3> SUFFICES ASSUME NEW s \in Small(S, m)
                 PROVE  h[s] = IF s = {} THEN base ELSE step[<<pick[s], h[s \ {pick[s]}]>>]
      BY DEF IsFold
    <3>1. s # {} => h[s \ {pick[s]}] = g[s \ {pick[s]}]
      BY <2>3, <2>5
    <3> QED
      BY <2>2, <3>1
  <2>7. h \in [Small(S, m) -> V]
    BY <2>2, <2>4
  <2>8. m \in Done
    BY <2>6, <2>7
  <2> QED
    BY <2>0, <2>8
<1>4. \A n \in Nat : n \in Done
  <2> HIDE DEF Done
  <2> QED
    BY <1>2, <1>3, NumberInduction
<1>5. Cardinality(S) \in Done
  BY <1>4, FS_CardinalityType
<1>6. Small(S, Cardinality(S)) = SUBSET S
  <2>1. 0 \in Nat /\ 1 \in Nat /\ 1 = 0 + 1
    OBVIOUS
  <2> QED
    BY <2>1, SmallSets
<1> QED
  BY <1>5, <1>6

\* Two folds by the same rule agree.
LEMMA FoldUnique ==
    ASSUME NEW S, IsFiniteSet(S), NEW base, NEW pick, \A s \in SUBSET S : s # {} => pick[s] \in s,
           NEW step, NEW g, NEW h,
           IsFold(g, SUBSET S, base, pick, step), IsFold(h, SUBSET S, base, pick, step)
    PROVE  \A s \in SUBSET S : g[s] = h[s]
<1> DEFINE Agree == {n \in Nat : \A s \in Small(S, n) : g[s] = h[s]}
<1>1. 0 \in Agree
  <2>1. 0 \in Nat /\ 1 \in Nat /\ 1 = 0 + 1
    OBVIOUS
  <2>2. \A s \in Small(S, 0) : s = {}
    BY <2>1, SmallSets
  <2>3. g[{}] = h[{}]
    BY DEF IsFold
  <2> QED
    BY <2>2, <2>3
<1>2. ASSUME NEW n \in Nat, n \in Agree PROVE n + 1 \in Agree
  <2>1. PICK m \in Nat : m = n + 1
    OBVIOUS
  <2>2. ASSUME NEW s \in Small(S, m) PROVE g[s] = h[s]
    <3>1. CASE s = {}
      BY <3>1 DEF IsFold
    <3>2. CASE s # {}
      <4>1. s \in SUBSET S /\ pick[s] \in s
        BY <3>2 DEF Small
      <4>2. s \ {pick[s]} \in Small(S, n)
        BY <2>1, <4>1, SmallSets
      <4>3. g[s \ {pick[s]}] = h[s \ {pick[s]}]
        BY <1>2, <4>2
      <4> QED
        BY <3>2, <4>1, <4>3 DEF IsFold
    <3> QED
      BY <3>1, <3>2
  <2>3. m \in Agree
    BY <2>2
  <2> QED
    BY <2>1, <2>3
<1>3. \A n \in Nat : n \in Agree
  <2> HIDE DEF Agree
  <2> QED
    BY <1>1, <1>2, NumberInduction
<1>4. Cardinality(S) \in Agree
  BY <1>3, FS_CardinalityType
<1>5. Small(S, Cardinality(S)) = SUBSET S
  <2>1. 0 \in Nat /\ 1 \in Nat /\ 1 = 0 + 1
    OBVIOUS
  <2> QED
    BY <2>1, SmallSets
<1> QED
  BY <1>4, <1>5

-----------------------------------------------------------------------------
(* Sums *)

AnElement(S) == [s \in SUBSET S |-> CHOOSE x \in s : TRUE]
Adding(f, S) == [p \in S \X Int |-> p[2] + f[p[1]]]

\* it[s] is the sum of f over s, for every part s of S.
IsSum(it, f, S) == it \in [SUBSET S -> Int] /\ IsFold(it, SUBSET S, 0, AnElement(S), Adding(f, S))

LEMMA ElementPicked == ASSUME NEW S PROVE \A s \in SUBSET S : s # {} => AnElement(S)[s] \in s
  BY DEF AnElement

\* Whichever element a fold takes away first, any one element may be added last.
LEMMA SumAdds ==
    ASSUME NEW S, IsFiniteSet(S), NEW f, \A x \in S : f[x] \in Int, NEW it, IsSum(it, f, S)
    PROVE  /\ it[{}] = 0
           /\ \A s \in SUBSET S : \A x \in S \ s : it[s \cup {x}] = it[s] + f[x]
<1> DEFINE Adds == {n \in Nat : \A s \in Small(S, n) : \A x \in S \ s : it[s \cup {x}] = it[s] + f[x]}
           pick(s) == CHOOSE x \in s : TRUE
<1>1. ASSUME NEW s \in SUBSET S, s # {}
      PROVE  pick(s) \in s /\ it[s] = it[s \ {pick(s)}] + f[pick(s)] /\ it[s \ {pick(s)}] \in Int
  <2>1. pick(s) \in s /\ AnElement(S)[s] = pick(s)
    BY <1>1 DEF AnElement
  <2>2. it[s \ {pick(s)}] \in Int /\ pick(s) \in S
    BY <2>1 DEF IsSum
  <2>3. it[s] = Adding(f, S)[<<pick(s), it[s \ {pick(s)}]>>]
    BY <1>1, <2>1 DEF IsSum, IsFold
  <2> HIDE DEF pick
  <2> QED
    BY <2>1, <2>2, <2>3 DEF Adding
<1> HIDE DEF pick
<1>2. it[{}] = 0
  BY DEF IsSum, IsFold
<1>3. 0 \in Adds
  <2>1. 0 \in Nat /\ 1 \in Nat /\ 1 = 0 + 1
    OBVIOUS
  <2> SUFFICES ASSUME NEW s \in Small(S, 0), NEW x \in S \ s PROVE it[s \cup {x}] = it[s] + f[x]
    OBVIOUS
  <2>2. s = {}
    BY <2>1, SmallSets
  <2>3. {x} \in SUBSET S /\ {x} # {} /\ {x} \ {x} = {}
    OBVIOUS
  <2>4. pick({x}) \in {x} /\ it[{x}] = it[{x} \ {pick({x})}] + f[pick({x})]
    BY <1>1, <2>3
  <2>5. it[{x}] = it[{}] + f[x]
    BY <2>3, <2>4
  <2>6. {} \cup {x} = {x}
    OBVIOUS
  <2> QED
    BY <2>2, <2>5, <2>6
<1>4. ASSUME NEW n \in Nat, n \in Adds PROVE n + 1 \in Adds
  <2>1. PICK m \in Nat : m = n + 1
    OBVIOUS
  <2>2. ASSUME NEW s \in Small(S, m), NEW x \in S \ s PROVE it[s \cup {x}] = it[s] + f[x]
    <3>1. s \in SUBSET S /\ s \cup {x} \in SUBSET S /\ s \cup {x} # {}
      BY DEF Small
    <3>2. PICK y : y = pick(s \cup {x})
      OBVIOUS
    <3>3. y \in s \cup {x} /\ it[s \cup {x}] = it[(s \cup {x}) \ {y}] + f[y]
      BY <1>1, <3>1, <3>2
    <3>4. CASE y = x
      <4>1. (s \cup {x}) \ {y} = s
        BY <3>4
      <4> QED
        BY <3>3, <3>4, <4>1
    <3>5. CASE y # x
      <4>1. y \in s
        BY <3>3, <3>5
      <4>2. PICK r : r = s \ {y}
        OBVIOUS
      <4>3. r \in Small(S, n)
        BY <2>1, <4>1, <4>2, SmallSets
      <4>4. x \in S \ r /\ y \in S \ r /\ r \cup {y} = s /\ (s \cup {x}) \ {y} = r \cup {x}
        BY <3>1, <3>5, <4>1, <4>2
      <4>5. it[r \cup {x}] = it[r] + f[x] /\ it[s] = it[r] + f[y]
        BY <1>4, <4>3, <4>4
      <4>6. it[r] \in Int /\ f[x] \in Int /\ f[y] \in Int
        BY <4>3, <4>4 DEF IsSum, Small
      <4>7. it[s \cup {x}] = it[r \cup {x}] + f[y]
        BY <3>3, <4>4
      <4> QED
        BY <4>5, <4>6, <4>7
    <3> QED
      BY <3>4, <3>5
  <2>3. m \in Adds
    BY <2>2
  <2> QED
    BY <2>1, <2>3
<1>5. \A n \in Nat : n \in Adds
  <2> HIDE DEF Adds
  <2> QED
    BY <1>3, <1>4, NumberInduction
<1>6. Cardinality(S) \in Adds
  BY <1>5, FS_CardinalityType
<1>7. Small(S, Cardinality(S)) = SUBSET S
  <2>1. 0 \in Nat /\ 1 \in Nat /\ 1 = 0 + 1
    OBVIOUS
  <2> QED
    BY <2>1, SmallSets
<1> QED
  BY <1>2, <1>6, <1>7

LEMMA SumExists ==
    ASSUME NEW S, IsFiniteSet(S), NEW f, \A x \in S : f[x] \in Int
    PROVE  \E it : IsSum(it, f, S)
<1>1. \A x \in S : \A v \in Int : Adding(f, S)[<<x, v>>] \in Int
  BY DEF Adding
<1>2. PICK V, base, pick, step : V = Int /\ base = 0 /\ pick = AnElement(S) /\ step = Adding(f, S)
  OBVIOUS
<1>3. /\ base \in V
      /\ \A s \in SUBSET S : s # {} => pick[s] \in s
      /\ \A x \in S : \A v \in V : step[<<x, v>>] \in V
  BY <1>1, <1>2, ElementPicked
<1>4. \E it \in [SUBSET S -> V] : IsFold(it, SUBSET S, base, pick, step)
  BY <1>3, FoldExists
<1> QED
  BY <1>2, <1>4 DEF IsSum

\* A sum, unfolded.
Unfolded(it, f, S) ==
    it = [s \in SUBSET S |-> IF s = {} THEN 0
                             ELSE it[s \ {CHOOSE x \in s : TRUE}] + f[CHOOSE x \in s : TRUE]]

LEMMA SumUnfolds ==
    ASSUME NEW S, IsFiniteSet(S), NEW f, \A x \in S : f[x] \in Int, NEW it, IsSum(it, f, S)
    PROVE  Unfolded(it, f, S)
<1> DEFINE pick(s) == CHOOSE x \in s : TRUE
<1>1. it = [s \in SUBSET S |-> it[s]]
  BY DEF IsSum
<1>2. ASSUME NEW s \in SUBSET S
      PROVE  it[s] = IF s = {} THEN 0 ELSE it[s \ {pick(s)}] + f[pick(s)]
  <2>1. CASE s = {}
    BY <2>1 DEF IsSum, IsFold
  <2>2. CASE s # {}
    <3>1. pick(s) \in s /\ AnElement(S)[s] = pick(s)
      BY <2>2 DEF AnElement
    <3>2. it[s \ {pick(s)}] \in Int /\ pick(s) \in S
      BY <3>1 DEF IsSum
    <3>3. it[s] = Adding(f, S)[<<pick(s), it[s \ {pick(s)}]>>]
      BY <2>2, <3>1 DEF IsSum, IsFold
    <3> HIDE DEF pick
    <3> QED
      BY <2>2, <3>2, <3>3 DEF Adding
  <2> QED
    BY <2>1, <2>2
<1>3. it = [s \in SUBSET S |-> IF s = {} THEN 0 ELSE it[s \ {pick(s)}] + f[pick(s)]]
  <2> HIDE DEF pick
  <2> QED
    BY <1>1, <1>2
<1> QED
  BY <1>3 DEF Unfolded

\* Two sums of the same function agree, also when one has not been seen to be a number.
LEMMA SumUnique ==
    ASSUME NEW S, IsFiniteSet(S), NEW f, NEW it, NEW g, Unfolded(it, f, S), Unfolded(g, f, S)
    PROVE  it[S] = g[S]
<1> DEFINE Agree == {n \in Nat : \A s \in Small(S, n) : g[s] = it[s]}
           pick(s) == CHOOSE x \in s : TRUE
<1>0. \A s \in SUBSET S : s # {} => pick(s) \in s
  OBVIOUS
<1>1. ASSUME NEW s \in SUBSET S
      PROVE  /\ it[s] = IF s = {} THEN 0 ELSE it[s \ {pick(s)}] + f[pick(s)]
             /\ g[s] = IF s = {} THEN 0 ELSE g[s \ {pick(s)}] + f[pick(s)]
  BY DEF Unfolded
<1> HIDE DEF pick
<1>2. 0 \in Agree
  <2>1. 0 \in Nat /\ 1 \in Nat /\ 1 = 0 + 1
    OBVIOUS
  <2>2. \A s \in Small(S, 0) : s = {}
    BY <2>1, SmallSets
  <2>3. g[{}] = it[{}]
    BY <1>1
  <2> QED
    BY <2>2, <2>3
<1>3. ASSUME NEW n \in Nat, n \in Agree PROVE n + 1 \in Agree
  <2>1. PICK m \in Nat : m = n + 1
    OBVIOUS
  <2>2. ASSUME NEW s \in Small(S, m) PROVE g[s] = it[s]
    <3>1. s \in SUBSET S
      BY DEF Small
    <3>2. CASE s = {}
      BY <1>1, <3>1, <3>2
    <3>3. CASE s # {}
      <4>1. s \ {pick(s)} \in Small(S, n)
        BY <1>0, <2>1, <3>1, <3>3, SmallSets
      <4>2. g[s \ {pick(s)}] = it[s \ {pick(s)}]
        BY <1>3, <4>1
      <4> QED
        BY <1>1, <3>1, <3>3, <4>2
    <3> QED
      BY <3>2, <3>3
  <2>3. m \in Agree
    BY <2>2
  <2> QED
    BY <2>1, <2>3
<1>4. \A n \in Nat : n \in Agree
  <2> HIDE DEF Agree
  <2> QED
    BY <1>2, <1>3, NumberInduction
<1>5. Cardinality(S) \in Agree
  BY <1>4, FS_CardinalityType
<1>6. S \in Small(S, Cardinality(S))
  <2>1. 0 \in Nat /\ 1 \in Nat /\ 1 = 0 + 1
    OBVIOUS
  <2> QED
    BY <2>1, SmallSets
<1> QED
  BY <1>5, <1>6

\* Upto is such a sum, over the first k numbers.
LEMMA UptoIsSum ==
    ASSUME NEW f, NEW k \in Nat, \A j \in 1 .. k : f[j] \in Int
    PROVE  \E it : IsSum(it, f, 1 .. k) /\ Upto(f, k) = it[1 .. k]
<1>1. PICK S : S = 1 .. k
  OBVIOUS
<1>2. IsFiniteSet(S)
  BY <1>1, FS_Interval
<1>3. PICK it : IsSum(it, f, S)
  BY <1>1, <1>2, SumExists
<1>4. Unfolded(it, f, S)
  BY <1>1, <1>2, <1>3, SumUnfolds
<1>5. PICK g : g = CHOOSE h : Unfolded(h, f, S)
  OBVIOUS
<1>6. Unfolded(g, f, S)
  BY <1>4, <1>5
<1>7. Upto(f, k) = g[S]
  BY <1>1, <1>5 DEF Upto, FoldSet, MapThenFoldSet, Unfolded
<1>8. it[S] = g[S]
  BY <1>2, <1>4, <1>6, SumUnique
<1> QED
  BY <1>1, <1>3, <1>7, <1>8

\* Upto adds one element after the other.
LEMMA UptoHolds ==
    ASSUME NEW f, NEW k \in Nat, \A j \in 1 .. k : f[j] \in Int
    PROVE  /\ Upto(f, k) \in Int
           /\ k = 0 => Upto(f, k) = 0
           /\ k > 0 => Upto(f, k) = Upto(f, k - 1) + f[k]
<1>1. PICK S : S = 1 .. k
  OBVIOUS
<1>2. PICK it : IsSum(it, f, S) /\ Upto(f, k) = it[S]
  BY <1>1, UptoIsSum
<1>3. IsFiniteSet(S) /\ \A x \in S : f[x] \in Int
  BY <1>1, FS_Interval
<1>4. it[{}] = 0 /\ \A s \in SUBSET S : \A x \in S \ s : it[s \cup {x}] = it[s] + f[x]
  BY <1>2, <1>3, SumAdds
<1>5. Upto(f, k) \in Int
  BY <1>2 DEF IsSum
<1>6. k = 0 => Upto(f, k) = 0
  <2>1. k = 0 => S = {}
    BY <1>1
  <2> QED
    BY <1>2, <1>4, <2>1
<1>7. ASSUME k > 0 PROVE Upto(f, k) = Upto(f, k - 1) + f[k]
  <2>1. PICK m \in Nat : k = m + 1
    <3>1. k - 1 \in Nat /\ k = (k - 1) + 1
      BY <1>7
    <3> QED
      BY <3>1
  <2>2. PICK T : T = 1 .. m
    OBVIOUS
  <2>3. T \in SUBSET S /\ k \in S \ T /\ T \cup {k} = S
    BY <1>1, <2>1, <2>2
  <2>4. it[S] = it[T] + f[k]
    BY <1>4, <2>3
  <2>5. PICK g : IsSum(g, f, T) /\ Upto(f, m) = g[T]
    <3>1. \A j \in 1 .. m : f[j] \in Int
      BY <1>1, <1>3, <2>2, <2>3
    <3> QED
      BY <2>2, <3>1, UptoIsSum
  <2>6. IsFiniteSet(T) /\ \A x \in T : f[x] \in Int
    BY <1>3, <2>2, <2>3, FS_Interval
  <2>7. PICK r : r = [s \in SUBSET T |-> it[s]]
    OBVIOUS
  <2>8. Unfolded(r, f, T)
    <3>1. Unfolded(it, f, S)
      BY <1>2, <1>3, SumUnfolds
    <3>2. ASSUME NEW s \in SUBSET T
          PROVE  it[s] = IF s = {} THEN 0 ELSE r[s \ {CHOOSE x \in s : TRUE}] + f[CHOOSE x \in s : TRUE]
      <4>1. s \in SUBSET S /\ s \ {CHOOSE x \in s : TRUE} \in SUBSET T
        BY <2>3
      <4>2. it[s] = IF s = {} THEN 0 ELSE it[s \ {CHOOSE x \in s : TRUE}] + f[CHOOSE x \in s : TRUE]
        BY <3>1, <4>1 DEF Unfolded
      <4>3. r[s \ {CHOOSE x \in s : TRUE}] = it[s \ {CHOOSE x \in s : TRUE}]
        BY <2>7, <4>1
      <4> QED
        BY <4>2, <4>3
    <3> QED
      BY <2>7, <3>2 DEF Unfolded
  <2>9. Unfolded(g, f, T)
    BY <2>5, <2>6, SumUnfolds
  <2>10. r[T] = g[T] /\ r[T] = it[T]
    <3>1. r[T] = g[T]
      BY <2>6, <2>8, <2>9, SumUnique
    <3> QED
      BY <2>7, <3>1
  <2>11. m = k - 1
    BY <2>1
  <2> QED
    BY <1>2, <2>4, <2>5, <2>10, <2>11
<1> QED
  BY <1>5, <1>6, <1>7

\* The sums of natural numbers grow, by each of them.
LEMMA UptoGrows ==
    ASSUME NEW f, NEW n \in Nat, \A j \in 1 .. n : f[j] \in Nat
    PROVE  \A k \in 0 .. n : /\ Upto(f, k) \in Nat
                             /\ \A j \in 0 .. k : Upto(f, j) <= Upto(f, k)
<1> DEFINE Grows(k) == /\ Upto(f, k) \in Nat
                       /\ \A j \in 0 .. k : Upto(f, j) <= Upto(f, k)
           T == {k \in Nat : k <= n => Grows(k)}
<1>1. ASSUME NEW k \in Nat, k <= n
      PROVE  /\ Upto(f, k) \in Int
             /\ k = 0 => Upto(f, k) = 0
             /\ k > 0 => Upto(f, k) = Upto(f, k - 1) + f[k]
  <2>1. \A j \in 1 .. k : f[j] \in Int
    BY <1>1
  <2> QED
    BY <2>1, UptoHolds
<1>2. 0 \in T
  <2>1. Upto(f, 0) = 0
    BY <1>1
  <2>2. \A j \in 0 .. 0 : j = 0
    OBVIOUS
  <2> QED
    BY <2>1, <2>2
<1>3. ASSUME NEW k \in Nat, k \in T PROVE k + 1 \in T
  <2>1. PICK m \in Nat : m = k + 1
    OBVIOUS
  <2>2. ASSUME m <= n PROVE Grows(m)
    <3>1. Grows(k) /\ k <= n
      BY <1>3, <2>1, <2>2
    <3>2. Upto(f, m) = Upto(f, k) + f[m] /\ f[m] \in Nat
      <4>1. m > 0 /\ m - 1 = k /\ m \in 1 .. n
        BY <2>1, <2>2
      <4> QED
        BY <1>1, <2>2, <4>1
    <3>3. \A j \in 0 .. m : j = m \/ j \in 0 .. k
      BY <2>1
    <3>4. Upto(f, m) \in Nat /\ Upto(f, k) <= Upto(f, m)
      BY <3>1, <3>2
    <3>5. ASSUME NEW j \in 0 .. m PROVE Upto(f, j) <= Upto(f, m)
      <4>1. CASE j = m
        BY <3>4, <4>1
      <4>2. CASE j \in 0 .. k
        <5>1. Upto(f, j) <= Upto(f, k) /\ Upto(f, k) \in Nat
          BY <3>1, <4>2
        <5>2. Upto(f, j) \in Int
          <6>1. j \in Nat /\ j <= n
            BY <3>1, <4>2
          <6> QED
            BY <1>1, <6>1
        <5> QED
          BY <3>4, <5>1, <5>2
      <4> QED
        BY <3>3, <4>1, <4>2
    <3> QED
      BY <3>4, <3>5
  <2>3. m \in T
    BY <2>2
  <2> QED
    BY <2>1, <2>3
<1>4. \A k \in Nat : k \in T
  <2> HIDE DEF T
  <2> QED
    BY <1>2, <1>3, NumberInduction
<1> QED
  BY <1>4

\* The sum before an element, and after it.
LEMMA UptoSteps ==
    ASSUME NEW f, NEW n \in Nat, \A j \in 1 .. n : f[j] \in Nat, NEW k \in 1 .. n
    PROVE  /\ Upto(f, k - 1) \in Nat /\ Upto(f, k) \in Nat /\ Upto(f, n) \in Nat
           /\ Upto(f, k) = Upto(f, k - 1) + f[k]
           /\ Upto(f, k) <= Upto(f, n)
           /\ Upto(f, 0) = 0
           /\ \A j \in 1 .. k - 1 : Upto(f, j) \in Nat /\ Upto(f, j) <= Upto(f, k - 1)
<1>1. k - 1 \in 0 .. n /\ k \in 0 .. n /\ n \in 0 .. n /\ k \in 0 .. n /\ \A j \in 1 .. k - 1 : j \in 0 .. k - 1 /\ j \in 0 .. n
  OBVIOUS
<1>2. \A j \in 1 .. k : f[j] \in Int
  OBVIOUS
<1>3. Upto(f, k) = Upto(f, k - 1) + f[k]
  BY <1>2, UptoHolds
<1>4. Upto(f, 0) = 0
  <2>1. 0 \in Nat /\ \A j \in 1 .. 0 : f[j] \in Int
    OBVIOUS
  <2> QED
    BY <2>1, UptoHolds
<1>5. \A i \in 0 .. n : /\ Upto(f, i) \in Nat
                        /\ \A j \in 0 .. i : Upto(f, j) <= Upto(f, i)
  BY UptoGrows
<1>6. Upto(f, k - 1) \in Nat /\ Upto(f, k) \in Nat /\ Upto(f, n) \in Nat /\ Upto(f, k) <= Upto(f, n)
  BY <1>1, <1>5
<1>7. \A j \in 1 .. k - 1 : Upto(f, j) \in Nat /\ Upto(f, j) <= Upto(f, k - 1)
  BY <1>1, <1>5
<1> QED
  BY <1>3, <1>4, <1>6, <1>7

-----------------------------------------------------------------------------
(* Strategies *)

\* The first of the sums above r is that of an element which adds something.
LEMMA FirstAbove ==
    ASSUME NEW f, NEW n \in Nat, \A j \in 1 .. n : f[j] \in Nat,
           NEW r, r \in Nat, r < Upto(f, n),
           NEW k, k = Min({j \in 1 .. n : r < Upto(f, j)})
    PROVE  k \in 1 .. n /\ f[k] > 0
<1> DEFINE Above == {j \in 1 .. n : r < Upto(f, j)}
<1>1. n \in 1 .. n
  <2>1. n # 0
    <3>1. Upto(f, 0) = 0
      <4>1. 0 \in Nat /\ \A j \in 1 .. 0 : f[j] \in Int
        OBVIOUS
      <4> QED
        BY <4>1, UptoHolds
    <3> QED
      BY <3>1
  <2> QED
    BY <2>1
<1>2. n \in Above /\ Above \subseteq Nat
  BY <1>1
<1>3. k \in Above /\ \A j \in Above : k <= j
  <2>1. k = Min(Above)
    OBVIOUS
  <2> HIDE DEF Above
  <2> QED
    BY <1>2, <2>1, MinHolds
<1>4. k \in 1 .. n /\ r < Upto(f, k)
  BY <1>3
<1>5. PICK a, b : a = Upto(f, k - 1) /\ b = Upto(f, k)
  OBVIOUS
<1>6. a \in Nat /\ b \in Nat /\ b = a + f[k] /\ Upto(f, 0) = 0 /\ f[k] \in Nat
  BY <1>4, <1>5, UptoSteps
<1>7. a <= r
  <2>1. CASE k = 1
    BY <1>5, <1>6, <2>1
  <2>2. CASE k # 1
    <3>1. k - 1 \in 1 .. n /\ ~ (k <= k - 1)
      BY <1>4, <2>2
    <3>2. k - 1 \notin Above
      BY <1>3, <3>1
    <3> QED
      BY <1>5, <1>6, <3>1, <3>2
  <2> QED
    BY <2>1, <2>2
<1> QED
  BY <1>4, <1>5, <1>6, <1>7

\* The weight of an instance is a natural number.
LEMMA WeightType ==
    ASSUME NEW n \in Nat, NEW is \in [1 .. n -> InstanceRecords]
    PROVE  /\ \A j \in 1 .. n : EffectiveWeight(is)[j] \in Nat
           /\ Positions(is) = 1 .. n /\ Len(is) = n
<1>1. Positions(is) = 1 .. n /\ Len(is) = n
  BY DEF Positions
<1>2. ASSUME NEW j \in 1 .. n PROVE EffectiveWeight(is)[j] \in Nat
  <2>1. PICK w, s : w = is[j].weight /\ s = is[j].score
    OBVIOUS
  <2>2. w \in Nat /\ s \in Nat
    <3>1. is[j] \in InstanceRecords
      OBVIOUS
    <3> QED
      BY <2>1, <3>1 DEF InstanceRecords
  <2>3. w * s \in Nat
    BY <2>2
  <2>4. (w * s) \div 4 \in Nat
    BY <2>3, DivBounds
  <2>5. EffectiveWeight(is)[j] = (is[j].weight * is[j].score) \div 4
    BY <1>1 DEF EffectiveWeight
  <2> QED
    BY <2>1, <2>4, <2>5
<1> QED
  BY <1>1, <1>2

LEMMA WeightlessHolds ==
    ASSUME NEW n \in Nat \ {0}, NEW is \in [1 .. n -> InstanceRecords]
    PROVE  WeightlessUnchosen(is)
<1>1. PICK w : w = EffectiveWeight(is)
  OBVIOUS
<1>2. Positions(is) = 1 .. n /\ Len(is) = n /\ \A j \in 1 .. n : w[j] \in Nat
  BY <1>1, WeightType
<1>3. PICK total : total = Upto(w, n)
  OBVIOUS
<1>4. total \in Nat
  <2>1. n \in 1 .. n
    OBVIOUS
  <2> QED
    BY <1>2, <1>3, <2>1, UptoSteps
<1>5. ASSUME NEW index \in 0 .. total, total > 0
      PROVE  w[WeightedRoundRobin(is, index)] > 0
  <2>1. PICK r : r = index % total
    OBVIOUS
  <2>2. r \in Nat /\ r < total
    BY <1>4, <1>5, <2>1
  <2>3. WeightedRoundRobin(is, index) = Min({j \in 1 .. n : r < Upto(w, j)})
    BY <1>1, <1>2, <1>3, <1>5, <2>1 DEF WeightedRoundRobin
  <2> QED
    BY <1>2, <1>3, <2>2, <2>3, FirstAbove
<1> QED
  BY <1>1, <1>2, <1>3, <1>5 DEF WeightlessUnchosen

LEMMA LeastLoadedHolds ==
    ASSUME NEW n \in Nat \ {0}, NEW load \in [1 .. n -> Nat]
    PROVE  LeastLoaded(load) \in 1 .. n /\ \A j \in 1 .. n : load[LeastLoaded(load)] <= load[j]
<1> DEFINE Values == {load[j] : j \in 1 .. n}
           Lightest == {k \in DOMAIN load : \A j \in DOMAIN load : load[k] <= load[j]}
<1>1. Values \subseteq Nat /\ Values # {}
  <2>1. 1 \in 1 .. n
    OBVIOUS
  <2> QED
    BY <2>1
<1>2. PICK v \in Values : \A u \in Values : v <= u
  <2> HIDE DEF Values
  <2> QED
    BY <1>1, MinHolds
<1>3. PICK k \in 1 .. n : load[k] = v
  BY <1>2
<1>4. k \in Lightest
  BY <1>2, <1>3
<1>5. Lightest \subseteq Nat /\ Lightest \subseteq 1 .. n
  OBVIOUS
<1>6. Min(Lightest) \in Lightest
  <2> HIDE DEF Lightest
  <2> QED
    BY <1>4, <1>5, MinHolds
<1>7. LeastLoaded(load) \in Lightest
  BY <1>6 DEF LeastLoaded
<1> QED
  BY <1>7

\* What a load is divided by, in fortieths, grows with the score and is never more than 40.
LEMMA Divisor ==
    ASSUME NEW s, s \in 0 .. 4
    PROVE  Max({10 * s, 4}) = IF s = 0 THEN 4 ELSE 10 * s
<1>1. PICK t : t = 10 * s
  OBVIOUS
<1>2. t \in Nat /\ t <= 40 /\ (s = 0 => t = 0) /\ (s # 0 => t >= 10)
  BY <1>1
<1>3. {t, 4} \subseteq Nat /\ {t, 4} # {} /\ 40 \in Nat /\ \A m \in {t, 4} : m <= 40
  BY <1>2
<1>4. PICK m : m = Max({t, 4})
  OBVIOUS
<1>5. m \in {t, 4} /\ t <= m /\ 4 <= m
  BY <1>3, <1>4, MaxHolds
<1>6. m = IF s = 0 THEN 4 ELSE t
  BY <1>2, <1>5
<1> QED
  BY <1>1, <1>4, <1>6

LEMMA FloorsDiffer ==
    ASSUME NEW a \in Nat, NEW b \in Nat, a < b,
           NEW c \in 4 .. 40, NEW d \in 4 .. 40, d <= c
    PROVE  (a * 40) \div c < (b * 40) \div d
<1>1. PICK q, p : q = (a * 40) \div c /\ p = (b * 40) \div d
  OBVIOUS
<1>2. q \in Nat /\ c * q <= a * 40
  <2>1. a * 40 \in Nat /\ c \in Nat \ {0}
    OBVIOUS
  <2> QED
    BY <1>1, <2>1, DivBounds
<1>3. p \in Nat /\ b * 40 < d * p + d
  <2>1. b * 40 \in Nat /\ d \in Nat \ {0}
    OBVIOUS
  <2> QED
    BY <1>1, <2>1, DivBounds
<1>4. a * 40 + 40 <= b * 40
  OBVIOUS
<1>5. ASSUME p <= q PROVE FALSE
  <2>1. d * p <= d * q /\ d * q <= c * q
    BY <1>2, <1>3, <1>5
  <2>2. d * p <= a * 40
    <3>1. d * p \in Int /\ d * q \in Int /\ c * q \in Int
      BY <1>2, <1>3
    <3> QED
      BY <1>2, <2>1, <3>1
  <2>3. d * p + d <= a * 40 + 40
    <3>1. d * p \in Int
      BY <1>3
    <3> QED
      BY <2>2, <3>1
  <2>4. d * p + d \in Int
    BY <1>3
  <2> QED
    BY <1>3, <1>4, <2>3, <2>4
<1> QED
  BY <1>1, <1>2, <1>3, <1>5

\* The least of the scaled loads is not undercut by an instance with at least its score.
LEMMA ScaledUndominated ==
    ASSUME NEW n \in Nat \ {0}, NEW is \in [1 .. n -> InstanceRecords], NEW load \in [1 .. n -> Nat],
           NEW k, k = LeastLoaded([j \in Positions(is) |-> Scaled(load[j], is[j])])
    PROVE  k \in 1 .. n /\ Undominated(is, k, load)
<1> DEFINE scaled == [j \in Positions(is) |-> Scaled(load[j], is[j])]
<1>1. Positions(is) = 1 .. n
  BY DEF Positions
<1>2. ASSUME NEW j \in 1 .. n
      PROVE  \E c \in 4 .. 40 : /\ c = IF is[j].score = 0 THEN 4 ELSE 10 * is[j].score
                                /\ Scaled(load[j], is[j]) = (load[j] * 40) \div c
  <2>1. PICK s : s = is[j].score
    OBVIOUS
  <2>2. s \in 0 .. 4
    <3>1. is[j] \in InstanceRecords
      OBVIOUS
    <3> QED
      BY <2>1, <3>1 DEF InstanceRecords
  <2>3. PICK c : c = Max({10 * s, 4})
    OBVIOUS
  <2>4. c = IF s = 0 THEN 4 ELSE 10 * s
    BY <2>2, <2>3, Divisor
  <2>5. c \in 4 .. 40
    BY <2>2, <2>4
  <2>6. Scaled(load[j], is[j]) = (load[j] * 40) \div c
    BY <2>1, <2>3 DEF Scaled
  <2> QED
    BY <2>1, <2>4, <2>5, <2>6
<1>3. scaled \in [1 .. n -> Nat]
  <2>1. ASSUME NEW j \in 1 .. n PROVE Scaled(load[j], is[j]) \in Nat
    <3>1. PICK c \in 4 .. 40 : Scaled(load[j], is[j]) = (load[j] * 40) \div c
      BY <1>2
    <3>2. load[j] * 40 \in Nat /\ c \in Nat \ {0}
      OBVIOUS
    <3>3. (load[j] * 40) \div c \in Nat
      BY <3>2, DivBounds
    <3> QED
      BY <3>1, <3>3
  <2> QED
    BY <1>1, <2>1
<1>4. k \in 1 .. n /\ \A j \in 1 .. n : scaled[k] <= scaled[j]
  <2>1. k = LeastLoaded(scaled)
    OBVIOUS
  <2> HIDE DEF scaled
  <2> QED
    BY <1>3, <2>1, LeastLoadedHolds
<1>5. ASSUME NEW j \in 1 .. n, is[j].score >= is[k].score PROVE load[k] <= load[j]
  <2>1. PICK c \in 4 .. 40 : /\ c = IF is[j].score = 0 THEN 4 ELSE 10 * is[j].score
                             /\ Scaled(load[j], is[j]) = (load[j] * 40) \div c
    BY <1>2
  <2>2. PICK d \in 4 .. 40 : /\ d = IF is[k].score = 0 THEN 4 ELSE 10 * is[k].score
                             /\ Scaled(load[k], is[k]) = (load[k] * 40) \div d
    BY <1>2, <1>4
  <2>3. PICK s, t : s = is[j].score /\ t = is[k].score
    OBVIOUS
  <2>4. s \in 0 .. 4 /\ t \in 0 .. 4 /\ s >= t
    <3>1. is[j] \in InstanceRecords /\ is[k] \in InstanceRecords
      BY <1>4
    <3> QED
      BY <1>5, <2>3, <3>1 DEF InstanceRecords
  <2>5. d <= c
    <3>1. c = (IF s = 0 THEN 4 ELSE 10 * s) /\ d = IF t = 0 THEN 4 ELSE 10 * t
      BY <2>1, <2>2, <2>3
    <3> QED
      BY <2>4, <3>1
  <2>6. PICK a, b : a = load[j] /\ b = load[k]
    OBVIOUS
  <2>7. a \in Nat /\ b \in Nat
    BY <1>4, <2>6
  <2>8. ~ (a < b)
    <3>1. a < b => (a * 40) \div c < (b * 40) \div d
      BY <2>5, <2>7, FloorsDiffer
    <3>2. (b * 40) \div d <= (a * 40) \div c
      BY <1>1, <1>4, <2>1, <2>2, <2>6
    <3>3. (b * 40) \div d \in Int /\ (a * 40) \div c \in Int
      BY <2>7
    <3> QED
      BY <3>1, <3>2, <3>3
  <2> QED
    BY <2>6, <2>7, <2>8
<1> QED
  BY <1>1, <1>4, <1>5 DEF Undominated

LEMMA ConnectionsUndominated ==
    ASSUME NEW n \in Nat \ {0}, NEW is \in [1 .. n -> InstanceRecords]
    PROVE  Undominated(is, LeastConnections(is), [k \in Positions(is) |-> is[k].active])
<1>1. Positions(is) = 1 .. n
  BY DEF Positions
<1>2. PICK load : load = [k \in Positions(is) |-> is[k].active]
  OBVIOUS
<1>3. load \in [1 .. n -> Nat]
  BY <1>1, <1>2 DEF InstanceRecords
<1>4. LeastConnections(is) = LeastLoaded([j \in Positions(is) |-> Scaled(load[j], is[j])])
  <2>1. [j \in Positions(is) |-> Scaled(load[j], is[j])] = [j \in Positions(is) |-> Scaled(is[j].active, is[j])]
    BY <1>2
  <2> QED
    BY <2>1 DEF LeastConnections
<1>5. Undominated(is, LeastConnections(is), load)
  BY <1>3, <1>4, ScaledUndominated
<1> QED
  BY <1>2, <1>5

LEMMA ResponseTimesUndominated ==
    ASSUME NEW n \in Nat \ {0}, NEW is \in [1 .. n -> InstanceRecords]
    PROVE  Undominated(is, LeastResponseTime(is), [k \in Positions(is) |-> ResponseTime(is[k])])
<1>1. Positions(is) = 1 .. n
  BY DEF Positions
<1>2. PICK time : time = [k \in Positions(is) |-> ResponseTime(is[k])]
  OBVIOUS
<1>3. \A j \in 1 .. n : time[j] \in Nat
  <2>1. ASSUME NEW j \in 1 .. n PROVE ResponseTime(is[j]) \in Nat
    <3>1. is[j] \in InstanceRecords
      OBVIOUS
    <3> QED
      BY <3>1 DEF InstanceRecords, ResponseTime
  <2> QED
    BY <1>1, <1>2, <2>1
<1>4. PICK load : load = [k \in 1 .. n |-> 1000 * time[k]]
  OBVIOUS
<1>5. load \in [1 .. n -> Nat]
  BY <1>3, <1>4
<1>6. LeastResponseTime(is) = LeastLoaded([j \in Positions(is) |-> Scaled(load[j], is[j])])
  <2>1. \A j \in 1 .. n : load[j] = 1000 * ResponseTime(is[j])
    BY <1>1, <1>2, <1>4
  <2>2. [j \in Positions(is) |-> Scaled(load[j], is[j])]
            = [j \in Positions(is) |-> Scaled(1000 * ResponseTime(is[j]), is[j])]
    BY <1>1, <2>1
  <2> QED
    BY <2>2 DEF LeastResponseTime
<1>7. LeastResponseTime(is) \in 1 .. n /\ Undominated(is, LeastResponseTime(is), load)
  BY <1>5, <1>6, ScaledUndominated
<1>8. ASSUME NEW j \in 1 .. n, NEW k \in 1 .. n, load[k] <= load[j] PROVE time[k] <= time[j]
  <2>1. load[k] = 1000 * time[k] /\ load[j] = 1000 * time[j]
    BY <1>4
  <2>2. time[k] \in Nat /\ time[j] \in Nat
    BY <1>3
  <2> QED
    BY <1>8, <2>1, <2>2
<1>9. Undominated(is, LeastResponseTime(is), time)
  BY <1>1, <1>7, <1>8 DEF Undominated
<1> QED
  BY <1>2, <1>9

LEMMA ScorelessHolds ==
    ASSUME NEW n \in Nat \ {0}, NEW is \in [1 .. n -> InstanceRecords], NEW now \in Nat
    PROVE  ScorelessDrawn(is, now)
<1>1. Positions(is) = 1 .. n /\ Len(is) = n
  BY DEF Positions
<1>2. PICK score : score = [k \in Positions(is) |-> is[k].score]
  OBVIOUS
<1>3. \A j \in 1 .. n : score[j] \in Nat /\ score[j] = is[j].score
  <2>1. \A j \in 1 .. n : is[j] \in InstanceRecords
    OBVIOUS
  <2>2. \A i \in InstanceRecords : i.score \in Nat
    BY DEF InstanceRecords
  <2>3. \A j \in 1 .. n : score[j] = is[j].score
    BY <1>1, <1>2
  <2> QED
    BY <2>1, <2>2, <2>3
<1>4. PICK total : total = Upto(score, n)
  OBVIOUS
<1>5. total \in Nat
  <2>1. n \in 1 .. n
    OBVIOUS
  <2> QED
    BY <1>3, <1>4, <2>1, UptoSteps
<1>6. CASE total = 0
  <2>1. ASSUME NEW k \in 1 .. n PROVE is[k].score = 0
    <3>1. PICK a, b : a = Upto(score, k - 1) /\ b = Upto(score, k)
      OBVIOUS
    <3>2. a \in Nat /\ b \in Nat /\ b = a + score[k] /\ b <= total
      BY <1>3, <1>4, <3>1, UptoSteps
    <3>3. score[k] = 0
      BY <1>3, <1>6, <3>2
    <3> QED
      BY <1>3, <3>3
  <2> QED
    BY <1>1, <2>1 DEF ScorelessDrawn
<1>7. CASE total # 0 /\ now % 1000 # 0
  <2>1. PICK target : target = total * (now % 1000)
    OBVIOUS
  <2>2. target \in Nat /\ target > 0 /\ target <= 1000 * total
    <3>1. PICK r : r = now % 1000
      OBVIOUS
    <3>2. r \in 1 .. 999
      BY <1>7, <3>1
    <3>3. total * r \in Nat /\ total * r > 0 /\ total * r <= 1000 * total
      BY <1>5, <1>7, <3>2
    <3> QED
      BY <2>1, <3>1, <3>3
  <2>3. PICK Far : Far = {k \in 1 .. n : target <= 1000 * Upto(score, k)}
    OBVIOUS
  <2>4. RandomChoice(is, now) = Min(Far)
    BY <1>1, <1>2, <1>4, <1>7, <2>1, <2>3 DEF RandomChoice
  <2>5. Far \subseteq Nat /\ n \in Far
    BY <1>4, <2>2, <2>3
  <2>6. PICK k : k = Min(Far)
    OBVIOUS
  <2>7. k \in Far /\ \A j \in Far : k <= j
    BY <2>5, <2>6, MinHolds
  <2>8. k \in 1 .. n /\ target <= 1000 * Upto(score, k)
    BY <2>3, <2>7
  <2>9. PICK a, b : a = Upto(score, k - 1) /\ b = Upto(score, k)
    OBVIOUS
  <2>10. a \in Nat /\ b \in Nat /\ b = a + score[k] /\ Upto(score, 0) = 0
    BY <1>3, <2>8, <2>9, UptoSteps
  <2>11. score[k] > 0
    <3>1. SUFFICES ASSUME score[k] = 0 PROVE FALSE
      BY <1>3, <2>8
    <3>2. target <= 1000 * a
      BY <2>8, <2>9, <2>10, <3>1
    <3>3. CASE k = 1
      BY <2>2, <2>9, <2>10, <3>2, <3>3
    <3>4. CASE k # 1
      <4>1. k - 1 \in 1 .. n /\ ~ (k <= k - 1)
        BY <2>8, <3>4
      <4>2. k - 1 \in Far
        BY <2>3, <2>9, <3>2, <4>1
      <4> QED
        BY <2>7, <4>1, <4>2
    <3> QED
      BY <3>3, <3>4
  <2> QED
    BY <1>3, <1>7, <2>4, <2>6, <2>8, <2>11 DEF ScorelessDrawn
<1>8. CASE total # 0 /\ now % 1000 = 0
  <2>1. \A j \in 1 .. n : Upto(score, j) \in Nat
    BY <1>3, UptoSteps
  <2>2. PICK target : target = total * (now % 1000)
    OBVIOUS
  <2>3. RandomChoice(is, now) = Min(1 .. n)
    <3>1. target = 0
      BY <1>5, <1>8, <2>2
    <3>2. {k \in 1 .. n : target <= 1000 * Upto(score, k)} = 1 .. n
      BY <2>1, <3>1
    <3>3. RandomChoice(is, now) = Min({k \in 1 .. n : target <= 1000 * Upto(score, k)})
      BY <1>1, <1>2, <1>4, <1>8, <2>2 DEF RandomChoice
    <3> QED
      BY <3>2, <3>3
  <2>4. Min(1 .. n) = 1
    <3>1. 1 .. n \subseteq Nat /\ 1 \in 1 .. n
      OBVIOUS
    <3>2. Min(1 .. n) \in 1 .. n /\ Min(1 .. n) <= 1
      BY <3>1, MinHolds
    <3> QED
      BY <3>2
  <2> QED
    BY <1>8, <2>3, <2>4 DEF ScorelessDrawn
<1> QED
  BY <1>6, <1>7, <1>8

\* No instance without weight is chosen by weight, none over another that is as good and
\* less loaded, and one without a score is drawn only where the clock starts a cycle and
\* the list with it: for any list, in any order, and any index and clock.
THEOREM StrategiesSoundHolds == (Inputs => StrategiesSound) /\ (InputSpec => []StrategiesSound)
<1>1. Inputs => StrategiesSound
  <2>1. SUFFICES ASSUME Inputs, input.of = "list"
                 PROVE  /\ WeightlessUnchosen(input.list)
                        /\ Undominated(input.list, LeastConnections(input.list),
                                       [k \in Positions(input.list) |-> input.list[k].active])
                        /\ Undominated(input.list, LeastResponseTime(input.list),
                                       [k \in Positions(input.list) |-> ResponseTime(input.list[k])])
                        /\ ScorelessDrawn(input.list, input.now)
    BY DEF StrategiesSound
  <2>2. PICK is, now : is = input.list /\ now = input.now
    OBVIOUS
  <2>3. PICK n \in Nat \ {0} : is \in [1 .. n -> InstanceRecords]
    BY <2>1, <2>2 DEF Inputs
  <2>4. now \in Nat
    BY <2>1, <2>2 DEF Inputs
  <2>5. /\ WeightlessUnchosen(is)
        /\ Undominated(is, LeastConnections(is), [k \in Positions(is) |-> is[k].active])
        /\ Undominated(is, LeastResponseTime(is), [k \in Positions(is) |-> ResponseTime(is[k])])
        /\ ScorelessDrawn(is, now)
    BY <2>3, <2>4, WeightlessHolds, ConnectionsUndominated, ResponseTimesUndominated, ScorelessHolds
  <2> QED
    BY <2>2, <2>5
<1> QED
  BY <1>1, InputsHold, PTL

-----------------------------------------------------------------------------
(* Latencies *)

\* recordLatency, for the latencies at the positions s, the last one last.
Records(it, all, size) ==
    it = [s \in SUBSET DOMAIN all |->
             IF s = {} THEN [slots |-> [k \in 1 .. size |-> 0], index |-> 0]
             ELSE [slots |-> [it[s \ {Max(s)}].slots EXCEPT ![it[s \ {Max(s)}].index + 1] = all[Max(s)]],
                   index |-> (it[s \ {Max(s)}].index + 1) % size]]

LEMMA RecordedUnfolds ==
    ASSUME NEW all, NEW size
    PROVE  Recorded(all, size) = (CHOOSE it : Records(it, all, size))[DOMAIN all].slots
  BY DEF Recorded, FoldLeft, MapThenFoldSet, Records

LEMMA ModHolds ==
    ASSUME NEW a \in Int, NEW b \in Nat \ {0}
    PROVE  a = b * (a \div b) + (a % b) /\ a \div b \in Int /\ a % b \in Int /\ 0 <= a % b /\ a % b < b
  OBVIOUS

\* A number has one quotient and one rest.
LEMMA RestUnique ==
    ASSUME NEW a \in Int, NEW b \in Nat \ {0}, NEW q \in Int, NEW r \in Int, a = b * q + r, 0 <= r, r < b
    PROVE  a % b = r
<1>1. PICK p, t : p = a \div b /\ t = a % b
  OBVIOUS
<1>2. a = b * p + t /\ p \in Int /\ t \in Int /\ 0 <= t /\ t < b
  BY <1>1, ModHolds
<1>3. b * (p - q) = r - t
  BY <1>2
<1>4. ASSUME p - q >= 1 PROVE FALSE
  <2>1. b * (p - q) >= b
    BY <1>2, <1>4
  <2> QED
    BY <1>2, <1>3, <2>1
<1>5. ASSUME p - q <= -1 PROVE FALSE
  <2>1. b * (p - q) <= -b
    BY <1>2, <1>5
  <2> QED
    BY <1>2, <1>3, <2>1
<1>6. p = q
  BY <1>2, <1>4, <1>5
<1> QED
  BY <1>1, <1>2, <1>6

\* The slot of the k-th latency.
Slot(k, size) == ((k - 1) % size) + 1

\* The size numbers up to m have different slots, all of them in the buffer, and the one
\* after them takes the slot of the first.
LEMMA Slots ==
    ASSUME NEW size \in Nat \ {0}, NEW j \in Nat \ {0}, NEW k \in Nat \ {0}
    PROVE  /\ Slot(k, size) \in 1 .. size
           /\ Slot(k, size) <= k
           /\ j < k /\ k - j < size => Slot(j, size) # Slot(k, size)
           /\ k % size = Slot(k + 1, size) - 1
           /\ (((k - 1) % size) + 1) % size = k % size
<1>1. PICK q, r : q = (k - 1) \div size /\ r = (k - 1) % size
  OBVIOUS
<1>2. k - 1 = size * q + r /\ q \in Int /\ r \in Int /\ 0 <= r /\ r < size
  BY <1>1, ModHolds
<1>3. q >= 0
  <2>1. SUFFICES ASSUME q <= -1 PROVE FALSE
    BY <1>2
  <2>2. size * q <= -size
    BY <1>2, <2>1
  <2> QED
    BY <1>2, <2>2
<1>4. r <= k - 1
  <2>1. size * q >= 0
    BY <1>2, <1>3
  <2> QED
    BY <1>2, <2>1
<1>5. ASSUME j < k, k - j < size, (j - 1) % size = r PROVE FALSE
  <2>1. PICK p : p = (j - 1) \div size
    OBVIOUS
  <2>2. j - 1 = size * p + r /\ p \in Int
    BY <1>5, <2>1, ModHolds
  <2>3. size * (q - p) = k - j
    BY <1>2, <2>2
  <2>4. CASE q - p >= 1
    <3>1. size * (q - p) >= size
      BY <1>2, <2>2, <2>4
    <3> QED
      BY <1>5, <2>3, <3>1
  <2>5. CASE q - p <= 0
    <3>1. size * (q - p) <= 0
      BY <1>2, <2>2, <2>5
    <3> QED
      BY <1>5, <2>3, <3>1
  <2> QED
    BY <1>2, <2>2, <2>4, <2>5
<1>6. (r + 1) % size = k % size
  <2>1. CASE r + 1 < size
    <3>1. k = size * q + (r + 1) /\ r + 1 = size * 0 + (r + 1)
      BY <1>2
    <3>2. k % size = r + 1 /\ (r + 1) % size = r + 1
      BY <1>2, <2>1, <3>1, RestUnique
    <3> QED
      BY <3>2
  <2>2. CASE r + 1 = size
    <3>1. k = size * (q + 1) + 0 /\ r + 1 = size * 1 + 0
      BY <1>2, <2>2
    <3>2. k % size = 0 /\ (r + 1) % size = 0
      BY <1>2, <3>1, RestUnique
    <3> QED
      BY <3>2
  <2> QED
    BY <1>2, <2>1, <2>2
<1>7. k % size = Slot(k + 1, size) - 1
  <2>1. (k + 1) - 1 = k /\ k % size \in Int
    BY ModHolds
  <2> QED
    BY <2>1 DEF Slot
<1> QED
  BY <1>1, <1>2, <1>4, <1>5, <1>6, <1>7 DEF Slot

BufferStates(size) == [slots : [1 .. size -> Nat], index : 0 .. size - 1]

LEMMA RecordsExist ==
    ASSUME NEW n \in Nat, NEW all \in [1 .. n -> Nat], NEW size \in Nat \ {0}
    PROVE  \E it : Records(it, all, size)
<1>1. PICK D : D = DOMAIN all
  OBVIOUS
<1>2. D = 1 .. n /\ IsFiniteSet(D) /\ D \subseteq Nat
  BY <1>1, FS_Interval
<1>3. PICK pick : pick = [s \in SUBSET D |-> Max(s)]
  OBVIOUS
<1>4. ASSUME NEW s \in SUBSET D, s # {} PROVE pick[s] \in s /\ pick[s] = Max(s)
  <2>1. s \subseteq Nat /\ \A m \in s : m <= n
    BY <1>2
  <2>2. Max(s) \in s
    BY <1>4, <2>1, MaxHolds
  <2> QED
    BY <1>3, <2>2
<1>5. PICK V : V = BufferStates(size)
  OBVIOUS
<1>6. PICK base : base = [slots |-> [k \in 1 .. size |-> 0], index |-> 0]
  OBVIOUS
<1>7. base \in V
  BY <1>5, <1>6 DEF BufferStates
<1>8. PICK step : step = [p \in D \X V |-> [slots |-> [p[2].slots EXCEPT ![p[2].index + 1] = all[p[1]]],
                                            index |-> (p[2].index + 1) % size]]
  OBVIOUS
<1>9. ASSUME NEW x \in D, NEW v \in V
      PROVE  /\ step[<<x, v>>] = [slots |-> [v.slots EXCEPT ![v.index + 1] = all[x]],
                                  index |-> (v.index + 1) % size]
             /\ step[<<x, v>>] \in V
  <2>1. <<x, v>> \in D \X V /\ <<x, v>>[1] = x /\ <<x, v>>[2] = v
    OBVIOUS
  <2>2. step[<<x, v>>] = [slots |-> [v.slots EXCEPT ![v.index + 1] = all[x]],
                          index |-> (v.index + 1) % size]
    BY <1>8, <2>1
  <2>3. v.slots \in [1 .. size -> Nat] /\ v.index \in 0 .. size - 1 /\ all[x] \in Nat
    BY <1>2, <1>5 DEF BufferStates
  <2>4. [v.slots EXCEPT ![v.index + 1] = all[x]] \in [1 .. size -> Nat]
    BY <2>3
  <2>5. (v.index + 1) % size \in 0 .. size - 1
    <3>1. PICK i : i = v.index + 1
      OBVIOUS
    <3>2. i \in Int
      BY <2>3, <3>1
    <3>3. i % size \in Int /\ 0 <= i % size /\ i % size < size
      BY <3>2, ModHolds
    <3> QED
      BY <3>1, <3>3
  <2> QED
    BY <1>5, <2>2, <2>4, <2>5 DEF BufferStates
<1>10. PICK it \in [SUBSET D -> V] : IsFold(it, SUBSET D, base, pick, step)
  BY <1>2, <1>4, <1>7, <1>9, FoldExists
<1>11. ASSUME NEW s \in SUBSET D
       PROVE  it[s] = IF s = {} THEN [slots |-> [k \in 1 .. size |-> 0], index |-> 0]
                      ELSE [slots |-> [it[s \ {Max(s)}].slots EXCEPT ![it[s \ {Max(s)}].index + 1] = all[Max(s)]],
                            index |-> (it[s \ {Max(s)}].index + 1) % size]
  <2>1. CASE s = {}
    BY <1>6, <1>10, <2>1 DEF IsFold
  <2>2. CASE s # {}
    <3>1. pick[s] \in s /\ pick[s] = Max(s)
      BY <1>4, <2>2
    <3>2. PICK x, v : x = Max(s) /\ v = it[s \ {x}]
      OBVIOUS
    <3>3. x \in D /\ v \in V
      BY <1>10, <3>1, <3>2
    <3>4. it[s] = step[<<x, v>>]
      BY <1>10, <2>2, <3>1, <3>2 DEF IsFold
    <3> QED
      BY <1>9, <2>2, <3>2, <3>3, <3>4
  <2> QED
    BY <2>1, <2>2
<1>12. Records(it, all, size)
  <2>1. it = [s \in SUBSET D |-> it[s]]
    BY <1>10
  <2> QED
    BY <1>1, <1>11, <2>1 DEF Records
<1> QED
  BY <1>12

\* The slots of a buffer after m of the latencies: the last ones, and nothing.
LastRecorded(slots, all, size, m) ==
    /\ slots \in [1 .. size -> Nat]
    /\ \A k \in 1 .. m : k > m - size => slots[Slot(k, size)] = all[k]
    /\ \A i \in 1 .. size : i > m => slots[i] = 0

LEMMA RecordedHolds ==
    ASSUME NEW n \in Nat, NEW all \in [1 .. n -> Nat], NEW size \in Nat \ {0}
    PROVE  LastRecorded(Recorded(all, size), all, size, n)
<1>1. PICK it : it = CHOOSE h : Records(h, all, size)
  OBVIOUS
<1>2. Records(it, all, size)
  BY <1>1, RecordsExist
<1>3. Recorded(all, size) = it[1 .. n].slots
  BY <1>1, RecordedUnfolds
<1>4. it[{}].slots = [k \in 1 .. size |-> 0] /\ it[{}].index = 0
  BY <1>2 DEF Records
<1>5. ASSUME NEW k \in 1 .. n
      PROVE  /\ it[1 .. k].slots = [it[1 .. k - 1].slots EXCEPT ![it[1 .. k - 1].index + 1] = all[k]]
             /\ it[1 .. k].index = (it[1 .. k - 1].index + 1) % size
  <2>1. PICK s, r : s = 1 .. k /\ r = 1 .. k - 1
    OBVIOUS
  <2>2. s \in SUBSET DOMAIN all /\ s # {} /\ s \subseteq Nat /\ k \in Nat /\ \A m \in s : m <= k
    BY <2>1
  <2>3. Max(s) \in s /\ \A m \in s : m <= Max(s)
    BY <2>2, MaxHolds
  <2>4. Max(s) = k /\ s \ {k} = r
    BY <2>1, <2>3
  <2>5. it[s] = [slots |-> [it[r].slots EXCEPT ![it[r].index + 1] = all[k]], index |-> (it[r].index + 1) % size]
    BY <1>2, <2>2, <2>4 DEF Records
  <2> QED
    BY <2>1, <2>5
<1> DEFINE Done == {m \in Nat : m <= n => LastRecorded(it[1 .. m].slots, all, size, m) /\ it[1 .. m].index = m % size}
<1>6. 0 \in Done
  <2>1. 1 .. 0 = {} /\ 0 % size = 0
    OBVIOUS
  <2>2. LastRecorded(it[{}].slots, all, size, 0)
    BY <1>4, <2>1 DEF LastRecorded
  <2> QED
    BY <1>4, <2>1, <2>2
<1>7. ASSUME NEW m \in Nat, m \in Done PROVE m + 1 \in Done
  <2>1. PICK k \in Nat : k = m + 1
    OBVIOUS
  <2>2. ASSUME k <= n PROVE LastRecorded(it[1 .. k].slots, all, size, k) /\ it[1 .. k].index = k % size
    <3>1. LastRecorded(it[1 .. m].slots, all, size, m) /\ it[1 .. m].index = m % size
      BY <1>7, <2>1, <2>2
    <3>2. k \in 1 .. n /\ k - 1 = m /\ k \in Nat \ {0} /\ all[k] \in Nat
      BY <2>1, <2>2
    <3>3. PICK a, b : a = it[1 .. m].slots /\ b = it[1 .. k].slots
      OBVIOUS
    <3>4. PICK i : i = Slot(k, size)
      OBVIOUS
    <3>5. i \in 1 .. size /\ i <= k /\ it[1 .. m].index + 1 = i
      BY <3>1, <3>2, <3>4, Slots DEF Slot
    <3>6. b = [a EXCEPT ![i] = all[k]] /\ it[1 .. k].index = k % size
      <4>1. ((m % size) + 1) % size = k % size
        BY <3>2, Slots
      <4> QED
        BY <1>5, <3>1, <3>2, <3>3, <3>5, <4>1
    <3>7. b \in [1 .. size -> Nat] /\ b[i] = all[k] /\ \A j \in 1 .. size : j # i => b[j] = a[j]
      BY <3>1, <3>2, <3>3, <3>5, <3>6 DEF LastRecorded
    <3>8. ASSUME NEW j \in 1 .. k, j > k - size PROVE b[Slot(j, size)] = all[j]
      <4>1. CASE j = k
        BY <3>4, <3>7, <4>1
      <4>2. CASE j # k
        <5>1. j \in 1 .. m /\ j > m - size /\ j < k /\ k - j < size /\ j \in Nat \ {0}
          BY <2>1, <3>8, <4>2
        <5>2. Slot(j, size) # i /\ Slot(j, size) \in 1 .. size
          BY <3>2, <3>4, <5>1, Slots
        <5>3. a[Slot(j, size)] = all[j]
          BY <3>1, <3>3, <5>1 DEF LastRecorded
        <5> QED
          BY <3>7, <5>2, <5>3
      <4> QED
        BY <4>1, <4>2
    <3>9. ASSUME NEW j \in 1 .. size, j > k PROVE b[j] = 0
      <4>1. j # i /\ j > m
        BY <2>1, <3>5, <3>9
      <4> QED
        BY <3>1, <3>3, <3>7, <4>1 DEF LastRecorded
    <3> QED
      BY <3>3, <3>6, <3>7, <3>8, <3>9 DEF LastRecorded
  <2>3. k \in Done
    BY <2>2
  <2> QED
    BY <2>1, <2>3
<1>8. \A m \in Nat : m \in Done
  <2> HIDE DEF Done
  <2> QED
    BY <1>6, <1>7, NumberInduction
<1> QED
  BY <1>3, <1>8

\* Every slot that has been written holds one of the last latencies.
LEMMA SlotsCovered ==
    ASSUME NEW n \in Nat, NEW size \in Nat \ {0}, NEW i \in 1 .. size, i <= n
    PROVE  \E k \in 1 .. n : k > n - size /\ Slot(k, size) = i
<1>1. PICK q, r : q = (n - i) \div size /\ r = (n - i) % size
  OBVIOUS
<1>2. n - i = size * q + r /\ q \in Int /\ r \in Int /\ 0 <= r /\ r < size
  <2>1. n - i \in Int
    OBVIOUS
  <2> QED
    BY <1>1, <2>1, ModHolds
<1>3. q >= 0
  <2>1. SUFFICES ASSUME q <= -1 PROVE FALSE
    BY <1>2
  <2>2. size * q <= -size
    BY <1>2, <2>1
  <2> QED
    BY <1>2, <2>2
<1>4. PICK k : k = i + size * q
  OBVIOUS
<1>5. k \in 1 .. n /\ k > n - size
  <2>1. size * q >= 0 /\ size * q \in Int
    BY <1>2, <1>3
  <2> QED
    BY <1>2, <1>4, <2>1
<1>6. (k - 1) % size = i - 1
  <2>1. k - 1 = size * q + (i - 1) /\ k - 1 \in Int /\ i - 1 \in Int /\ 0 <= i - 1 /\ i - 1 < size
    <3>1. size * q \in Int
      BY <1>2
    <3> QED
      BY <1>4, <3>1
  <2> QED
    BY <1>2, <2>1, RestUnique
<1>7. Slot(k, size) = i
  BY <1>6 DEF Slot
<1> QED
  BY <1>5, <1>7

\* The positions of the last latencies that are not zero.
Latest(all, size) == {k \in DOMAIN all : k > Len(all) - size /\ all[k] > 0}

\* The latencies in the buffer are the last ones that are not zero, each in its own slot.
LEMMA LatestInSlots ==
    ASSUME NEW n \in Nat, NEW all \in [1 .. n -> Nat], NEW size \in Nat \ {0},
           NEW slots, LastRecorded(slots, all, size, n)
    PROVE  /\ \A k \in Latest(all, size) : Slot(k, size) \in Valid(slots) /\ slots[Slot(k, size)] = all[k]
           /\ \A j, k \in Latest(all, size) : j # k => Slot(j, size) # Slot(k, size)
           /\ \A i \in Valid(slots) : \E k \in Latest(all, size) : Slot(k, size) = i
<1>1. DOMAIN all = 1 .. n /\ Len(all) = n /\ slots \in [1 .. size -> Nat]
  BY DEF LastRecorded
<1>2. \A k \in Latest(all, size) : k \in 1 .. n /\ k \in Nat \ {0} /\ k > n - size /\ all[k] > 0
  BY <1>1 DEF Latest
<1>3. ASSUME NEW k \in Latest(all, size) PROVE Slot(k, size) \in Valid(slots) /\ slots[Slot(k, size)] = all[k]
  <2>1. slots[Slot(k, size)] = all[k] /\ Slot(k, size) \in 1 .. size
    BY <1>2, Slots DEF LastRecorded
  <2> QED
    BY <1>1, <1>2, <2>1 DEF Valid
<1>4. ASSUME NEW j \in Latest(all, size), NEW k \in Latest(all, size), j # k
      PROVE  Slot(j, size) # Slot(k, size)
  <2>1. (j < k /\ k - j < size) \/ (k < j /\ j - k < size)
    BY <1>2, <1>4
  <2> QED
    BY <1>2, <2>1, Slots
<1>5. ASSUME NEW i \in Valid(slots) PROVE \E k \in Latest(all, size) : Slot(k, size) = i
  <2>1. i \in 1 .. size /\ slots[i] > 0
    BY <1>1 DEF Valid
  <2>2. i <= n
    <3>1. SUFFICES ASSUME i > n PROVE FALSE
      BY <2>1
    <3>2. slots[i] = 0
      BY <2>1, <3>1 DEF LastRecorded
    <3> QED
      BY <2>1, <3>2
  <2>3. PICK k \in 1 .. n : k > n - size /\ Slot(k, size) = i
    BY <2>1, <2>2, SlotsCovered
  <2>4. all[k] > 0
    BY <2>1, <2>3 DEF LastRecorded
  <2>5. k \in Latest(all, size)
    BY <1>1, <2>3, <2>4 DEF Latest
  <2> QED
    BY <2>3, <2>5
<1> QED
  BY <1>3, <1>4, <1>5

\* There are as many of them as slots with a latency, and at least as many of a part of
\* them as slots that they cover.
LEMMA LatestCounts ==
    ASSUME NEW n \in Nat, NEW all \in [1 .. n -> Nat], NEW size \in Nat \ {0},
           NEW slots, LastRecorded(slots, all, size, n)
    PROVE  /\ IsFiniteSet(Latest(all, size)) /\ IsFiniteSet(Valid(slots))
           /\ Cardinality(Latest(all, size)) = Cardinality(Valid(slots))
           /\ \A part \in SUBSET Latest(all, size) : \A cover \in SUBSET Valid(slots) :
                 (\A i \in cover : \E k \in part : Slot(k, size) = i) => Cardinality(cover) <= Cardinality(part)
<1>1. PICK last, valid : last = Latest(all, size) /\ valid = Valid(slots)
  OBVIOUS
<1>2. /\ \A k \in last : Slot(k, size) \in valid
      /\ \A j, k \in last : j # k => Slot(j, size) # Slot(k, size)
      /\ \A i \in valid : \E k \in last : Slot(k, size) = i
  BY <1>1, LatestInSlots
<1>3. IsFiniteSet(last) /\ IsFiniteSet(valid)
  <2>1. IsFiniteSet(1 .. n) /\ IsFiniteSet(1 .. size)
    BY FS_Interval
  <2>2. last \subseteq 1 .. n /\ valid \subseteq 1 .. size
    BY <1>1 DEF Latest, Valid, LastRecorded
  <2> QED
    BY <2>1, <2>2, FS_Subset
<1>4. Cardinality(last) = Cardinality(valid)
  <2>1. PICK f : f = [k \in last |-> Slot(k, size)]
    OBVIOUS
  <2>2. f \in Surjection(last, valid) /\ f \in Injection(last, valid)
    BY <1>2, <2>1 DEF Surjection, Injection, IsInjective
  <2> QED
    BY <1>3, <2>2, FS_Surjection
<1>5. ASSUME NEW part \in SUBSET last, NEW cover \in SUBSET valid,
             \A i \in cover : \E k \in part : Slot(k, size) = i
      PROVE  Cardinality(cover) <= Cardinality(part)
  <2>1. PICK chosen : chosen = {k \in part : Slot(k, size) \in cover}
    OBVIOUS
  <2>2. PICK f : f = [k \in chosen |-> Slot(k, size)]
    OBVIOUS
  <2>3. f \in Surjection(chosen, cover)
    BY <1>5, <2>1, <2>2 DEF Surjection
  <2>4. IsFiniteSet(part) /\ IsFiniteSet(chosen) /\ Cardinality(chosen) <= Cardinality(part)
    <3>1. IsFiniteSet(part)
      BY <1>3, FS_Subset
    <3>2. chosen \subseteq part
      BY <2>1
    <3> QED
      BY <3>1, <3>2, FS_Subset
  <2>5. IsFiniteSet(cover) /\ Cardinality(cover) <= Cardinality(chosen)
    BY <2>3, <2>4, FS_Surjection
  <2>6. Cardinality(cover) \in Nat /\ Cardinality(chosen) \in Nat /\ Cardinality(part) \in Nat
    BY <2>4, <2>5, FS_CardinalityType
  <2> QED
    BY <2>4, <2>5, <2>6
<1> QED
  BY <1>1, <1>3, <1>4, <1>5

\* The place of a percentile in the order of the latencies, and which share of them has
\* come by then.
LEMMA PercentilePlace ==
    ASSUME NEW c \in Nat \ {0}, NEW p \in 0 .. 99
    PROVE  (c * p) \div 100 + 1 \in 1 .. c /\ 100 * ((c * p) \div 100 + 1) >= p * c
<1>1. PICK q, d : q = (c * p) \div 100 /\ d = c * p
  OBVIOUS
<1>2. d \in Nat /\ 100 \in Nat \ {0}
  BY <1>1
<1>3. q \in Nat /\ 100 * q <= d /\ d < 100 * q + 100
  BY <1>1, <1>2, DivBounds
<1>4. d <= c * 99 /\ p * c = d
  BY <1>1
<1>5. q < c
  BY <1>2, <1>3, <1>4
<1> QED
  BY <1>1, <1>2, <1>3, <1>4, <1>5

\* A percentile is one of the valid slots in their order.
Ranked(A, c, slots) ==
    /\ Arranges(A, Valid(slots), slots)
    /\ c = Cardinality(Valid(slots)) /\ c \in Nat \ {0}
    /\ \A p \in 0 .. 99 : Percentile(slots, p, 0) = slots[A[(c * p) \div 100 + 1]]

LEMMA PercentileRanked ==
    ASSUME NEW size \in Nat \ {0}, NEW slots \in [1 .. size -> Nat], Valid(slots) # {}
    PROVE  \E A, c : Ranked(A, c, slots)
<1>1. PICK A, c : A = Arranged(Valid(slots), slots) /\ c = Cardinality(Valid(slots))
  OBVIOUS
<1>2. IsFiniteSet(Valid(slots)) /\ Valid(slots) \subseteq 1 .. size
  <2>1. Valid(slots) \subseteq 1 .. size
    BY DEF Valid
  <2>2. IsFiniteSet(1 .. size)
    BY FS_Interval
  <2> QED
    BY <2>1, <2>2, FS_Subset
<1>3. Arranges(A, Valid(slots), slots)
  <2>1. Valid(slots) \subseteq Int /\ \A k \in Valid(slots) : slots[k] \in Int
    BY <1>2
  <2> QED
    BY <1>1, <1>2, <2>1, ArrangedHolds
<1>4. c \in Nat \ {0}
  BY <1>1, <1>2, FS_CardinalityType, FS_EmptySet
<1>5. DOMAIN A = 1 .. c
  BY <1>1, <1>3 DEF Arranges
<1>6. ASSUME NEW p \in 0 .. 99 PROVE Percentile(slots, p, 0) = slots[A[(c * p) \div 100 + 1]]
  <2>1. PICK i : i = (c * p) \div 100 + 1
    OBVIOUS
  <2>2. i \in 1 .. c
    BY <1>4, <2>1, PercentilePlace
  <2>3. Sorted(slots) = [j \in 1 .. c |-> slots[A[j]]]
    BY <1>1, <1>5 DEF Sorted
  <2>4. Percentile(slots, p, 0) = Sorted(slots)[i]
    BY <1>1, <2>1 DEF Percentile
  <2> QED
    BY <2>1, <2>2, <2>3, <2>4
<1>7. Ranked(A, c, slots)
  BY <1>1, <1>3, <1>4, <1>6 DEF Ranked
<1> QED
  BY <1>7

\* v is one of the latest latencies, and this per cent of them are no larger.
CoversShare(v, p, all, size) ==
    /\ \E k \in Latest(all, size) : all[k] = v
    /\ 100 * Cardinality({k \in Latest(all, size) : all[k] <= v}) >= p * Cardinality(Latest(all, size))

\* A percentile is one of the last latencies, and its share of them is no larger.
LEMMA PercentileCovers ==
    ASSUME NEW n \in Nat, NEW all \in [1 .. n -> Nat], NEW size \in Nat \ {0},
           NEW slots, LastRecorded(slots, all, size, n),
           NEW A, NEW c, Ranked(A, c, slots), NEW p \in 0 .. 99,
           NEW v, v = Percentile(slots, p, 0)
    PROVE  CoversShare(v, p, all, size)
<1>1. PICK i : i = (c * p) \div 100 + 1
  OBVIOUS
<1>2. c \in Nat \ {0} /\ c = Cardinality(Valid(slots)) /\ Arranges(A, Valid(slots), slots)
  BY DEF Ranked
<1>3. i \in 1 .. c /\ 100 * i >= p * c
  BY <1>1, <1>2, PercentilePlace
<1>4. v = slots[A[i]]
  BY <1>1 DEF Ranked
<1>5. A[i] \in Valid(slots) /\ Cardinality(NotBehind(Valid(slots), slots, A[i])) = i
  BY <1>2, <1>3 DEF Arranges
<1>6. \A j \in Valid(slots) : slots[j] \in Nat
  BY DEF Valid, LastRecorded
<1>7. \E k \in Latest(all, size) : all[k] = v
  BY <1>4, <1>5, LatestInSlots
<1>8. PICK part, cover : /\ part = {k \in Latest(all, size) : all[k] <= v}
                         /\ cover = NotBehind(Valid(slots), slots, A[i])
  OBVIOUS
<1>9. ASSUME NEW j \in cover PROVE \E k \in part : Slot(k, size) = j
  <2>1. j \in Valid(slots) /\ NotAfter(slots, j, A[i])
    BY <1>8 DEF NotBehind
  <2>2. PICK x, y : x = slots[j] /\ y = slots[A[i]]
    OBVIOUS
  <2>3. x \in Nat /\ y \in Nat /\ (x < y \/ x = y)
    BY <1>5, <1>6, <2>1, <2>2 DEF NotAfter
  <2>4. x <= y
    BY <2>3
  <2>5. PICK k \in Latest(all, size) : Slot(k, size) = j
    BY <2>1, LatestInSlots
  <2>6. all[k] = x
    BY <2>2, <2>5, LatestInSlots
  <2>7. k \in part
    BY <1>4, <1>8, <2>2, <2>4, <2>6
  <2> QED
    BY <2>5, <2>7
<1>10. Cardinality(cover) <= Cardinality(part)
  <2>1. part \in SUBSET Latest(all, size) /\ cover \in SUBSET Valid(slots)
    BY <1>8 DEF NotBehind
  <2> QED
    BY <1>9, <2>1, LatestCounts
<1>11. Cardinality(part) \in Nat /\ Cardinality(Latest(all, size)) = c
  <2>1. IsFiniteSet(part)
    BY <1>8, LatestCounts, FS_Subset
  <2> QED
    BY <1>2, <2>1, LatestCounts, FS_CardinalityType
<1>12. 100 * Cardinality(part) >= p * c
  <2>1. PICK m : m = Cardinality(part)
    OBVIOUS
  <2>2. m \in Nat /\ i <= m /\ i \in Nat
    BY <1>3, <1>5, <1>8, <1>10, <1>11, <2>1
  <2>3. p * c \in Nat
    BY <1>2
  <2>4. 100 * m >= p * c
    BY <1>3, <2>2, <2>3
  <2> QED
    BY <2>1, <2>4
<1> QED
  BY <1>7, <1>8, <1>11, <1>12 DEF CoversShare

LEMMA PercentilesRise ==
    ASSUME NEW size \in Nat \ {0}, NEW slots \in [1 .. size -> Nat], NEW A, NEW c, Ranked(A, c, slots)
    PROVE  Percentile(slots, 95, 0) <= Percentile(slots, 99, 0)
<1>1. PICK i, j : i = (c * 95) \div 100 + 1 /\ j = (c * 99) \div 100 + 1
  OBVIOUS
<1>2. c \in Nat \ {0} /\ c = Cardinality(Valid(slots)) /\ Arranges(A, Valid(slots), slots)
  BY DEF Ranked
<1>3. i \in 1 .. c /\ j \in 1 .. c
  <2>1. 95 \in 0 .. 99 /\ 99 \in 0 .. 99
    OBVIOUS
  <2> QED
    BY <1>1, <1>2, <2>1, PercentilePlace
<1>4. i <= j
  BY <1>1, <1>2
<1>5. NotAfter(slots, A[i], A[j]) /\ A[i] \in Valid(slots) /\ A[j] \in Valid(slots)
  BY <1>2, <1>3, <1>4 DEF Arranges
<1>6. slots[A[i]] \in Nat /\ slots[A[j]] \in Nat
  BY <1>5 DEF Valid
<1>7. slots[A[i]] <= slots[A[j]]
  BY <1>5, <1>6 DEF NotAfter
<1>8. Percentile(slots, 95, 0) = slots[A[i]] /\ Percentile(slots, 99, 0) = slots[A[j]]
  BY <1>1 DEF Ranked
<1> QED
  BY <1>7, <1>8

\* The percentiles are those of the last latencies that fit the buffer, for any latencies
\* and any size of the buffer.
THEOREM PercentilesOfLastHolds == (Inputs => PercentilesOfLast) /\ (InputSpec => []PercentilesOfLast)
<1>1. Inputs => PercentilesOfLast
  <2>1. SUFFICES ASSUME Inputs, input.of = "latencies" PROVE PercentilesOfLast
    BY DEF PercentilesOfLast
  <2>2. PICK all : all = input.latencies
    OBVIOUS
  <2>3. PICK n \in Nat : all \in [1 .. n -> Nat]
    BY <2>1, <2>2 DEF Inputs
  <2>4. PICK size : size = BufferSize
    OBVIOUS
  <2>5. size \in Nat \ {0}
    BY <2>4, BoundsAssumption
  <2>6. PICK slots : slots = Recorded(all, size)
    OBVIOUS
  <2>7. LastRecorded(slots, all, size, n) /\ slots \in [1 .. size -> Nat]
    BY <2>3, <2>5, <2>6, RecordedHolds DEF LastRecorded
  <2>8. ASSUME Latest(all, size) # {}
        PROVE  /\ \A p \in {95, 99} : CoversShare(Percentile(slots, p, 0), p, all, size)
               /\ Percentile(slots, 95, 0) <= Percentile(slots, 99, 0)
    <3>1. Valid(slots) # {}
      BY <2>3, <2>5, <2>7, <2>8, LatestInSlots
    <3>2. PICK A, c : Ranked(A, c, slots)
      BY <2>5, <2>7, <3>1, PercentileRanked
    <3>3. Percentile(slots, 95, 0) <= Percentile(slots, 99, 0)
      BY <2>5, <2>7, <3>2, PercentilesRise
    <3>4. ASSUME NEW p \in {95, 99}
          PROVE  CoversShare(Percentile(slots, p, 0), p, all, size)
      <4>1. p \in 0 .. 99
        OBVIOUS
      <4>2. PICK v : v = Percentile(slots, p, 0)
        OBVIOUS
      <4>3. all \in [1 .. n -> Nat] /\ LastRecorded(slots, all, size, n)
        BY <2>3, <2>7
      <4>4. CoversShare(v, p, all, size)
        BY <2>5, <3>2, <4>1, <4>2, <4>3, PercentileCovers
      <4> QED
        BY <4>2, <4>4
    <3> QED
      BY <3>3, <3>4
  <2> QED
    BY <2>2, <2>4, <2>6, <2>8 DEF PercentilesOfLast, Latest, CoversShare
<1> QED
  BY <1>1, InputsHold, PTL
=============================================================================
