------------------------- MODULE RateLimiterProofs --------------------------
(***************************************************************************)
(* Proof that the global bucket of the rate limiter grants no more in a    *)
(* window of time than it holds and is refilled with.                      *)
(***************************************************************************)
EXTENDS RateLimiterHistory, FiniteSetTheorems, TLAPS

\* What the division of refill adds is not worth more than the time elapsed.
LEMMA Truncation ==
    ASSUME NEW a \in Nat, NEW s \in Nat, s # 0
    PROVE  a \div s \in Nat /\ (a \div s) * s <= a
  OBVIOUS

\* A refill neither overfills the bucket nor adds more than the bucket's age.
LEMMA RefillBound ==
    ASSUME NEW capacity \in Nat, NEW rate \in Nat,
           NEW b \in [tokens : 0 .. capacity, age : 0 .. MaxAge]
    PROVE  LET r == Refilled(b, capacity, rate)
           IN  /\ r.tokens \in 0 .. capacity
               /\ r.age = 0
               /\ r.tokens * Second <= b.tokens * Second + rate * b.age
<1>. DEFINE add == (b.age * rate) \div Second
<1>1. Second \in Nat /\ Second # 0 /\ MaxAge \in Nat
  BY LimiterAssumption
<1>2. b.age \in Nat /\ b.tokens \in Nat /\ b.tokens <= capacity /\ b.age * rate \in Nat
  BY <1>1
<1>3. add \in Nat /\ add * Second <= b.age * rate
  BY <1>1, <1>2, Truncation
<1>4. (b.tokens + add) * Second <= b.tokens * Second + rate * b.age
  <2>. HIDE DEF add
  <2>. QED BY <1>1, <1>2, <1>3
<1>5. Refilled(b, capacity, rate) = [tokens |-> Least(capacity, b.tokens + add), age |-> 0]
  BY DEF Refilled
<1>6. \A n \in Nat : n <= b.tokens + add => n * Second <= (b.tokens + add) * Second
  <2>. HIDE DEF add
  <2>. QED BY <1>1, <1>2, <1>3
<1>. HIDE DEF add
<1>7. /\ Least(capacity, b.tokens + add) \in 0 .. capacity
      /\ Least(capacity, b.tokens + add) <= b.tokens + add
  BY <1>2, <1>3 DEF Least
<1>8. Least(capacity, b.tokens + add) * Second <= b.tokens * Second + rate * b.age
  <2>. DEFINE t == Least(capacity, b.tokens + add)
  <2>1. t \in Nat /\ t <= b.tokens + add
    BY <1>7
  <2>. HIDE DEF t
  <2>2. t * Second <= (b.tokens + add) * Second
    BY <1>6, <2>1
  <2>3. t * Second \in Nat /\ (b.tokens + add) * Second \in Nat /\ rate * b.age \in Nat
        /\ b.tokens * Second \in Nat
    BY <1>1, <1>2, <1>3, <2>1
  <2>. QED BY <1>4, <2>2, <2>3 DEF t
<1>. QED BY <1>5, <1>7, <1>8

-----------------------------------------------------------------------------
(* The credit invariant: what the window has granted, what the bucket still *)
(* holds and what its age is worth add up to no more than the bucket could  *)
(* hold and be refilled with.                                               *)

\* Each goroutine's call is a record that says where the call is.
CallShape ==
    /\ DOMAIN call = Handlers
    /\ call = [h \in Handlers |-> call[h]]
    /\ \A h \in Handlers : /\ call[h] = [f \in DOMAIN call[h] |-> call[h][f]]
                           /\ {"at", "held", "client", "sleep"} \subseteq DOMAIN call[h]

Credit ==
    granted > 0 => (granted + global.tokens) * Second + GlobalRefillRate * global.age
                       <= GlobalCapacity * Second + GlobalRefillRate * elapsed

CreditInv ==
    /\ global \in BucketType(GlobalCapacity)
    /\ elapsed \in Nat /\ granted \in Nat
    /\ CallShape
    /\ Credit

LEMMA CreditInit == HistoryInit => CreditInv
<1>. SUFFICES ASSUME HistoryInit PROVE CreditInv
  OBVIOUS
<1>1. global \in BucketType(GlobalCapacity)
  <2>1. GlobalCapacity \in Nat /\ MaxAge \in Nat
    BY LimiterAssumption
  <2>. QED BY <2>1 DEF HistoryInit, Init, BucketType, Full
<1>2. CallShape
  <2>1. call = [h \in Handlers |-> Idle]
    BY DEF HistoryInit, Init
  <2>2. /\ Idle = [f \in DOMAIN Idle |-> Idle[f]]
        /\ {"at", "held", "client", "sleep"} \subseteq DOMAIN Idle
    BY DEF Idle
  <2>. QED BY <2>1, <2>2 DEF CallShape
<1>3. elapsed \in Nat /\ granted = 0
  BY DEF HistoryInit
<1>. QED BY <1>1, <1>2, <1>3 DEF CreditInv, Credit

\* A step of a call that is elsewhere takes nothing from the global bucket.
LEMMA ElsewhereKeepsCredit ==
    ASSUME CreditInv, NEW h \in Handlers, NEW r,
           call[h].at # "global", call' = [call EXCEPT ![h] = r], Record,
           UNCHANGED <<global, elapsed>>,
           r = [f \in DOMAIN r |-> r[f]], {"at", "held", "client", "sleep"} \subseteq DOMAIN r
    PROVE  CreditInv'
<1>1. \A g \in Handlers : ~TakesGlobal(g)
  BY DEF CreditInv, CallShape, TakesGlobal
<1>2. granted' = granted
  BY <1>1 DEF Record, Add, CreditInv
<1>3. CallShape'
  BY DEF CreditInv, CallShape
<1>. QED BY <1>2, <1>3 DEF CreditInv, Credit, BucketType

LEMMA GlobalConsumeKeepsCredit ==
    ASSUME CreditInv, NEW h \in Handlers, GlobalConsume(h), Record, UNCHANGED elapsed
    PROVE  CreditInv'
<1>. DEFINE r == Refilled(global, GlobalCapacity, GlobalRefillRate)
<1>0. /\ GlobalCapacity \in Nat /\ GlobalRefillRate \in Nat /\ Second \in Nat /\ MaxAge \in Nat
      /\ global \in [tokens : 0 .. GlobalCapacity, age : 0 .. MaxAge]
  BY LimiterAssumption DEF CreditInv, BucketType
<1>1. /\ r.tokens \in 0 .. GlobalCapacity
      /\ r.tokens * Second <= global.tokens * Second + GlobalRefillRate * global.age
  BY <1>0, RefillBound
<1>2. r = [tokens |-> r.tokens, age |-> 0]
  BY DEF Refilled
<1>3. global' = [tokens |-> IF r.tokens >= 1 THEN r.tokens - 1 ELSE r.tokens, age |-> 0]
  BY <1>2 DEF GlobalConsume, Consumed
<1>. HIDE DEF r
<1>4. CallShape'
  BY DEF GlobalConsume, Goto, Refused, Idle, CreditInv, CallShape
<1>5. \A g \in Handlers \ {h} : ~TakesGlobal(g)
  BY DEF CreditInv, CallShape, TakesGlobal, GlobalConsume, Goto
<1>6. TakesGlobal(h) <=> r.tokens >= 1
  BY DEF CreditInv, CallShape, TakesGlobal, GlobalConsume, Goto, Grants, Refused, Idle, r
<1>7. granted' = IF r.tokens >= 1 THEN granted + 1 ELSE granted
  BY <1>5, <1>6 DEF Record, Add, CreditInv
<1>8. global' \in BucketType(GlobalCapacity)
  BY <1>0, <1>1, <1>3 DEF BucketType
<1>9. granted' + global'.tokens = granted + r.tokens /\ global'.age = 0 /\ granted' \in Nat
  <2>1. granted \in Nat /\ r.tokens \in Nat
    BY <1>0, <1>1 DEF CreditInv
  <2>2. CASE r.tokens >= 1
    BY <1>3, <1>7, <2>1, <2>2
  <2>3. CASE ~(r.tokens >= 1)
    BY <1>3, <1>7, <2>1, <2>3
  <2>. QED BY <2>2, <2>3
<1>10. granted' > 0 => (granted + r.tokens) * Second
                           <= GlobalCapacity * Second + GlobalRefillRate * elapsed
  <2>1. CASE granted = 0
    BY <1>0, <1>1, <2>1 DEF CreditInv
  <2>2. CASE granted > 0
    <3>1. (granted + r.tokens) * Second = granted * Second + r.tokens * Second
      BY <1>0, <1>1 DEF CreditInv
    <3>2. (granted + global.tokens) * Second = granted * Second + global.tokens * Second
      BY <1>0 DEF CreditInv
    <3>3. /\ granted * Second \in Nat /\ r.tokens * Second \in Nat
          /\ global.tokens * Second \in Nat /\ GlobalRefillRate * global.age \in Nat
          /\ GlobalCapacity * Second \in Nat /\ GlobalRefillRate * elapsed \in Nat
      BY <1>0, <1>1 DEF CreditInv
    <3>4. granted * Second + global.tokens * Second + GlobalRefillRate * global.age
              <= GlobalCapacity * Second + GlobalRefillRate * elapsed
      BY <2>2, <3>2 DEF CreditInv, Credit
    <3>. QED BY <1>1, <3>1, <3>3, <3>4
  <2>. QED BY <2>1, <2>2 DEF CreditInv
<1>11. Credit'
  <2>1. GlobalRefillRate * global'.age = 0 /\ elapsed' = elapsed
    BY <1>0, <1>9
  <2>2. (granted + r.tokens) * Second \in Nat
    BY <1>0, <1>1 DEF CreditInv
  <2>. QED BY <1>9, <1>10, <2>1, <2>2 DEF Credit
<1>12. elapsed' \in Nat
  BY DEF CreditInv
<1>. QED BY <1>4, <1>8, <1>9, <1>11, <1>12 DEF CreditInv

LEMMA TickKeepsCredit ==
    ASSUME CreditInv, Tick, elapsed' = elapsed + 1, UNCHANGED granted
    PROVE  CreditInv'
<1>0. /\ GlobalCapacity \in Nat /\ GlobalRefillRate \in Nat /\ Second \in Nat /\ MaxAge \in Nat
      /\ global \in [tokens : 0 .. GlobalCapacity, age : 0 .. MaxAge]
      /\ elapsed \in Nat /\ granted \in Nat
  BY LimiterAssumption DEF CreditInv, BucketType
<1>1. /\ global' \in BucketType(GlobalCapacity)
      /\ global'.tokens = global.tokens
      /\ global'.age <= global.age + 1 /\ global'.age \in Nat
  BY <1>0 DEF Tick, Older, Least, BucketType
<1>2. CallShape'
  BY DEF CreditInv, CallShape, Tick
<1>3. GlobalRefillRate * global'.age <= GlobalRefillRate * global.age + GlobalRefillRate
  BY <1>0, <1>1
<1>4. GlobalRefillRate * elapsed' = GlobalRefillRate * elapsed + GlobalRefillRate
  BY <1>0
<1>5. Credit'
  <2>1. /\ (granted + global.tokens) * Second \in Nat /\ GlobalRefillRate * global'.age \in Nat
        /\ GlobalRefillRate * global.age \in Nat /\ GlobalRefillRate * elapsed \in Nat
        /\ GlobalCapacity * Second \in Nat
    BY <1>0, <1>1
  <2>. QED BY <1>0, <1>1, <1>3, <1>4, <2>1 DEF CreditInv, Credit
<1>. QED BY <1>0, <1>1, <1>2, <1>5 DEF CreditInv

LEMMA CreditStep == CreditInv /\ [HistoryNext]_<<vars, window>> => CreditInv'
<1>. SUFFICES ASSUME CreditInv, [HistoryNext]_<<vars, window>> PROVE CreditInv'
  OBVIOUS
<1>1. CASE UNCHANGED <<vars, window>>
  BY <1>1 DEF CreditInv, CallShape, Credit, BucketType, vars, window
<1>2. CASE OpenWindow /\ UNCHANGED vars
  BY <1>2 DEF OpenWindow, CreditInv, CallShape, Credit, BucketType, vars
<1>3. CASE Tick /\ elapsed' = elapsed + 1 /\ UNCHANGED <<granted, allowed, generations>>
  BY <1>3, TickKeepsCredit
<1>4. CASE Cleanup /\ Record /\ UNCHANGED elapsed
  <2>1. UNCHANGED <<global, call>>
    BY <1>4 DEF Cleanup
  <2>2. \A h \in Handlers : ~TakesGlobal(h)
    BY <2>1 DEF TakesGlobal
  <2>3. granted' = granted
    BY <1>4, <2>2 DEF Record, Add, CreditInv
  <2>. QED BY <1>4, <2>1, <2>3 DEF CreditInv, CallShape, Credit, BucketType
<1>5. ASSUME NEW h \in Handlers, Begin(h) \/ HandlerStep(h) \/ ContextDone(h),
             Record, UNCHANGED elapsed
      PROVE  CreditInv'
  <2>. DEFINE Shaped(r) == /\ r = [f \in DOMAIN r |-> r[f]]
                           /\ {"at", "held", "client", "sleep"} \subseteq DOMAIN r
  <2>0. Shaped(call[h]) /\ Shaped(Idle)
    BY DEF CreditInv, CallShape, Idle
  <2>1. CASE GlobalConsume(h)
    BY <1>5, <2>1, GlobalConsumeKeepsCredit
  <2>2. ASSUME NEW r, Shaped(r), call' = [call EXCEPT ![h] = r], call[h].at # "global",
               UNCHANGED global
        PROVE  CreditInv'
    BY <1>5, <2>2, ElsewhereKeepsCredit
  <2>3. \A b : Shaped(Got(h, b))
    BY <2>0 DEF Got
  <2>4. Shaped(Refused(h))
    BY <2>0 DEF Refused
  <2>. HIDE DEF Shaped
  <2>5. CASE Begin(h)
    <3>1. PICK c \in Clients, w \in BOOLEAN :
              Goto(h, "idle", [Idle EXCEPT !.at = "global", !.client = c, !.waits = w])
      BY <2>5 DEF Begin
    <3>2. Shaped([Idle EXCEPT !.at = "global", !.client = c, !.waits = w])
      BY DEF Shaped, Idle
    <3>. QED BY <2>2, <2>5, <3>1, <3>2 DEF Begin, Goto
  <2>6. CASE Lookup(h)
    <3>1. \A x : Shaped([call[h] EXCEPT !.at = x])
      BY <2>0 DEF Shaped
    <3>2. PICK r : /\ \/ r = [call[h] EXCEPT !.at = "create"]
                      \/ r = [call[h] EXCEPT !.at = "rateCreate"]
                      \/ \E b : r = Got(h, b)
                   /\ call' = [call EXCEPT ![h] = r]
                   /\ call[h].at \in {"lookup", "rate"}
      BY <2>6, Zenon DEF Lookup, Goto
    <3>3. Shaped(r)
      BY <2>3, <3>1, <3>2
    <3>. QED BY <2>2, <2>6, <3>2, <3>3 DEF Lookup
  <2>7. CASE Create(h)
    <3>1. PICK b : call' = [call EXCEPT ![h] = Got(h, b)]
      BY <2>7 DEF Create, Insert
    <3>. QED BY <2>2, <2>3, <2>7, <3>1 DEF Create
  <2>8. CASE Consume(h)
    <3>1. PICK r \in {Idle, Refused(h)} : call' = [call EXCEPT ![h] = r] /\ call[h].at = "consume"
      BY <2>8 DEF Consume, Goto
    <3>. QED BY <2>0, <2>2, <2>4, <2>8, <3>1 DEF Consume
  <2>9. CASE Wake(h)
    <3>1. Shaped([call[h] EXCEPT !.at = "global"])
      BY <2>0 DEF Shaped
    <3>. QED BY <2>2, <2>9, <3>1 DEF Wake, Goto
  <2>10. CASE ContextDone(h)
    BY <2>0, <2>2, <2>10 DEF ContextDone, Goto
  <2>. QED BY <1>5, <2>1, <2>5, <2>6, <2>7, <2>8, <2>9, <2>10 DEF HandlerStep
<1>. QED BY <1>1, <1>2, <1>3, <1>4, <1>5 DEF HistoryNext

LEMMA CreditBoundsWindow == CreditInv => GlobalWindow
<1>. SUFFICES ASSUME CreditInv PROVE GlobalWindow
  OBVIOUS
<1>1. /\ GlobalCapacity \in Nat /\ GlobalRefillRate \in Nat /\ Second \in Nat /\ MaxAge \in Nat
      /\ global.tokens \in Nat /\ global.age \in Nat /\ elapsed \in Nat /\ granted \in Nat
  BY LimiterAssumption DEF CreditInv, BucketType
<1>2. /\ granted * Second \in Nat /\ global.tokens * Second \in Nat
      /\ GlobalRefillRate * global.age \in Nat /\ GlobalCapacity * Second \in Nat
      /\ GlobalRefillRate * elapsed \in Nat
  BY <1>1
<1>3. (granted + global.tokens) * Second = granted * Second + global.tokens * Second
  BY <1>1
<1>4. CASE granted = 0
  BY <1>1, <1>2, <1>4 DEF GlobalWindow
<1>5. CASE granted > 0
  BY <1>2, <1>3, <1>5 DEF CreditInv, Credit, GlobalWindow
<1>. QED BY <1>1, <1>4, <1>5

\* Whatever the goroutines, clients, rates, capacities and the moment at which
\* the window opens, the limiter as a whole lets through at most the capacity of
\* the global bucket and what is refilled while the window lasts.
THEOREM GlobalLimitHolds == HistorySpec => []GlobalWindow
<1>1. HistorySpec => []CreditInv
  BY CreditInit, CreditStep, PTL DEF HistorySpec
<1>. QED BY <1>1, CreditBoundsWindow, PTL

-----------------------------------------------------------------------------
(* Types, and which buckets exist: those that the map or a call refers to.  *)

\* What is referred to exists and nothing else does; a call holds a bucket
\* exactly while it is about to consume from it.
Occupied ==
    /\ bucket \in [Referenced \ {NoBucket} -> BucketType(DefaultCapacity)]
    /\ \A h \in Handlers :
         /\ call[h].held # NoBucket <=> call[h].at = "consume"
         /\ call[h].at # "idle" => call[h].client \in Clients

Calls == [at : {"idle", "global", "lookup", "create", "consume", "rate", "rateCreate", "sleep"},
          client : Clients \cup {"none"}, waits : BOOLEAN,
          held : BucketIds \cup {NoBucket}, sleep : Nat]

LimiterInv ==
    /\ global \in BucketType(GlobalCapacity)
    /\ buckets \in [Clients -> BucketIds \cup {NoBucket}]
    /\ call \in [Handlers -> Calls]
    /\ Occupied

LEMMA LimiterTypes == LimiterInv => TypeOK
<1>. SUFFICES ASSUME LimiterInv PROVE TypeOK
  OBVIOUS
<1>1. Referenced \subseteq BucketIds \cup {NoBucket}
  BY DEF LimiterInv, Referenced, Calls
<1>2. DOMAIN bucket = Referenced \ {NoBucket}
  BY DEF LimiterInv, Occupied
<1>3. /\ DOMAIN bucket \subseteq BucketIds
      /\ \A b \in DOMAIN bucket : bucket[b] \in BucketType(DefaultCapacity)
  BY <1>1, <1>2 DEF LimiterInv, Occupied
<1>4. buckets \in [Clients -> DOMAIN bucket \cup {NoBucket}]
  BY <1>2 DEF LimiterInv, Referenced
<1>5. \A h \in Handlers : call[h].held \in DOMAIN bucket \cup {NoBucket}
  BY <1>2 DEF Referenced
<1>6. \A h \in Handlers : call[h] \in
          [at : {"idle", "global", "lookup", "create", "consume", "rate", "rateCreate", "sleep"},
           client : Clients \cup {"none"}, waits : BOOLEAN,
           held : DOMAIN bucket \cup {NoBucket}, sleep : Nat]
  BY <1>5 DEF LimiterInv, Calls
<1>. QED BY <1>3, <1>4, <1>6 DEF LimiterInv, TypeOK

\* A function has no more values than arguments.
LEMMA FewValues ==
    ASSUME NEW S, NEW T, NEW f, IsFiniteSet(S), \A t \in T : \E x \in S : t = f[x]
    PROVE  IsFiniteSet(T) /\ Cardinality(T) <= Cardinality(S)
<1>. DEFINE R == {x \in S : f[x] \in T}
            g == [x \in R |-> f[x]]
<1>1. IsFiniteSet(R) /\ Cardinality(R) <= Cardinality(S)
  BY FS_Subset
<1>2. g \in Surjection(R, T)
  BY DEF Surjection
<1>3. IsFiniteSet(T) /\ Cardinality(T) <= Cardinality(R)
  BY <1>1, <1>2, FS_Surjection
<1>. HIDE DEF R
<1>. QED BY <1>1, <1>3, FS_CardinalityType

\* There is always an identifier left for a new bucket: the map has none for the
\* client, and the call that makes it holds none.
LEMMA IdentifierLeft ==
    ASSUME LimiterInv, NEW h \in Handlers, call[h].at \in {"create", "rateCreate"},
           buckets[call[h].client] = NoBucket
    PROVE  \E b \in BucketIds : b \notin DOMAIN bucket
<1>. DEFINE c == call[h].client
            I == {buckets[d] : d \in Clients \ {c}}
            holds == [g \in Handlers |-> call[g].held]
            J == {holds[g] : g \in Handlers \ {h}}
            n == Cardinality(Clients) + Cardinality(Handlers)
<1>1. c \in Clients /\ call[h].held = NoBucket
  BY DEF LimiterInv, Occupied
<1>2. /\ Cardinality(Clients) \in Nat /\ Cardinality(Handlers) \in Nat
      /\ IsFiniteSet(Clients \ {c}) /\ Cardinality(Clients \ {c}) = Cardinality(Clients) - 1
      /\ IsFiniteSet(Handlers \ {h}) /\ Cardinality(Handlers \ {h}) = Cardinality(Handlers) - 1
  BY <1>1, LimiterAssumption, FS_CardinalityType, FS_RemoveElement
<1>3. /\ IsFiniteSet(I) /\ Cardinality(I) <= Cardinality(Clients) - 1
      /\ IsFiniteSet(J) /\ Cardinality(J) <= Cardinality(Handlers) - 1
  <2>1. (\A t \in I : \E d \in Clients \ {c} : t = buckets[d])
        /\ (\A t \in J : \E g \in Handlers \ {h} : t = holds[g])
    OBVIOUS
  <2>. HIDE DEF I, J, holds, c
  <2>2. /\ IsFiniteSet(I) /\ Cardinality(I) <= Cardinality(Clients \ {c})
        /\ IsFiniteSet(J) /\ Cardinality(J) <= Cardinality(Handlers \ {h})
    BY <1>2, <2>1, FewValues
  <2>. QED BY <1>2, <2>2
<1>4. /\ IsFiniteSet(I \cup J) /\ Cardinality(I \cup J) \in Nat /\ Cardinality(I \cup J) <= n - 2
  <2>1. /\ Cardinality(I) \in Nat /\ Cardinality(J) \in Nat /\ IsFiniteSet(I \cap J)
        /\ IsFiniteSet(I \cup J)
        /\ Cardinality(I \cup J) = Cardinality(I) + Cardinality(J) - Cardinality(I \cap J)
    BY <1>3, FS_CardinalityType, FS_Union, FS_Intersection
  <2>2. Cardinality(I \cap J) \in Nat /\ Cardinality(I \cup J) \in Nat
    BY <2>1, FS_CardinalityType
  <2>. HIDE DEF I, J
  <2>. QED BY <1>2, <1>3, <2>1, <2>2
<1>5. Referenced \ {NoBucket} \subseteq I \cup J
  <2>. SUFFICES ASSUME NEW b \in Referenced, b # NoBucket PROVE b \in I \cup J
    OBVIOUS
  <2>1. CASE \E d \in Clients : b = buckets[d]
    BY <2>1
  <2>2. CASE \E g \in Handlers : b = call[g].held
    BY <1>1, <2>2
  <2>. QED BY <2>1, <2>2 DEF Referenced
<1>6. IsFiniteSet(BucketIds) /\ Cardinality(BucketIds) = n
  <2>1. 1 \in Int /\ n \in Int /\ n >= 0
    BY <1>2
  <2>2. IsFiniteSet(1 .. n) /\ Cardinality(1 .. n) = IF 1 > n THEN 0 ELSE n - 1 + 1
    BY <2>1, FS_Interval
  <2>. QED BY <2>1, <2>2 DEF BucketIds
<1>7. ASSUME BucketIds \subseteq DOMAIN bucket PROVE FALSE
  <2>1. BucketIds \subseteq I \cup J
    BY <1>5, <1>7 DEF LimiterInv, Occupied
  <2>2. n <= Cardinality(I \cup J)
    BY <1>4, <1>6, <2>1, FS_Subset
  <2>. HIDE DEF I, J
  <2>. QED BY <1>2, <1>4, <2>2
<1>. QED BY <1>7

\* Refilling and consuming keep a bucket within its capacity.
LEMMA ConsumedType ==
    ASSUME NEW capacity \in Nat, NEW rate \in Nat, NEW b \in BucketType(capacity)
    PROVE  /\ Refilled(b, capacity, rate) \in BucketType(capacity)
           /\ Consumed(b, capacity, rate) \in BucketType(capacity)
<1>. DEFINE r == Refilled(b, capacity, rate)
<1>1. MaxAge \in Nat
  BY LimiterAssumption
<1>2. r.tokens \in 0 .. capacity /\ r.age = 0
  BY RefillBound DEF BucketType
<1>3. r = [tokens |-> r.tokens, age |-> 0]
  BY DEF Refilled
<1>4. Consumed(b, capacity, rate) = [tokens |-> IF r.tokens >= 1 THEN r.tokens - 1 ELSE r.tokens, age |-> 0]
  BY <1>3 DEF Consumed
<1>. HIDE DEF r
<1>5. (IF r.tokens >= 1 THEN r.tokens - 1 ELSE r.tokens) \in 0 .. capacity
  BY <1>2
<1>. QED BY <1>1, <1>2, <1>3, <1>4, <1>5 DEF BucketType, r

LEMMA LimiterInit == Init => LimiterInv
<1>. SUFFICES ASSUME Init PROVE LimiterInv
  OBVIOUS
<1>1. GlobalCapacity \in Nat /\ MaxAge \in Nat
  BY LimiterAssumption
<1>2. global \in BucketType(GlobalCapacity)
  BY <1>1 DEF Init, Full, BucketType
<1>3. Idle \in Calls /\ Idle.held = NoBucket /\ Idle.at = "idle"
  BY DEF Idle, Calls
<1>4. Referenced \ {NoBucket} = {}
  BY <1>3 DEF Init, Referenced
<1>5. Occupied
  BY <1>3, <1>4 DEF Init, Occupied
<1>. QED BY <1>2, <1>3, <1>5 DEF Init, LimiterInv

\* A call that holds no bucket goes on, maybe with one of the map, and no bucket changes.
LEMMA CallMoves ==
    ASSUME LimiterInv, NEW h \in Handlers, NEW r \in Calls,
           call' = [call EXCEPT ![h] = r], call[h].held = NoBucket,
           r.held # NoBucket <=> r.at = "consume", r.at # "idle" => r.client \in Clients,
           r.held \in {NoBucket} \cup {buckets[c] : c \in Clients},
           UNCHANGED <<buckets, bucket>>, global' \in BucketType(GlobalCapacity)
    PROVE  LimiterInv'
<1>1. \A g \in Handlers : call'[g] = IF g = h THEN r ELSE call[g]
  BY DEF LimiterInv
<1>2. Referenced' \ {NoBucket} = Referenced \ {NoBucket}
  BY <1>1 DEF Referenced
<1>3. Occupied'
  BY <1>1, <1>2 DEF LimiterInv, Occupied, BucketType
<1>. QED BY <1>3 DEF LimiterInv, Calls, BucketType, BucketIds

\* What a step keeps of the buckets is of the right type, if it is where it comes from.
LEMMA KeepingType ==
    ASSUME NEW f, Keeping(f),
           \A b \in Referenced' \ {NoBucket} : f[b] \in BucketType(DefaultCapacity)
    PROVE  bucket' \in [Referenced' \ {NoBucket} -> BucketType(DefaultCapacity)]
  BY DEF Keeping

LEMMA GotFacts ==
    ASSUME LimiterInv, NEW h \in Handlers, NEW b \in BucketIds,
           call[h].at \in {"lookup", "create", "rate", "rateCreate"}
    PROVE  /\ Got(h, b) \in Calls
           /\ Got(h, b).client = call[h].client /\ call[h].client \in Clients
           /\ Got(h, b).at = IF call[h].at \in {"lookup", "create"} THEN "consume" ELSE "sleep"
           /\ Got(h, b).held = IF call[h].at \in {"lookup", "create"} THEN b ELSE NoBucket
           /\ b # NoBucket /\ call[h].held = NoBucket
<1>1. WaitTime \in Nat
  <2>1. (1 \div DefaultRefillRate) \in Nat /\ Second \in Nat
    BY LimiterAssumption
  <2>2. (1 \div DefaultRefillRate) * Second \in Nat /\ 10 * Second \in Nat
    BY <2>1
  <2>. QED BY <2>2 DEF WaitTime, Least
<1>2. call[h] \in Calls /\ call[h].client \in Clients /\ call[h].held = NoBucket
  BY DEF LimiterInv, Occupied
<1>3. b # NoBucket
  BY LimiterAssumption, FS_CardinalityType DEF BucketIds
<1>. QED BY <1>1, <1>2, <1>3 DEF Got, Calls

\* getBucket returns a bucket of the map.
LEMMA GotMoves ==
    ASSUME LimiterInv, NEW h \in Handlers, buckets[call[h].client] # NoBucket,
           call[h].at \in {"lookup", "create", "rate", "rateCreate"},
           call' = [call EXCEPT ![h] = Got(h, buckets[call[h].client])],
           UNCHANGED <<global, buckets, bucket>>
    PROVE  LimiterInv'
<1>. DEFINE b == buckets[call[h].client]
            r == Got(h, b)
<1>1. call[h].client \in Clients /\ b \in BucketIds
  BY DEF LimiterInv, Occupied
<1>2. /\ r \in Calls /\ r.client \in Clients /\ call[h].held = NoBucket
      /\ r.held \in {NoBucket, b}
      /\ r.held # NoBucket <=> r.at = "consume"
  BY <1>1, GotFacts
<1>3. r.held \in {NoBucket} \cup {buckets[c] : c \in Clients}
  BY <1>1, <1>2
<1>4. call' = [call EXCEPT ![h] = r]
  OBVIOUS
<1>. HIDE DEF b, r
<1>. QED BY <1>2, <1>3, <1>4, CallMoves DEF LimiterInv

LEMMA RefusedFacts ==
    ASSUME LimiterInv, NEW h \in Handlers, call[h].at # "idle"
    PROVE  /\ Refused(h) \in Calls /\ Refused(h).held = NoBucket
           /\ Refused(h).at \in {"rate", "idle"}
           /\ Refused(h).at # "idle" => Refused(h).client \in Clients
  BY DEF LimiterInv, Occupied, Refused, Calls, Idle

\* What Insert does: a bucket with a fresh identifier enters the map, at most others leave it.
Inserts(h, b) ==
    /\ b \in BucketIds \ DOMAIN bucket
    /\ call' = [call EXCEPT ![h] = Got(h, b)]
    /\ buckets' \in [Clients -> BucketIds \cup {NoBucket}]
    /\ buckets'[call[h].client] = b
    /\ \A c \in Clients \ {call[h].client} : buckets'[c] \in {buckets[c], NoBucket}
    /\ DOMAIN bucket' = Referenced' \ {NoBucket}
    /\ bucket' = [d \in DOMAIN bucket' |-> IF d = b THEN Full(DefaultCapacity) ELSE bucket[d]]

LEMMA InsertFacts ==
    ASSUME LimiterInv, NEW h \in Handlers, call[h].at \in {"create", "rateCreate"},
           buckets[call[h].client] = NoBucket, Insert(h)
    PROVE  \E b : Inserts(h, b)
<1>. DEFINE b == CHOOSE x \in BucketIds : x \notin DOMAIN bucket
            f == [x \in DOMAIN bucket \cup {b} |->
                     IF x = b THEN Full(DefaultCapacity) ELSE bucket[x]]
<1>1. b \in BucketIds \ DOMAIN bucket
  BY IdentifierLeft
<1>2. /\ call' = [call EXCEPT ![h] = Got(h, b)]
      /\ \/ buckets' = [buckets EXCEPT ![call[h].client] = b]
         \/ \E c \in Evictable :
                buckets' = [[buckets EXCEPT ![c] = NoBucket] EXCEPT ![call[h].client] = b]
      /\ Keeping(f)
  BY Zenon DEF Insert
<1>. HIDE DEF b
<1>3. call[h].client \in Clients /\ call[h].client \notin Mapped
  BY DEF LimiterInv, Occupied, Mapped
<1>4. /\ buckets' \in [Clients -> BucketIds \cup {NoBucket}]
      /\ buckets'[call[h].client] = b
      /\ \A c \in Clients \ {call[h].client} : buckets'[c] \in {buckets[c], NoBucket}
  <2>1. CASE buckets' = [buckets EXCEPT ![call[h].client] = b]
    BY <1>1, <1>3, <2>1 DEF LimiterInv
  <2>2. ASSUME NEW c \in Evictable,
               buckets' = [[buckets EXCEPT ![c] = NoBucket] EXCEPT ![call[h].client] = b]
        PROVE  /\ buckets' \in [Clients -> BucketIds \cup {NoBucket}]
               /\ buckets'[call[h].client] = b
               /\ \A d \in Clients \ {call[h].client} : buckets'[d] \in {buckets[d], NoBucket}
    <3>. DEFINE less == [buckets EXCEPT ![c] = NoBucket]
    <3>1. /\ less \in [Clients -> BucketIds \cup {NoBucket}]
          /\ \A d \in Clients : less[d] \in {buckets[d], NoBucket}
      BY DEF LimiterInv
    <3>2. buckets' = [less EXCEPT ![call[h].client] = b]
      BY <2>2
    <3>. HIDE DEF less
    <3>3. /\ buckets' \in [Clients -> BucketIds \cup {NoBucket}]
          /\ \A d \in Clients : buckets'[d] = IF d = call[h].client THEN b ELSE less[d]
      BY <1>1, <3>1, <3>2
    <3>. QED BY <1>3, <3>1, <3>3
  <2>. QED BY <1>2, <2>1, <2>2
<1>5. \A g \in Handlers : call'[g] = IF g = h THEN Got(h, b) ELSE call[g]
  BY <1>2 DEF LimiterInv
<1>6. Got(h, b).held \in {b, NoBucket}
  BY <1>1, GotFacts
<1>7. Referenced' \ {NoBucket} \subseteq DOMAIN bucket \cup {b}
  <2>1. \A c \in Clients : buckets'[c] \in Referenced \cup {b, NoBucket}
    BY <1>4 DEF Referenced
  <2>2. \A g \in Handlers : call'[g].held \in Referenced \cup {b, NoBucket}
    BY <1>5, <1>6 DEF Referenced
  <2>3. Referenced' = {buckets'[c] : c \in Clients} \cup {call'[g].held : g \in Handlers}
    BY DEF Referenced
  <2>4. DOMAIN bucket = Referenced \ {NoBucket}
    BY DEF LimiterInv, Occupied
  <2>. QED BY <2>1, <2>2, <2>3, <2>4
<1>8. bucket' = [d \in Referenced' \ {NoBucket} |-> IF d = b THEN Full(DefaultCapacity) ELSE bucket[d]]
  <2>1. bucket' = [d \in Referenced' \ {NoBucket} |-> f[d]]
    BY <1>2 DEF Keeping
  <2>. QED BY <1>7, <2>1
<1>9. DOMAIN bucket' = Referenced' \ {NoBucket}
  BY <1>8
<1>10. Inserts(h, b)
  BY <1>1, <1>2, <1>4, <1>8, <1>9 DEF Inserts
<1>. QED BY <1>10

LEMMA InsertKeepsTypes ==
    ASSUME LimiterInv, NEW h \in Handlers, call[h].at \in {"create", "rateCreate"},
           UNCHANGED global, NEW b, Inserts(h, b)
    PROVE  LimiterInv'
<1>1. Got(h, b) \in Calls /\ b # NoBucket /\ Got(h, b).client \in Clients
      /\ (Got(h, b).held # NoBucket <=> Got(h, b).at = "consume")
  BY GotFacts DEF Inserts
<1>2. \A g \in Handlers : call'[g] = IF g = h THEN Got(h, b) ELSE call[g]
  BY DEF LimiterInv, Inserts
<1>3. Full(DefaultCapacity) \in BucketType(DefaultCapacity)
  BY LimiterAssumption DEF Full, BucketType
<1>4. \A d \in Referenced' \ {NoBucket} : d = b \/ d \in Referenced \ {NoBucket}
  <2>1. \A c \in Clients : buckets'[c] \in Referenced \cup {b, NoBucket}
    BY DEF Referenced, Inserts
  <2>2. \A g \in Handlers : call'[g].held \in Referenced \cup {b, NoBucket}
    BY <1>2, GotFacts DEF Referenced, Inserts
  <2>3. Referenced' = {buckets'[c] : c \in Clients} \cup {call'[g].held : g \in Handlers}
    BY DEF Referenced
  <2>. QED BY <2>1, <2>2, <2>3
<1>5. bucket' \in [Referenced' \ {NoBucket} -> BucketType(DefaultCapacity)]
  BY <1>3, <1>4 DEF LimiterInv, Occupied, Inserts
<1>6. call' \in [Handlers -> Calls]
  BY <1>1 DEF LimiterInv, Inserts
<1>7. Calls' = Calls /\ BucketIds' = BucketIds
  BY DEF Calls, BucketIds
<1>8. Occupied'
  BY <1>1, <1>2, <1>5 DEF Occupied, LimiterInv, BucketType
<1>. QED BY <1>6, <1>7, <1>8 DEF LimiterInv, Inserts, BucketType

LEMMA ConsumeKeepsTypes ==
    ASSUME LimiterInv, NEW h \in Handlers, Consume(h)
    PROVE  LimiterInv'
<1>. DEFINE b == call[h].held
            f == [bucket EXCEPT ![b] = Consumed(@, DefaultCapacity, DefaultRefillRate)]
<1>1. PICK r \in {Idle, Refused(h)} : call' = [call EXCEPT ![h] = r] /\ call[h].at = "consume"
  BY DEF Consume, Goto
<1>2. Idle \in Calls /\ Idle.held = NoBucket /\ Idle.at = "idle"
  BY DEF Idle, Calls
<1>3. /\ r \in Calls /\ r.held = NoBucket /\ r.at # "consume"
      /\ r.at # "idle" => r.client \in Clients
  BY <1>1, <1>2, RefusedFacts
<1>4. \A g \in Handlers : call'[g] = IF g = h THEN r ELSE call[g]
  BY <1>1 DEF LimiterInv
<1>5. UNCHANGED <<global, buckets>> /\ Keeping(f)
  BY DEF Consume
<1>6. Referenced' \ {NoBucket} \subseteq Referenced \ {NoBucket}
  BY <1>3, <1>4, <1>5 DEF Referenced
<1>7. \A d \in Referenced \ {NoBucket} : f[d] \in BucketType(DefaultCapacity)
  <2>1. DefaultCapacity \in Nat /\ DefaultRefillRate \in Nat
    BY LimiterAssumption
  <2>2. b \in Referenced \ {NoBucket} /\ DOMAIN bucket = Referenced \ {NoBucket}
    BY <1>1 DEF LimiterInv, Occupied, Referenced
  <2>3. Consumed(bucket[b], DefaultCapacity, DefaultRefillRate) \in BucketType(DefaultCapacity)
    BY <2>1, <2>2, ConsumedType DEF LimiterInv, Occupied
  <2>. HIDE DEF b
  <2>. QED BY <2>2, <2>3 DEF LimiterInv, Occupied
<1>. HIDE DEF f
<1>8. bucket' \in [Referenced' \ {NoBucket} -> BucketType(DefaultCapacity)]
  BY <1>5, <1>6, <1>7, KeepingType
<1>9. call' \in [Handlers -> Calls]
  BY <1>1, <1>3 DEF LimiterInv
<1>10. Occupied'
  BY <1>3, <1>4, <1>8 DEF LimiterInv, Occupied, BucketType
<1>. QED BY <1>5, <1>9, <1>10 DEF LimiterInv, Calls, BucketType, BucketIds

LEMMA CleanupKeepsTypes ==
    ASSUME LimiterInv, Cleanup
    PROVE  LimiterInv'
<1>1. /\ \A c \in Clients : buckets'[c] \in {buckets[c], NoBucket}
      /\ buckets' \in [Clients -> BucketIds \cup {NoBucket}]
      /\ UNCHANGED <<global, call>> /\ Keeping(bucket)
  BY DEF Cleanup, LimiterInv
<1>2. Referenced' \ {NoBucket} \subseteq Referenced \ {NoBucket}
  BY <1>1 DEF Referenced
<1>3. bucket' \in [Referenced' \ {NoBucket} -> BucketType(DefaultCapacity)]
  BY <1>1, <1>2, KeepingType DEF LimiterInv, Occupied
<1>4. Occupied'
  BY <1>1, <1>3 DEF LimiterInv, Occupied, BucketType
<1>. QED BY <1>1, <1>4 DEF LimiterInv, Calls, BucketType, BucketIds

LEMMA OlderType ==
    ASSUME NEW capacity, NEW b \in BucketType(capacity)
    PROVE  Older(b) \in BucketType(capacity)
  BY LimiterAssumption DEF Older, BucketType, Least

LEMMA TickKeepsTypes ==
    ASSUME LimiterInv, Tick
    PROVE  LimiterInv'
<1>1. global' \in BucketType(GlobalCapacity) /\ UNCHANGED buckets
  BY OlderType DEF Tick, LimiterInv
<1>2. bucket' \in [Referenced \ {NoBucket} -> BucketType(DefaultCapacity)]
  BY OlderType DEF Tick, LimiterInv, Occupied
<1>3. \A h \in Handlers : /\ call'[h] \in Calls /\ call'[h].held = call[h].held
                          /\ call'[h].at = call[h].at /\ call'[h].client = call[h].client
  BY DEF Tick, LimiterInv, Calls
<1>4. call' \in [Handlers -> Calls]
  BY <1>3 DEF Tick
<1>5. Referenced' = Referenced
  BY <1>1, <1>3 DEF Referenced
<1>6. Occupied'
  BY <1>2, <1>3, <1>5 DEF LimiterInv, Occupied, BucketType
<1>. QED BY <1>1, <1>4, <1>6 DEF LimiterInv, Calls, BucketType, BucketIds

LEMMA LimiterStep == LimiterInv /\ [Next]_vars => LimiterInv'
<1>. SUFFICES ASSUME LimiterInv, [Next]_vars PROVE LimiterInv'
  OBVIOUS
<1>. USE DEF Goto
<1>1. CASE Tick
  BY <1>1, TickKeepsTypes
<1>2. CASE Cleanup
  BY <1>2, CleanupKeepsTypes
<1>3. ASSUME NEW h \in Handlers, Begin(h) PROVE LimiterInv'
  <2>1. PICK c \in Clients, w \in BOOLEAN :
            call' = [call EXCEPT ![h] = [Idle EXCEPT !.at = "global", !.client = c, !.waits = w]]
    BY <1>3 DEF Begin
  <2>. DEFINE r == [Idle EXCEPT !.at = "global", !.client = c, !.waits = w]
  <2>2. r \in Calls /\ r.held = NoBucket /\ r.at = "global" /\ r.client \in Clients
    BY DEF Idle, Calls
  <2>3. call[h].at = "idle"
    BY <1>3 DEF Begin
  <2>. HIDE DEF r
  <2>. QED BY <1>3, <2>1, <2>2, <2>3, CallMoves DEF Begin, LimiterInv, Occupied, r
<1>4. ASSUME NEW h \in Handlers, GlobalConsume(h) PROVE LimiterInv'
  <2>1. PICK r \in {[call[h] EXCEPT !.at = "lookup"], Refused(h)} : call' = [call EXCEPT ![h] = r]
    BY <1>4 DEF GlobalConsume
  <2>2. call[h].at = "global" /\ call[h] \in Calls /\ call[h].held = NoBucket
        /\ call[h].client \in Clients
    BY <1>4 DEF GlobalConsume, LimiterInv, Occupied
  <2>3. r \in Calls /\ r.held = NoBucket /\ r.at # "consume" /\ (r.at # "idle" => r.client \in Clients)
    BY <2>1, <2>2, RefusedFacts DEF Calls
  <2>4. global' \in BucketType(GlobalCapacity)
    BY <1>4, ConsumedType, LimiterAssumption DEF GlobalConsume, LimiterInv
  <2>. QED BY <1>4, <2>1, <2>2, <2>3, <2>4, CallMoves DEF GlobalConsume
<1>5. ASSUME NEW h \in Handlers, Lookup(h) PROVE LimiterInv'
  <2>. DEFINE b == buckets[call[h].client]
  <2>1. call[h].at \in {"lookup", "rate"}
    BY <1>5 DEF Lookup
  <2>2. call[h] \in Calls /\ call[h].held = NoBucket /\ call[h].client \in Clients
        /\ b \in BucketIds \cup {NoBucket}
    BY <2>1 DEF LimiterInv, Occupied
  <2>3. CASE b = NoBucket
    <3>1. PICK at \in {"create", "rateCreate"} : call' = [call EXCEPT ![h] = [call[h] EXCEPT !.at = at]]
      BY <1>5, <2>3 DEF Lookup
    <3>2. [call[h] EXCEPT !.at = at] \in Calls /\ [call[h] EXCEPT !.at = at].held = NoBucket
          /\ [call[h] EXCEPT !.at = at].at = at /\ [call[h] EXCEPT !.at = at].client \in Clients
      BY <2>2 DEF Calls
    <3>. QED BY <1>5, <2>2, <3>1, <3>2, CallMoves DEF Lookup, LimiterInv
  <2>4. CASE b # NoBucket
    <3>1. call' = [call EXCEPT ![h] = Got(h, b)] /\ UNCHANGED <<global, buckets, bucket>>
      BY <1>5, <2>4 DEF Lookup
    <3>. QED BY <2>1, <2>4, <3>1, GotMoves
  <2>. QED BY <2>3, <2>4
<1>6. ASSUME NEW h \in Handlers, Create(h) PROVE LimiterInv'
  <2>. DEFINE b == buckets[call[h].client]
  <2>1. call[h].at \in {"create", "rateCreate"} /\ UNCHANGED global
    BY <1>6 DEF Create
  <2>2. CASE b = NoBucket
    BY <1>6, <2>1, <2>2, InsertFacts, InsertKeepsTypes DEF Create
  <2>3. CASE b # NoBucket
    <3>1. call' = [call EXCEPT ![h] = Got(h, b)] /\ UNCHANGED <<buckets, bucket>>
      BY <1>6, <2>3 DEF Create
    <3>. QED BY <2>1, <2>3, <3>1, GotMoves
  <2>. QED BY <2>2, <2>3
<1>7. ASSUME NEW h \in Handlers, Consume(h) PROVE LimiterInv'
  BY <1>7, ConsumeKeepsTypes
<1>8. ASSUME NEW h \in Handlers, Wake(h) PROVE LimiterInv'
  <2>1. call[h] \in Calls /\ call[h].held = NoBucket /\ call[h].client \in Clients
    BY <1>8 DEF Wake, LimiterInv, Occupied
  <2>2. [call[h] EXCEPT !.at = "global"] \in Calls /\ [call[h] EXCEPT !.at = "global"].held = NoBucket
        /\ [call[h] EXCEPT !.at = "global"].at = "global"
        /\ [call[h] EXCEPT !.at = "global"].client \in Clients
    BY <2>1 DEF Calls
  <2>. QED BY <1>8, <2>1, <2>2, CallMoves DEF Wake, LimiterInv
<1>9. ASSUME NEW h \in Handlers, ContextDone(h) PROVE LimiterInv'
  <2>1. Idle \in Calls /\ Idle.held = NoBucket /\ Idle.at = "idle" /\ call[h].held = NoBucket
    BY <1>9 DEF Idle, Calls, ContextDone, LimiterInv, Occupied
  <2>. QED BY <1>9, <2>1, CallMoves DEF ContextDone, LimiterInv
<1>10. CASE UNCHANGED vars
  BY <1>10 DEF vars, LimiterInv, Occupied, Referenced, Calls, BucketType, BucketIds
<1>. QED BY <1>1, <1>2, <1>3, <1>4, <1>5, <1>6, <1>7, <1>8, <1>9, <1>10 DEF Next, HandlerStep

\* The limiter keeps its types, for any clients, goroutines, rates, capacities and
\* cleanup interval: no bucket overflows or is overdrawn, a bucket that a call holds
\* outlives its eviction, and an identifier is reused only when nothing refers to it.
THEOREM LimiterTypeCorrect == Spec => []TypeOK
<1>1. Spec => []LimiterInv
  BY LimiterInit, LimiterStep, PTL DEF Spec
<1>. QED BY <1>1, LimiterTypes, PTL

-----------------------------------------------------------------------------
(* The client's window.  The watched client may draw on its bucket in the   *)
(* map and on the orphans; what each of them may still grant is counted as  *)
(* a set, with one pair for every fraction of a token, so that what is      *)
(* allowed and what is left never exceed what the buckets of the client     *)
(* were entitled to.                                                        *)

\* The buckets the client may draw on now.
Live == ({buckets[Watched]} \ {NoBucket}) \cup Orphans

ClientCapacity == DefaultCapacity * Second

\* What a bucket holds and its age is worth, in fractions of a token.
Worth(b) ==
    Least(ClientCapacity, bucket[b].tokens * Second + DefaultRefillRate * bucket[b].age)

Room == {p \in Live \X (1 .. ClientCapacity) : p[2] <= Worth(p[1])}

\* The buckets the client has had, less the one it may yet be given.
Entitled == IF buckets[Watched] = NoBucket THEN generations - 1 ELSE generations

ClientCredit ==
    /\ Cardinality(Live) <= Entitled
    /\ allowed * Second + Cardinality(Room)
           <= Entitled * (ClientCapacity + DefaultRefillRate * elapsed)

ClientInv ==
    /\ elapsed \in Nat /\ allowed \in Nat /\ generations \in Nat /\ Entitled \in Nat
    /\ ClientCredit

LEMMA ClientConstants ==
    /\ DefaultCapacity \in Nat \ {0} /\ DefaultRefillRate \in Nat /\ Second \in Nat \ {0}
    /\ ClientCapacity \in Nat /\ MaxAge \in Nat /\ Watched \in Clients
    /\ IsFiniteSet(1 .. ClientCapacity) /\ Cardinality(1 .. ClientCapacity) = ClientCapacity
<1>1. /\ DefaultCapacity \in Nat \ {0} /\ DefaultRefillRate \in Nat /\ Second \in Nat \ {0}
      /\ ClientCapacity \in Nat /\ MaxAge \in Nat /\ Watched \in Clients
  BY LimiterAssumption, WindowAssumption DEF ClientCapacity
<1>2. /\ IsFiniteSet(1 .. ClientCapacity)
      /\ Cardinality(1 .. ClientCapacity) = IF 1 > ClientCapacity THEN 0 ELSE ClientCapacity - 1 + 1
  BY <1>1, FS_Interval
<1>. QED BY <1>1, <1>2

\* Sizes: the client's buckets exist and are finitely many, and so is what they are worth.
Sized ==
    /\ Live \subseteq Referenced \ {NoBucket}
    /\ \A b \in Live : /\ bucket[b] \in BucketType(DefaultCapacity)
                       /\ Worth(b) \in 0 .. ClientCapacity
    /\ IsFiniteSet(Live) /\ Cardinality(Live) \in Nat
    /\ IsFiniteSet(Orphans) /\ Cardinality(Orphans) \in Nat
    /\ IsFiniteSet(Room) /\ Cardinality(Room) \in Nat
    /\ Cardinality(Room) <= Cardinality(Live) * ClientCapacity

LEMMA WorthType ==
    ASSUME NEW b, bucket[b] \in BucketType(DefaultCapacity)
    PROVE  /\ Worth(b) \in 0 .. ClientCapacity
           /\ bucket[b].tokens * Second + DefaultRefillRate * bucket[b].age \in Nat
<1>1. bucket[b].tokens \in Nat /\ bucket[b].age \in Nat
  BY ClientConstants DEF BucketType
<1>2. bucket[b].tokens * Second \in Nat /\ DefaultRefillRate * bucket[b].age \in Nat
  BY <1>1, ClientConstants
<1>. QED BY <1>2, ClientConstants DEF Worth, Least

LEMMA LimiterSized == LimiterInv => Sized
<1>. SUFFICES ASSUME LimiterInv PROVE Sized
  OBVIOUS
<1>1. Live \subseteq Referenced \ {NoBucket} /\ Orphans \subseteq Referenced \ {NoBucket}
  BY ClientConstants DEF Live, Orphans, Referenced, LimiterInv, Occupied
<1>2. Referenced \ {NoBucket} \subseteq BucketIds
  BY DEF LimiterInv, Referenced, Calls
<1>3. IsFiniteSet(BucketIds)
  BY LimiterAssumption, FS_CardinalityType, FS_Interval DEF BucketIds
<1>4. /\ IsFiniteSet(Live) /\ IsFiniteSet(Orphans)
      /\ Cardinality(Live) \in Nat /\ Cardinality(Orphans) \in Nat
  BY <1>1, <1>2, <1>3, FS_Subset, FS_CardinalityType
<1>5. \A b \in Live : bucket[b] \in BucketType(DefaultCapacity)
  BY <1>1 DEF LimiterInv, Occupied
<1>6. /\ IsFiniteSet(1 .. ClientCapacity)
      /\ Cardinality(1 .. ClientCapacity) = ClientCapacity
  BY ClientConstants, FS_Interval
<1>7. /\ IsFiniteSet(Live \X (1 .. ClientCapacity))
      /\ Cardinality(Live \X (1 .. ClientCapacity)) = Cardinality(Live) * ClientCapacity
  BY <1>4, <1>6, FS_Product
<1>8. Room \in SUBSET (Live \X (1 .. ClientCapacity))
  BY DEF Room
<1>9. /\ IsFiniteSet(Room) /\ Cardinality(Room) \in Nat
      /\ Cardinality(Room) <= Cardinality(Live) * ClientCapacity
  BY <1>7, <1>8, FS_Subset, FS_CardinalityType
<1>. QED BY <1>1, <1>4, <1>5, <1>9, WorthType DEF Sized

LEMMA SizedNext == LimiterInv' => Sized'
  BY LimiterSized, PTL

\* A step after which the client has no more buckets, and none of them worth more.
LEMMA LiveShrinks ==
    ASSUME LimiterInv, LimiterInv', ClientInv,
           Live' \subseteq Live, \A b \in Live' : Worth(b)' <= Worth(b),
           allowed' = allowed, elapsed' = elapsed, generations' \in Nat, Entitled' = Entitled
    PROVE  ClientInv'
<1>1. \A b \in Live' : Worth(b)' \in Int /\ Worth(b) \in Int
  BY LimiterSized, SizedNext, ClientConstants DEF Sized, ClientCapacity
<1>2. Room' \subseteq Room
  BY <1>1 DEF Room, ClientCapacity
<1>3. Cardinality(Room') <= Cardinality(Room) /\ Cardinality(Room') \in Nat
      /\ Cardinality(Room) \in Nat /\ Cardinality(Live') <= Cardinality(Live)
      /\ Cardinality(Live) \in Nat /\ Cardinality(Live') \in Nat
  BY <1>2, LimiterSized, FS_Subset, FS_CardinalityType DEF Sized
<1>4. allowed * Second \in Nat
      /\ Entitled * (ClientCapacity + DefaultRefillRate * elapsed) \in Nat
  BY ClientConstants DEF ClientInv
<1>5. ClientCapacity' = ClientCapacity
  BY DEF ClientCapacity
<1>. DEFINE E == Entitled * (ClientCapacity + DefaultRefillRate * elapsed)
<1>6. allowed' * Second = allowed * Second
      /\ Entitled' * (ClientCapacity' + DefaultRefillRate * elapsed') = E
  BY <1>5
<1>. HIDE DEF E
<1>7. Cardinality(Live') <= Entitled'
  BY <1>3 DEF ClientInv, ClientCredit
<1>8. allowed' * Second + Cardinality(Room') <= E
  BY <1>3, <1>4, <1>6 DEF ClientInv, ClientCredit, E
<1>. QED BY <1>6, <1>7, <1>8 DEF ClientInv, ClientCredit

\* Refilled, a bucket is worth no more than before.
LEMMA WorthRefilled ==
    ASSUME NEW b, bucket[b] \in BucketType(DefaultCapacity)
    PROVE  LET tokens == Refilled(bucket[b], DefaultCapacity, DefaultRefillRate).tokens
           IN  tokens \in Nat /\ tokens * Second \in Nat /\ tokens * Second <= Worth(b)
<1>. DEFINE r == Refilled(bucket[b], DefaultCapacity, DefaultRefillRate)
            worth == bucket[b].tokens * Second + DefaultRefillRate * bucket[b].age
<1>1. r.tokens \in 0 .. DefaultCapacity /\ r.tokens * Second <= worth
  BY RefillBound, ClientConstants DEF BucketType
<1>2. r.tokens * Second <= ClientCapacity /\ r.tokens * Second \in Nat
  <2>1. \A n \in 0 .. DefaultCapacity : n * Second <= DefaultCapacity * Second /\ n * Second \in Nat
    BY ClientConstants
  <2>. QED BY <1>1, <2>1 DEF ClientCapacity
<1>3. worth \in Nat
  BY WorthType
<1>4. Worth(b) = Least(ClientCapacity, worth)
  BY DEF Worth
<1>. HIDE DEF worth, r
<1>5. r.tokens * Second <= Worth(b)
  BY <1>1, <1>2, <1>3, <1>4 DEF Least
<1>. QED BY <1>1, <1>2, <1>5 DEF r

\* A token that is granted is taken out of what the bucket was worth.
LEMMA WorthConsumed ==
    ASSUME NEW b, bucket[b] \in BucketType(DefaultCapacity),
           bucket'[b] = Consumed(bucket[b], DefaultCapacity, DefaultRefillRate)
    PROVE  Worth(b)' <= IF Grants(bucket[b], DefaultCapacity, DefaultRefillRate)
                        THEN Worth(b) - Second ELSE Worth(b)
<1>. DEFINE r == Refilled(bucket[b], DefaultCapacity, DefaultRefillRate)
            left == IF r.tokens >= 1 THEN r.tokens - 1 ELSE r.tokens
<1>1. r.tokens \in Nat /\ r.tokens * Second \in Nat /\ r.tokens * Second <= Worth(b)
      /\ Worth(b) \in Nat
  BY WorthRefilled, WorthType, ClientConstants
<1>2. bucket'[b] = [tokens |-> left, age |-> 0]
  <2>1. r = [tokens |-> r.tokens, age |-> 0]
    BY DEF Refilled
  <2>. QED BY <2>1 DEF Consumed
<1>3. Grants(bucket[b], DefaultCapacity, DefaultRefillRate) <=> r.tokens >= 1
  BY DEF Grants
<1>. HIDE DEF r
<1>4. left \in Nat /\ left * Second = IF r.tokens >= 1 THEN r.tokens * Second - Second
                                     ELSE r.tokens * Second
  BY <1>1, ClientConstants
<1>. HIDE DEF left
<1>5. Worth(b)' = Least(ClientCapacity, left * Second + DefaultRefillRate * 0)
  BY <1>2 DEF Worth, ClientCapacity, Least
<1>6. left * Second \in Nat /\ DefaultRefillRate * 0 = 0
  BY <1>1, <1>4, ClientConstants
<1>7. Worth(b)' <= left * Second /\ Worth(b)' \in Int
  BY <1>5, <1>6, ClientConstants DEF Least
<1>. QED BY <1>1, <1>3, <1>4, <1>6, <1>7, ClientConstants

\* What a request of the client takes out of one of its buckets.
LEMMA ClientTakes ==
    ASSUME LimiterInv, LimiterInv', ClientInv, NEW b \in Live,
           Live' \subseteq Live, \A d \in Live' : Worth(d)' <= Worth(d),
           b \in Live' => Worth(b)' <= Worth(b) - Second, Worth(b) >= Second,
           allowed' = allowed + 1, elapsed' = elapsed,
           generations' \in Nat, Entitled' = Entitled
    PROVE  ClientInv'
<1>. DEFINE Taken == {b} \X (Worth(b) - Second + 1 .. Worth(b))
<1>1. \A d \in Live' : Worth(d)' \in Int /\ Worth(d) \in Int
  BY LimiterSized, SizedNext, ClientConstants DEF Sized, ClientCapacity
<1>2. Worth(b) \in 0 .. ClientCapacity /\ Worth(b) - Second + 1 \in Nat /\ Second \in Nat
  BY LimiterSized, ClientConstants DEF Sized
<1>3. Room' \subseteq Room /\ Taken \subseteq Room /\ Room' \cap Taken = {}
  <2>1. \A p \in Room' : p \in Live' \X (1 .. ClientCapacity) /\ p[2] <= Worth(p[1])'
    BY DEF Room, ClientCapacity
  <2>2. \A p \in Room' : p \in Room /\ p \notin Taken
    <3>. SUFFICES ASSUME NEW p \in Room' PROVE p \in Room /\ p \notin Taken
      OBVIOUS
    <3>1. /\ p = <<p[1], p[2]>> /\ p[1] \in Live' /\ p[2] \in 1 .. ClientCapacity
          /\ p[2] <= Worth(p[1])' /\ Worth(p[1])' <= Worth(p[1])
      BY <2>1
    <3>2. p \in Room
      BY <1>1, <2>1, <3>1 DEF Room
    <3>3. p[1] = b => p[2] <= Worth(b) - Second
      BY <1>1, <1>2, <3>1
    <3>. QED BY <1>2, <3>1, <3>2, <3>3
  <2>3. ASSUME NEW p \in Taken PROVE p \in Room
    <3>1. p[1] = b /\ p[2] \in Worth(b) - Second + 1 .. Worth(b) /\ p = <<p[1], p[2]>>
      OBVIOUS
    <3>2. p[2] \in 1 .. ClientCapacity /\ p[2] <= Worth(p[1])
      BY <1>2, <3>1, ClientConstants
    <3>3. p \in Live \X (1 .. ClientCapacity)
      BY <3>1, <3>2
    <3>. QED BY <3>2, <3>3 DEF Room
  <2>. QED BY <2>2, <2>3
<1>4. /\ IsFiniteSet(Taken) /\ Cardinality(Taken) = Second
  <2>1. /\ IsFiniteSet(Worth(b) - Second + 1 .. Worth(b))
        /\ Cardinality(Worth(b) - Second + 1 .. Worth(b)) = Second
    BY <1>2, ClientConstants, FS_Interval
  <2>2. IsFiniteSet({b}) /\ Cardinality({b}) = 1
    BY FS_Singleton
  <2>. DEFINE I == Worth(b) - Second + 1 .. Worth(b)
  <2>3. IsFiniteSet(I) /\ Cardinality(I) = Second
    BY <2>1
  <2>. HIDE DEF I
  <2>4. IsFiniteSet({b} \X I) /\ Cardinality({b} \X I) = 1 * Second
    BY <2>2, <2>3, FS_Product
  <2>5. Taken = {b} \X I
    BY DEF I
  <2>. QED BY <1>2, <2>4, <2>5
<1>. HIDE DEF Taken
<1>5. /\ IsFiniteSet(Room') /\ Cardinality(Room') \in Nat /\ Cardinality(Room) \in Nat
      /\ IsFiniteSet(Room)
      /\ Cardinality(Live') <= Cardinality(Live)
      /\ Cardinality(Live) \in Nat /\ Cardinality(Live') \in Nat
  BY LimiterSized, SizedNext, FS_Subset DEF Sized
<1>6. Cardinality(Room') + Second <= Cardinality(Room)
  <2>1. Cardinality(Room' \cup Taken) = Cardinality(Room') + Second
    <3>1. Cardinality(Room' \cup Taken)
              = Cardinality(Room') + Cardinality(Taken) - Cardinality(Room' \cap Taken)
      BY <1>4, <1>5, FS_Union
    <3>2. Cardinality(Room' \cap Taken) = 0
      BY <1>3, FS_EmptySet
    <3>. QED BY <1>2, <1>4, <1>5, <3>1, <3>2
  <2>2. Cardinality(Room' \cup Taken) <= Cardinality(Room)
    BY <1>3, <1>5, FS_Subset
  <2>. QED BY <2>1, <2>2
<1>. DEFINE E == Entitled * (ClientCapacity + DefaultRefillRate * elapsed)
<1>7. /\ allowed' * Second = allowed * Second + Second
      /\ allowed * Second \in Nat /\ E \in Nat /\ Second \in Nat
  BY ClientConstants DEF ClientInv
<1>8. Entitled' * (ClientCapacity' + DefaultRefillRate * elapsed') = E
  BY DEF ClientCapacity
<1>. HIDE DEF E
<1>9. allowed' * Second + Cardinality(Room') <= E
  BY <1>5, <1>6, <1>7 DEF ClientInv, ClientCredit, E
<1>10. Cardinality(Live') <= Entitled'
  BY <1>5 DEF ClientInv, ClientCredit
<1>. QED BY <1>8, <1>9, <1>10 DEF ClientInv, ClientCredit

\* A new bucket of the client, which it was entitled to all along.
LEMMA ClientGains ==
    ASSUME LimiterInv, LimiterInv', ClientInv, NEW b, b \notin Live,
           Live' \subseteq Live \cup {b}, \A d \in Live' \ {b} : Worth(d)' <= Worth(d),
           allowed' = allowed, elapsed' = elapsed,
           generations' \in Nat, Entitled' = Entitled + 1
    PROVE  ClientInv'
<1>. DEFINE New == {b} \X (1 .. ClientCapacity)
<1>1. \A d \in Live' \ {b} : Worth(d)' \in Int /\ Worth(d) \in Int
  BY LimiterSized, SizedNext, ClientConstants DEF Sized, ClientCapacity
<1>2. Room' \subseteq Room \cup New
  <2>. SUFFICES ASSUME NEW p \in Room' PROVE p \in Room \/ p \in New
    OBVIOUS
  <2>1. /\ p = <<p[1], p[2]>> /\ p[1] \in Live' /\ p[2] \in 1 .. ClientCapacity
        /\ p[2] <= Worth(p[1])'
    BY DEF Room, ClientCapacity
  <2>2. CASE p[1] = b
    BY <2>1, <2>2
  <2>3. CASE p[1] # b
    <3>1. p[1] \in Live /\ p[2] <= Worth(p[1])
      BY <1>1, <2>1, <2>3
    <3>. QED BY <2>1, <3>1 DEF Room
  <2>. QED BY <2>2, <2>3
<1>3. IsFiniteSet(New) /\ Cardinality(New) = ClientCapacity
  <2>. DEFINE I == 1 .. ClientCapacity
  <2>1. IsFiniteSet(I) /\ Cardinality(I) = ClientCapacity
    BY ClientConstants
  <2>. HIDE DEF I
  <2>2. IsFiniteSet({b}) /\ Cardinality({b}) = 1
    BY FS_Singleton
  <2>3. IsFiniteSet({b} \X I) /\ Cardinality({b} \X I) = 1 * ClientCapacity
    BY <2>1, <2>2, FS_Product
  <2>4. New = {b} \X I
    BY DEF I
  <2>5. 1 * ClientCapacity = ClientCapacity
    BY ClientConstants
  <2>. QED BY <2>3, <2>4, <2>5
<1>. HIDE DEF New
<1>4. /\ IsFiniteSet(Room') /\ Cardinality(Room') \in Nat /\ Cardinality(Room) \in Nat
      /\ IsFiniteSet(Room) /\ IsFiniteSet(Live)
      /\ Cardinality(Live) \in Nat /\ Cardinality(Live') \in Nat
  BY LimiterSized, SizedNext DEF Sized
<1>5. Cardinality(Room') <= Cardinality(Room) + ClientCapacity
  <2>1. /\ IsFiniteSet(Room \cup New)
        /\ Cardinality(Room \cup New)
               = Cardinality(Room) + Cardinality(New) - Cardinality(Room \cap New)
    BY <1>3, <1>4, FS_Union
  <2>2. Cardinality(Room \cap New) \in Nat
    BY <1>4, FS_Intersection, FS_CardinalityType
  <2>3. Cardinality(Room') <= Cardinality(Room \cup New)
    BY <1>2, <2>1, FS_Subset
  <2>. QED BY <1>3, <1>4, <2>1, <2>2, <2>3, ClientConstants
<1>6. Cardinality(Live') <= Cardinality(Live) + 1
  <2>1. IsFiniteSet(Live \cup {b}) /\ Cardinality(Live \cup {b}) = Cardinality(Live) + 1
    BY <1>4, FS_AddElement
  <2>. QED BY <2>1, FS_Subset
<1>. DEFINE One == ClientCapacity + DefaultRefillRate * elapsed
<1>7. One \in Nat /\ ClientCapacity <= One /\ DefaultRefillRate * elapsed \in Nat
  BY ClientConstants DEF ClientInv
<1>8. ClientCapacity' + DefaultRefillRate * elapsed' = One
  BY DEF ClientCapacity
<1>9. allowed * Second + Cardinality(Room) <= Entitled * One /\ Cardinality(Live) <= Entitled
      /\ Entitled \in Nat /\ allowed * Second \in Nat
  BY ClientConstants DEF ClientInv, ClientCredit
<1>. HIDE DEF One
<1>10. (Entitled + 1) * One = Entitled * One + One /\ Entitled * One \in Nat
  BY <1>7, <1>9
<1>11. allowed * Second + Cardinality(Room') <= (Entitled + 1) * One
  BY <1>4, <1>5, <1>7, <1>9, <1>10, ClientConstants
<1>12. allowed' * Second + Cardinality(Room')
          <= Entitled' * (ClientCapacity' + DefaultRefillRate * elapsed')
  BY <1>8, <1>11
<1>13. Cardinality(Live') <= Entitled' /\ Entitled' \in Nat
  BY <1>4, <1>6, <1>9
<1>. QED BY <1>12, <1>13 DEF ClientInv, ClientCredit

\* A tick is worth at most the refill rate to each bucket.
LEMMA ClientTicks ==
    ASSUME LimiterInv, LimiterInv', ClientInv, Tick, elapsed' = elapsed + 1,
           UNCHANGED <<allowed, generations>>
    PROVE  ClientInv'
<1>. DEFINE Gain == Room' \ Room
            rate == 1 .. DefaultRefillRate
<1>1. Live' = Live /\ Entitled' = Entitled
  <2>1. UNCHANGED buckets /\ DOMAIN bucket' = DOMAIN bucket
    BY DEF Tick
  <2>2. \A h \in Handlers : call'[h].held = call[h].held /\ call'[h].client = call[h].client
    BY DEF Tick, LimiterInv, Calls
  <2>. QED BY <2>1, <2>2 DEF Live, Orphans, Entitled
<1>2. \A b \in Live : /\ Worth(b)' \in Nat /\ Worth(b) \in Nat
                      /\ Worth(b)' <= Worth(b) + DefaultRefillRate
  <2>. SUFFICES ASSUME NEW b \in Live
                PROVE  /\ Worth(b)' \in Nat /\ Worth(b) \in Nat
                       /\ Worth(b)' <= Worth(b) + DefaultRefillRate
    OBVIOUS
  <2>. DEFINE r == DefaultRefillRate
              x == bucket[b].tokens * Second
              y == r * bucket[b].age
              z == r * bucket'[b].age
  <2>1. bucket[b] \in BucketType(DefaultCapacity) /\ b \in DOMAIN bucket
        /\ Worth(b) \in Nat /\ Worth(b)' \in Nat
    <3>1. DOMAIN bucket = Referenced \ {NoBucket}
      BY DEF LimiterInv, Occupied
    <3>. QED BY <1>1, <3>1, LimiterSized, SizedNext, ClientConstants DEF Sized, ClientCapacity
  <2>2. bucket'[b] = Older(bucket[b])
    BY <2>1 DEF Tick
  <2>3. /\ bucket'[b].tokens = bucket[b].tokens /\ bucket'[b].age \in Nat
        /\ bucket'[b].age <= bucket[b].age + 1 /\ bucket[b].tokens \in Nat /\ bucket[b].age \in Nat
    BY <2>1, <2>2, ClientConstants DEF Older, Least, BucketType
  <2>4. x \in Nat /\ y \in Nat /\ z \in Nat /\ z <= y + r /\ r \in Nat
    <3>1. r \in Nat /\ Second \in Nat
      BY ClientConstants
    <3>2. \A m, n \in Nat : m <= n + 1 => r * m <= r * n + r /\ r * m \in Nat /\ r * n \in Nat
      <4>. HIDE DEF r
      <4>. QED BY <3>1
    <3>. QED BY <2>3, <3>1, <3>2
  <2>5. Worth(b) = Least(ClientCapacity, x + y) /\ Worth(b)' = Least(ClientCapacity, x + z)
    BY <2>3 DEF Worth, ClientCapacity, Least
  <2>. HIDE DEF x, y, z, r
  <2>6. Least(ClientCapacity, x + z) <= Least(ClientCapacity, x + y) + r
    BY <2>4, ClientConstants DEF Least
  <2>. QED BY <2>1, <2>5, <2>6 DEF r
<1>3. ASSUME NEW p \in Gain
      PROVE  /\ p[1] \in Live /\ p[2] - Worth(p[1]) \in rate /\ p = <<p[1], p[2]>>
             /\ p[2] \in Nat /\ Worth(p[1]) \in Nat
  <2>1. /\ p = <<p[1], p[2]>> /\ p[1] \in Live' /\ p[2] \in 1 .. ClientCapacity
        /\ p[2] <= Worth(p[1])'
    BY DEF Room, ClientCapacity
  <2>2. ~(p[2] <= Worth(p[1]))
    BY <1>1, <2>1 DEF Room
  <2>3. Worth(p[1])' \in Nat /\ Worth(p[1]) \in Nat /\ Worth(p[1])' <= Worth(p[1]) + DefaultRefillRate
    BY <1>1, <1>2, <2>1
  <2>4. p[2] - Worth(p[1]) >= 1 /\ p[2] - Worth(p[1]) <= DefaultRefillRate
    BY <2>1, <2>2, <2>3, ClientConstants
  <2>. QED BY <1>1, <2>1, <2>3, <2>4, ClientConstants
<1>. DEFINE f == [p \in Gain |-> <<p[1], p[2] - Worth(p[1])>>]
<1>4. f \in Injection(Gain, Live \X rate)
  <2>1. f \in [Gain -> Live \X rate]
    BY <1>3
  <2>2. ASSUME NEW p \in Gain, NEW q \in Gain, f[p] = f[q] PROVE p = q
    <3>1. p[1] = q[1] /\ p[2] - Worth(p[1]) = q[2] - Worth(q[1])
      BY <2>2
    <3>2. p[2] = q[2]
      <4>1. p[2] - Worth(p[1]) = q[2] - Worth(p[1])
        BY <3>1
      <4>. QED BY <1>3, <4>1
    <3>. QED BY <1>3, <3>1, <3>2
  <2>. HIDE DEF f, Gain
  <2>. QED BY <2>1, <2>2 DEF Injection, IsInjective
<1>. HIDE DEF f, Gain
<1>5. /\ IsFiniteSet(Room') /\ Cardinality(Room') \in Nat /\ Cardinality(Room) \in Nat
      /\ IsFiniteSet(Room) /\ IsFiniteSet(Live) /\ Cardinality(Live) \in Nat
  BY LimiterSized, SizedNext DEF Sized
<1>6. IsFiniteSet(rate) /\ Cardinality(rate) = DefaultRefillRate
  BY ClientConstants, FS_Interval
<1>. HIDE DEF rate
<1>7. IsFiniteSet(Gain) /\ Cardinality(Gain) <= Cardinality(Live) * DefaultRefillRate
      /\ Cardinality(Gain) \in Nat
  <2>1. /\ IsFiniteSet(Live \X rate)
        /\ Cardinality(Live \X rate) = Cardinality(Live) * DefaultRefillRate
    BY <1>5, <1>6, FS_Product
  <2>. QED BY <1>4, <2>1, FS_Injection, FS_CardinalityType
<1>8. Cardinality(Room') <= Cardinality(Room) + Cardinality(Gain)
  <2>1. /\ IsFiniteSet(Room \cup Gain)
        /\ Cardinality(Room \cup Gain)
               = Cardinality(Room) + Cardinality(Gain) - Cardinality(Room \cap Gain)
    BY <1>5, <1>7, FS_Union
  <2>2. Cardinality(Room \cap Gain) \in Nat
    BY <1>5, FS_Intersection, FS_CardinalityType
  <2>3. Room' \subseteq Room \cup Gain
    BY DEF Gain
  <2>4. Cardinality(Room') <= Cardinality(Room \cup Gain)
    BY <2>1, <2>3, FS_Subset
  <2>. QED BY <1>5, <1>7, <2>1, <2>2, <2>4
<1>9. Cardinality(Live) * DefaultRefillRate <= Entitled * DefaultRefillRate
  <2>1. Cardinality(Live) <= Entitled /\ Entitled \in Nat
    BY DEF ClientInv, ClientCredit
  <2>. QED BY <1>5, <2>1, ClientConstants
<1>. DEFINE One == ClientCapacity + DefaultRefillRate * elapsed
<1>10. One \in Nat /\ elapsed \in Nat /\ Entitled \in Nat /\ allowed * Second \in Nat
       /\ ClientCapacity + DefaultRefillRate * (elapsed + 1) = One + DefaultRefillRate
  BY ClientConstants DEF ClientInv
<1>11. ClientCapacity' + DefaultRefillRate * elapsed' = One + DefaultRefillRate
  BY <1>10 DEF ClientCapacity
<1>12. allowed * Second + Cardinality(Room) <= Entitled * One
  BY DEF ClientInv, ClientCredit
<1>. HIDE DEF One
<1>13. Entitled * (One + DefaultRefillRate) = Entitled * One + Entitled * DefaultRefillRate
       /\ Entitled * One \in Nat /\ Entitled * DefaultRefillRate \in Nat
       /\ Cardinality(Live) * DefaultRefillRate \in Nat
  BY <1>5, <1>10, ClientConstants
<1>14. allowed * Second + Cardinality(Room') <= Entitled * (One + DefaultRefillRate)
  BY <1>5, <1>7, <1>8, <1>9, <1>10, <1>12, <1>13
<1>15. allowed' * Second + Cardinality(Room')
          <= Entitled' * (ClientCapacity' + DefaultRefillRate * elapsed')
  BY <1>1, <1>11, <1>14
<1>16. elapsed' \in Nat /\ allowed' \in Nat /\ generations' \in Nat /\ Entitled' \in Nat
       /\ Cardinality(Live') <= Entitled'
  BY <1>1 DEF ClientInv, ClientCredit
<1>. QED BY <1>15, <1>16 DEF ClientInv, ClientCredit

LEMMA ClientOpens ==
    ASSUME LimiterInv, LimiterInv', OpenWindow, UNCHANGED vars
    PROVE  ClientInv'
<1>1. UNCHANGED <<buckets, bucket, call>> /\ elapsed' = 0 /\ allowed' = 0
      /\ generations' = 1 + Cardinality(Orphans)
  BY DEF OpenWindow, vars
<1>2. Live' = Live /\ Sized'
  BY <1>1, SizedNext DEF Live, Orphans
<1>3. IsFiniteSet(Orphans) /\ Cardinality(Orphans) \in Nat
  BY LimiterSized DEF Sized
<1>4. Entitled' = Cardinality(Live) /\ Cardinality(Live) \in Nat
  <2>1. CASE buckets[Watched] = NoBucket
    <3>1. Live = Orphans
      BY <2>1 DEF Live
    <3>. QED BY <1>1, <1>3, <2>1, <3>1 DEF Entitled
  <2>2. CASE buckets[Watched] # NoBucket
    <3>1. Live = Orphans \cup {buckets[Watched]} /\ buckets[Watched] \notin Orphans
      BY <2>2 DEF Live, Orphans
    <3>2. Cardinality(Live) = Cardinality(Orphans) + 1
      BY <1>3, <3>1, FS_AddElement
    <3>. QED BY <1>1, <1>3, <2>2, <3>2 DEF Entitled
  <2>. QED BY <2>1, <2>2
<1>5. Cardinality(Room') <= Cardinality(Live) * ClientCapacity /\ Cardinality(Room') \in Nat
  BY <1>2 DEF Sized, ClientCapacity
<1>6. allowed' * Second = 0 /\ ClientCapacity' + DefaultRefillRate * elapsed' = ClientCapacity
  BY <1>1, ClientConstants DEF ClientCapacity
<1>7. ClientCredit'
  BY <1>2, <1>4, <1>5, <1>6 DEF ClientCredit
<1>. QED BY <1>1, <1>3, <1>4, <1>7 DEF ClientInv

LEMMA ClientInit == HistoryInit => ClientInv
<1>. SUFFICES ASSUME HistoryInit PROVE ClientInv
  OBVIOUS
<1>1. buckets[Watched] = NoBucket /\ DOMAIN bucket = {}
      /\ elapsed = 0 /\ allowed = 0 /\ generations = 1
  BY ClientConstants DEF HistoryInit, Init
<1>2. Entitled = 0
  BY <1>1 DEF Entitled
<1>3. Live = {}
  BY <1>1 DEF Live, Orphans
<1>4. Room = {}
  BY <1>3 DEF Room
<1>5. Cardinality(Live) = 0 /\ Cardinality(Room) = 0
  BY <1>3, <1>4, FS_EmptySet
<1>6. ClientCapacity + DefaultRefillRate * elapsed \in Nat /\ allowed * Second = 0
  BY <1>1, ClientConstants
<1>7. ClientCredit
  BY <1>2, <1>5, <1>6 DEF ClientCredit
<1>. QED BY <1>1, <1>2, <1>7 DEF ClientInv

\* The client is entitled to no more, unless it is given a bucket.
LEMMA EntitledKept ==
    ASSUME LimiterInv, LimiterInv', Record, generations \in Nat,
           buckets[Watched] = NoBucket => buckets'[Watched] = NoBucket
    PROVE  generations' \in Nat /\ Entitled' = Entitled
  BY ClientConstants DEF Record, Add, Entitled, Mapped

LEMMA NothingAllowed ==
    ASSUME LimiterInv, Record, ClientInv,
           \A h \in Handlers : call'[h] = call[h] \/ ~AllowsWatched(h)
    PROVE  allowed' = allowed
<1>1. \A h \in Handlers : ~AllowsWatched(h)
  BY DEF AllowsWatched
<1>. QED BY <1>1 DEF Record, Add, ClientInv

\* A step of a call that takes nothing from a bucket, and may find the one of its client.
LEMMA ClientCalls ==
    ASSUME LimiterInv, LimiterInv', ClientInv, Record, UNCHANGED <<buckets, bucket, elapsed>>,
           NEW h \in Handlers, NEW r, call' = [call EXCEPT ![h] = r], call[h].at # "consume",
           r.held # NoBucket => r.held = buckets[r.client]
    PROVE  ClientInv'
<1>1. \A g \in Handlers : call'[g] = IF g = h THEN r ELSE call[g]
  BY DEF LimiterInv
<1>2. allowed' = allowed
  <2>1. ~AllowsWatched(h)
    BY DEF AllowsWatched
  <2>. QED BY <1>1, <2>1, NothingAllowed
<1>3. Live' \subseteq Live
  <2>1. NoBucket \notin DOMAIN bucket
    BY DEF LimiterInv, Occupied
  <2>2. Orphans' \subseteq Orphans
    BY <1>1, <2>1 DEF Orphans
  <2>. QED BY <2>2 DEF Live
<1>4. \A b \in Live' : Worth(b)' <= Worth(b)
  <2>1. \A b \in Live' : Worth(b) \in Int
    BY <1>3, LimiterSized DEF Sized
  <2>2. \A b : Worth(b)' = Worth(b)
    BY DEF Worth, ClientCapacity
  <2>. QED BY <2>1, <2>2
<1>5. generations' \in Nat /\ Entitled' = Entitled
  BY EntitledKept DEF ClientInv
<1>. QED BY <1>2, <1>3, <1>4, <1>5, LiveShrinks

LEMMA ClientConsumes ==
    ASSUME LimiterInv, LimiterInv', ClientInv, Record, UNCHANGED elapsed,
           NEW h \in Handlers, Consume(h)
    PROVE  ClientInv'
<1>0. PICK b : b = call[h].held
  OBVIOUS
<1>. DEFINE f == [bucket EXCEPT ![b] = Consumed(@, DefaultCapacity, DefaultRefillRate)]
            grants == Grants(bucket[b], DefaultCapacity, DefaultRefillRate)
<1>1. PICK r : /\ call' = [call EXCEPT ![h] = r] /\ call[h].at = "consume"
               /\ r = IF grants THEN Idle ELSE Refused(h)
  BY <1>0 DEF Consume, Goto
<1>2. UNCHANGED <<global, buckets>> /\ Keeping(f)
  BY <1>0 DEF Consume
<1>3. r.held = NoBucket /\ (grants => r.at = "idle")
  BY <1>1, RefusedFacts DEF Idle
<1>4. \A g \in Handlers : call'[g] = IF g = h THEN r ELSE call[g]
  BY <1>1 DEF LimiterInv
<1>5. Live' \subseteq Live
  <2>1. Referenced' \subseteq Referenced \cup {NoBucket}
    BY <1>2, <1>3, <1>4 DEF Referenced
  <2>2. DOMAIN bucket = Referenced \ {NoBucket} /\ DOMAIN bucket' = Referenced' \ {NoBucket}
    BY DEF LimiterInv, Occupied
  <2>3. Orphans' \subseteq Orphans
    BY <1>2, <1>3, <1>4, <2>1, <2>2 DEF Orphans
  <2>. QED BY <1>2, <2>3 DEF Live
<1>6. b \in DOMAIN bucket /\ DOMAIN bucket = Referenced \ {NoBucket} /\ b # NoBucket
      /\ bucket[b] \in BucketType(DefaultCapacity)
  BY <1>0, <1>1 DEF LimiterInv, Occupied, Referenced
<1>7. \A d \in Live' : bucket'[d] = IF d = b THEN Consumed(bucket[b], DefaultCapacity, DefaultRefillRate)
                                    ELSE bucket[d]
  <2>1. Live' \subseteq Referenced' \ {NoBucket} /\ Live' \subseteq DOMAIN bucket
    BY <1>5, <1>6, LimiterSized, SizedNext DEF Sized
  <2>2. \A d \in Live' : bucket'[d] = f[d]
    BY <1>2, <2>1 DEF Keeping
  <2>. QED BY <1>6, <2>1, <2>2
<1>8. \A d \in Live' : Worth(d) \in Int /\ Worth(d)' \in Int
  BY <1>5, LimiterSized, SizedNext, ClientConstants DEF Sized, ClientCapacity
<1>9. ASSUME NEW d \in Live'
      PROVE  /\ Worth(d)' <= Worth(d)
             /\ d = b /\ grants => Worth(d)' <= Worth(d) - Second
  <2>1. CASE d # b
    <3>1. Worth(d)' = Worth(d)
      BY <1>7, <2>1 DEF Worth, ClientCapacity
    <3>. QED BY <1>8, <2>1, <3>1
  <2>2. CASE d = b
    <3>1. Worth(b)' <= IF grants THEN Worth(b) - Second ELSE Worth(b)
      BY <1>6, <1>7, <2>2, WorthConsumed
    <3>. QED BY <1>8, <2>2, <3>1, ClientConstants
  <2>. QED BY <2>1, <2>2
<1>10. generations' \in Nat /\ Entitled' = Entitled
  BY <1>2, EntitledKept DEF ClientInv
<1>11. CASE grants /\ call[h].client = Watched
  <2>1. AllowsWatched(h)
    BY <1>0, <1>1, <1>3, <1>4, <1>11 DEF AllowsWatched
  <2>2. allowed' = allowed + 1
    BY <2>1 DEF Record, Add
  <2>3. b \in Live
    BY <1>0, <1>6, <1>11 DEF Live, Orphans
  <2>4. Worth(b) >= Second
    <3>. DEFINE tokens == Refilled(bucket[b], DefaultCapacity, DefaultRefillRate).tokens
    <3>1. tokens \in Nat /\ tokens * Second <= Worth(b) /\ tokens * Second \in Nat /\ tokens >= 1
      BY <1>6, <1>11, WorthRefilled DEF Grants
    <3>2. Worth(b) \in Int
      BY <1>6, WorthType, ClientConstants
    <3>. HIDE DEF tokens
    <3>3. tokens * Second >= Second
      BY <3>1, ClientConstants
    <3>. QED BY <3>1, <3>2, <3>3, ClientConstants
  <2>5. b \in Live' => Worth(b)' <= Worth(b) - Second
    BY <1>9, <1>11
  <2>. QED BY <1>5, <1>9, <1>10, <2>2, <2>3, <2>4, <2>5, ClientTakes
<1>12. CASE ~(grants /\ call[h].client = Watched)
  <2>1. ~AllowsWatched(h)
    BY <1>0, <1>12 DEF AllowsWatched
  <2>2. allowed' = allowed
    BY <1>4, <2>1, NothingAllowed
  <2>. QED BY <1>5, <1>9, <1>10, <2>2, LiveShrinks
<1>. QED BY <1>11, <1>12

LEMMA ClientInserts ==
    ASSUME LimiterInv, LimiterInv', ClientInv, Record, UNCHANGED elapsed,
           NEW h \in Handlers, call[h].at \in {"create", "rateCreate"},
           buckets[call[h].client] = NoBucket, NEW b, Inserts(h, b)
    PROVE  ClientInv'
<1>1. /\ Got(h, b).client = call[h].client /\ call[h].client \in Clients
      /\ Got(h, b).held \in {b, NoBucket} /\ b # NoBucket /\ b \notin DOMAIN bucket
  BY GotFacts DEF Inserts
<1>2. \A g \in Handlers : call'[g] = IF g = h THEN Got(h, b) ELSE call[g]
  BY DEF LimiterInv, Inserts
<1>3. allowed' = allowed
  <2>1. ~AllowsWatched(h)
    BY DEF AllowsWatched
  <2>. QED BY <1>2, <2>1, NothingAllowed
<1>4. DOMAIN bucket = Referenced \ {NoBucket} /\ Live \subseteq Referenced \ {NoBucket}
  BY LimiterSized DEF LimiterInv, Occupied, Sized
<1>5. \A g \in Handlers : call[g].held # NoBucket => call[g].held \in DOMAIN bucket
  BY <1>4 DEF Referenced
<1>6. \A d \in Live' \ {b} : d \in Live
  <2>. SUFFICES ASSUME NEW d \in Live', d # b PROVE d \in Live
    OBVIOUS
  <2>1. CASE d = buckets'[Watched] /\ d # NoBucket
    BY <2>1, ClientConstants DEF Live, Inserts
  <2>2. CASE d \in Orphans'
    <3>1. PICK g \in Handlers : call'[g].held = d /\ call'[g].client = Watched /\ d \in DOMAIN bucket'
      BY <2>2 DEF Orphans
    <3>2. NoBucket \notin DOMAIN bucket'
      BY DEF LimiterInv, Occupied
    <3>3. g # h
      BY <1>1, <1>2, <3>1, <3>2
    <3>4. call[g].held = d /\ call[g].client = Watched /\ d \in DOMAIN bucket /\ d # NoBucket
      BY <1>2, <1>5, <3>1, <3>2, <3>3
    <3>. QED BY <3>4 DEF Live, Orphans
  <2>. QED BY <2>1, <2>2 DEF Live
<1>7. \A d \in Live' \ {b} : Worth(d)' <= Worth(d)
  <2>1. \A d \in Live' : d \in DOMAIN bucket'
    BY LimiterSized, SizedNext DEF Sized, LimiterInv, Occupied
  <2>2. \A d \in Live' \ {b} : bucket'[d] = bucket[d]
    BY <2>1 DEF Inserts
  <2>3. \A d \in Live' \ {b} : Worth(d)' = Worth(d)
    BY <2>2 DEF Worth, ClientCapacity
  <2>4. \A d \in Live' \ {b} : Worth(d) \in Int
    BY <1>6, LimiterSized DEF Sized
  <2>. QED BY <2>3, <2>4
<1>8. CASE call[h].client = Watched
  <2>1. buckets'[Watched] = b /\ buckets[Watched] = NoBucket
    BY <1>8 DEF Inserts
  <2>2. generations' = generations /\ Entitled' = Entitled + 1
    BY <1>1, <2>1 DEF Record, Add, Mapped, Entitled, ClientInv
  <2>3. b \notin Live
    BY <1>1, <1>4
  <2>. QED BY <1>3, <1>6, <1>7, <2>2, <2>3, ClientGains DEF ClientInv
<1>9. CASE call[h].client # Watched
  <2>1. buckets'[Watched] \in {buckets[Watched], NoBucket}
    BY <1>9, ClientConstants DEF Inserts
  <2>2. generations' \in Nat /\ Entitled' = Entitled
    BY <2>1, EntitledKept DEF ClientInv
  <2>3. b \notin Live'
    <3>1. b # buckets'[Watched]
      BY <1>1, <1>4, <2>1, ClientConstants DEF Live, Referenced
    <3>2. \A g \in Handlers : call'[g].held = b => g = h
      BY <1>1, <1>2, <1>5
    <3>3. call'[h].client # Watched
      BY <1>1, <1>2, <1>9
    <3>. QED BY <3>1, <3>2, <3>3 DEF Live, Orphans
  <2>4. Live' \subseteq Live /\ \A d \in Live' : Worth(d)' <= Worth(d)
    BY <1>6, <1>7, <2>3
  <2>. QED BY <1>3, <2>2, <2>4, LiveShrinks
<1>. QED BY <1>8, <1>9

LEMMA ClientCleans ==
    ASSUME LimiterInv, LimiterInv', ClientInv, Record, UNCHANGED elapsed, Cleanup
    PROVE  ClientInv'
<1>1. /\ \A c \in Clients : buckets'[c] \in {buckets[c], NoBucket}
      /\ UNCHANGED call /\ Keeping(bucket)
  BY DEF Cleanup, LimiterInv
<1>2. DOMAIN bucket = Referenced \ {NoBucket} /\ DOMAIN bucket' = Referenced' \ {NoBucket}
  BY DEF LimiterInv, Occupied
<1>3. Referenced' \subseteq Referenced \cup {NoBucket}
  BY <1>1 DEF Referenced
<1>4. Live' \subseteq Live
  <2>1. Orphans' \subseteq Live
    BY <1>1, <1>2, <1>3 DEF Orphans, Live
  <2>. QED BY <1>1, <2>1, ClientConstants DEF Live
<1>5. \A d \in Live' : Worth(d)' <= Worth(d)
  <2>1. \A d \in Live' : bucket'[d] = bucket[d]
    BY <1>1, SizedNext DEF Keeping, Sized
  <2>2. \A d \in Live' : Worth(d)' = Worth(d)
    BY <2>1 DEF Worth, ClientCapacity
  <2>3. \A d \in Live' : Worth(d) \in Int
    BY <1>4, LimiterSized DEF Sized
  <2>. QED BY <2>2, <2>3
<1>6. generations' \in Nat /\ Entitled' = Entitled
  BY <1>1, EntitledKept, ClientConstants DEF ClientInv
<1>7. allowed' = allowed
  BY <1>1, NothingAllowed
<1>. QED BY <1>4, <1>5, <1>6, <1>7, LiveShrinks

LEMMA ClientStutters ==
    ASSUME ClientInv, UNCHANGED <<vars, window>>
    PROVE  ClientInv'
<1>1. UNCHANGED <<buckets, bucket, call, elapsed, allowed, generations>>
  BY DEF vars, window
<1>2. Live' = Live /\ Entitled' = Entitled /\ ClientCapacity' = ClientCapacity
  BY <1>1 DEF Live, Orphans, Entitled, ClientCapacity
<1>3. Room' = Room
  BY <1>1 DEF Room, Live, Orphans, Worth, ClientCapacity
<1>. QED BY <1>1, <1>2, <1>3 DEF ClientInv, ClientCredit

LEMMA ClientStep ==
    LimiterInv /\ LimiterInv' /\ ClientInv /\ [HistoryNext]_<<vars, window>> => ClientInv'
<1>. SUFFICES ASSUME LimiterInv, LimiterInv', ClientInv, [HistoryNext]_<<vars, window>>
              PROVE  ClientInv'
  OBVIOUS
<1>1. CASE UNCHANGED <<vars, window>>
  BY <1>1, ClientStutters
<1>2. CASE OpenWindow /\ UNCHANGED vars
  BY <1>2, ClientOpens
<1>3. CASE Tick /\ elapsed' = elapsed + 1 /\ UNCHANGED <<granted, allowed, generations>>
  BY <1>3, ClientTicks
<1>4. CASE Cleanup /\ Record /\ UNCHANGED elapsed
  BY <1>4, ClientCleans
<1>5. ASSUME NEW h \in Handlers, Begin(h) \/ HandlerStep(h) \/ ContextDone(h),
             Record, UNCHANGED elapsed
      PROVE  ClientInv'
  <2>0. /\ call[h].held # NoBucket <=> call[h].at = "consume"
        /\ call[h].at # "idle" => call[h].client \in Clients
    BY DEF LimiterInv, Occupied
  <2>. USE DEF Goto
  <2>1. ASSUME UNCHANGED <<buckets, bucket>>, NEW r, call' = [call EXCEPT ![h] = r],
               call[h].at # "consume", r.held # NoBucket => r.held = buckets[r.client]
        PROVE  ClientInv'
    BY <1>5, <2>1, ClientCalls
  <2>2. CASE Begin(h)
    <3>1. PICK c \in Clients, w \in BOOLEAN :
              call' = [call EXCEPT ![h] = [Idle EXCEPT !.at = "global", !.client = c, !.waits = w]]
      BY <2>2 DEF Begin
    <3>2. [Idle EXCEPT !.at = "global", !.client = c, !.waits = w].held = NoBucket
      BY DEF Idle
    <3>3. call[h].at # "consume" /\ UNCHANGED <<buckets, bucket>>
      BY <2>2 DEF Begin
    <3>. QED BY <2>1, <3>1, <3>2, <3>3
  <2>3. CASE GlobalConsume(h)
    <3>1. PICK r \in {[call[h] EXCEPT !.at = "lookup"], Refused(h)} : call' = [call EXCEPT ![h] = r]
      BY <2>3 DEF GlobalConsume
    <3>2. call[h].at = "global" /\ call[h] \in Calls /\ UNCHANGED <<buckets, bucket>>
      BY <2>3 DEF GlobalConsume, LimiterInv
    <3>3. r.held = NoBucket
      BY <2>0, <3>1, <3>2, RefusedFacts DEF Calls
    <3>. QED BY <2>1, <3>1, <3>2, <3>3
  <2>4. ASSUME buckets[call[h].client] # NoBucket, UNCHANGED <<buckets, bucket>>,
               call[h].at \in {"lookup", "create", "rate", "rateCreate"},
               call' = [call EXCEPT ![h] = Got(h, buckets[call[h].client])]
        PROVE  ClientInv'
    <3>. DEFINE r == Got(h, buckets[call[h].client])
    <3>1. buckets[call[h].client] \in BucketIds
      BY <2>0, <2>4 DEF LimiterInv
    <3>2. r.client = call[h].client /\ r.held \in {NoBucket, buckets[call[h].client]}
      BY <2>4, <3>1, GotFacts
    <3>3. call' = [call EXCEPT ![h] = r] /\ call[h].at # "consume"
      BY <2>4
    <3>. HIDE DEF r
    <3>. QED BY <2>1, <2>4, <3>2, <3>3
  <2>5. CASE Lookup(h)
    <3>1. call[h].at \in {"lookup", "rate"} /\ UNCHANGED <<buckets, bucket>>
      BY <2>5 DEF Lookup
    <3>2. CASE buckets[call[h].client] = NoBucket
      <4>1. PICK at \in {"create", "rateCreate"} :
                call' = [call EXCEPT ![h] = [call[h] EXCEPT !.at = at]]
        BY <2>5, <3>2 DEF Lookup
      <4>2. [call[h] EXCEPT !.at = at].held = NoBucket
        BY <2>0, <3>1 DEF LimiterInv, Calls
      <4>. QED BY <2>1, <3>1, <4>1, <4>2
    <3>3. CASE buckets[call[h].client] # NoBucket
      <4>1. call' = [call EXCEPT ![h] = Got(h, buckets[call[h].client])]
        BY <2>5, <3>3 DEF Lookup
      <4>. QED BY <2>4, <3>1, <3>3, <4>1
    <3>. QED BY <3>2, <3>3
  <2>6. CASE Create(h)
    <3>1. call[h].at \in {"create", "rateCreate"}
      BY <2>6 DEF Create
    <3>2. CASE buckets[call[h].client] = NoBucket
      <4>1. PICK b : Inserts(h, b)
        BY <2>6, <3>1, <3>2, InsertFacts DEF Create
      <4>. QED BY <1>5, <3>1, <3>2, <4>1, ClientInserts
    <3>3. CASE buckets[call[h].client] # NoBucket
      <4>1. call' = [call EXCEPT ![h] = Got(h, buckets[call[h].client])] /\ UNCHANGED <<buckets, bucket>>
        BY <2>6, <3>3 DEF Create
      <4>. QED BY <2>4, <3>1, <3>3, <4>1
    <3>. QED BY <3>2, <3>3
  <2>7. CASE Consume(h)
    BY <1>5, <2>7, ClientConsumes
  <2>8. CASE Wake(h)
    <3>1. call' = [call EXCEPT ![h] = [call[h] EXCEPT !.at = "global"]] /\ call[h].at = "sleep"
          /\ UNCHANGED <<buckets, bucket>>
      BY <2>8 DEF Wake
    <3>2. [call[h] EXCEPT !.at = "global"].held = NoBucket
      BY <2>0, <3>1 DEF LimiterInv, Calls
    <3>. QED BY <2>1, <3>1, <3>2
  <2>9. CASE ContextDone(h)
    <3>1. call' = [call EXCEPT ![h] = Idle] /\ call[h].at = "sleep" /\ UNCHANGED <<buckets, bucket>>
      BY <2>9 DEF ContextDone
    <3>2. Idle.held = NoBucket
      BY DEF Idle
    <3>. QED BY <2>1, <3>1, <3>2
  <2>. QED BY <1>5, <2>2, <2>3, <2>5, <2>6, <2>7, <2>8, <2>9 DEF HandlerStep
<1>. QED BY <1>1, <1>2, <1>3, <1>4, <1>5 DEF HistoryNext

LEMMA HistoryStepsAreSteps ==
    [HistoryNext]_<<vars, window>> => [Next]_vars
  BY DEF HistoryNext, Next, vars

LEMMA ClientCreditBounds == ClientInv /\ LimiterInv => ClientWindow
<1>. SUFFICES ASSUME ClientInv, LimiterInv PROVE ClientWindow
  OBVIOUS
<1>. DEFINE One == ClientCapacity + DefaultRefillRate * elapsed
<1>1. One \in Nat /\ allowed * Second \in Nat /\ Cardinality(Room) \in Nat
      /\ generations \in Nat /\ Entitled \in Nat
  BY LimiterSized, ClientConstants DEF ClientInv, Sized
<1>2. allowed * Second + Cardinality(Room) <= Entitled * One
  BY DEF ClientInv, ClientCredit
<1>3. Entitled <= generations
  BY <1>1 DEF Entitled
<1>. HIDE DEF One
<1>4. Entitled * One <= generations * One /\ Entitled * One \in Nat /\ generations * One \in Nat
  BY <1>1, <1>3
<1>5. allowed * Second <= generations * One
  BY <1>1, <1>2, <1>4
<1>. QED BY <1>5 DEF ClientWindow, ClientCapacity, One

\* Whatever the goroutines, clients, rates, capacities, evictions and cleanups, and
\* whenever the window opens, a client gets at most the capacity of its bucket and what
\* is refilled while the window lasts, once for each bucket it had in the window.
THEOREM ClientLimitHolds == HistorySpec => []ClientWindow
<1>1. HistorySpec => []LimiterInv
  <2>1. HistoryInit => LimiterInv
    BY LimiterInit DEF HistoryInit
  <2>2. LimiterInv /\ [HistoryNext]_<<vars, window>> => LimiterInv'
    BY LimiterStep, HistoryStepsAreSteps
  <2>. QED BY <2>1, <2>2, PTL DEF HistorySpec
<1>2. HistorySpec => []ClientInv
  BY <1>1, ClientInit, ClientStep, PTL DEF HistorySpec
<1>. QED BY <1>1, <1>2, ClientCreditBounds, PTL
=============================================================================
