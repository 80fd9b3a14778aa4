----------------------------- MODULE RateLimiter -----------------------------
(***************************************************************************)
(* The rate limiter of internal/concurrency/rate_limiter.go: a global      *)
(* token bucket, one bucket per client in a map, the goroutines that call  *)
(* Allow or WaitForPermission for one token, and the cleanup goroutine.    *)
(*                                                                         *)
(* A bucket is locked while it is refilled and consumed, the map while it  *)
(* is read or written, and nothing is locked in between: a call may hold   *)
(* a bucket that has left the map.  lastRefill is kept relative to the     *)
(* clock, as the bucket's age, and ages above MaxAge are not told apart:   *)
(* such a bucket is full once refilled and old enough for cleanup.         *)
(* SetBucketParams, Close and the statistics are left out.                 *)
(***************************************************************************)
EXTENDS Integers, FiniteSets

CONSTANTS
    Clients,            \* identifiers
    Handlers,           \* goroutines that call the limiter
    DefaultCapacity, DefaultRefillRate,     \* of a client's bucket, per second
    GlobalCapacity, GlobalRefillRate,
    Second,             \* clock ticks in a second
    MaxBuckets,
    CleanupAge,         \* three cleanup intervals, in ticks
    MaxAge,             \* the age from which a bucket gets no older
    NoBucket

ASSUME LimiterAssumption ==
    /\ IsFiniteSet(Clients) /\ IsFiniteSet(Handlers)
    /\ \A n \in {DefaultCapacity, DefaultRefillRate, GlobalCapacity, GlobalRefillRate,
                 Second, MaxBuckets, MaxAge} : n \in Nat \ {0}
    /\ CleanupAge \in Nat /\ CleanupAge < MaxAge
    /\ MaxAge * DefaultRefillRate >= DefaultCapacity * Second
    /\ MaxAge * GlobalRefillRate >= GlobalCapacity * Second
    /\ NoBucket \notin Nat

VARIABLES
    global,     \* rl.globalBucket
    buckets,    \* rl.buckets: the bucket of each client
    bucket,     \* the buckets that the map or a call refers to
    call        \* each goroutine's call of the limiter

vars == <<global, buckets, bucket, call>>

BucketIds == 1 .. Cardinality(Clients) + Cardinality(Handlers)

Idle == [at |-> "idle", client |-> "none", waits |-> FALSE, held |-> NoBucket, sleep |-> 0]

\* NewTokenBucket: a bucket starts full.
Full(capacity) == [tokens |-> capacity, age |-> 0]

Init ==
    /\ global = Full(GlobalCapacity)
    /\ buckets = [c \in Clients |-> NoBucket]
    /\ bucket = [b \in {} |-> Full(DefaultCapacity)]
    /\ call = [h \in Handlers |-> Idle]

-----------------------------------------------------------------------------
(* TokenBucket *)

Least(a, b) == IF a <= b THEN a ELSE b

\* Mistake: lastRefill is not moved on, so the same time is worth tokens again.
RefilledKeepsAge(b, capacity, rate) ==
    [tokens |-> Least(capacity, b.tokens + ((b.age * rate) \div Second)), age |-> b.age]

\* refill: the division truncates and lastRefill becomes now all the same.
Refilled(b, capacity, rate) ==
    [tokens |-> Least(capacity, b.tokens + ((b.age * rate) \div Second)), age |-> 0]

Grants(b, capacity, rate) == Refilled(b, capacity, rate).tokens >= 1

\* The bucket after consume(1).
Consumed(b, capacity, rate) ==
    [Refilled(b, capacity, rate) EXCEPT !.tokens = IF @ >= 1 THEN @ - 1 ELSE @]

-----------------------------------------------------------------------------
(* Allow and WaitForPermission *)

Goto(h, here, next) ==
    /\ call[h].at = here
    /\ call' = [call EXCEPT ![h] = next]

\* What remains referenced after a step; the rest is garbage.
Referenced == {buckets[c] : c \in Clients} \cup {call[h].held : h \in Handlers}

Keeping(f) == bucket' = [b \in Referenced' \ {NoBucket} |-> f[b]]

Begin(h) ==
    /\ \E c \in Clients, w \in BOOLEAN :
           Goto(h, "idle", [Idle EXCEPT !.at = "global", !.client = c, !.waits = w])
    /\ UNCHANGED <<global, buckets, bucket>>

\* Allow returns false; WaitForPermission goes on to work out its wait.
Refused(h) == IF call[h].waits THEN [call[h] EXCEPT !.at = "rate", !.held = NoBucket] ELSE Idle

GlobalConsume(h) ==
    /\ Goto(h, "global", IF Grants(global, GlobalCapacity, GlobalRefillRate)
                         THEN [call[h] EXCEPT !.at = "lookup"] ELSE Refused(h))
    /\ global' = Consumed(global, GlobalCapacity, GlobalRefillRate)
    /\ UNCHANGED <<buckets, bucket>>

\* The wait in ticks: the quotient is truncated to whole seconds.
WaitTime == Least((1 \div DefaultRefillRate) * Second, 10 * Second)

\* getBucket has returned b.
Got(h, b) ==
    IF call[h].at \in {"lookup", "create"}
    THEN [call[h] EXCEPT !.at = "consume", !.held = b]
    ELSE [call[h] EXCEPT !.at = "sleep", !.sleep = WaitTime]

\* getBucket under the read lock.
Lookup(h) ==
    LET b == buckets[call[h].client]
    IN  /\ \/ Goto(h, "lookup", IF b = NoBucket THEN [call[h] EXCEPT !.at = "create"] ELSE Got(h, b))
           \/ Goto(h, "rate", IF b = NoBucket THEN [call[h] EXCEPT !.at = "rateCreate"] ELSE Got(h, b))
        /\ UNCHANGED <<global, buckets, bucket>>

Mapped == {c \in Clients : buckets[c] # NoBucket}

\* The clients whose bucket may be evicted for a new one: one with the oldest
\* lastRefill of those before now, if the map is full; ties go by map order.
Evictable ==
    {c \in Mapped : /\ Cardinality(Mapped) >= MaxBuckets
                    /\ bucket[buckets[c]].age > 0
                    /\ \A d \in Mapped : bucket[buckets[d]].age <= bucket[buckets[c]].age}

Insert(h) ==
    LET fresh == CHOOSE b \in BucketIds : b \notin DOMAIN bucket
        Inserted(map) == [map EXCEPT ![call[h].client] = fresh]
    IN  /\ call' = [call EXCEPT ![h] = Got(h, fresh)]
        /\ \/ Evictable = {} /\ buckets' = Inserted(buckets)
           \/ \E c \in Evictable : buckets' = Inserted([buckets EXCEPT ![c] = NoBucket])
        /\ Keeping([b \in DOMAIN bucket \cup {fresh} |->
                        IF b = fresh THEN Full(DefaultCapacity) ELSE bucket[b]])

\* Mistake: no second look once the write lock is taken.
CreateUnchecked(h) ==
    /\ call[h].at \in {"create", "rateCreate"}
    /\ Insert(h)
    /\ UNCHANGED global

\* getBucket under the write lock.
Create(h) ==
    /\ call[h].at \in {"create", "rateCreate"}
    /\ LET b == buckets[call[h].client]
       IN  IF b = NoBucket
           THEN Insert(h)
           ELSE call' = [call EXCEPT ![h] = Got(h, b)] /\ UNCHANGED <<buckets, bucket>>
    /\ UNCHANGED global

Consume(h) ==
    LET b == call[h].held
    IN  /\ Goto(h, "consume", IF Grants(bucket[b], DefaultCapacity, DefaultRefillRate)
                              THEN Idle ELSE Refused(h))
        /\ UNCHANGED <<global, buckets>>
        /\ Keeping([bucket EXCEPT ![b] = Consumed(@, DefaultCapacity, DefaultRefillRate)])

Wake(h) ==
    /\ call[h].sleep = 0
    /\ Goto(h, "sleep", [call[h] EXCEPT !.at = "global"])
    /\ UNCHANGED <<global, buckets, bucket>>

ContextDone(h) == Goto(h, "sleep", Idle) /\ UNCHANGED <<global, buckets, bucket>>

-----------------------------------------------------------------------------

\* cleanup drops every bucket that has not been refilled for three intervals.
Cleanup ==
    LET Expired == {c \in Mapped : bucket[buckets[c]].age > CleanupAge}
    IN  /\ Expired # {}
        /\ buckets' = [c \in Clients |-> IF c \in Expired THEN NoBucket ELSE buckets[c]]
        /\ UNCHANGED <<global, call>>
        /\ Keeping(bucket)

Older(b) == [b EXCEPT !.age = Least(@ + 1, MaxAge)]

Tick ==
    /\ global' = Older(global)
    /\ bucket' = [b \in DOMAIN bucket |-> Older(bucket[b])]
    /\ call' = [h \in Handlers |-> [call[h] EXCEPT !.sleep = IF @ > 0 THEN @ - 1 ELSE 0]]
    /\ UNCHANGED buckets

HandlerStep(h) ==
    GlobalConsume(h) \/ Lookup(h) \/ Create(h) \/ Consume(h) \/ Wake(h)

Next ==
    \/ Tick \/ Cleanup
    \/ \E h \in Handlers : Begin(h) \/ HandlerStep(h) \/ ContextDone(h)

Spec == Init /\ [][Next]_vars

\* Time passes and a call that can go on does; nobody is obliged to call, and
\* contexts need not end.
FairSpec == Spec /\ WF_vars(Tick) /\ \A h \in Handlers : WF_vars(HandlerStep(h))

-----------------------------------------------------------------------------
(* Properties *)

BucketType(capacity) == [tokens : 0 .. capacity, age : 0 .. MaxAge]

\* The types of the limiter's fields and calls: no bucket overflows or is
\* overdrawn, and whatever the map or a call refers to exists.
TypeOK ==
    /\ global \in BucketType(GlobalCapacity)
    /\ DOMAIN bucket \subseteq BucketIds
    /\ \A b \in DOMAIN bucket : bucket[b] \in BucketType(DefaultCapacity)
    /\ buckets \in [Clients -> DOMAIN bucket \cup {NoBucket}]
    /\ call \in [Handlers -> [at : {"idle", "global", "lookup", "create", "consume", "rate",
                                    "rateCreate", "sleep"},
                              client : Clients \cup {"none"}, waits : BOOLEAN,
                              held : DOMAIN bucket \cup {NoBucket}, sleep : Nat]]

\* "WaitForPermission waits until tokens become available" (rate_limiter.go):
\* a call of it whose context never ends gets its token in the end.
WaiterServed == \A h \in Handlers : call[h].at = "sleep" ~> call[h].at = "idle"
=============================================================================
