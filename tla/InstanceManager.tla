--------------------------- MODULE InstanceManager ---------------------------
(***************************************************************************)
(* The instance manager of internal/instances/manager.go: which of the     *)
(* configured instances a search may use next, and what the outcome of a   *)
(* search does to the health of its instance.  Every operation holds im.mu *)
(* throughout and so is one step of whoever calls it.                      *)
(*                                                                         *)
(* Times are kept relative to the clock: how long an instance still cools  *)
(* down and how long ago it was last handed out, the latter no further     *)
(* than the longest interval.  Errors are counted up to MaxErrors, from    *)
(* where the cooldowns stay the same.  The instant in which now equals     *)
(* CooldownUntil counts as over.  main sets the list once, before the      *)
(* server starts; a missing health record is as good as a fresh one.       *)
(* Cookies are left out.                                                   *)
(***************************************************************************)
EXTENDS Integers, Sequences

CONSTANTS
    Instances,          \* im.instances, a sequence
    QuietIntervals,     \* what minRequestInterval may be, in ticks ...
    ErrorIntervals,     \* ... and what it may be after an error
    BaseCooldowns,      \* base cooldowns of a rate limit, jitter included
    MaxCooldown,        \* the longest cooldown after a rate limit
    ErrorBase, ErrorStep,   \* baseDelay of MarkError, and its growth per error
    MaxErrorCooldown,   \* the longest cooldown after an error
    MaxErrors

URLs == {Instances[k] : k \in 1 .. Len(Instances)}

Least(a, b) == IF a <= b THEN a ELSE b

\* The cooldowns that the n-th consecutive error may bring.
RateLimitCooldowns(n) ==
    {Least(MaxCooldown, d * <<1, 2, 4, 8>>[Least(n, 4)]) : d \in BaseCooldowns}

ErrorCooldowns(n) ==
    LET baseDelay == ErrorBase + ErrorStep * n
    IN  {Least(MaxErrorCooldown, baseDelay + jitter) : jitter \in 0 .. baseDelay - 1}

ASSUME ManagerAssumption ==
    /\ QuietIntervals \subseteq Nat \ {0} /\ QuietIntervals # {}
    /\ ErrorIntervals \subseteq Nat \ {0} /\ ErrorIntervals # {}
    /\ BaseCooldowns \subseteq Nat \ {0} /\ BaseCooldowns # {}
    /\ \A n \in {ErrorBase, ErrorStep, MaxCooldown, MaxErrorCooldown} : n \in Nat \ {0}
    /\ MaxErrors \in Nat /\ MaxErrors >= 2

\* More errors than MaxErrors make no difference: a rate limit's cooldown stops growing
\* with the fourth error, at the latest, and an error's when it has reached its cap.
ASSUME CapAssumption ==
    /\ RateLimitCooldowns(Least(MaxErrors, 4)) = RateLimitCooldowns(4)
    /\ ErrorCooldowns(MaxErrors) = {MaxErrorCooldown}

\* A list of instances; and the intervals are bounded.
ASSUME ListAssumption == Instances \in Seq(URLs)

ASSUME IntervalAssumption ==
    \E d \in QuietIntervals \cup ErrorIntervals :
        \A e \in QuietIntervals \cup ErrorIntervals : e <= d

VARIABLES
    current,    \* im.current
    health      \* im.health

\* The interval that an instance has certainly rested for.
Longest ==
    CHOOSE d \in QuietIntervals \cup ErrorIntervals :
        \A e \in QuietIntervals \cup ErrorIntervals : e <= d

Fresh == [errors |-> 0, cooling |-> 0, idle |-> Longest, available |-> TRUE, protected |-> FALSE]

ManagerInit ==
    /\ current = 0
    /\ health = [i \in URLs |-> Fresh]

-----------------------------------------------------------------------------
(* GetNextInstance *)

\* Mistake: cooldowns are recorded and never looked at.
BarredIgnoresCooldown(i) == health[i].protected

Barred(i) == health[i].cooling > 0 \/ health[i].protected

Intervals(i) == IF health[i].errors > 0 THEN ErrorIntervals ELSE QuietIntervals

\* The random interval decides whether an instance that is not barred is taken.
MaySkip(i) == Barred(i) \/ \E d \in Intervals(i) : health[i].idle < d
MayTake(i) == ~Barred(i) /\ \E d \in Intervals(i) : health[i].idle >= d

\* The k-th instance that the loop looks at.
Candidate(k) == Instances[((current + k - 1) % Len(Instances)) + 1]

\* Mistake: the next call starts with the instance just handed out.
AfterStays(k) == (current + k - 1) % Len(Instances)

\* im.current once the loop has looked at k instances.
After(k) == (current + k) % Len(Instances)

\* The loop stops at its k-th instance and hands it out.
HandsOut(k) ==
    /\ MayTake(Candidate(k))
    /\ \A j \in 1 .. k - 1 : MaySkip(Candidate(j))
    /\ current' = After(k)
    /\ health' = [health EXCEPT ![Candidate(k)].idle = 0]

\* The loop comes full circle and GetNextInstance returns an error.
HandsOutNone ==
    /\ \A k \in 1 .. Len(Instances) : MaySkip(Candidate(k))
    /\ UNCHANGED <<current, health>>

-----------------------------------------------------------------------------
(* What an outcome does to the instance's health *)

OneMore(errors) == Least(errors + 1, MaxErrors)

MarkRateLimit(i) ==
    /\ \E d \in RateLimitCooldowns(OneMore(health[i].errors)) :
           health' = [health EXCEPT ![i].errors = OneMore(@), ![i].cooling = d]
    /\ UNCHANGED current

MarkError(i) ==
    LET n == OneMore(health[i].errors)
    IN  /\ \/ n < 2 /\ health' = [health EXCEPT ![i].errors = n]
           \/ /\ n >= 2
              /\ \E d \in ErrorCooldowns(n) :
                     health' = [health EXCEPT ![i].errors = n, ![i].cooling = d]
        /\ UNCHANGED current

\* Mistake: a success forgives the errors and leaves the cooldown.
MarkSuccessKeepsCooldown(i) ==
    /\ health' = [health EXCEPT ![i].errors = 0, ![i].available = TRUE]
    /\ UNCHANGED current

MarkSuccess(i) ==
    /\ health' = [health EXCEPT ![i].errors = 0, ![i].available = TRUE, ![i].cooling = 0]
    /\ UNCHANGED current

\* Mistake: only Available is cleared.
MarkAnubisProtectedHalf(i) ==
    /\ health' = [health EXCEPT ![i].available = FALSE]
    /\ UNCHANGED current

MarkAnubisProtected(i) ==
    /\ health' = [health EXCEPT ![i].protected = TRUE, ![i].available = FALSE]
    /\ UNCHANGED current

\* GetAvailableInstanceCount
Counted(i) == ~health[i].protected /\ health[i].available /\ health[i].cooling = 0

\* Time passes.
Tick ==
    /\ health' = [i \in URLs |-> [health[i] EXCEPT !.cooling = IF @ > 0 THEN @ - 1 ELSE 0,
                                                   !.idle = Least(@ + 1, Longest)]]
    /\ UNCHANGED current
=============================================================================
