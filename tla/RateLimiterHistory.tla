------------------------- MODULE RateLimiterHistory -------------------------
(***************************************************************************)
(* RateLimiter with a record of what it grants in a window of time, which  *)
(* may open at any moment.                                                 *)
(***************************************************************************)
EXTENDS RateLimiter

CONSTANTS
    Watched,        \* the client whose requests are counted
    MaxWindow       \* bound: ticks in a window

ASSUME WindowAssumption == Watched \in Clients /\ MaxWindow \in Nat

VARIABLES
    elapsed,        \* ticks since the window opened
    granted,        \* tokens taken from the global bucket in it
    allowed,        \* requests of the watched client allowed in it
    generations     \* buckets that client may draw on in it

window == <<elapsed, granted, allowed, generations>>

\* Buckets of the watched client that calls still hold though the map dropped them.
Orphans ==
    {b \in DOMAIN bucket : /\ \E h \in Handlers : call[h].held = b /\ call[h].client = Watched
                           /\ b # buckets[Watched]}

OpenWindow ==
    /\ elapsed' = 0
    /\ granted' = 0
    /\ allowed' = 0
    /\ generations' = 1 + Cardinality(Orphans)

Add(n, happens) == n + (IF happens THEN 1 ELSE 0)

TakesGlobal(h) == call[h].at = "global" /\ call'[h].at = "lookup"

AllowsWatched(h) ==
    /\ call[h].at = "consume" /\ call[h].client = Watched
    /\ Grants(bucket[call[h].held], DefaultCapacity, DefaultRefillRate)
    /\ call'[h].at = "idle"

\* What the window sees of a step.
Record ==
    /\ granted' = Add(granted, \E h \in Handlers : TakesGlobal(h))
    /\ allowed' = Add(allowed, \E h \in Handlers : AllowsWatched(h))
    /\ generations' = Add(generations, Watched \in Mapped /\ Watched \notin Mapped')

HistoryInit ==
    /\ Init
    /\ elapsed = 0 /\ granted = 0 /\ allowed = 0 /\ generations = 1

HistoryNext ==
    \/ OpenWindow /\ UNCHANGED vars
    \/ Tick /\ elapsed < MaxWindow /\ elapsed' = elapsed + 1
            /\ UNCHANGED <<granted, allowed, generations>>
    \/ /\ Cleanup \/ \E h \in Handlers : Begin(h) \/ HandlerStep(h) \/ ContextDone(h)
       /\ Record
       /\ UNCHANGED elapsed

HistorySpec == HistoryInit /\ [][HistoryNext]_<<vars, window>>

\* In any window of time, whichever goroutines race, the global bucket grants no
\* more than it can hold and is refilled with.
GlobalWindow == granted * Second <= GlobalCapacity * Second + GlobalRefillRate * elapsed

\* The same for a client, once for every bucket it had in the window: a client
\* gets a new bucket only when cleanup or eviction dropped its old one, never
\* because two of its first requests raced.
ClientWindow ==
    allowed * Second
        <= generations * (DefaultCapacity * Second + DefaultRefillRate * elapsed)
=============================================================================
