------------------------------- MODULE Search -------------------------------
(***************************************************************************)
(* The default server's handlers Search and SearchJSON (handlers.go): each *)
(* request tries up to MaxAttempts instances of the instance manager and   *)
(* marks each with what became of it.  Requests share nothing but the      *)
(* manager, so they interleave between any two of its operations; a        *)
(* request holds its instance through the delay, the upstream exchange and *)
(* the analysis of the response, while others mark the same instance.      *)
(*                                                                         *)
(* What the upstream answers is arbitrary, and it answers or times out.    *)
(* A caller that goes away cancels its request's context: exchanges begun  *)
(* after that fail, and the handler goes through its attempts regardless.  *)
(***************************************************************************)
EXTENDS InstanceManager

CONSTANTS
    Searchers,      \* connections, each with one request at a time
    MaxAttempts,    \* maxRetries
    NoURL

ASSUME SearchAssumption == MaxAttempts \in Nat \ {0} /\ NoURL \notin URLs

VARIABLE search     \* the request that each connection has under way

vars == <<current, health, search>>

Idle == [at |-> "idle", attempt |-> 0, instance |-> NoURL, gone |-> FALSE]

Init ==
    /\ ManagerInit
    /\ search = [s \in Searchers |-> Idle]

Goto(s, next) == search' = [search EXCEPT ![s] = next]

Begin(s) ==
    /\ search[s].at = "idle"
    /\ Goto(s, [Idle EXCEPT !.at = "pick", !.attempt = 1])
    /\ UNCHANGED <<current, health>>

\* The caller disconnects.
Leaves(s) ==
    /\ search[s].at # "idle" /\ ~search[s].gone
    /\ Goto(s, [search[s] EXCEPT !.gone = TRUE])
    /\ UNCHANGED <<current, health>>

\* continue: the next attempt, or the 503 after the last one.
Continue(s) ==
    Goto(s, IF search[s].attempt = MaxAttempts
            THEN Idle
            ELSE [search[s] EXCEPT !.at = "pick", !.attempt = @ + 1, !.instance = NoURL])

Pick(s) ==
    /\ search[s].at = "pick"
    /\ \E k \in 1 .. Len(Instances) :
         /\ HandsOut(k)
         /\ Goto(s, [search[s] EXCEPT !.at = IF search[s].gone THEN "doomed" ELSE "exchange",
                                      !.instance = Candidate(k)])

\* Mistake: an attempt that found no instance is not counted.
PickFailsFreely(s) ==
    /\ search[s].at = "pick"
    /\ HandsOutNone
    /\ UNCHANGED search

PickFails(s) ==
    /\ search[s].at = "pick"
    /\ HandsOutNone
    /\ Continue(s)

\* A transport error, a 5xx, a response that cannot be read, a maintenance page
\* or a page without results.
Fails(s) ==
    /\ search[s].at \in {"exchange", "doomed"}
    /\ MarkError(search[s].instance)
    /\ Continue(s)

RateLimited(s) ==
    /\ search[s].at = "exchange"
    /\ MarkRateLimit(search[s].instance)
    /\ Continue(s)

Protected(s) ==
    /\ search[s].at = "exchange"
    /\ MarkAnubisProtected(search[s].instance)
    /\ Continue(s)

\* The response is processed and written; nothing after MarkSuccess goes back.
Succeeds(s) ==
    /\ search[s].at = "exchange"
    /\ MarkSuccess(search[s].instance)
    /\ Goto(s, Idle)

HandlerStep(s) ==
    Pick(s) \/ PickFails(s) \/ Fails(s) \/ RateLimited(s) \/ Protected(s) \/ Succeeds(s)

Next ==
    \/ Tick /\ UNCHANGED search
    \/ \E s \in Searchers : Begin(s) \/ Leaves(s) \/ HandlerStep(s)

Spec == Init /\ [][Next]_vars

\* Time passes and a request under way goes on; nobody is obliged to search.
FairSpec ==
    /\ Spec
    /\ WF_vars(Tick /\ UNCHANGED search)
    /\ \A s \in Searchers : WF_vars(HandlerStep(s))

-----------------------------------------------------------------------------
(* Properties *)

\* The types of the manager's and the requests' fields.
TypeOK ==
    /\ current \in 0 .. Len(Instances) /\ (Instances # <<>> => current < Len(Instances))
    /\ health \in [URLs -> [errors : 0 .. MaxErrors, cooling : Nat, idle : 0 .. Longest,
                            available : BOOLEAN, protected : BOOLEAN]]
    /\ search \in [Searchers -> [at : {"idle", "pick", "exchange", "doomed"},
                                 attempt : 0 .. MaxAttempts, instance : URLs \cup {NoURL},
                                 gone : BOOLEAN]]

\* The count that the instances page reports and GetNextInstance go by different
\* fields, Available and AnubisProtected, which late outcomes of overlapping
\* requests set and clear: they still agree on which instances can be used.
CountMatchesUse == \A i \in URLs : Counted(i) <=> ~Barred(i)

\* An instance cools down only for errors that still stand: whichever outcomes of
\* overlapping requests came last, a cooldown never outlives the success that
\* wiped its errors out.
CoolingHasErrors == \A i \in URLs : health[i].cooling > 0 => health[i].errors > 0

\* Whatever the outcomes, a request ends after a bounded number of attempts.
EverySearchEnds == \A s \in Searchers : search[s].at # "idle" ~> search[s].at = "idle"

\* No stream of requests keeps an instance in cooldown for ever: a cooling
\* instance gets no new request, so only the ones under way can renew it.
CooldownEnds == \A i \in URLs : health[i].cooling > 0 ~> health[i].cooling = 0
=============================================================================
