---------------------------- MODULE SearchHistory ----------------------------
(***************************************************************************)
(* Search with a count of how often an instance that was sure to be taken  *)
(* saw another one handed out.                                             *)
(***************************************************************************)
EXTENDS Search

VARIABLE overtaken      \* how often each instance was passed over, ready as it was

\* GetNextInstance would take i if it came to it.
Ready(i) == ~MaySkip(i)

\* The request that a step hands an instance to.
Handed(s) == search[s].at = "pick" /\ search'[s].instance # NoURL

Record ==
    overtaken' = [i \in URLs |->
        IF ~Ready(i)' THEN 0
        ELSE IF Ready(i) /\ \E s \in Searchers : Handed(s) THEN overtaken[i] + 1
        ELSE overtaken[i]]

HistoryInit == Init /\ overtaken = [i \in URLs |-> 0]

HistorySpec == HistoryInit /\ [][Next /\ Record]_<<vars, overtaken>>

FairHistorySpec ==
    /\ HistorySpec
    /\ WF_vars(Tick /\ UNCHANGED search)
    /\ \A s \in Searchers : WF_vars(HandlerStep(s))

\* However requests interleave and whatever the random intervals skip, an
\* instance that is ready is handed out before any other has had two turns more:
\* at most every other place of the list comes first.
RoundRobin == \A i \in URLs : overtaken[i] < Len(Instances)
=============================================================================
