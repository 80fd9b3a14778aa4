---------------------------- MODULE RequestReply ----------------------------
(***************************************************************************)
(* What a caller of the request queue is promised: its request is refused  *)
(* at once or becomes pending, a pending request gets at most one reply,   *)
(* and the reply it gets is never changed or withdrawn.                    *)
(***************************************************************************)

CONSTANT Items          \* the requests

VARIABLE status         \* the status of each request

Init == status = [i \in Items |-> "new"]

Submit(i) ==
    /\ status[i] = "new"
    /\ \E s \in {"pending", "refused"} : status' = [status EXCEPT ![i] = s]

Reply(i) ==
    /\ status[i] = "pending"
    /\ \E s \in {"ok", "error"} : status' = [status EXCEPT ![i] = s]

Next == \E i \in Items : Submit(i) \/ Reply(i)

Spec == Init /\ [][Next]_status
=============================================================================
