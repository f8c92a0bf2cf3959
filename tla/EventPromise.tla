---------------------------- MODULE EventPromise ----------------------------
(***************************************************************************)
(* What a fintech may rely on for one event of the gateway: it is pending  *)
(* until the gateway has settled it, DELIVERED means that the endpoint had *)
(* it at least once, and after that nothing more is sent.                  *)
(***************************************************************************)
CONSTANT Events

VARIABLES
    fate,       \* "none", "pending", "delivered" or "given_up"
    received    \* the endpoint has had the event

promise == <<fate, received>>

Init ==
    /\ fate = [e \in Events |-> "none"]
    /\ received = [e \in Events |-> FALSE]

Accept(e) ==
    /\ fate[e] = "none"
    /\ fate' = [fate EXCEPT ![e] = "pending"]
    /\ UNCHANGED received

Receive(e) ==
    /\ fate[e] = "pending"
    /\ received' = [received EXCEPT ![e] = TRUE]
    /\ UNCHANGED fate

Confirm(e) ==
    /\ fate[e] = "pending"
    /\ received[e]
    /\ fate' = [fate EXCEPT ![e] = "delivered"]
    /\ UNCHANGED received

GiveUp(e) ==
    /\ fate[e] = "pending"
    /\ fate' = [fate EXCEPT ![e] = "given_up"]
    /\ UNCHANGED received

Next == \E e \in Events : Accept(e) \/ Receive(e) \/ Confirm(e) \/ GiveUp(e)

Spec == Init /\ [][Next]_promise
=============================================================================
