------------------------- MODULE DeliveryLifecycle -------------------------
(***************************************************************************)
(* What the gateway promises about the status of a delivery, as the API    *)
(* and the dashboard show it: created pending, tried until it succeeds or  *)
(* is dead-lettered, final in both states except that a dead-lettered      *)
(* delivery can be recovered, and gone with its destination.               *)
(***************************************************************************)
CONSTANT Deliveries

VARIABLE status

Open == {"pending", "failed"}

Init == status = [d \in Deliveries |-> "none"]

Create(d) ==
    /\ status[d] = "none"
    /\ status' = [status EXCEPT ![d] = "pending"]

\* One recorded attempt.
Attempt(d, outcome) ==
    /\ status[d] \in Open
    /\ status' = [status EXCEPT ![d] = outcome]

Recover(d) ==
    /\ status[d] = "dead_lettered"
    /\ status' = [status EXCEPT ![d] = "pending"]

\* The deliveries of one destination go together.
Delete(S) ==
    status' = [d \in Deliveries |->
        IF d \in S /\ status[d] # "none" THEN "deleted" ELSE status[d]]

Next ==
    \/ \E d \in Deliveries :
          \/ Create(d)
          \/ \E o \in {"failed", "succeeded", "dead_lettered"} : Attempt(d, o)
          \/ Recover(d)
    \/ \E S \in SUBSET Deliveries : Delete(S)

Spec == Init /\ [][Next]_status
=============================================================================
