--------------------------- MODULE OrderLifecycle ---------------------------
(***************************************************************************)
(* What the two services promise about an order, without queues, retries   *)
(* or failures: it is placed once, its payment is opened only after that   *)
(* and decided once, and the order ends paid or failed as that decision    *)
(* says.  Nothing ever leaves a final state.                               *)
(***************************************************************************)
CONSTANTS Orders, Decision   \* Decision[o]: what the gateway says of order o

VARIABLES orderStatus, paymentStatus

vars == <<orderStatus, paymentStatus>>

Init ==
    /\ orderStatus = [o \in Orders |-> "none"]
    /\ paymentStatus = [o \in Orders |-> "none"]

Place(o) ==
    /\ orderStatus[o] = "none"
    /\ orderStatus' = [orderStatus EXCEPT ![o] = "pending"]
    /\ UNCHANGED paymentStatus

Open(o) ==
    /\ orderStatus[o] = "pending"
    /\ paymentStatus[o] = "none"
    /\ paymentStatus' = [paymentStatus EXCEPT ![o] = "pending"]
    /\ UNCHANGED orderStatus

Decide(o) ==
    /\ paymentStatus[o] = "pending"
    /\ paymentStatus' = [paymentStatus EXCEPT ![o] = Decision[o]]
    /\ UNCHANGED orderStatus

Settle(o) ==
    /\ orderStatus[o] = "pending"
    /\ paymentStatus[o] \in {"approved", "rejected"}
    /\ orderStatus' = [orderStatus EXCEPT ![o] =
                         IF paymentStatus[o] = "approved" THEN "paid" ELSE "failed"]
    /\ UNCHANGED paymentStatus

Next == \E o \in Orders : Place(o) \/ Open(o) \/ Decide(o) \/ Settle(o)

Spec == Init /\ [][Next]_vars

=============================================================================
