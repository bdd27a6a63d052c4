---------------------------- MODULE GatewayCheckout ----------------------------
(***************************************************************************)
(* POST /cart/checkout of the api-gateway in front of checkout-service,    *)
(* for a user whose active cart has items.  The transaction that completes *)
(* the cart and inserts the order is one step (the module Cart has its     *)
(* statements and locks); the publish of the payment request follows it.   *)
(***************************************************************************)
EXTENDS Gateway

CONSTANT NoOrder     \* the cart is still active

VARIABLE order       \* the call that turned the cart into an order

vars == <<circuit, req, call, order>>

Init == GatewayInit /\ order = NoOrder

\* completeCheckout: 422 when there is no active cart.
Complete(c) ==
    /\ call[c] = "sent"
    /\ IF order = NoOrder
       THEN order' = c /\ call' = [call EXCEPT ![c] = "running"]
       ELSE Reply(c, "422") /\ UNCHANGED order
    /\ UNCHANGED <<circuit, req>>

\* The order is committed: 201 when the payment request is published, and 503
\* when the publish throws.
Publish(c) ==
    /\ call[c] = "running"
    /\ \E status \in {"201", "503"} : Reply(c, status)
    /\ UNCHANGED <<circuit, req, order>>

Next ==
    \/ GatewayNext /\ UNCHANGED order
    \/ \E c \in Calls : Complete(c) \/ Publish(c)

Spec == Init /\ [][Next]_vars

-----------------------------------------------------------------------------
(* Properties. *)

\* A client is told 422, "no active cart", only for a checkout that made no
\* order: what the table of answers of checkout-service says, behind the
\* gateway that is to preserve it (OrdersProxyController.forward).
ContractPreserved ==
    \A r \in Requests :
        req[r].answer = "422" => ~ \E k \in Attempts : order = <<r, k>>

=============================================================================
