--------------------------- MODULE CheckoutResults ---------------------------
(***************************************************************************)
(* checkout-service against any producer of results: whatever well-formed  *)
(* messages reach payment_result_queue, in any order, repeated, for orders *)
(* that do not exist yet, or contradicting each other.                     *)
(***************************************************************************)
EXTENDS Checkout

vars == <<brokerVars, checkoutVars>>

Init == BrokerInit /\ CheckoutInit

\* Some producer publishes a result for order o, with the amount, user and method
\* of that order or with others.
PublishAnyResult(o, status, fits) ==
    /\ \E r \in ResultMsgs :
         /\ IsNext(resultQ, r)
         /\ resultQ' = [resultQ EXCEPT ![r] =
                          [at |-> Routed(ResultQueue), deaths |-> 0, order |-> o,
                           status |-> status, tx |-> 0, fits |-> fits]]
    /\ UNCHANGED <<orderQ, declared, faults, checkoutVars>>

Next ==
    \/ CheckoutNext
    \/ \E o \in Orders, status \in {"approved", "rejected"}, fits \in BOOLEAN :
         PublishAnyResult(o, status, fits)
    \/ BrokerNext /\ UNCHANGED checkoutVars

Spec == Init /\ [][Next]_vars

(* A live process finishes its callbacks, and the broker delivers and ends *)
(* TTLs.  Nothing in the repository starts a stopped service again.        *)
Fairness ==
    /\ WF_vars(RetryTimeout /\ UNCHANGED checkoutVars)
    /\ WF_vars(CycleDropped /\ UNCHANGED checkoutVars)
    /\ WF_vars(ShopChannelClosed)
    /\ WF_vars(\E r \in ResultMsgs : ReceiveResult(r))
    /\ WF_vars(ApplyPaymentResult)
    /\ WF_vars(AckResult \/ HandleResultFailure)

FairSpec == Spec /\ Fairness

-----------------------------------------------------------------------------

\* The type invariant of the checkout side.
TypeOK ==
    /\ resultQ \in [ResultMsgs -> ResultMessage]
    /\ order \in [Orders -> OrderStatus]
    /\ request \in [Orders -> RequestStates]
    /\ shopPc \in ShopSteps
    /\ shopHeld \in ResultMsgs \cup {NoResult}
    /\ shopConn \in BOOLEAN

\* RN-07: a result is acknowledged only when the order has the status it asks
\* for and its amount, user and method; a result that contradicts a terminal order,
\* or names an order that does not exist, is never acknowledged as applied.
AckedResultsApplied ==
    \A r \in ResultMsgs : resultQ[r].at = "acked" =>
        /\ resultQ[r].fits
        /\ order[resultQ[r].order] = ExpectedStatus(resultQ[r].status)

-----------------------------------------------------------------------------
(* The inductive invariant behind AckedResultsApplied.                       *)

\* A published result names an order and a final status.
ResultsNameOrders ==
    \A r \in ResultMsgs : resultQ[r].at # "free" =>
        resultQ[r].order \in Orders /\ resultQ[r].status # "none"

\* The callback holds a published result exactly while it runs.
CallbackHoldsResult ==
    /\ shopHeld = NoResult <=> shopPc \in {"down", "idle"}
    /\ shopHeld # NoResult => resultQ[shopHeld].at # "free"

\* What the callback is about to acknowledge is applied.
AckIsDue ==
    shopPc = "ack" =>
        /\ resultQ[shopHeld].fits
        /\ order[resultQ[shopHeld].order] = ExpectedStatus(resultQ[shopHeld].status)

ResultsInv ==
    /\ TypeOK
    /\ ResultsNameOrders
    /\ CallbackHoldsResult
    /\ AckIsDue
    /\ AckedResultsApplied

-----------------------------------------------------------------------------

\* RN-07: no later result, redelivery or retry moves an order out of paid or
\* failed.
TerminalOrdersStay ==
    [][\A o \in Orders : order[o] \in Terminal => order'[o] = order[o]]_vars

\* The retry loop ends: a result in the main queue is acknowledged, dead-lettered
\* or dropped by the broker in the end, provided that checkout-service consumes
\* again and again, that is, that somebody starts it when it stopped or lost its
\* consumer.
ResultsLeaveTheQueue ==
    []<>shopConn =>
        \A r \in ResultMsgs :
            resultQ[r].at = "main" ~> resultQ[r].at \in {"acked", "dlq", "lost"}

=============================================================================
