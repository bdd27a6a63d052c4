----------------------------- MODULE PaymentSaga -----------------------------
(***************************************************************************)
(* checkout-service, payments-service and the broker between them: the     *)
(* flow from a committed order to a paid or failed one.                    *)
(***************************************************************************)
EXTENDS Payments, Checkout

vars == <<brokerVars, paymentsVars, checkoutVars>>

Init == BrokerInit /\ PaymentsInit /\ CheckoutInit

Next ==
    \/ BrokerNext /\ UNCHANGED <<paymentsVars, checkoutVars>>
    \/ PaymentsNext /\ UNCHANGED checkoutVars
    \/ CheckoutNext /\ UNCHANGED paymentsVars

Spec == Init /\ [][Next]_vars

(***************************************************************************)
(* Fairness.  The event loop of a live process runs every callback to its  *)
(* end and the broker delivers to a connected consumer and ends TTLs.      *)
(* Nothing in the repository starts a stopped service again, so no start   *)
(* is assumed, and no fault, no request of a user and no operator's        *)
(* reprocessing either.                                                    *)
(***************************************************************************)
Fairness ==
    /\ WF_vars(RetryTimeout /\ UNCHANGED <<paymentsVars, checkoutVars>>)
    /\ WF_vars(CycleDropped /\ UNCHANGED <<paymentsVars, checkoutVars>>)
    /\ \A w \in Workers :
         /\ WF_vars(ChannelClosed(w) /\ UNCHANGED checkoutVars)
         /\ WF_vars(Process(w) /\ UNCHANGED checkoutVars)
    /\ WF_vars(ShopChannelClosed /\ UNCHANGED paymentsVars)
    /\ WF_vars((\E r \in ResultMsgs : ReceiveResult(r)) /\ UNCHANGED paymentsVars)
    /\ WF_vars(ApplyPaymentResult /\ UNCHANGED paymentsVars)
    /\ WF_vars((AckResult \/ HandleResultFailure) /\ UNCHANGED paymentsVars)
    /\ \A o \in Orders :
         WF_vars((PublishUnavailable(o) \/ \E m \in OrderMsgs : PublishPaymentOrder(o, m))
                 /\ UNCHANGED paymentsVars)

FairSpec == Spec /\ Fairness

-----------------------------------------------------------------------------
(* The type invariant. *)

\* Every variable holds a value of its kind: rows, messages and process steps.
TypeOK ==
    /\ orderQ \in [OrderMsgs -> OrderMessage]
    /\ resultQ \in [ResultMsgs -> ResultMessage]
    /\ declared \subseteq {PaymentQueue, ResultQueue}
    /\ faults \in Nat
    /\ payment \in [Orders -> PaymentRow]
    /\ calls \in [Orders -> Nat]
    /\ pc \in [Workers -> Steps]
    /\ held \in [Workers -> OrderMsgs \cup {NoMsg}]
    /\ row \in [Workers -> PaymentRow]
    /\ conn \in [Workers -> BOOLEAN]
    /\ order \in [Orders -> OrderStatus]
    /\ request \in [Orders -> RequestStates]
    /\ shopPc \in ShopSteps
    /\ shopHeld \in ResultMsgs \cup {NoResult}
    /\ shopConn \in BOOLEAN

-----------------------------------------------------------------------------
(* Safety. *)

\* A result message, wherever it is, carries the final status of a payment
\* that is already persisted (RF-08 of the payments spec: a result is never
\* published as pending nor before its payment is stored), whatever crashed or
\* was redelivered.
ResultsArePersisted ==
    \A r \in ResultMsgs :
        resultQ[r].at # "free" =>
            /\ resultQ[r].status \in Final
            /\ payment[resultQ[r].order].status = resultQ[r].status

\* The two databases agree: an order is paid only if its payment is stored as
\* approved, failed only if it is stored as rejected.
OrdersFollowPayments ==
    \A o \in Orders :
        /\ order[o] = "paid" => payment[o].status = "approved"
        /\ order[o] = "failed" => payment[o].status = "rejected"

Queued(o) == \E m \in OrderMsgs : orderQ[m].order = o

\* No service drops an order it was handed: once the payment request of o is
\* published, o is settled, or a message about it is still in a queue or in a
\* DLQ, or the broker itself dropped one.  An ack never comes before the work
\* it confirms.
NothingDropped ==
    \A o \in Orders : Queued(o) =>
        \/ order[o] \in Terminal
        \/ \E m \in OrderMsgs : /\ orderQ[m].order = o
                                /\ Held(orderQ, m) \/ orderQ[m].at = "lost"
        \/ \E r \in ResultMsgs : /\ resultQ[r].order = o
                                 /\ Held(resultQ, r) \/ resultQ[r].at = "lost"

\* prefetch(1) and redelivery: a message is out for processing at one connected
\* consumer at most, and every unacked message has such a consumer, so none is
\* stuck in delivery.
OneConsumerPerMessage ==
    /\ \A w, v \in Workers :
         conn[w] /\ conn[v] /\ held[w] = held[v] /\ held[w] # NoMsg => w = v
    /\ \A m \in OrderMsgs :
         orderQ[m].at = "unacked" <=> \E w \in Workers : conn[w] /\ held[w] = m
    /\ \A r \in ResultMsgs :
         resultQ[r].at = "unacked" <=> shopConn /\ shopHeld = r

\* The detailed system implements the promise of OrderLifecycle.
Lifecycle ==
    INSTANCE OrderLifecycle WITH
        Decision <- [o \in Orders |-> Verdict(o)],
        orderStatus <- order,
        paymentStatus <- [o \in Orders |-> payment[o].status]

LifecycleRefined == Lifecycle!Spec

-----------------------------------------------------------------------------
(* The inductive invariant behind ResultsArePersisted, OrdersFollowPayments  *)
(* and LifecycleRefined: what each step of a callback may rely on.           *)

\* A published message names an order that exists, a published result a known
\* order; a payment exists only for an order that exists, and a checkout request
\* goes on only after its order is committed.
MessagesNameOrders ==
    /\ \A m \in OrderMsgs : orderQ[m].at # "free" =>
         orderQ[m].order \in Orders /\ order[orderQ[m].order] # "none"
    /\ \A r \in ResultMsgs : resultQ[r].at # "free" => resultQ[r].order \in Orders
    /\ \A o \in Orders :
         payment[o].status # "none" \/ request[o] # "none" => order[o] # "none"

\* A callback holds a published message exactly while it runs.
CallbacksHoldMessages ==
    /\ \A w \in Workers :
         /\ held[w] = NoMsg <=> pc[w] \in {"down", "idle"}
         /\ held[w] # NoMsg => orderQ[held[w]].at # "free"
    /\ shopHeld = NoResult <=> shopPc \in {"down", "idle"}
    /\ shopHeld # NoResult => resultQ[shopHeld].at # "free"

\* A stored decision is the gateway's verdict for the order's amount.
PaymentsDecided ==
    \A o \in Orders : payment[o].status \in Final => payment[o].status = Verdict(o)

\* After the insert the row exists, after the charge the entity carries the
\* verdict, after the save the stored row carries it too.
CallbackProgress ==
    \A w \in Workers :
        /\ pc[w] \in {"charge", "save", "publish", "ack"} =>
             payment[OrderOf(w)].status # "none"
        /\ pc[w] \in {"save", "publish", "ack"} =>
             row[w].status = Verdict(OrderOf(w))
        /\ pc[w] \in {"publish", "ack"} =>
             payment[OrderOf(w)].status = Verdict(OrderOf(w))

IInv ==
    /\ TypeOK
    /\ MessagesNameOrders
    /\ CallbacksHoldMessages
    /\ PaymentsDecided
    /\ CallbackProgress
    /\ ResultsArePersisted
    /\ OrdersFollowPayments

-----------------------------------------------------------------------------
(* The inductive invariant behind OneConsumerPerMessage and NothingDropped.  *)

PublishedResult(o) ==
    \E r \in ResultMsgs : resultQ[r].at # "free" /\ resultQ[r].order = o

UnusedMessagesNameNone ==
    \A m \in OrderMsgs : orderQ[m].at = "free" => orderQ[m].order = NoOrder

\* An order message is acknowledged, or about to be, only after a result of its
\* order was published.
AckedWorkPublished ==
    /\ \A w \in Workers : pc[w] = "ack" => PublishedResult(OrderOf(w))
    /\ \A m \in OrderMsgs : orderQ[m].at = "acked" => PublishedResult(orderQ[m].order)

\* A result is acknowledged, or about to be, only after its order was settled.
AckedResultsSettled ==
    /\ shopPc = "ack" => order[resultQ[shopHeld].order] \in Terminal
    /\ \A r \in ResultMsgs :
         resultQ[r].at = "acked" => order[resultQ[r].order] \in Terminal

DeliveryInv ==
    /\ IInv
    /\ OneConsumerPerMessage
    /\ UnusedMessagesNameNone
    /\ AckedWorkPublished
    /\ AckedResultsSettled

-----------------------------------------------------------------------------
(* What the spec of the service says and several instances do not do. *)

\* 01-processamento-de-pagamento.md:142: every value of a published result is
\* the value of the persisted final record, the transactionId included.  It
\* holds with one instance of payments-service.
ResultsReflectPayments ==
    \A r \in ResultMsgs :
        resultQ[r].at # "free" => resultQ[r].tx = payment[resultQ[r].order].tx

-----------------------------------------------------------------------------
(* The inductive invariant of a single instance, behind NoChargeAfterFinal   *)
(* and ResultsReflectPayments.                                               *)

\* Only the callback that runs writes payments: what it charges is still open,
\* and what it publishes is the stored row.
EntityIsCurrent ==
    \A w \in Workers :
        /\ pc[w] \in {"charge", "save"} => payment[OrderOf(w)].status = "pending"
        /\ pc[w] = "publish" => row[w] = payment[OrderOf(w)]

SoleInstanceInv == IInv /\ EntityIsCurrent /\ ResultsReflectPayments

-----------------------------------------------------------------------------
(* Action properties. *)

\* With one instance of payments-service the gateway is never called again for
\* a payment that is final (RF-09), through every retry, crash and redelivery.
NoChargeAfterFinal ==
    [][\A o \in Orders : payment[o].status \in Final => calls'[o] = calls[o]]_vars

-----------------------------------------------------------------------------
(* Liveness. *)

Dead(o) ==
    \/ \E m \in OrderMsgs : orderQ[m].order = o /\ orderQ[m].at \in {"dlq", "lost"}
    \/ \E r \in ResultMsgs : resultQ[r].order = o /\ resultQ[r].at \in {"dlq", "lost"}

\* Both services consume: an instance of payments-service, and checkout-service.
Served == (\E w \in Workers : conn[w]) /\ shopConn

\* Once the payment request is in the broker, retries and redeliveries bring the
\* order to paid or failed, unless a message about it is dead-lettered or dropped:
\* provided that both services consume again and again, that is, that somebody
\* starts a service that stopped or lost its consumer.
QueuedOrdersSettle ==
    []<>Served => \A o \in Orders : Queued(o) ~> (order[o] \in Terminal \/ Dead(o))

\* README.md:41: checkout creates a pending order, payments processes the event,
\* checkout then updates the order to paid or failed.  Both services consume again
\* and again here too.
PendingOrdersSettle ==
    []<>Served => \A o \in Orders : order[o] = "pending" ~> order[o] \in Terminal

=============================================================================
