------------------------------ MODULE Checkout ------------------------------
(***************************************************************************)
(* The order side of checkout-service: POST /cart/checkout commits the     *)
(* order and then publishes the payment request; the consumer of           *)
(* payment_result_queue applies results to orders.  There is one process,  *)
(* which serves the requests and runs the consumer on the same channel.    *)
(***************************************************************************)
EXTENDS Broker

CONSTANT NoResult    \* what an idle result consumer holds

ASSUME CheckoutAssumption == NoResult \notin Nat

VARIABLES
    order,      \* order[o]: status of the row of order o, "none" before it exists
    request,    \* request[o]: the POST /cart/checkout request that creates o
    shopPc,     \* the step of the process and of its result consumer
    shopHeld,   \* the result its consumer callback is processing
    shopConn    \* its AMQP connection is open and consuming

checkoutVars == <<order, request, shopPc, shopHeld, shopConn>>

OrderStatus == {"none", "pending", "paid", "failed"}

Terminal == {"paid", "failed"}

\* publishing: committed, not yet published; created: answered 201;
\* unavailable: answered 503; aborted: the process died, no answer
RequestStates == {"none", "publishing", "created", "unavailable", "aborted"}

ShopSteps == {"down", "idle", "apply", "ack", "fail"}

CheckoutInit ==
    /\ order = [o \in Orders |-> "none"]
    /\ request = [o \in Orders |-> "none"]
    /\ shopPc = "down"
    /\ shopHeld = NoResult
    /\ shopConn = FALSE

-----------------------------------------------------------------------------
(* Start-up and failures of the process. *)

StartShop ==
    /\ shopPc = "down"
    /\ shopPc' = "idle"
    /\ shopConn' = TRUE
    /\ declared' = declared \cup {ResultQueue}
    /\ UNCHANGED <<orderQ, resultQ, faults, order, request, shopHeld>>

\* connect fails, the error is swallowed, and the process serves requests
\* without a channel.
StartShopDeaf ==
    /\ Fault("startup")
    /\ shopPc = "down"
    /\ shopPc' = "idle"
    /\ UNCHANGED <<orderQ, resultQ, declared, order, request, shopHeld, shopConn>>

RequeuedResult ==
    IF shopConn /\ shopHeld # NoResult THEN Moved(resultQ, shopHeld, "main")
                                       ELSE resultQ

\* The process stops: requests that have not published yet are cut off.
ShopStopped ==
    /\ shopPc' = "down"
    /\ shopHeld' = NoResult
    /\ shopConn' = FALSE
    /\ request' = [o \in Orders |-> IF request[o] = "publishing" THEN "aborted"
                                                                 ELSE request[o]]

CrashShop ==
    /\ Fault("crash")
    /\ shopPc # "down"
    /\ resultQ' = RequeuedResult
    /\ ShopStopped
    /\ UNCHANGED <<orderQ, declared, order>>

LoseShopChannel ==
    /\ Fault("channel")
    /\ shopConn
    /\ resultQ' = RequeuedResult
    /\ shopConn' = FALSE
    /\ UNCHANGED <<orderQ, declared, order, request, shopPc, shopHeld>>

\* ack or nack on the closed channel throws inside the catch block.
ShopChannelClosed ==
    /\ ~shopConn
    /\ shopPc \in {"ack", "fail"}
    /\ ShopStopped
    /\ UNCHANGED <<orderQ, resultQ, declared, faults, order>>

-----------------------------------------------------------------------------
(* OrdersService.checkout *)

\* completeCheckout: the transaction that locks the active cart, inserts the
\* pending order and completes the cart.
CompleteCheckout(o) ==
    /\ shopPc # "down"
    /\ order[o] = "none"
    /\ order' = [order EXCEPT ![o] = "pending"]
    /\ request' = [request EXCEPT ![o] = "publishing"]
    /\ UNCHANGED <<orderQ, resultQ, declared, faults, shopPc, shopHeld, shopConn>>

\* createPaymentMessage: the order it names carries user, amount, items and method.
PaymentMessage(o) == [at |-> Routed(PaymentQueue), deaths |-> 0, order |-> o]

\* publishMessage on an open channel: whatever it answers, the message is sent.
SendPaymentMessage(o, m) ==
    /\ shopConn
    /\ IsNext(orderQ, m)
    /\ orderQ' = [orderQ EXCEPT ![m] = PaymentMessage(o)]

\* publishPaymentOrder after the commit: 201, or 503 when publishMessage throws
\* because channel.publish returned false, although the message was sent.
PublishPaymentOrder(o, m) ==
    /\ request[o] = "publishing"
    /\ SendPaymentMessage(o, m)
    /\ \/ /\ request' = [request EXCEPT ![o] = "created"]
          /\ UNCHANGED faults
       \/ /\ request' = [request EXCEPT ![o] = "unavailable"]
          /\ Fault("buffer")
    /\ UNCHANGED <<resultQ, declared, order, shopPc, shopHeld, shopConn>>

\* No channel, or a closed one: 503.  The order stays pending.
PublishUnavailable(o) ==
    /\ request[o] = "publishing"
    /\ ~shopConn
    /\ request' = [request EXCEPT ![o] = "unavailable"]
    /\ UNCHANGED <<brokerVars, order, shopPc, shopHeld, shopConn>>

-----------------------------------------------------------------------------
(* PaymentResultConsumerService.consume and OrdersService.applyPaymentResult *)

ReceiveResult(r) ==
    /\ shopPc = "idle"
    /\ shopConn
    /\ resultQ[r].at = "main"
    /\ resultQ' = Moved(resultQ, r, "unacked")
    /\ shopHeld' = r
    /\ shopPc' = "apply"
    /\ UNCHANGED <<orderQ, declared, faults, order, request, shopConn>>

\* Faulty variants: a status the result does not ask for.
ExpectedStatusCancels(status) == IF status = "approved" THEN "paid" ELSE "cancelled"
ExpectedStatusSwapped(status) == IF status = "approved" THEN "failed" ELSE "paid"

ExpectedStatus(status) == IF status = "approved" THEN "paid" ELSE "failed"

\* A faulty variant: the last result wins.
ApplyOverwriting ==
    /\ shopPc = "apply"
    /\ LET o == resultQ[shopHeld].order
       IN  order' = [order EXCEPT ![o] = ExpectedStatus(resultQ[shopHeld].status)]
    /\ shopPc' = "ack"
    /\ UNCHANGED <<brokerVars, request, shopHeld, shopConn>>

\* A faulty variant: the amount, user and method are not compared.
MatchesAnything(r) == order[resultQ[r].order] # "none"

\* findOne and validatePaymentResult: the order exists, and the result names its
\* user, its amount in cents and its payment method.
Matches(r) == order[resultQ[r].order] # "none" /\ resultQ[r].fits

\* One transaction under the row lock: an equal status is a success, a pending
\* order takes the result; a missing or otherwise terminal order, or one that the
\* result does not match, is an error.
ApplyPaymentResult ==
    /\ shopPc = "apply"
    /\ LET o == resultQ[shopHeld].order
           expected == ExpectedStatus(resultQ[shopHeld].status)
       IN  \/ /\ Matches(shopHeld) /\ order[o] \in {"pending", expected}
              /\ order' = [order EXCEPT ![o] = expected]
              /\ shopPc' = "ack"
           \/ /\ ~Matches(shopHeld) \/ order[o] \notin {"pending", expected}
              /\ shopPc' = "fail"
              /\ UNCHANGED order
    /\ UNCHANGED <<brokerVars, request, shopHeld, shopConn>>

\* The transaction fails or rolls back, or its commit succeeds and the answer
\* is lost.
ApplyDbFailure ==
    /\ Fault("db")
    /\ shopPc = "apply"
    /\ LET o == resultQ[shopHeld].order
       IN  \/ UNCHANGED order
           \/ /\ Matches(shopHeld) /\ order[o] = "pending"
              /\ order' = [order EXCEPT ![o] =
                                ExpectedStatus(resultQ[shopHeld].status)]
    /\ shopPc' = "fail"
    /\ UNCHANGED <<orderQ, resultQ, declared, request, shopHeld, shopConn>>

-----------------------------------------------------------------------------
(* The end of the consume callback of subscribeToQueue. *)

ShopReleased ==
    /\ shopPc' = "idle"
    /\ shopHeld' = NoResult
    /\ UNCHANGED <<orderQ, declared, order, request, shopConn>>

AckResult ==
    /\ shopPc = "ack"
    /\ shopConn
    /\ resultQ' = Moved(resultQ, shopHeld, "acked")
    /\ ShopReleased
    /\ UNCHANGED faults

\* nack into the retry queue, or publish to the DLQ and ack.
HandleResultFailure ==
    /\ shopPc = "fail"
    /\ shopConn
    /\ resultQ' = IF MayRetry(resultQ, shopHeld) THEN Nacked(resultQ, shopHeld)
                                                 ELSE Moved(resultQ, shopHeld, "dlq")
    /\ ShopReleased
    /\ UNCHANGED faults

\* The publish to the DLQ returns false: the message is sent all the same, and
\* nacked into the retry queue as well.
DeadLetterAndRetry(n) ==
    /\ Fault("buffer")
    /\ shopPc = "fail"
    /\ shopConn
    /\ ~MayRetry(resultQ, shopHeld)
    /\ IsNext(resultQ, n)
    /\ resultQ' = [Nacked(resultQ, shopHeld) EXCEPT ![n] =
                     [resultQ[shopHeld] EXCEPT !.at = "dlq"]]
    /\ ShopReleased

-----------------------------------------------------------------------------

Shop ==
    \/ \E o \in Orders : PublishUnavailable(o)
    \/ \E o \in Orders, m \in OrderMsgs : PublishPaymentOrder(o, m)
    \/ \E r \in ResultMsgs : ReceiveResult(r)
    \/ ApplyPaymentResult
    \/ AckResult
    \/ HandleResultFailure

ShopFailure ==
    \/ StartShopDeaf
    \/ CrashShop
    \/ LoseShopChannel
    \/ ApplyDbFailure
    \/ \E n \in ResultMsgs : DeadLetterAndRetry(n)

CheckoutNext ==
    \/ StartShop
    \/ ShopChannelClosed
    \/ \E o \in Orders : CompleteCheckout(o)
    \/ Shop
    \/ ShopFailure

=============================================================================
