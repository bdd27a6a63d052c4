------------------------------ MODULE Payments ------------------------------
(***************************************************************************)
(* payments-service: its instances consume payment_queue with prefetch 1,  *)
(* charge the simulated gateway, persist the payment and publish the       *)
(* result before they acknowledge the order.  One action per await of      *)
(* processPaymentOrder / processPayment, so that crashes, connection       *)
(* losses and other instances come between any two of them.                *)
(***************************************************************************)
EXTENDS Broker

CONSTANTS
    Workers,    \* the running instances of payments-service
    NoMsg,      \* what an idle instance holds
    Cents       \* Cents[o]: the amount of order o in cents

ASSUME PaymentsAssumption ==
    /\ NoMsg \notin Nat
    /\ Cents \in [Orders -> Nat \ {0}]

VARIABLES
    payment,   \* payment[o]: the row of order o in the payments database
    calls,     \* calls[o]: gateway calls made for order o
    pc,        \* pc[w]: the step instance w is at
    held,      \* held[w]: the message its consumer callback is processing
    row,       \* row[w]: the Payment entity in that callback's memory
    conn       \* conn[w]: its AMQP connection is open and consuming

paymentsVars == <<payment, calls, pc, held, row, conn>>

PaymentStatus == {"none", "pending", "approved", "rejected"}

Final == {"approved", "rejected"}

\* A row of the payments table; tx = 0 stands for transactionId = null.
PaymentRow == [status : PaymentStatus, tx : Nat]

NoRow == [status |-> "none", tx |-> 0]

Steps == { "down", "idle", "find", "insert", "charge", "save", "publish",
           "ack", "fail" }

PaymentsInit ==
    /\ payment = [o \in Orders |-> NoRow]
    /\ calls = [o \in Orders |-> 0]
    /\ pc = [w \in Workers |-> "down"]
    /\ held = [w \in Workers |-> NoMsg]
    /\ row = [w \in Workers |-> NoRow]
    /\ conn = [w \in Workers |-> FALSE]

\* The order of the message that instance w is processing.
OrderOf(w) == orderQ[held[w]].order

\* FakePaymentGatewayService.process: the verdict depends on the amount only.
Verdict(o) ==
    IF Cents[o] > 1000000 \/ Cents[o] % 100 = 99 THEN "rejected" ELSE "approved"

\* The k-th answer of the gateway for order o.  Each approval carries a new
\* random transactionId; the number of the call stands for it.
GatewayAnswer(o, k) ==
    [status |-> Verdict(o), tx |-> IF Verdict(o) = "approved" THEN k ELSE 0]

Goto(w, step) == pc' = [pc EXCEPT ![w] = step]

-----------------------------------------------------------------------------
(* Start-up and failures of an instance. *)

\* connect and startConsuming: the queues are declared and bound, and the
\* consumer starts.
Start(w) ==
    /\ pc[w] = "down"
    /\ Goto(w, "idle")
    /\ conn' = [conn EXCEPT ![w] = TRUE]
    /\ declared' = declared \cup {PaymentQueue}
    /\ UNCHANGED <<orderQ, resultQ, faults, payment, calls, held, row>>

\* The broker is unreachable: waitForConnection gives up, the error is
\* swallowed, and the instance runs without a consumer.
StartDeaf(w) ==
    /\ Fault("startup")
    /\ pc[w] = "down"
    /\ Goto(w, "idle")
    /\ UNCHANGED <<orderQ, resultQ, declared, payment, calls, held, row, conn>>

\* A faulty variant: the broker keeps the message of a dead consumer.
KeptUnacked(w) == orderQ

\* What the broker does with the message of a consumer that goes away.
Requeued(w) ==
    IF conn[w] /\ held[w] # NoMsg THEN Moved(orderQ, held[w], "main") ELSE orderQ

\* The process forgets its callback and stops.
Stopped(w) ==
    /\ Goto(w, "down")
    /\ held' = [held EXCEPT ![w] = NoMsg]
    /\ row' = [row EXCEPT ![w] = NoRow]
    /\ conn' = [conn EXCEPT ![w] = FALSE]

Crash(w) ==
    /\ Fault("crash")
    /\ pc[w] # "down"
    /\ orderQ' = Requeued(w)
    /\ Stopped(w)
    /\ UNCHANGED <<resultQ, declared, payment, calls>>

\* The connection closes: the broker redelivers the message, but the callback
\* runs on and nothing in the process reconnects.
LoseChannel(w) ==
    /\ Fault("channel")
    /\ conn[w]
    /\ orderQ' = Requeued(w)
    /\ conn' = [conn EXCEPT ![w] = FALSE]
    /\ UNCHANGED <<resultQ, declared, payment, calls, pc, held, row>>

\* A callback that reaches the channel after it closed: publish or ack throws,
\* then nack throws inside the catch block, and the unhandled rejection ends
\* the process.
ChannelClosed(w) ==
    /\ ~conn[w]
    /\ pc[w] \in {"publish", "ack", "fail"}
    /\ Stopped(w)
    /\ UNCHANGED <<orderQ, resultQ, declared, faults, payment, calls>>

-----------------------------------------------------------------------------
(* processPaymentOrder and processPayment. *)

Receive(w, m) ==
    /\ pc[w] = "idle"
    /\ conn[w]
    /\ orderQ[m].at = "main"
    /\ orderQ' = Moved(orderQ, m, "unacked")
    /\ held' = [held EXCEPT ![w] = m]
    /\ Goto(w, "find")
    /\ UNCHANGED <<resultQ, declared, faults, payment, calls, row, conn>>

\* A faulty variant: the status of the payment found is not looked at.
FindPaymentAnyStatus(w) ==
    /\ pc[w] = "find"
    /\ LET found == payment[OrderOf(w)]
       IN  /\ row' = [row EXCEPT ![w] = found]
           /\ Goto(w, IF found.status = "none" THEN "insert" ELSE "charge")
    /\ UNCHANGED <<orderQ, resultQ, declared, faults, payment, calls, held, conn>>

\* findOneBy({ orderId }): a final payment is published again as it is, a
\* pending one is charged (again), a missing one is created.
FindPayment(w) ==
    /\ pc[w] = "find"
    /\ LET found == payment[OrderOf(w)]
       IN  /\ row' = [row EXCEPT ![w] = found]
           /\ Goto(w, CASE found.status \in Final -> "publish"
                        [] found.status = "pending" -> "charge"
                        [] found.status = "none" -> "insert")
    /\ UNCHANGED <<orderQ, resultQ, declared, faults, payment, calls, held, conn>>

\* A faulty variant: no unique index on orderId, the insert always succeeds.
InsertPendingNotUnique(w) ==
    /\ pc[w] = "insert"
    /\ payment' = [payment EXCEPT ![OrderOf(w)] = [status |-> "pending", tx |-> 0]]
    /\ row' = [row EXCEPT ![w] = [status |-> "pending", tx |-> 0]]
    /\ Goto(w, "charge")
    /\ UNCHANGED <<orderQ, resultQ, declared, faults, calls, held, conn>>

\* save(payment) with status pending; UQ_payment_order makes the insert fail
\* when another instance created the row meanwhile.
InsertPending(w) ==
    /\ pc[w] = "insert"
    /\ LET o == OrderOf(w)
           fresh == [status |-> "pending", tx |-> 0]
       IN  \/ /\ payment[o].status = "none"
              /\ payment' = [payment EXCEPT ![o] = fresh]
              /\ row' = [row EXCEPT ![w] = fresh]
              /\ Goto(w, "charge")
           \/ /\ payment[o].status # "none"
              /\ Goto(w, "fail")
              /\ UNCHANGED <<payment, row>>
    /\ UNCHANGED <<orderQ, resultQ, declared, faults, calls, held, conn>>

\* A faulty variant: the result is published before the payment is saved.
ChargeThenPublish(w) ==
    /\ pc[w] = "charge"
    /\ LET o == OrderOf(w)
       IN  /\ calls' = [calls EXCEPT ![o] = @ + 1]
           /\ row' = [row EXCEPT ![w] = GatewayAnswer(o, calls[o] + 1)]
    /\ Goto(w, "publish")
    /\ UNCHANGED <<orderQ, resultQ, declared, faults, payment, held, conn>>

\* paymentGateway.process(payment.amount), and the entity updated in memory.
Charge(w) ==
    /\ pc[w] = "charge"
    /\ LET o == OrderOf(w)
       IN  /\ calls' = [calls EXCEPT ![o] = @ + 1]
           /\ row' = [row EXCEPT ![w] = GatewayAnswer(o, calls[o] + 1)]
    /\ Goto(w, "save")
    /\ UNCHANGED <<orderQ, resultQ, declared, faults, payment, held, conn>>

\* save(payment): no version column, no condition on the stored status.
SavePayment(w) ==
    /\ pc[w] = "save"
    /\ payment' = [payment EXCEPT ![OrderOf(w)] = row[w]]
    /\ Goto(w, "publish")
    /\ UNCHANGED <<orderQ, resultQ, declared, faults, calls, held, row, conn>>

\* A database call of this callback rejects.  A save may have been committed
\* before its answer was lost.
DbFailure(w) ==
    /\ Fault("db")
    /\ pc[w] \in {"find", "insert", "save"}
    /\ \/ UNCHANGED payment
       \/ /\ pc[w] = "insert"
          /\ payment[OrderOf(w)].status = "none"
          /\ payment' = [payment EXCEPT ![OrderOf(w)] =
                                        [status |-> "pending", tx |-> 0]]
       \/ /\ pc[w] = "save"
          /\ payment' = [payment EXCEPT ![OrderOf(w)] = row[w]]
    /\ Goto(w, "fail")
    /\ UNCHANGED <<orderQ, resultQ, declared, calls, held, row, conn>>

\* publishMessage on an open channel: whatever it answers, the message is sent.
SendResult(w, r, msg) ==
    /\ conn[w]
    /\ IsNext(resultQ, r)
    /\ resultQ' = [resultQ EXCEPT ![r] = msg]

\* PaymentResultPublisherService.publish; the row copied the order's user, amount
\* and method, so the result fits the order.  When the write buffer is full,
\* channel.publish still sends the message but returns false, and
\* publishMessage throws.
PublishResult(w, r) ==
    /\ pc[w] = "publish"
    /\ SendResult(w, r, [at |-> Routed(ResultQueue), deaths |-> 0,
                         order |-> OrderOf(w), status |-> row[w].status,
                         tx |-> row[w].tx, fits |-> TRUE])
    /\ \/ Goto(w, "ack") /\ UNCHANGED faults
       \/ Goto(w, "fail") /\ Fault("buffer")
    /\ UNCHANGED <<orderQ, declared, payment, calls, held, row, conn>>

-----------------------------------------------------------------------------
(* The end of the consume callback of subscribeToQueue. *)

Released(w) ==
    /\ Goto(w, "idle")
    /\ held' = [held EXCEPT ![w] = NoMsg]
    /\ row' = [row EXCEPT ![w] = NoRow]

Ack(w) ==
    /\ pc[w] = "ack"
    /\ conn[w]
    /\ orderQ' = Moved(orderQ, held[w], "acked")
    /\ Released(w)
    /\ UNCHANGED <<resultQ, declared, faults, payment, calls, conn>>

\* A faulty variant: a message out of retries is acked without the DLQ.
HandleFailureDiscards(w) ==
    /\ pc[w] = "fail"
    /\ conn[w]
    /\ orderQ' = IF MayRetry(orderQ, held[w]) THEN Nacked(orderQ, held[w])
                                              ELSE Moved(orderQ, held[w], "acked")
    /\ Released(w)
    /\ UNCHANGED <<resultQ, declared, faults, payment, calls, conn>>

\* The catch block: nack into the retry queue, or publish to the DLQ and ack.
\* What publish returns is ignored.
HandleFailure(w) ==
    /\ pc[w] = "fail"
    /\ conn[w]
    /\ orderQ' = IF MayRetry(orderQ, held[w]) THEN Nacked(orderQ, held[w])
                                              ELSE Moved(orderQ, held[w], "dlq")
    /\ Released(w)
    /\ UNCHANGED <<resultQ, declared, faults, payment, calls, conn>>

\* The process dies between the publish to the DLQ and the ack: the message is
\* redelivered, and a copy n of it is in the DLQ.
DeadLetterThenCrash(w, n) ==
    /\ Fault("crash")
    /\ pc[w] = "fail"
    /\ conn[w]
    /\ ~MayRetry(orderQ, held[w])
    /\ IsNext(orderQ, n)
    /\ orderQ' = [Requeued(w) EXCEPT ![n] = [orderQ[held[w]] EXCEPT !.at = "dlq"]]
    /\ Stopped(w)
    /\ UNCHANGED <<resultQ, declared, payment, calls>>

-----------------------------------------------------------------------------
(* The DLQ endpoints: one message got from the DLQ and published again     *)
(* without its headers, so its retry count starts over, then acked.        *)

Republished(msg) == [msg EXCEPT !.at = "main", !.deaths = 0]

Reprocess(w, m) ==
    /\ pc[w] # "down"
    /\ conn[w]
    /\ orderQ[m].at = "dlq"
    /\ orderQ' = [orderQ EXCEPT ![m] = Republished(orderQ[m])]
    /\ UNCHANGED <<resultQ, declared, faults, paymentsVars>>

\* The message is published but not acked, and stays in the DLQ: publish returned
\* false and the catch block put it back.  A process that dies or a channel that
\* closes between publish and ack leaves the same queues, and is this step and that
\* fault.  DlqService is in module Dlq.
ReprocessCopy(w, m, n) ==
    /\ Fault("buffer")
    /\ pc[w] # "down"
    /\ conn[w]
    /\ orderQ[m].at = "dlq"
    /\ IsNext(orderQ, n)
    /\ orderQ' = [orderQ EXCEPT ![n] = Republished(orderQ[m])]
    /\ UNCHANGED <<resultQ, declared, paymentsVars>>

-----------------------------------------------------------------------------

Process(w) ==
    \/ \E m \in OrderMsgs : Receive(w, m)
    \/ FindPayment(w)
    \/ InsertPending(w)
    \/ Charge(w)
    \/ SavePayment(w)
    \/ \E r \in ResultMsgs : PublishResult(w, r)
    \/ Ack(w)
    \/ HandleFailure(w)

WorkerFailure(w) ==
    \/ StartDeaf(w)
    \/ Crash(w)
    \/ LoseChannel(w)
    \/ DbFailure(w)
    \/ \E n \in OrderMsgs : DeadLetterThenCrash(w, n)

Operator(w) ==
    \E m \in OrderMsgs :
        Reprocess(w, m) \/ \E n \in OrderMsgs : ReprocessCopy(w, m, n)

PaymentsNext ==
    \E w \in Workers :
        Start(w) \/ ChannelClosed(w) \/ Process(w) \/ WorkerFailure(w) \/ Operator(w)

=============================================================================
