------------------------------- MODULE Broker -------------------------------
(***************************************************************************)
(* The RabbitMQ topology that subscribeToQueue builds for the two queues   *)
(* of the payment flow, payment_queue (checkout -> payments) and           *)
(* payment_result_queue (payments -> checkout), together with the budget   *)
(* of faults that every other module draws from.                           *)
(*                                                                         *)
(* A queue is a function from message identifiers to records.  `at' says   *)
(* where the message is:                                                   *)
(*   free     not published yet                                            *)
(*   main     in the main queue                                            *)
(*   unacked  delivered, waiting for ack or nack                           *)
(*   retry    in the .retry queue after a nack (returns when its TTL ends) *)
(*   expired  in the .retry queue after the main queue's TTL or max-length *)
(*   dlq      in the .dlq queue                                            *)
(*   acked    acknowledged, gone from the broker                           *)
(*   lost     dropped by the broker                                        *)
(* `deaths' is what getRetryCount reads in the x-death header.  `fits' says *)
(* that a result names the user, amount and payment method of its order.   *)
(* Main queues are sets, not sequences: retries, redeliveries and several  *)
(* consumers reorder them, and no handler looks at the order.              *)
(***************************************************************************)
EXTENDS Naturals

CONSTANTS
    Orders,          \* order identifiers
    NoOrder,         \* the order of a message that is not published yet
    MaxOrderMsgs,    \* bound: messages ever published to payment_queue
    MaxResultMsgs,   \* bound: messages ever published to payment_result_queue
    MaxRetries,      \* maxRetries of subscribeToQueue (3 in the code)
    FaultKinds,      \* which faults may happen
    MaxFaults        \* bound: how many faults may happen

AllFaultKinds ==
    { "crash",    \* a process dies
      "db",       \* a database call fails
      "channel",  \* the AMQP connection closes under a live process
      "buffer",   \* channel.publish returns false (write buffer full)
      "startup",  \* a service starts while the broker is unreachable
      "expiry" }  \* a message outlives its TTL, or overflows max-length

ASSUME BrokerAssumption ==
    /\ NoOrder \notin Orders
    /\ MaxOrderMsgs \in Nat
    /\ MaxResultMsgs \in Nat
    /\ MaxRetries \in Nat
    /\ FaultKinds \subseteq AllFaultKinds
    /\ MaxFaults \in Nat

VARIABLES
    orderQ,    \* the messages of payment_queue, .retry and .dlq
    resultQ,   \* the messages of payment_result_queue, .retry and .dlq
    declared,  \* the main queues declared and bound so far
    faults     \* faults so far

brokerVars == <<orderQ, resultQ, declared, faults>>

PaymentQueue == "payment_queue"
ResultQueue  == "payment_result_queue"

OrderMsgs  == 1 .. MaxOrderMsgs
ResultMsgs == 1 .. MaxResultMsgs

Places == { "free", "main", "unacked", "retry", "expired", "dlq", "acked",
            "lost" }

OrderMessage == [ at : Places, deaths : Nat, order : Orders \cup {NoOrder} ]

ResultMessage ==
    [ at : Places, deaths : Nat, order : Orders \cup {NoOrder},
      status : {"none", "approved", "rejected"}, tx : Nat, fits : BOOLEAN ]

NoOrderMessage == [at |-> "free", deaths |-> 0, order |-> NoOrder]

NoResultMessage ==
    [at |-> "free", deaths |-> 0, order |-> NoOrder, status |-> "none", tx |-> 0,
     fits |-> TRUE]

BrokerInit ==
    /\ orderQ = [m \in OrderMsgs |-> NoOrderMessage]
    /\ resultQ = [r \in ResultMsgs |-> NoResultMessage]
    /\ declared = {}
    /\ faults = 0

-----------------------------------------------------------------------------
(* What the handlers do to a queue q. *)

\* Message m moves to place p.
Moved(q, m, p) == [q EXCEPT ![m] = [q[m] EXCEPT !.at = p]]

\* A faulty variant: a rejection that x-death does not count.
NackedUncounted(q, m) == Moved(q, m, "retry")

\* channel.nack(msg, false, false): rejected into the retry exchange, and the
\* broker adds one to the x-death count of the main queue.
Nacked(q, m) ==
    [q EXCEPT ![m] = [q[m] EXCEPT !.at = "retry", !.deaths = q[m].deaths + 1]]

\* getRetryCount(msg) < maxRetries
MayRetry(q, m) == q[m].deaths < MaxRetries

\* Identifiers are handed out in order.
IsNext(q, m) ==
    /\ q[m].at = "free"
    /\ \A k \in DOMAIN q : k < m => q[k].at # "free"

\* Where the topic exchange puts a message published for queue `name': without
\* a bound queue it is dropped (publish sets no mandatory flag).
Routed(name) == IF name \in declared THEN "main" ELSE "lost"

\* A message is somewhere the broker will still deliver from, or in the DLQ.
Held(q, m) == q[m].at \in {"main", "unacked", "retry", "expired", "dlq"}

-----------------------------------------------------------------------------
(* The faults. *)

Fault(kind) ==
    /\ kind \in FaultKinds
    /\ faults < MaxFaults
    /\ faults' = faults + 1

-----------------------------------------------------------------------------
(* What the broker does by itself.                                         *)

\* The TTL of the .retry queue ends: a rejected message goes back to the main
\* exchange.
RetryTimeout ==
    /\ \/ \E m \in OrderMsgs :
            /\ orderQ[m].at = "retry"
            /\ orderQ' = Moved(orderQ, m, "main")
            /\ UNCHANGED resultQ
       \/ \E r \in ResultMsgs :
            /\ resultQ[r].at = "retry"
            /\ resultQ' = Moved(resultQ, r, "main")
            /\ UNCHANGED orderQ
    /\ UNCHANGED <<declared, faults>>

\* A message that came to the .retry queue without a rejection would close a
\* fully automatic dead-letter cycle: RabbitMQ drops it instead.
CycleDropped ==
    /\ \/ \E m \in OrderMsgs :
            /\ orderQ[m].at = "expired"
            /\ orderQ' = Moved(orderQ, m, "lost")
            /\ UNCHANGED resultQ
       \/ \E r \in ResultMsgs :
            /\ resultQ[r].at = "expired"
            /\ resultQ' = Moved(resultQ, r, "lost")
            /\ UNCHANGED orderQ
    /\ UNCHANGED <<declared, faults>>

\* The TTL (24 hours) or the max-length (10000) of a main queue dead-letters a
\* ready message into the .retry queue.
MainExpiry ==
    /\ Fault("expiry")
    /\ \/ \E m \in OrderMsgs :
            /\ orderQ[m].at = "main"
            /\ orderQ' = Moved(orderQ, m, "expired")
            /\ UNCHANGED resultQ
       \/ \E r \in ResultMsgs :
            /\ resultQ[r].at = "main"
            /\ resultQ' = Moved(resultQ, r, "expired")
            /\ UNCHANGED orderQ
    /\ UNCHANGED declared

\* The TTL (7 days) of payment_queue.dlq, which has no dead-letter exchange.
\* payment_result_queue.dlq has no TTL.
DlqExpiry ==
    /\ Fault("expiry")
    /\ \E m \in OrderMsgs :
         /\ orderQ[m].at = "dlq"
         /\ orderQ' = Moved(orderQ, m, "lost")
    /\ UNCHANGED <<resultQ, declared>>

BrokerNext == RetryTimeout \/ CycleDropped \/ MainExpiry \/ DlqExpiry

=============================================================================
