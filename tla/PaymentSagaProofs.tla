-------------------------- MODULE PaymentSagaProofs --------------------------
(***************************************************************************)
(* Proofs about PaymentSaga, for any number of orders, instances, messages,*)
(* retries and faults.                                                     *)
(***************************************************************************)
EXTENDS PaymentSaga, TLAPS

-----------------------------------------------------------------------------
(* What the queue operators do. *)

\* Moved and Nacked keep a queue of order messages well formed and change the
\* place of message m only.
LEMMA OrderQueueOps ==
    ASSUME NEW q \in [OrderMsgs -> OrderMessage], NEW m \in OrderMsgs,
           NEW p \in Places
    PROVE  /\ Moved(q, m, p) \in [OrderMsgs -> OrderMessage]
           /\ Nacked(q, m) \in [OrderMsgs -> OrderMessage]
           /\ \A k \in OrderMsgs :
                /\ Moved(q, m, p)[k].order = q[k].order
                /\ Moved(q, m, p)[k].at = IF k = m THEN p ELSE q[k].at
                /\ Nacked(q, m)[k].order = q[k].order
                /\ Nacked(q, m)[k].at = IF k = m THEN "retry" ELSE q[k].at
<1>1. q[m] \in OrderMessage
  OBVIOUS
<1>2. /\ [q[m] EXCEPT !.at = p] \in OrderMessage
      /\ [q[m] EXCEPT !.at = p].order = q[m].order
      /\ [q[m] EXCEPT !.at = p].at = p
  BY <1>1 DEF OrderMessage
<1>3. /\ [q[m] EXCEPT !.at = "retry", !.deaths = q[m].deaths + 1] \in OrderMessage
      /\ [q[m] EXCEPT !.at = "retry", !.deaths = q[m].deaths + 1].order = q[m].order
      /\ [q[m] EXCEPT !.at = "retry", !.deaths = q[m].deaths + 1].at = "retry"
  <2>1. q[m].deaths + 1 \in Nat /\ "retry" \in Places
    BY <1>1 DEF OrderMessage, Places
  <2> QED BY <1>1, <2>1 DEF OrderMessage
<1> QED BY <1>2, <1>3 DEF Moved, Nacked

\* The same for a queue of results, whose content does not change either.
LEMMA ResultQueueOps ==
    ASSUME NEW q \in [ResultMsgs -> ResultMessage], NEW m \in ResultMsgs,
           NEW p \in Places
    PROVE  /\ Moved(q, m, p) \in [ResultMsgs -> ResultMessage]
           /\ Nacked(q, m) \in [ResultMsgs -> ResultMessage]
           /\ \A k \in ResultMsgs :
                /\ Moved(q, m, p)[k].order = q[k].order
                /\ Moved(q, m, p)[k].status = q[k].status
                /\ Moved(q, m, p)[k].at = IF k = m THEN p ELSE q[k].at
                /\ Nacked(q, m)[k].order = q[k].order
                /\ Nacked(q, m)[k].status = q[k].status
                /\ Nacked(q, m)[k].at = IF k = m THEN "retry" ELSE q[k].at
<1>1. q[m] \in ResultMessage
  OBVIOUS
<1>2. /\ [q[m] EXCEPT !.at = p] \in ResultMessage
      /\ [q[m] EXCEPT !.at = p].order = q[m].order
      /\ [q[m] EXCEPT !.at = p].status = q[m].status
      /\ [q[m] EXCEPT !.at = p].at = p
  BY <1>1 DEF ResultMessage
<1>3. /\ [q[m] EXCEPT !.at = "retry", !.deaths = q[m].deaths + 1] \in ResultMessage
      /\ [q[m] EXCEPT !.at = "retry", !.deaths = q[m].deaths + 1].order = q[m].order
      /\ [q[m] EXCEPT !.at = "retry", !.deaths = q[m].deaths + 1].status = q[m].status
      /\ [q[m] EXCEPT !.at = "retry", !.deaths = q[m].deaths + 1].at = "retry"
  <2>1. q[m].deaths + 1 \in Nat /\ "retry" \in Places
    BY <1>1 DEF ResultMessage, Places
  <2> QED BY <1>1, <2>1 DEF ResultMessage
<1> QED BY <1>2, <1>3 DEF Moved, Nacked


\* The literals of the model are members of their types.
LEMMA Literals ==
    /\ NoMsg \notin OrderMsgs
    /\ NoResult \notin ResultMsgs
    /\ NoOrderMessage \in OrderMessage
    /\ NoResultMessage \in ResultMessage
    /\ NoRow \in PaymentRow
    /\ [status |-> "pending", tx |-> 0] \in PaymentRow
    /\ "main" \in Places /\ "unacked" \in Places /\ "expired" \in Places
    /\ "dlq" \in Places /\ "acked" \in Places /\ "lost" \in Places
<1>1. NoMsg \notin OrderMsgs /\ NoResult \notin ResultMsgs
  BY BrokerAssumption, PaymentsAssumption, CheckoutAssumption
     DEF OrderMsgs, ResultMsgs
<1>2. NoOrderMessage \in OrderMessage /\ NoResultMessage \in ResultMessage
  BY DEF NoOrderMessage, OrderMessage, NoResultMessage, ResultMessage, Places
<1>3. NoRow \in PaymentRow /\ [status |-> "pending", tx |-> 0] \in PaymentRow
  BY DEF NoRow, PaymentRow, PaymentStatus
<1> QED BY <1>1, <1>2, <1>3 DEF Places

LEMMA TypeInit == Init => TypeOK
<1> SUFFICES ASSUME Init PROVE TypeOK
  OBVIOUS
<1>1. orderQ \in [OrderMsgs -> OrderMessage] /\ resultQ \in [ResultMsgs -> ResultMessage]
  BY Literals DEF Init, BrokerInit
<1>2. declared \subseteq {PaymentQueue, ResultQueue} /\ faults \in Nat
  BY DEF Init, BrokerInit
<1>3. /\ payment \in [Orders -> PaymentRow]
      /\ calls \in [Orders -> Nat]
      /\ pc \in [Workers -> Steps]
      /\ held \in [Workers -> OrderMsgs \cup {NoMsg}]
      /\ row \in [Workers -> PaymentRow]
      /\ conn \in [Workers -> BOOLEAN]
  BY Literals DEF Init, PaymentsInit, Steps
<1>4. /\ order \in [Orders -> OrderStatus]
      /\ request \in [Orders -> RequestStates]
      /\ shopPc \in ShopSteps
      /\ shopHeld \in ResultMsgs \cup {NoResult}
      /\ shopConn \in BOOLEAN
  BY DEF Init, CheckoutInit, OrderStatus, RequestStates, ShopSteps
<1> QED BY <1>1, <1>2, <1>3, <1>4 DEF TypeOK

-----------------------------------------------------------------------------
(* The induction step is cut along the pieces of state: each action is shown *)
(* to be a legal step of either queue, of the payments and of the orders     *)
(* (LegalStep) and to leave every callback in good order      *)
(* (WorkerOK, ShopOK); Assemble puts the invariant together again.           *)

\* A queue step: published messages stay published and keep their order; a new
\* one names an existing order.
OrderQStep ==
    /\ orderQ' \in [OrderMsgs -> OrderMessage]
    /\ \A k \in OrderMsgs : orderQ[k].at # "free" =>
          orderQ'[k].at # "free" /\ orderQ'[k].order = orderQ[k].order
    /\ \A k \in OrderMsgs : orderQ'[k].at # "free" =>
          \/ orderQ[k].at # "free"
          \/ orderQ'[k].order \in Orders /\ order[orderQ'[k].order] # "none"

ResultQStep ==
    /\ resultQ' \in [ResultMsgs -> ResultMessage]
    /\ \A k \in ResultMsgs : resultQ[k].at # "free" =>
          /\ resultQ'[k].at # "free"
          /\ resultQ'[k].order = resultQ[k].order
          /\ resultQ'[k].status = resultQ[k].status
    /\ \A k \in ResultMsgs : resultQ'[k].at # "free" =>
          \/ resultQ[k].at # "free"
          \/ /\ resultQ'[k].order \in Orders
             /\ resultQ'[k].status \in Final
             /\ payment[resultQ'[k].order].status = resultQ'[k].status

\* Payments are opened for existing orders only, are decided by the verdict and
\* keep a decided status.
PaymentStep ==
    /\ payment' \in [Orders -> PaymentRow]
    /\ \A o \in Orders :
         /\ payment[o].status # "none" => payment'[o].status # "none"
         /\ payment[o].status \in Final => payment'[o].status = payment[o].status
         /\ payment'[o].status # "none" => order[o] # "none"
         /\ payment'[o].status \in Final => payment'[o].status = Verdict(o)

\* Orders do not disappear, and are settled as a stored payment says.
OrderStep ==
    /\ order' \in [Orders -> OrderStatus]
    /\ \A o \in Orders :
         /\ order[o] # "none" => order'[o] # "none"
         /\ order'[o] = "paid" => order[o] = "paid" \/ payment[o].status = "approved"
         /\ order'[o] = "failed" => order[o] = "failed" \/ payment[o].status = "rejected"

LegalStep == OrderQStep /\ ResultQStep /\ PaymentStep /\ OrderStep

\* The conjuncts of CallbacksHoldMessages and CallbackProgress about worker w.
WorkerOK(w) ==
    /\ held[w] = NoMsg <=> pc[w] \in {"down", "idle"}
    /\ held[w] # NoMsg => orderQ[held[w]].at # "free"
    /\ pc[w] \in {"charge", "save", "publish", "ack"} =>
         payment[OrderOf(w)].status # "none"
    /\ pc[w] \in {"save", "publish", "ack"} => row[w].status = Verdict(OrderOf(w))
    /\ pc[w] \in {"publish", "ack"} =>
         payment[OrderOf(w)].status = Verdict(OrderOf(w))

ShopOK ==
    /\ shopHeld = NoResult <=> shopPc \in {"down", "idle"}
    /\ shopHeld # NoResult => resultQ[shopHeld].at # "free"
    /\ \A o \in Orders : request[o] # "none" => order[o] # "none"

\* The types of the variables that belong to the processes.
WorkerTypes ==
    /\ calls \in [Orders -> Nat]
    /\ pc \in [Workers -> Steps]
    /\ held \in [Workers -> OrderMsgs \cup {NoMsg}]
    /\ row \in [Workers -> PaymentRow]
    /\ conn \in [Workers -> BOOLEAN]

ShopTypes ==
    /\ request \in [Orders -> RequestStates]
    /\ shopPc \in ShopSteps
    /\ shopHeld \in ResultMsgs \cup {NoResult}
    /\ shopConn \in BOOLEAN

BrokerTypes == declared \subseteq {PaymentQueue, ResultQueue} /\ faults \in Nat

LEMMA VerdictFinal == \A o : Verdict(o) \in Final
  BY DEF Verdict, Final

\* The invariant, piece by piece.
LEMMA Pieces ==
    IInv => /\ \A w \in Workers : WorkerOK(w)
            /\ ShopOK /\ WorkerTypes /\ ShopTypes /\ BrokerTypes
  BY DEF IInv, TypeOK, CallbacksHoldMessages, CallbackProgress, MessagesNameOrders,
         WorkerOK, ShopOK, WorkerTypes, ShopTypes, BrokerTypes

LEMMA Assemble ==
    ASSUME IInv, OrderQStep, ResultQStep, PaymentStep, OrderStep,
           \A w \in Workers : WorkerOK(w)', ShopOK',
           WorkerTypes', ShopTypes', BrokerTypes'
    PROVE  IInv' /\ LegalStep
<1>1. TypeOK'
  BY DEF TypeOK, OrderQStep, ResultQStep, PaymentStep, OrderStep, WorkerTypes,
         ShopTypes, BrokerTypes
<1>2. MessagesNameOrders'
  BY DEF IInv, MessagesNameOrders, OrderQStep, ResultQStep, PaymentStep, OrderStep,
         ShopOK
<1>3. CallbacksHoldMessages' /\ CallbackProgress'
  BY DEF CallbacksHoldMessages, CallbackProgress, WorkerOK, ShopOK
<1>4. PaymentsDecided'
  BY DEF PaymentsDecided, PaymentStep, Verdict
<1>5. ResultsArePersisted'
  BY DEF IInv, ResultsArePersisted, MessagesNameOrders, ResultQStep, PaymentStep
<1>6. OrdersFollowPayments'
  BY DEF IInv, OrdersFollowPayments, OrderStep, PaymentStep, Final
<1> QED BY <1>1, <1>2, <1>3, <1>4, <1>5, <1>6 DEF IInv, LegalStep

\* A worker that does not move stays in good order whatever the others do.
LEMMA WorkerFrame ==
    ASSUME IInv, OrderQStep, PaymentStep, NEW w \in Workers,
           pc'[w] = pc[w], held'[w] = held[w], row'[w] = row[w]
    PROVE  WorkerOK(w)'
<1>1. WorkerOK(w) /\ held[w] \in OrderMsgs \cup {NoMsg}
  BY Pieces DEF WorkerTypes
<1>2. CASE held[w] = NoMsg
  BY <1>1, <1>2 DEF WorkerOK
<1>3. CASE held[w] # NoMsg
  <2>1. /\ held[w] \in OrderMsgs
        /\ orderQ[held[w]].at # "free"
        /\ orderQ'[held[w]].at # "free"
        /\ orderQ'[held[w]].order = orderQ[held[w]].order
        /\ OrderOf(w) \in Orders
    BY <1>1, <1>3 DEF WorkerOK, OrderQStep, OrderOf, IInv, MessagesNameOrders
  <2>2. OrderOf(w)' = OrderOf(w)
    BY <2>1 DEF OrderOf
  <2>3. Verdict(OrderOf(w))' = Verdict(OrderOf(w))
    BY <2>2 DEF Verdict
  <2> QED BY <1>1, <2>1, <2>2, <2>3, VerdictFinal DEF WorkerOK, PaymentStep
<1> QED BY <1>2, <1>3

\* The same for the result consumer.
LEMMA ShopFrame ==
    ASSUME IInv, ResultQStep, OrderStep, UNCHANGED <<shopPc, shopHeld, request>>
    PROVE  ShopOK'
  BY Pieces DEF ShopOK, ResultQStep, OrderStep, ShopTypes

\* Stuttering on a piece of state is a legal step of it.
LEMMA Unchanged ==
    ASSUME IInv
    PROVE  /\ UNCHANGED orderQ => OrderQStep
           /\ UNCHANGED resultQ => ResultQStep
           /\ UNCHANGED payment => PaymentStep
           /\ UNCHANGED order => OrderStep
  BY DEF IInv, TypeOK, MessagesNameOrders, PaymentsDecided, OrderQStep,
         ResultQStep, PaymentStep, OrderStep

\* Moving or nacking a published message is a legal step of its queue.
LEMMA MoveOrderMsg ==
    ASSUME IInv, NEW m \in OrderMsgs, orderQ[m].at # "free",
           NEW p \in Places \ {"free"},
           orderQ' = Moved(orderQ, m, p) \/ orderQ' = Nacked(orderQ, m)
    PROVE  OrderQStep
<1>1. orderQ \in [OrderMsgs -> OrderMessage]
  BY DEF IInv, TypeOK
<1>2. p \in Places
  OBVIOUS
<1>3. /\ Moved(orderQ, m, p) \in [OrderMsgs -> OrderMessage]
      /\ Nacked(orderQ, m) \in [OrderMsgs -> OrderMessage]
  BY <1>1, <1>2, OrderQueueOps
<1>4. \A k \in OrderMsgs :
        /\ orderQ'[k].order = orderQ[k].order
        /\ orderQ'[k].at = orderQ[k].at \/ (k = m /\ orderQ'[k].at # "free")
  BY <1>1, <1>2, OrderQueueOps
<1> QED BY <1>3, <1>4 DEF OrderQStep

LEMMA MoveResultMsg ==
    ASSUME IInv, NEW m \in ResultMsgs, resultQ[m].at # "free",
           NEW p \in Places \ {"free"},
           resultQ' = Moved(resultQ, m, p) \/ resultQ' = Nacked(resultQ, m)
    PROVE  ResultQStep
<1>1. resultQ \in [ResultMsgs -> ResultMessage]
  BY DEF IInv, TypeOK
<1>2. p \in Places
  OBVIOUS
<1>3. /\ Moved(resultQ, m, p) \in [ResultMsgs -> ResultMessage]
      /\ Nacked(resultQ, m) \in [ResultMsgs -> ResultMessage]
  BY <1>1, <1>2, ResultQueueOps
<1>4. \A k \in ResultMsgs :
        /\ resultQ'[k].order = resultQ[k].order
        /\ resultQ'[k].status = resultQ[k].status
        /\ resultQ'[k].at = resultQ[k].at \/ (k = m /\ resultQ'[k].at # "free")
  BY <1>1, <1>2, ResultQueueOps
<1> QED BY <1>3, <1>4 DEF ResultQStep

-----------------------------------------------------------------------------
(* The broker's own steps. *)

LEMMA BrokerStep ==
    ASSUME IInv, BrokerNext, UNCHANGED <<paymentsVars, checkoutVars>>
    PROVE  IInv' /\ LegalStep
<1>1. PICK p \in {"main", "lost", "expired"} :
        \/ \E m \in OrderMsgs : /\ orderQ[m].at # "free"
                                /\ orderQ' = Moved(orderQ, m, p)
                                /\ UNCHANGED resultQ
        \/ \E r \in ResultMsgs : /\ resultQ[r].at # "free"
                                 /\ resultQ' = Moved(resultQ, r, p)
                                 /\ UNCHANGED orderQ
  BY DEF BrokerNext, RetryTimeout, CycleDropped, MainExpiry, DlqExpiry
<1>2. p \in Places \ {"free"}
  BY DEF Places
<1>3. OrderQStep /\ ResultQStep
  BY <1>1, <1>2, MoveOrderMsg, MoveResultMsg, Unchanged
<1>4. PaymentStep /\ OrderStep
  BY Unchanged DEF paymentsVars, checkoutVars
<1>5. \A w \in Workers : WorkerOK(w)'
  BY <1>3, <1>4, WorkerFrame DEF paymentsVars
<1>6. ShopOK'
  BY <1>3, <1>4, ShopFrame DEF checkoutVars
<1>7. WorkerTypes' /\ ShopTypes'
  BY Pieces DEF WorkerTypes, ShopTypes, paymentsVars, checkoutVars
<1>8. BrokerTypes'
  BY Pieces DEF BrokerTypes, BrokerNext, RetryTimeout, CycleDropped, MainExpiry,
                DlqExpiry, Fault
<1> QED BY <1>3, <1>4, <1>5, <1>6, <1>7, <1>8, Assemble

-----------------------------------------------------------------------------
(* The steps of payments-service. *)

\* What is known of a worker whose callback runs.
LEMMA Callback ==
    ASSUME IInv, NEW w \in Workers, pc[w] \notin {"down", "idle"}
    PROVE  /\ held[w] \in OrderMsgs
           /\ orderQ[held[w]].at # "free"
           /\ OrderOf(w) \in Orders
           /\ order[OrderOf(w)] # "none"
           /\ row[w] \in PaymentRow
           /\ payment[OrderOf(w)] \in PaymentRow
<1>1. WorkerOK(w) /\ held[w] \in OrderMsgs \cup {NoMsg} /\ row[w] \in PaymentRow
  BY Pieces DEF WorkerTypes
<1>2. held[w] \in OrderMsgs /\ orderQ[held[w]].at # "free"
  BY <1>1 DEF WorkerOK
<1>3. OrderOf(w) \in Orders /\ order[OrderOf(w)] # "none"
  BY <1>2 DEF IInv, MessagesNameOrders, OrderOf
<1> QED BY <1>1, <1>2, <1>3 DEF IInv, TypeOK

\* A step of worker w is complete once its own pieces are: the other workers
\* and checkout-service do not move.
LEMMA WorkerStep ==
    ASSUME IInv, NEW w \in Workers, OrderQStep, ResultQStep, PaymentStep,
           WorkerOK(w)', WorkerTypes', BrokerTypes', UNCHANGED checkoutVars,
           \A v \in Workers \ {w} :
             pc'[v] = pc[v] /\ held'[v] = held[v] /\ row'[v] = row[v]
    PROVE  IInv' /\ LegalStep
<1>1. \A v \in Workers : WorkerOK(v)'
  BY WorkerFrame
<1>2. OrderStep
  BY Unchanged DEF checkoutVars
<1>3. ShopOK' /\ ShopTypes'
  BY <1>2, Pieces, ShopFrame DEF checkoutVars, ShopTypes
<1> QED BY <1>1, <1>2, <1>3, Assemble

\* A callback that goes on keeps its message, whose order does not change.
LEMMA SameOrder ==
    ASSUME IInv, NEW w \in Workers, pc[w] \notin {"down", "idle"},
           OrderQStep, held'[w] = held[w]
    PROVE  OrderOf(w)' = OrderOf(w) /\ orderQ'[held'[w]].at # "free"
  BY Callback DEF OrderQStep, OrderOf

\* The steps that start, stop or cut off an instance.
LEMMA StartStep ==
    ASSUME IInv, NEW w \in Workers, Start(w) \/ StartDeaf(w), UNCHANGED checkoutVars
    PROVE  IInv' /\ LegalStep
<1> USE DEF Start, StartDeaf, Goto
<1>1. OrderQStep /\ ResultQStep /\ PaymentStep
  BY Unchanged
<1>2. pc[w] = "down" /\ pc'[w] = "idle" /\ UNCHANGED held
  BY Pieces DEF WorkerTypes
<1>3. WorkerOK(w)'
  BY <1>1, <1>2, Pieces DEF WorkerOK, WorkerTypes, OrderQStep
<1>4. BrokerTypes'
  BY Pieces DEF BrokerTypes, Fault
<1>5. WorkerTypes'
  BY Pieces DEF WorkerTypes, Steps
<1>6. \A v \in Workers \ {w} :
        pc'[v] = pc[v] /\ held'[v] = held[v] /\ row'[v] = row[v]
  BY Pieces DEF WorkerTypes
<1> QED BY <1>1, <1>3, <1>4, <1>5, <1>6, WorkerStep

\* Whatever the broker does with the message of an instance that goes away, its
\* message stays published.
LEMMA RequeuedOrderQ ==
    ASSUME IInv, NEW w \in Workers, orderQ' = Requeued(w)
    PROVE  OrderQStep
<1>1. CASE conn[w] /\ held[w] # NoMsg
  <2>1. held[w] \in OrderMsgs /\ orderQ[held[w]].at # "free"
    BY <1>1, Pieces DEF WorkerOK, WorkerTypes
  <2>2. "main" \in Places \ {"free"}
    BY DEF Places
  <2>3. orderQ' = Moved(orderQ, held[w], "main")
    BY <1>1 DEF Requeued
  <2> QED BY <2>1, <2>2, <2>3, MoveOrderMsg
<1>2. CASE ~(conn[w] /\ held[w] # NoMsg)
  BY <1>2, Unchanged DEF Requeued
<1> QED BY <1>1, <1>2

\* A stopped instance is in good order, and nothing else moved.
LEMMA StoppedWorker ==
    ASSUME IInv, NEW w \in Workers, Stopped(w), UNCHANGED calls
    PROVE  /\ WorkerOK(w)' /\ WorkerTypes'
           /\ \A v \in Workers \ {w} :
                pc'[v] = pc[v] /\ held'[v] = held[v] /\ row'[v] = row[v]
<1>1. /\ pc'[w] = "down" /\ held'[w] = NoMsg
      /\ \A v \in Workers \ {w} :
           pc'[v] = pc[v] /\ held'[v] = held[v] /\ row'[v] = row[v]
  BY Pieces DEF WorkerTypes, Stopped, Goto
<1>2. WorkerTypes'
  BY Pieces, Literals DEF WorkerTypes, Stopped, Goto, Steps
<1> QED BY <1>1, <1>2 DEF WorkerOK

LEMMA StopStep ==
    ASSUME IInv, NEW w \in Workers, Crash(w) \/ ChannelClosed(w),
           UNCHANGED checkoutVars
    PROVE  IInv' /\ LegalStep
<1> USE DEF Crash, ChannelClosed
<1>1. OrderQStep
  BY RequeuedOrderQ, Unchanged
<1>2. ResultQStep /\ PaymentStep
  BY Unchanged
<1>3. /\ WorkerOK(w)' /\ WorkerTypes'
      /\ \A v \in Workers \ {w} :
           pc'[v] = pc[v] /\ held'[v] = held[v] /\ row'[v] = row[v]
  BY StoppedWorker
<1>4. BrokerTypes'
  BY Pieces DEF BrokerTypes, Fault
<1> QED BY <1>1, <1>2, <1>3, <1>4, WorkerStep

LEMMA LoseChannelStep ==
    ASSUME IInv, NEW w \in Workers, LoseChannel(w), UNCHANGED checkoutVars
    PROVE  IInv' /\ LegalStep
<1> USE DEF LoseChannel
<1>1. OrderQStep /\ ResultQStep /\ PaymentStep
  BY RequeuedOrderQ, Unchanged
<1>2. WorkerOK(w)'
  BY <1>1, WorkerFrame
<1>3. WorkerTypes' /\ BrokerTypes'
  BY Pieces DEF WorkerTypes, BrokerTypes, Fault
<1> QED BY <1>1, <1>2, <1>3, WorkerStep

LEMMA ReceiveStep ==
    ASSUME IInv, NEW w \in Workers, NEW m \in OrderMsgs, Receive(w, m),
           UNCHANGED checkoutVars
    PROVE  IInv' /\ LegalStep
<1> USE DEF Receive, Goto
<1>1. OrderQStep
  BY MoveOrderMsg DEF Places
<1>2. ResultQStep /\ PaymentStep
  BY Unchanged
<1>3. pc'[w] = "find" /\ held'[w] = m /\ orderQ'[m].at # "free"
  BY <1>1, Pieces DEF WorkerTypes, OrderQStep
<1>4. WorkerOK(w)'
  BY <1>3, Literals DEF WorkerOK
<1>5. WorkerTypes' /\ BrokerTypes'
  BY Pieces DEF WorkerTypes, BrokerTypes, Steps
<1>6. \A v \in Workers \ {w} :
        pc'[v] = pc[v] /\ held'[v] = held[v] /\ row'[v] = row[v]
  BY Pieces DEF WorkerTypes
<1> QED BY <1>1, <1>2, <1>4, <1>5, <1>6, WorkerStep

\* A callback that goes on to step `next' with the same message: what is left to
\* show is its progress, and the types of what it computed.
LEMMA ProgressStep ==
    ASSUME IInv, NEW w \in Workers, pc[w] \notin {"down", "idle"},
           NEW next \in Steps \ {"down", "idle"}, Goto(w, next),
           UNCHANGED <<orderQ, held, conn, declared, checkoutVars>>,
           ResultQStep, PaymentStep, calls' \in [Orders -> Nat], faults' \in Nat,
           NEW r \in PaymentRow, row' = [row EXCEPT ![w] = r],
           next \in {"charge", "save", "publish", "ack"} =>
             payment'[OrderOf(w)].status # "none",
           next \in {"save", "publish", "ack"} => r.status = Verdict(OrderOf(w)),
           next \in {"publish", "ack"} =>
             payment'[OrderOf(w)].status = Verdict(OrderOf(w))
    PROVE  IInv' /\ LegalStep
<1>1. OrderQStep
  BY Unchanged
<1>2. /\ pc'[w] = next /\ row'[w] = r
      /\ \A v \in Workers \ {w} :
           pc'[v] = pc[v] /\ held'[v] = held[v] /\ row'[v] = row[v]
  BY Pieces DEF WorkerTypes, Goto
<1>3. OrderOf(w)' = OrderOf(w) /\ Verdict(OrderOf(w))' = Verdict(OrderOf(w))
  BY DEF OrderOf, Verdict
<1>4. held'[w] # NoMsg /\ orderQ'[held'[w]].at # "free"
  BY Callback, Literals
<1>5. WorkerOK(w)'
  BY <1>2, <1>3, <1>4 DEF WorkerOK
<1>6. WorkerTypes'
  BY Pieces DEF WorkerTypes, Goto
<1>7. BrokerTypes'
  BY Pieces DEF BrokerTypes
<1> QED BY <1>1, <1>2, <1>5, <1>6, <1>7, WorkerStep

LEMMA FindStep ==
    ASSUME IInv, NEW w \in Workers, FindPayment(w), UNCHANGED checkoutVars
    PROVE  IInv' /\ LegalStep
<1> DEFINE found == payment[OrderOf(w)]
<1>1. OrderOf(w) \in Orders /\ found \in PaymentRow
  BY Callback DEF FindPayment
<1>2. found.status \in Final => found.status = Verdict(OrderOf(w))
  BY <1>1 DEF IInv, PaymentsDecided
<1>3. PICK next \in {"publish", "charge", "insert"} :
        /\ Goto(w, next)
        /\ next = "publish" => found.status \in Final
        /\ next = "charge" => found.status = "pending"
  BY <1>1 DEF FindPayment, PaymentRow, PaymentStatus, Final
<1>4. calls' \in [Orders -> Nat] /\ faults' \in Nat
  BY Pieces DEF FindPayment, WorkerTypes, BrokerTypes
<1>5. ResultQStep /\ PaymentStep
  BY Unchanged DEF FindPayment
<1>6. next \in Steps \ {"down", "idle"}
  BY <1>3 DEF Steps
<1>7. /\ pc[w] \notin {"down", "idle"}
      /\ row' = [row EXCEPT ![w] = found]
      /\ UNCHANGED <<orderQ, held, conn, declared, payment>>
  BY DEF FindPayment
<1>8. next \in {"publish", "charge"} => found.status # "none"
  BY <1>3 DEF Final
<1> HIDE DEF found
<1> QED
  BY <1>1, <1>2, <1>3, <1>4, <1>5, <1>6, <1>7, <1>8, ProgressStep DEF found

LEMMA InsertStep ==
    ASSUME IInv, NEW w \in Workers, InsertPending(w), UNCHANGED checkoutVars
    PROVE  IInv' /\ LegalStep
<1> DEFINE o == OrderOf(w)
           fresh == [status |-> "pending", tx |-> 0]
<1>1. o \in Orders /\ order[o] # "none" /\ row[w] \in PaymentRow
  BY Callback DEF InsertPending
<1>2. calls' \in [Orders -> Nat] /\ faults' \in Nat /\ row \in [Workers -> PaymentRow]
  BY Pieces DEF InsertPending, WorkerTypes, BrokerTypes
<1>3. ResultQStep
  BY Unchanged DEF InsertPending
<1>4. pc[w] \notin {"down", "idle"} /\ UNCHANGED <<orderQ, held, conn, declared>>
  BY DEF InsertPending
<1>5. CASE /\ payment[o].status = "none"
           /\ payment' = [payment EXCEPT ![o] = fresh]
           /\ row' = [row EXCEPT ![w] = fresh]
           /\ Goto(w, "charge")
  <2>1. /\ fresh \in PaymentRow /\ fresh.status = "pending"
        /\ "charge" \in Steps \ {"down", "idle"}
    BY Literals DEF Steps
  <2>2. PaymentStep /\ payment'[o] = fresh
    BY <1>1, <1>5, <2>1 DEF PaymentStep, IInv, TypeOK, MessagesNameOrders,
                            PaymentsDecided, Final
  <2> HIDE DEF fresh
  <2> QED BY <1>2, <1>3, <1>4, <1>5, <2>1, <2>2, ProgressStep
<1>6. CASE Goto(w, "fail") /\ UNCHANGED <<payment, row>>
  <2>1. row' = [row EXCEPT ![w] = row[w]] /\ "fail" \in Steps \ {"down", "idle"}
    BY <1>2, <1>6 DEF Steps
  <2>2. PaymentStep
    BY <1>6, Unchanged
  <2> QED BY <1>1, <1>2, <1>3, <1>4, <1>6, <2>1, <2>2, ProgressStep
<1> QED BY <1>5, <1>6 DEF InsertPending

LEMMA ChargeStep ==
    ASSUME IInv, NEW w \in Workers, Charge(w), UNCHANGED checkoutVars
    PROVE  IInv' /\ LegalStep
<1> DEFINE o == OrderOf(w)
           answer == GatewayAnswer(o, calls[o] + 1)
<1>1. o \in Orders /\ calls \in [Orders -> Nat]
  BY Callback, Pieces DEF Charge, WorkerTypes
<1>2. answer \in PaymentRow /\ answer.status = Verdict(o)
  BY <1>1 DEF GatewayAnswer, Verdict, PaymentRow, PaymentStatus
<1>3. calls' \in [Orders -> Nat] /\ faults' \in Nat
  BY <1>1, Pieces DEF Charge, BrokerTypes
<1>4. ResultQStep /\ PaymentStep
  BY Unchanged DEF Charge
<1>5. payment'[o].status # "none"
  BY Pieces DEF Charge, WorkerOK
<1>6. /\ pc[w] \notin {"down", "idle"} /\ UNCHANGED <<orderQ, held, conn, declared>>
      /\ row' = [row EXCEPT ![w] = answer] /\ Goto(w, "save")
      /\ "save" \in Steps \ {"down", "idle"}
  BY DEF Charge, Steps
<1> HIDE DEF answer
<1> QED BY <1>2, <1>3, <1>4, <1>5, <1>6, ProgressStep

\* Writing the entity of a callback at step save over the stored row.
LEMMA SavedRow ==
    ASSUME IInv, NEW w \in Workers, pc[w] = "save",
           payment' = [payment EXCEPT ![OrderOf(w)] = row[w]]
    PROVE  PaymentStep /\ payment'[OrderOf(w)] = row[w]
<1> DEFINE o == OrderOf(w)
<1>1. o \in Orders /\ order[o] # "none" /\ row[w] \in PaymentRow
  BY Callback
<1>2. row[w].status = Verdict(o) /\ Verdict(o) \in Final
  BY Pieces, VerdictFinal DEF WorkerOK
<1>3. payment \in [Orders -> PaymentRow]
  BY DEF IInv, TypeOK
<1>4. payment'[o] = row[w] /\ payment' \in [Orders -> PaymentRow]
  BY <1>1, <1>3
<1>5. \A q \in Orders : q # o => payment'[q] = payment[q]
  BY <1>3
<1>6. payment'[o].status # "none"
  BY <1>2, <1>4 DEF Final
<1> HIDE DEF o
<1> QED
  BY <1>1, <1>2, <1>4, <1>5, <1>6
     DEF PaymentStep, IInv, MessagesNameOrders, PaymentsDecided, o

LEMMA SaveStep ==
    ASSUME IInv, NEW w \in Workers, SavePayment(w), UNCHANGED checkoutVars
    PROVE  IInv' /\ LegalStep
<1>1. PaymentStep /\ payment'[OrderOf(w)] = row[w]
  BY SavedRow DEF SavePayment
<1>2. row[w].status = Verdict(OrderOf(w)) /\ Verdict(OrderOf(w)) # "none"
  BY Pieces, VerdictFinal DEF WorkerOK, SavePayment, Final
<1>3. row[w] \in PaymentRow /\ row' = [row EXCEPT ![w] = row[w]]
  BY Pieces DEF SavePayment, WorkerTypes
<1>4. calls' \in [Orders -> Nat] /\ faults' \in Nat
  BY Pieces DEF SavePayment, WorkerTypes, BrokerTypes
<1>5. /\ pc[w] \notin {"down", "idle"} /\ UNCHANGED <<orderQ, held, conn, declared>>
      /\ Goto(w, "publish") /\ "publish" \in Steps \ {"down", "idle"}
  BY DEF SavePayment, Steps
<1>6. ResultQStep
  BY Unchanged DEF SavePayment
<1> QED BY <1>1, <1>2, <1>3, <1>4, <1>5, <1>6, ProgressStep

LEMMA DbFailureStep ==
    ASSUME IInv, NEW w \in Workers, DbFailure(w), UNCHANGED checkoutVars
    PROVE  IInv' /\ LegalStep
<1> DEFINE o == OrderOf(w)
           fresh == [status |-> "pending", tx |-> 0]
<1>1. o \in Orders /\ order[o] # "none"
  BY Callback DEF DbFailure
<1>2. PaymentStep
  <2>1. CASE UNCHANGED payment
    BY <2>1, Unchanged
  <2>2. CASE /\ payment[o].status = "none"
             /\ payment' = [payment EXCEPT ![o] = fresh]
    <3>1. fresh \in PaymentRow /\ fresh.status = "pending"
      BY Literals
    <3> HIDE DEF fresh
    <3> QED BY <1>1, <2>2, <3>1 DEF PaymentStep, IInv, TypeOK, MessagesNameOrders,
                                    PaymentsDecided, Final
  <2>3. CASE pc[w] = "save" /\ payment' = [payment EXCEPT ![o] = row[w]]
    BY <2>3, SavedRow
  <2> QED BY <2>1, <2>2, <2>3 DEF DbFailure
<1>3. row[w] \in PaymentRow /\ row' = [row EXCEPT ![w] = row[w]]
  BY Pieces DEF DbFailure, WorkerTypes
<1>4. calls' \in [Orders -> Nat] /\ faults' \in Nat
  BY Pieces DEF DbFailure, WorkerTypes, BrokerTypes, Fault
<1>5. /\ pc[w] \notin {"down", "idle"} /\ UNCHANGED <<orderQ, held, conn, declared>>
      /\ Goto(w, "fail") /\ "fail" \in Steps \ {"down", "idle"}
  BY DEF DbFailure, Steps
<1>6. ResultQStep
  BY Unchanged DEF DbFailure
<1> HIDE DEF o, fresh
<1> QED BY <1>2, <1>3, <1>4, <1>5, <1>6, ProgressStep

LEMMA PublishStep ==
    ASSUME IInv, NEW w \in Workers, NEW r \in ResultMsgs, PublishResult(w, r),
           UNCHANGED checkoutVars
    PROVE  IInv' /\ LegalStep
<1> DEFINE o == OrderOf(w)
           new == [at |-> Routed(ResultQueue), deaths |-> 0, order |-> o,
                   status |-> row[w].status, tx |-> row[w].tx,
                   fits |-> TRUE]
<1>1. o \in Orders /\ row[w] \in PaymentRow
  BY Callback DEF PublishResult
<1>2. /\ row[w].status = Verdict(o) /\ payment[o].status = Verdict(o)
      /\ Verdict(o) \in Final
  BY Pieces, VerdictFinal DEF PublishResult, WorkerOK
<1>3. /\ new \in ResultMessage /\ new.at # "free" /\ new.order = o
      /\ new.status = Verdict(o)
  BY <1>1, <1>2 DEF ResultMessage, Routed, Places, PaymentRow, Final
<1>4. resultQ[r].at = "free" /\ resultQ' = [resultQ EXCEPT ![r] = new]
  BY DEF PublishResult, SendResult, IsNext
<1>5. ResultQStep
  <2> HIDE DEF new
  <2> QED BY <1>1, <1>2, <1>3, <1>4 DEF ResultQStep, IInv, TypeOK
<1>6. PaymentStep /\ UNCHANGED <<orderQ, held, conn, declared, payment, row, calls>>
  BY Unchanged DEF PublishResult
<1>7. PICK next \in {"ack", "fail"} : Goto(w, next)
  BY DEF PublishResult
<1>8. next \in Steps \ {"down", "idle"} /\ pc[w] \notin {"down", "idle"}
  BY DEF PublishResult, Steps
<1>9. calls' \in [Orders -> Nat] /\ faults' \in Nat /\ row' = [row EXCEPT ![w] = row[w]]
  BY Pieces DEF PublishResult, WorkerTypes, BrokerTypes, Fault
<1>10. Verdict(o) # "none"
  BY <1>2 DEF Final
<1> HIDE DEF o, new
<1> QED BY <1>1, <1>2, <1>5, <1>6, <1>7, <1>8, <1>9, <1>10, ProgressStep DEF o

\* The end of a callback: its message stays published, the instance is idle.
LEMMA ReleaseStep ==
    ASSUME IInv, NEW w \in Workers, Ack(w) \/ HandleFailure(w),
           UNCHANGED checkoutVars
    PROVE  IInv' /\ LegalStep
<1>1. held[w] \in OrderMsgs /\ orderQ[held[w]].at # "free"
  BY Callback DEF Ack, HandleFailure
<1>2. PICK p \in {"acked", "dlq"} :
        orderQ' = Moved(orderQ, held[w], p) \/ orderQ' = Nacked(orderQ, held[w])
  BY DEF Ack, HandleFailure
<1>3. OrderQStep
  BY <1>1, <1>2, MoveOrderMsg DEF Places
<1>4. ResultQStep /\ PaymentStep
  BY Unchanged DEF Ack, HandleFailure
<1>5. Released(w) /\ UNCHANGED <<declared, faults, calls, conn>>
  BY DEF Ack, HandleFailure
<1>6. /\ pc'[w] = "idle" /\ held'[w] = NoMsg
      /\ \A v \in Workers \ {w} :
           pc'[v] = pc[v] /\ held'[v] = held[v] /\ row'[v] = row[v]
  BY <1>5, Pieces DEF WorkerTypes, Released, Goto
<1>7. WorkerTypes'
  BY <1>5, Pieces, Literals DEF WorkerTypes, Released, Goto, Steps
<1>8. WorkerOK(w)' /\ BrokerTypes'
  BY <1>5, <1>6, Pieces DEF WorkerOK, BrokerTypes
<1> QED BY <1>3, <1>4, <1>6, <1>7, <1>8, WorkerStep

\* Putting a copy of a published message in place k, which is free or holds a
\* message of the same order.
LEMMA CopyOrderMsg ==
    ASSUME NEW q \in [OrderMsgs -> OrderMessage], IInv,
           \A k \in OrderMsgs :
             q[k].order = orderQ[k].order /\ (q[k].at = "free" <=> orderQ[k].at = "free"),
           NEW m \in OrderMsgs, orderQ[m].at # "free",
           NEW k \in OrderMsgs, k = m \/ orderQ[k].at = "free",
           NEW x \in OrderMessage, x.at # "free", x.order = orderQ[m].order,
           orderQ' = [q EXCEPT ![k] = x]
    PROVE  OrderQStep
<1>1. orderQ' \in [OrderMsgs -> OrderMessage] /\ orderQ'[k] = x
  OBVIOUS
<1>2. \A j \in OrderMsgs \ {k} : orderQ'[j] = q[j]
  OBVIOUS
<1> QED BY <1>1, <1>2 DEF OrderQStep, IInv, MessagesNameOrders

LEMMA DeadLetterCrashStep ==
    ASSUME IInv, NEW w \in Workers, NEW n \in OrderMsgs,
           DeadLetterThenCrash(w, n), UNCHANGED checkoutVars
    PROVE  IInv' /\ LegalStep
<1> DEFINE m == held[w]
           x == [orderQ[m] EXCEPT !.at = "dlq"]
<1>1. m \in OrderMsgs /\ orderQ[m].at # "free" /\ orderQ \in [OrderMsgs -> OrderMessage]
  BY Callback DEF DeadLetterThenCrash, IInv, TypeOK
<1>2. /\ Moved(orderQ, m, "main") \in [OrderMsgs -> OrderMessage]
      /\ \A k \in OrderMsgs :
           /\ Moved(orderQ, m, "main")[k].order = orderQ[k].order
           /\ Moved(orderQ, m, "main")[k].at = IF k = m THEN "main" ELSE orderQ[k].at
  BY <1>1, OrderQueueOps, Literals
<1>3. x \in OrderMessage /\ x.at # "free" /\ x.order = orderQ[m].order
  <2>1. orderQ[m] \in OrderMessage
    BY <1>1
  <2> QED BY <2>1, Literals DEF OrderMessage
<1>4. /\ orderQ[n].at = "free"
      /\ orderQ' = [Moved(orderQ, m, "main") EXCEPT ![n] = x]
  BY <1>1, Literals DEF DeadLetterThenCrash, IsNext, Requeued
<1>5. OrderQStep
  <2> HIDE DEF x
  <2> QED BY <1>1, <1>2, <1>3, <1>4, CopyOrderMsg
<1>6. ResultQStep /\ PaymentStep
  BY Unchanged DEF DeadLetterThenCrash
<1>7. /\ WorkerOK(w)' /\ WorkerTypes'
      /\ \A v \in Workers \ {w} :
           pc'[v] = pc[v] /\ held'[v] = held[v] /\ row'[v] = row[v]
  BY StoppedWorker DEF DeadLetterThenCrash
<1>8. BrokerTypes'
  BY Pieces DEF BrokerTypes, DeadLetterThenCrash, Fault
<1> QED BY <1>5, <1>6, <1>7, <1>8, WorkerStep

LEMMA ReprocessStep ==
    ASSUME IInv, NEW w \in Workers, NEW m \in OrderMsgs,
           Reprocess(w, m) \/ \E n \in OrderMsgs : ReprocessCopy(w, m, n),
           UNCHANGED checkoutVars
    PROVE  IInv' /\ LegalStep
<1> DEFINE x == Republished(orderQ[m])
<1>1. orderQ[m].at # "free" /\ orderQ \in [OrderMsgs -> OrderMessage]
  BY DEF Reprocess, ReprocessCopy, IInv, TypeOK
<1>2. x \in OrderMessage /\ x.at # "free" /\ x.order = orderQ[m].order
  <2>1. orderQ[m] \in OrderMessage
    BY <1>1
  <2> QED BY <2>1, Literals DEF OrderMessage, Republished
<1>3. PICK k \in OrderMsgs : /\ k = m \/ orderQ[k].at = "free"
                             /\ orderQ' = [orderQ EXCEPT ![k] = x]
  BY DEF Reprocess, ReprocessCopy, IsNext
<1>4. OrderQStep
  <2> HIDE DEF x
  <2> QED BY <1>1, <1>2, <1>3, CopyOrderMsg
<1>5. UNCHANGED <<resultQ, declared, paymentsVars>>
  BY DEF Reprocess, ReprocessCopy
<1>6. ResultQStep /\ PaymentStep
  BY <1>5, Unchanged DEF paymentsVars
<1>7. WorkerOK(w)' /\ WorkerTypes'
  BY <1>4, <1>5, <1>6, WorkerFrame, Pieces DEF paymentsVars, WorkerTypes
<1>8. BrokerTypes'
  BY Pieces DEF BrokerTypes, Reprocess, ReprocessCopy, Fault
<1> QED BY <1>4, <1>5, <1>6, <1>7, <1>8, WorkerStep DEF paymentsVars

LEMMA PaymentsStep ==
    ASSUME IInv, PaymentsNext, UNCHANGED checkoutVars
    PROVE  IInv' /\ LegalStep
<1>1. PICK w \in Workers :
        Start(w) \/ ChannelClosed(w) \/ Process(w) \/ WorkerFailure(w) \/ Operator(w)
  BY DEF PaymentsNext
<1>2. CASE Start(w) \/ ChannelClosed(w)
  BY <1>2, StartStep, StopStep
<1>3. CASE Process(w)
  BY <1>3, ReceiveStep, FindStep, InsertStep, ChargeStep, SaveStep, PublishStep,
     ReleaseStep DEF Process
<1>4. CASE WorkerFailure(w)
  BY <1>4, StartStep, StopStep, LoseChannelStep, DbFailureStep, DeadLetterCrashStep
     DEF WorkerFailure
<1>5. CASE Operator(w)
  BY <1>5, ReprocessStep DEF Operator
<1> QED BY <1>1, <1>2, <1>3, <1>4, <1>5

-----------------------------------------------------------------------------
(* The steps of checkout-service. *)

\* A step of checkout-service: the workers do not move.
LEMMA ShopStep ==
    ASSUME IInv, OrderQStep, ResultQStep, OrderStep, ShopOK', ShopTypes',
           BrokerTypes', UNCHANGED paymentsVars
    PROVE  IInv' /\ LegalStep
<1>1. PaymentStep
  BY Unchanged DEF paymentsVars
<1>2. \A w \in Workers : WorkerOK(w)'
  BY <1>1, WorkerFrame DEF paymentsVars
<1>3. WorkerTypes'
  BY Pieces DEF WorkerTypes, paymentsVars
<1> QED BY <1>1, <1>2, <1>3, Assemble

LEMMA StartShopStep ==
    ASSUME IInv, StartShop \/ StartShopDeaf, UNCHANGED paymentsVars
    PROVE  IInv' /\ LegalStep
<1> USE DEF StartShop, StartShopDeaf
<1>1. OrderQStep /\ ResultQStep /\ OrderStep
  BY Unchanged
<1>2. ShopOK'
  BY Pieces DEF ShopOK
<1>3. ShopTypes'
  BY Pieces DEF ShopTypes, ShopSteps
<1>4. BrokerTypes'
  BY Pieces DEF BrokerTypes, Fault
<1> QED BY <1>1, <1>2, <1>3, <1>4, ShopStep

LEMMA RequeuedResultQ ==
    ASSUME IInv, resultQ' = RequeuedResult
    PROVE  ResultQStep
<1>1. CASE shopConn /\ shopHeld # NoResult
  <2>1. shopHeld \in ResultMsgs /\ resultQ[shopHeld].at # "free"
    BY <1>1, Pieces DEF ShopOK, ShopTypes
  <2>2. "main" \in Places \ {"free"}
    BY DEF Places
  <2>3. resultQ' = Moved(resultQ, shopHeld, "main")
    BY <1>1 DEF RequeuedResult
  <2> QED BY <2>1, <2>2, <2>3, MoveResultMsg
<1>2. CASE ~(shopConn /\ shopHeld # NoResult)
  BY <1>2, Unchanged DEF RequeuedResult
<1> QED BY <1>1, <1>2

LEMMA StopShopStep ==
    ASSUME IInv, CrashShop \/ ShopChannelClosed \/ LoseShopChannel,
           UNCHANGED paymentsVars
    PROVE  IInv' /\ LegalStep
<1> USE DEF CrashShop, ShopChannelClosed, LoseShopChannel
<1>1. OrderQStep /\ OrderStep
  BY Unchanged
<1>2. ResultQStep
  BY RequeuedResultQ, Unchanged
<1>3. ShopOK'
  BY <1>1, <1>2, ShopFrame, Pieces DEF ShopOK, ShopStopped, OrderStep
<1>4. ShopTypes'
  BY Pieces DEF ShopTypes, ShopStopped, ShopSteps, RequestStates
<1>5. BrokerTypes'
  BY Pieces DEF BrokerTypes, Fault
<1> QED BY <1>1, <1>2, <1>3, <1>4, <1>5, ShopStep

LEMMA RequestStep ==
    ASSUME IInv, NEW o \in Orders,
           CompleteCheckout(o) \/ PublishUnavailable(o), UNCHANGED paymentsVars
    PROVE  IInv' /\ LegalStep
<1> USE DEF CompleteCheckout, PublishUnavailable
<1>1. OrderQStep /\ ResultQStep
  BY Unchanged DEF brokerVars
<1>2. OrderStep
  BY Unchanged DEF OrderStep, IInv, TypeOK, OrderStatus
<1>3. ShopOK'
  BY <1>1, <1>2, Pieces DEF ShopOK, ShopTypes, ResultQStep, OrderStep, IInv, TypeOK
<1>4. ShopTypes'
  BY Pieces DEF ShopTypes, RequestStates
<1>5. BrokerTypes'
  BY Pieces DEF BrokerTypes, brokerVars
<1> QED BY <1>1, <1>2, <1>3, <1>4, <1>5, ShopStep

\* A published payment request names an order that exists: it comes after the
\* commit.
LEMMA PublishOrderStep ==
    ASSUME IInv, NEW o \in Orders, NEW m \in OrderMsgs,
           PublishPaymentOrder(o, m), UNCHANGED paymentsVars
    PROVE  IInv' /\ LegalStep
<1> DEFINE new == [at |-> Routed(PaymentQueue), deaths |-> 0, order |-> o]
<1>1. new \in OrderMessage /\ new.at # "free" /\ new.order = o
  BY DEF OrderMessage, Routed, Places
<1>2. orderQ[m].at = "free" /\ orderQ' = [orderQ EXCEPT ![m] = new]
  BY DEF PublishPaymentOrder, SendPaymentMessage, PaymentMessage, IsNext
<1>3. order[o] # "none"
  BY Pieces DEF PublishPaymentOrder, ShopOK
<1>4. OrderQStep
  <2> HIDE DEF new
  <2> QED BY <1>1, <1>2, <1>3 DEF OrderQStep, IInv, TypeOK
<1>5. ResultQStep /\ OrderStep
  BY Unchanged DEF PublishPaymentOrder
<1>6. ShopOK'
  BY <1>3, <1>5, Pieces
     DEF PublishPaymentOrder, ShopOK, ShopTypes, ResultQStep, OrderStep
<1>7. ShopTypes'
  BY Pieces DEF ShopTypes, PublishPaymentOrder, RequestStates
<1>8. BrokerTypes'
  BY Pieces DEF BrokerTypes, PublishPaymentOrder, Fault
<1> QED BY <1>4, <1>5, <1>6, <1>7, <1>8, ShopStep

LEMMA ReceiveResultStep ==
    ASSUME IInv, NEW r \in ResultMsgs, ReceiveResult(r), UNCHANGED paymentsVars
    PROVE  IInv' /\ LegalStep
<1> USE DEF ReceiveResult
<1>1. ResultQStep
  <2>1. "unacked" \in Places \ {"free"}
    BY DEF Places
  <2> QED BY <2>1, MoveResultMsg
<1>2. OrderQStep /\ OrderStep
  BY Unchanged
<1>3. ShopOK'
  BY <1>1, <1>2, Literals, Pieces DEF ShopOK, ResultQStep
<1>4. ShopTypes' /\ BrokerTypes'
  BY Pieces DEF ShopTypes, BrokerTypes, ShopSteps
<1> QED BY <1>1, <1>2, <1>3, <1>4, ShopStep

LEMMA ApplyStep ==
    ASSUME IInv, ApplyPaymentResult \/ ApplyDbFailure, UNCHANGED paymentsVars
    PROVE  IInv' /\ LegalStep
<1> DEFINE x == resultQ[shopHeld].order
           status == resultQ[shopHeld].status
           expected == ExpectedStatus(status)
<1>1. shopHeld \in ResultMsgs /\ resultQ[shopHeld].at # "free"
  BY Pieces DEF ShopOK, ShopTypes, ApplyPaymentResult, ApplyDbFailure
<1>2. x \in Orders /\ status \in Final /\ payment[x].status = status
  <2>1. x \in Orders
    BY <1>1 DEF IInv, MessagesNameOrders
  <2>2. status \in Final /\ payment[x].status = status
    BY <1>1 DEF IInv, ResultsArePersisted
  <2> QED BY <2>1, <2>2
<1>3. ASSUME UNCHANGED order PROVE OrderStep
  BY <1>3, Unchanged
<1>4. ASSUME order[x] \in {"pending", expected},
             order' = [order EXCEPT ![x] = expected]
      PROVE  OrderStep
  <2>1. /\ expected \in {"paid", "failed"}
        /\ expected = "paid" => payment[x].status = "approved"
        /\ expected = "failed" => payment[x].status = "rejected"
    BY <1>2 DEF ExpectedStatus, Final
  <2> HIDE DEF expected, x
  <2>2. order'[x] = expected /\ \A q \in Orders \ {x} : order'[q] = order[q]
    BY <1>2, <1>4 DEF IInv, TypeOK
  <2>3. order' \in [Orders -> OrderStatus]
    BY <1>4, <2>1 DEF IInv, TypeOK, OrderStatus
  <2> QED BY <1>2, <2>1, <2>2, <2>3 DEF OrderStep
<1>5. OrderStep
  <2>1. \/ UNCHANGED order
        \/ order[x] \in {"pending", expected} /\ order' = [order EXCEPT ![x] = expected]
    BY DEF ApplyPaymentResult, ApplyDbFailure
  <2> QED BY <1>3, <1>4, <2>1
<1>6. OrderQStep /\ ResultQStep
  BY Unchanged DEF ApplyPaymentResult, ApplyDbFailure, brokerVars
<1>7. /\ shopPc' \in {"ack", "fail"} /\ UNCHANGED shopHeld
      /\ UNCHANGED <<declared, request, shopConn>> /\ faults' \in Nat
  BY Pieces DEF ApplyPaymentResult, ApplyDbFailure, brokerVars, BrokerTypes, Fault
<1>8. ShopOK' /\ ShopTypes' /\ BrokerTypes'
  BY <1>1, <1>5, <1>6, <1>7, Pieces, Literals
     DEF ShopOK, ShopTypes, BrokerTypes, ResultQStep, ShopSteps, OrderStep
<1> QED BY <1>5, <1>6, <1>8, ShopStep

LEMMA ReleaseResultStep ==
    ASSUME IInv, AckResult \/ HandleResultFailure, UNCHANGED paymentsVars
    PROVE  IInv' /\ LegalStep
<1>1. shopHeld \in ResultMsgs /\ resultQ[shopHeld].at # "free"
  BY Pieces DEF ShopOK, ShopTypes, AckResult, HandleResultFailure
<1>2. PICK p \in {"acked", "dlq"} :
        resultQ' = Moved(resultQ, shopHeld, p) \/ resultQ' = Nacked(resultQ, shopHeld)
  BY DEF AckResult, HandleResultFailure
<1>3. ResultQStep
  BY <1>1, <1>2, MoveResultMsg DEF Places
<1>4. ShopReleased /\ UNCHANGED faults
  BY DEF AckResult, HandleResultFailure
<1>5. OrderQStep /\ OrderStep
  BY <1>4, Unchanged DEF ShopReleased
<1>6. ShopOK' /\ ShopTypes' /\ BrokerTypes'
  BY <1>4, Pieces DEF ShopReleased, ShopOK, ShopTypes, BrokerTypes, ShopSteps
<1> QED BY <1>3, <1>5, <1>6, ShopStep

LEMMA DeadLetterAndRetryStep ==
    ASSUME IInv, NEW n \in ResultMsgs, DeadLetterAndRetry(n), UNCHANGED paymentsVars
    PROVE  IInv' /\ LegalStep
<1> DEFINE r == shopHeld
           x == [resultQ[r] EXCEPT !.at = "dlq"]
<1>1. r \in ResultMsgs /\ resultQ[r].at # "free" /\ resultQ \in [ResultMsgs -> ResultMessage]
  BY Pieces DEF ShopOK, ShopTypes, DeadLetterAndRetry, IInv, TypeOK
<1>2. /\ Nacked(resultQ, r) \in [ResultMsgs -> ResultMessage]
      /\ \A k \in ResultMsgs :
           /\ Nacked(resultQ, r)[k].order = resultQ[k].order
           /\ Nacked(resultQ, r)[k].status = resultQ[k].status
           /\ Nacked(resultQ, r)[k].at = IF k = r THEN "retry" ELSE resultQ[k].at
  BY <1>1, ResultQueueOps, Literals
<1>3. /\ x \in ResultMessage /\ x.at # "free" /\ x.order = resultQ[r].order
      /\ x.status = resultQ[r].status
  <2>1. resultQ[r] \in ResultMessage
    BY <1>1
  <2> QED BY <2>1, Literals DEF ResultMessage
<1>4. resultQ[n].at = "free" /\ resultQ' = [Nacked(resultQ, r) EXCEPT ![n] = x]
  BY DEF DeadLetterAndRetry, IsNext
<1>5. x.order \in Orders /\ x.status \in Final /\ payment[x.order].status = x.status
  <2>1. resultQ[r].order \in Orders
    BY <1>1 DEF IInv, MessagesNameOrders
  <2>2. /\ resultQ[r].status \in Final
        /\ payment[resultQ[r].order].status = resultQ[r].status
    BY <1>1 DEF IInv, ResultsArePersisted
  <2> HIDE DEF x
  <2> QED BY <1>3, <2>1, <2>2
<1>6. ResultQStep
  <2> HIDE DEF x, r
  <2>1. resultQ' \in [ResultMsgs -> ResultMessage] /\ resultQ'[n] = x
    BY <1>2, <1>3, <1>4
  <2>2. \A k \in ResultMsgs \ {n} : resultQ'[k] = Nacked(resultQ, r)[k]
    BY <1>2, <1>4
  <2> QED BY <1>1, <1>2, <1>3, <1>4, <1>5, <2>1, <2>2 DEF ResultQStep
<1>7. ShopReleased
  BY DEF DeadLetterAndRetry
<1>8. OrderQStep /\ OrderStep
  BY <1>7, Unchanged DEF ShopReleased
<1>9. ShopOK' /\ ShopTypes' /\ BrokerTypes'
  BY <1>7, Pieces
     DEF DeadLetterAndRetry, ShopReleased, ShopOK, ShopTypes, BrokerTypes,
         ShopSteps, Fault
<1> QED BY <1>6, <1>8, <1>9, ShopStep

LEMMA CheckoutStep ==
    ASSUME IInv, CheckoutNext, UNCHANGED paymentsVars
    PROVE  IInv' /\ LegalStep
<1>1. CASE Shop
  BY <1>1, RequestStep, PublishOrderStep, ReceiveResultStep, ApplyStep,
     ReleaseResultStep DEF Shop
<1>2. CASE ShopFailure
  BY <1>2, StartShopStep, StopShopStep, ApplyStep, DeadLetterAndRetryStep
     DEF ShopFailure
<1>3. CASE StartShop \/ ShopChannelClosed \/ \E o \in Orders : CompleteCheckout(o)
  BY <1>3, StartShopStep, StopShopStep, RequestStep
<1> QED BY <1>1, <1>2, <1>3 DEF CheckoutNext

-----------------------------------------------------------------------------
(* The invariant. *)

LEMMA IInvInit == Init => IInv
<1> SUFFICES ASSUME Init PROVE IInv
  OBVIOUS
<1>1. TypeOK
  BY TypeInit
<1>2. /\ \A m \in OrderMsgs : orderQ[m].at = "free"
      /\ \A r \in ResultMsgs : resultQ[r].at = "free"
      /\ \A o \in Orders : payment[o].status = "none"
  BY DEF Init, BrokerInit, PaymentsInit, NoOrderMessage, NoResultMessage, NoRow
<1>3. /\ \A w \in Workers : pc[w] = "down" /\ held[w] = NoMsg
      /\ \A o \in Orders : order[o] = "none" /\ request[o] = "none"
      /\ shopPc = "down" /\ shopHeld = NoResult
  BY DEF Init, PaymentsInit, CheckoutInit
<1>4. MessagesNameOrders /\ CallbacksHoldMessages /\ CallbackProgress
  BY <1>2, <1>3 DEF MessagesNameOrders, CallbacksHoldMessages, CallbackProgress
<1>5. PaymentsDecided /\ ResultsArePersisted /\ OrdersFollowPayments
  BY <1>2, <1>3 DEF PaymentsDecided, ResultsArePersisted, OrdersFollowPayments, Final
<1> QED BY <1>1, <1>4, <1>5 DEF IInv

LEMMA IInvNext == IInv /\ [Next]_vars => IInv' /\ LegalStep
<1> SUFFICES ASSUME IInv, [Next]_vars PROVE IInv' /\ LegalStep
  OBVIOUS
<1>1. CASE Next
  BY <1>1, BrokerStep, PaymentsStep, CheckoutStep DEF Next
<1>2. CASE UNCHANGED vars
  <2>1. UNCHANGED <<brokerVars, paymentsVars, checkoutVars>>
    BY <1>2 DEF vars
  <2>2. OrderQStep /\ ResultQStep /\ PaymentStep /\ OrderStep
    BY <2>1, Unchanged DEF brokerVars, paymentsVars, checkoutVars
  <2>3. (\A w \in Workers : WorkerOK(w)') /\ ShopOK'
    BY <2>1, <2>2, WorkerFrame, ShopFrame DEF paymentsVars, checkoutVars
  <2>4. WorkerTypes' /\ ShopTypes' /\ BrokerTypes'
    BY <2>1, Pieces DEF brokerVars, paymentsVars, checkoutVars, WorkerTypes,
                        ShopTypes, BrokerTypes
  <2> QED BY <2>2, <2>3, <2>4, Assemble
<1> QED BY <1>1, <1>2

\* Every reachable state satisfies the inductive invariant.
THEOREM Invariance == Spec => []IInv
<1>1. IInv /\ [Next]_vars => IInv'
  BY IInvNext
<1> QED BY <1>1, IInvInit, PTL DEF Spec

\* Every variable keeps its type, for any number of instances, orders, messages
\* and faults.
THEOREM TypeCorrect == Spec => []TypeOK
<1>1. IInv => TypeOK
  BY DEF IInv
<1> QED BY <1>1, Invariance, PTL

\* A result is never published before its payment is stored with that status.
THEOREM ResultsPersisted == Spec => []ResultsArePersisted
<1>1. IInv => ResultsArePersisted
  BY DEF IInv
<1> QED BY <1>1, Invariance, PTL

\* An order is never paid or failed against the stored payment.
THEOREM DatabasesAgree == Spec => []OrdersFollowPayments
<1>1. IInv => OrdersFollowPayments
  BY DEF IInv
<1> QED BY <1>1, Invariance, PTL

-----------------------------------------------------------------------------
(* PaymentSaga implements OrderLifecycle. *)

\* The statuses that OrderLifecycle sees in the payments table.
Statuses == [o \in Orders |-> payment[o].status]

LEMMA InitRefines == Init => Lifecycle!Init
  BY DEF Init, PaymentsInit, CheckoutInit, NoRow, Lifecycle!Init

\* Creating a payment is Open, deciding it is Decide, everything else stutters.
LEMMA PaymentsRefine ==
    ASSUME IInv, PaymentsNext, UNCHANGED checkoutVars
    PROVE  [Lifecycle!Next]_Lifecycle!vars
<1>1. UNCHANGED order
  BY DEF checkoutVars
<1>2. ASSUME NEW o \in Orders, NEW r \in PaymentRow,
             payment' = [payment EXCEPT ![o] = r]
      PROVE  Statuses' = [Statuses EXCEPT ![o] = r.status]
  BY <1>2 DEF Statuses, IInv, TypeOK
<1>3. CASE UNCHANGED payment
  BY <1>1, <1>3 DEF Lifecycle!vars
<1>4. ASSUME NEW w \in Workers, pc[w] = "insert",
             payment[OrderOf(w)].status = "none",
             payment' = [payment EXCEPT ![OrderOf(w)] = [status |-> "pending", tx |-> 0]]
      PROVE  Lifecycle!Next
  <2>1. PICK o \in Orders : o = OrderOf(w)
    BY <1>4, Callback
  <2>2. /\ order[o] # "none"
        /\ order \in [Orders -> OrderStatus]
    BY <1>4, <2>1, Callback DEF IInv, TypeOK
  <2>3. order[o] = "pending"
    BY <1>4, <2>1, <2>2 DEF IInv, OrdersFollowPayments, OrderStatus
  <2>4. Statuses' = [Statuses EXCEPT ![o] = "pending"]
    BY <1>2, <1>4, <2>1, Literals
  <2>5. Lifecycle!Open(o)
    BY <1>1, <1>4, <2>1, <2>3, <2>4 DEF Lifecycle!Open, Statuses
  <2> QED BY <2>5 DEF Lifecycle!Next
<1>5. ASSUME NEW w \in Workers, pc[w] = "save",
             payment' = [payment EXCEPT ![OrderOf(w)] = row[w]]
      PROVE  [Lifecycle!Next]_Lifecycle!vars
  <2>1. PICK o \in Orders : o = OrderOf(w)
    BY <1>5, Callback
  <2>2. /\ row[w] \in PaymentRow /\ payment[o] \in PaymentRow
        /\ row[w].status = Verdict(o)
        /\ payment[o].status # "none"
    BY <1>5, <2>1, Callback, Pieces DEF WorkerOK
  <2>3. Statuses' = [Statuses EXCEPT ![o] = Verdict(o)]
    BY <1>2, <1>5, <2>1, <2>2
  <2>4. CASE payment[o].status = "pending"
    <3>1. Lifecycle!Decide(o)
      BY <1>1, <2>3, <2>4 DEF Lifecycle!Decide, Statuses
    <3> QED BY <3>1 DEF Lifecycle!Next
  <2>5. CASE payment[o].status \in Final
    <3>1. payment[o].status = Verdict(o)
      BY <2>5 DEF IInv, PaymentsDecided
    <3>2. Statuses' = Statuses
      BY <2>3, <3>1 DEF Statuses
    <3> QED BY <1>1, <3>2 DEF Lifecycle!vars, Statuses
  <2> QED BY <2>2, <2>4, <2>5 DEF PaymentRow, PaymentStatus, Final
<1>6. PICK w \in Workers :
        Start(w) \/ ChannelClosed(w) \/ Process(w) \/ WorkerFailure(w) \/ Operator(w)
  BY DEF PaymentsNext
<1>7. CASE Start(w) \/ ChannelClosed(w) \/ Operator(w)
  BY <1>3, <1>7 DEF Start, ChannelClosed, Operator, Reprocess, ReprocessCopy,
                    paymentsVars
<1>8. CASE Process(w)
  BY <1>3, <1>4, <1>5, <1>8
     DEF Process, Receive, FindPayment, InsertPending, Charge, SavePayment,
         PublishResult, Ack, HandleFailure
<1>9. CASE WorkerFailure(w)
  BY <1>3, <1>4, <1>5, <1>9
     DEF WorkerFailure, StartDeaf, Crash, LoseChannel, DbFailure, DeadLetterThenCrash
<1> QED BY <1>6, <1>7, <1>8, <1>9

\* Committing an order is Place, applying a result to a pending order is Settle.
LEMMA CheckoutRefine ==
    ASSUME IInv, CheckoutNext, UNCHANGED paymentsVars
    PROVE  [Lifecycle!Next]_Lifecycle!vars
<1>1. UNCHANGED payment
  BY DEF paymentsVars
<1>2. CASE UNCHANGED order
  BY <1>1, <1>2 DEF Lifecycle!vars
<1>3. ASSUME NEW o \in Orders, CompleteCheckout(o)
      PROVE  Lifecycle!Next
  <2>1. Lifecycle!Place(o)
    BY <1>1, <1>3 DEF CompleteCheckout, Lifecycle!Place
  <2> QED BY <2>1 DEF Lifecycle!Next
<1>4. ASSUME ApplyPaymentResult \/ ApplyDbFailure, order' # order
      PROVE  Lifecycle!Next
  <2> DEFINE x == resultQ[shopHeld].order
             status == resultQ[shopHeld].status
  <2>1. shopHeld \in ResultMsgs /\ resultQ[shopHeld].at # "free"
    BY <1>4, Pieces DEF ShopOK, ShopTypes, ApplyPaymentResult, ApplyDbFailure
  <2>2. x \in Orders
    BY <2>1 DEF IInv, MessagesNameOrders
  <2>3. status \in Final /\ payment[x].status = status
    BY <2>1 DEF IInv, ResultsArePersisted
  <2>4. order' = [order EXCEPT ![x] = ExpectedStatus(status)]
    BY <1>4 DEF ApplyPaymentResult, ApplyDbFailure
  <2>5. order[x] \in {"pending", ExpectedStatus(status)}
    BY <1>4 DEF ApplyPaymentResult, ApplyDbFailure
  <2> HIDE DEF x
  <2>6. order[x] = "pending"
    BY <1>4, <2>2, <2>4, <2>5 DEF IInv, TypeOK
  <2>7. Lifecycle!Settle(x)
    BY <1>1, <2>2, <2>3, <2>4, <2>6 DEF Lifecycle!Settle, ExpectedStatus, Final
  <2> QED BY <2>2, <2>7 DEF Lifecycle!Next
<1>5. \/ UNCHANGED order
      \/ \E o \in Orders : CompleteCheckout(o)
      \/ ApplyPaymentResult \/ ApplyDbFailure
  BY DEF CheckoutNext, StartShop, ShopChannelClosed, Shop, ShopFailure,
         PublishUnavailable, PublishPaymentOrder, ReceiveResult, AckResult,
         HandleResultFailure, StartShopDeaf, CrashShop, LoseShopChannel,
         DeadLetterAndRetry, ShopReleased
<1> QED BY <1>2, <1>3, <1>4, <1>5

LEMMA NextRefines == IInv /\ [Next]_vars => [Lifecycle!Next]_Lifecycle!vars
<1> SUFFICES ASSUME IInv, [Next]_vars PROVE [Lifecycle!Next]_Lifecycle!vars
  OBVIOUS
<1>1. CASE BrokerNext /\ UNCHANGED <<paymentsVars, checkoutVars>>
  BY <1>1 DEF paymentsVars, checkoutVars, Lifecycle!vars
<1>2. CASE UNCHANGED vars
  BY <1>2 DEF vars, paymentsVars, checkoutVars, Lifecycle!vars
<1> QED BY <1>1, <1>2, PaymentsRefine, CheckoutRefine DEF Next

\* The detailed system implements the promise about orders: placed once, decided
\* once, settled as decided, and final states are never left (RN-07).
THEOREM Refinement == Spec => LifecycleRefined
<1> QED
  BY NextRefines, InitRefines, Invariance, PTL DEF Spec, LifecycleRefined, Lifecycle!Spec

-----------------------------------------------------------------------------
(* Delivery and acknowledgement: OneConsumerPerMessage and NothingDropped.   *)

\* The two halves of OneConsumerPerMessage, and what a step may do to order
\* messages, to results and to orders as far as acknowledgements go.
OrderDelivery ==
    /\ \A w, v \in Workers :
         conn[w] /\ conn[v] /\ held[w] = held[v] /\ held[w] # NoMsg => w = v
    /\ \A m \in OrderMsgs :
         orderQ[m].at = "unacked" <=> \E w \in Workers : conn[w] /\ held[w] = m

ResultDelivery ==
    \A r \in ResultMsgs :
        resultQ[r].at = "unacked" <=> shopConn /\ shopHeld = r

\* An order message is acked by a callback at step ack only, which comes there
\* with a result of the order published.
OrderAckStep ==
    /\ \A k \in OrderMsgs : orderQ'[k].at = "acked" =>
          \/ orderQ[k].at = "acked"
          \/ \E w \in Workers : pc[w] = "ack" /\ held[w] = k
    /\ \A w \in Workers : pc'[w] = "ack" =>
          \/ pc[w] = "ack" /\ held'[w] = held[w]
          \/ PublishedResult(OrderOf(w))'
    /\ \A k \in OrderMsgs : orderQ'[k].at = "free" => orderQ'[k] = orderQ[k]

\* The same for results and the orders they settle.
ResultAckStep ==
    /\ \A k \in ResultMsgs : resultQ'[k].at = "acked" =>
          \/ resultQ[k].at = "acked"
          \/ shopPc = "ack" /\ shopHeld = k
    /\ shopPc' = "ack" =>
          \/ shopPc = "ack" /\ shopHeld' = shopHeld
          \/ order'[resultQ'[shopHeld'].order] \in Terminal

\* A step of worker w keeps order deliveries consistent if the messages out for
\* delivery are those out before, without the one w gave up, with the one w took.
LEMMA WorkerDelivery ==
    ASSUME OrderDelivery, NEW w \in Workers,
           \A v \in Workers \ {w} : conn'[v] = conn[v] /\ held'[v] = held[v],
           held'[w] \in OrderMsgs \cup {NoMsg},
           \A k \in OrderMsgs :
             orderQ'[k].at = "unacked" <=>
               \/ conn'[w] /\ held'[w] = k
               \/ orderQ[k].at = "unacked" /\ ~(conn[w] /\ held[w] = k),
           conn'[w] /\ held'[w] # NoMsg =>
             (conn[w] /\ held[w] = held'[w]) \/ orderQ[held'[w]].at # "unacked"
    PROVE  OrderDelivery'
<1>1. ASSUME NEW v \in Workers \ {w}, conn'[w], conn'[v], held'[w] = held'[v],
             held'[w] # NoMsg
      PROVE  FALSE
  <2>1. conn[v] /\ held[v] = held'[w] /\ held'[w] \in OrderMsgs
    BY <1>1
  <2>2. orderQ[held'[w]].at = "unacked"
    BY <2>1 DEF OrderDelivery
  <2>3. conn[w] /\ held[w] = held[v]
    BY <1>1, <2>1, <2>2
  <2> QED BY <1>1, <2>1, <2>3 DEF OrderDelivery
<1>2. \A v, u \in Workers :
        conn'[v] /\ conn'[u] /\ held'[v] = held'[u] /\ held'[v] # NoMsg => v = u
  <2> TAKE v, u \in Workers
  <2>1. CASE v = w \/ u = w
    BY <1>1, <2>1
  <2>2. CASE v # w /\ u # w
    BY <2>2 DEF OrderDelivery
  <2> QED BY <2>1, <2>2
<1>3. ASSUME NEW k \in OrderMsgs
      PROVE  orderQ'[k].at = "unacked" <=>
               \E v \in Workers : conn'[v] /\ held'[v] = k
  <2>1. ASSUME orderQ[k].at = "unacked", ~(conn[w] /\ held[w] = k)
        PROVE  \E v \in Workers : conn'[v] /\ held'[v] = k
    BY <2>1 DEF OrderDelivery
  <2>2. ASSUME NEW v \in Workers \ {w}, conn'[v], held'[v] = k
        PROVE  orderQ[k].at = "unacked" /\ ~(conn[w] /\ held[w] = k)
    <3>1. conn[v] /\ held[v] = k /\ k # NoMsg
      BY <2>2, Literals
    <3> QED BY <3>1 DEF OrderDelivery
  <2> QED BY <2>1, <2>2
<1> QED BY <1>2, <1>3 DEF OrderDelivery

\* A step that moves no message into or out of delivery.
LEMMA QuietDelivery ==
    ASSUME OrderDelivery, UNCHANGED <<conn, held>>,
           \A k \in OrderMsgs : orderQ'[k].at = "unacked" <=> orderQ[k].at = "unacked"
    PROVE  OrderDelivery'
  BY DEF OrderDelivery

\* Steps that leave every callback where it is, and the order messages out of
\* delivery and unacknowledged.
LEMMA QuietStep ==
    ASSUME IInv, OrderDelivery, OrderQStep, UNCHANGED <<pc, held, conn>>,
           \A k \in OrderMsgs :
             orderQ'[k] = orderQ[k] \/ (/\ orderQ[k].at # "unacked"
                                        /\ orderQ'[k].at \notin {"free", "unacked", "acked"})
    PROVE  OrderDelivery' /\ OrderAckStep
<1>1. OrderDelivery'
  BY QuietDelivery
<1> QED BY <1>1 DEF OrderAckStep

\* Moved and Nacked leave the other messages alone.
LEMMA OthersUnmoved ==
    ASSUME NEW q \in [OrderMsgs -> OrderMessage], NEW m, NEW p,
           NEW k \in OrderMsgs, k # m
    PROVE  Moved(q, m, p)[k] = q[k] /\ Nacked(q, m)[k] = q[k]
  BY DEF Moved, Nacked

LEMMA BrokerDelivery ==
    ASSUME IInv, OrderDelivery, OrderQStep, BrokerNext,
           UNCHANGED <<paymentsVars, checkoutVars>>
    PROVE  OrderDelivery' /\ OrderAckStep
<1>1. \/ UNCHANGED orderQ
      \/ \E m \in OrderMsgs, p \in {"main", "lost", "expired"} :
           /\ orderQ[m].at \in {"retry", "expired", "main", "dlq"}
           /\ orderQ' = Moved(orderQ, m, p)
  BY DEF BrokerNext, RetryTimeout, CycleDropped, MainExpiry, DlqExpiry
<1>2. \A k \in OrderMsgs :
        orderQ'[k] = orderQ[k] \/ (/\ orderQ[k].at # "unacked"
                                   /\ orderQ'[k].at \notin {"free", "unacked", "acked"})
  BY <1>1 DEF Moved, IInv, TypeOK, OrderMessage
<1> QED BY <1>2, QuietStep DEF paymentsVars

\* A step of instance w that leaves the queue and its message alone: only the
\* publication of a result leads to the step ack.
LEMMA CallbackDelivery ==
    ASSUME IInv, IInv', OrderDelivery, NEW w \in Workers, UNCHANGED <<orderQ, held, conn>>,
           \/ StartDeaf(w) \/ FindPayment(w) \/ InsertPending(w) \/ Charge(w)
           \/ SavePayment(w) \/ DbFailure(w)
           \/ \E r \in ResultMsgs : PublishResult(w, r)
    PROVE  OrderDelivery' /\ OrderAckStep
<1>1. OrderDelivery'
  BY QuietDelivery
<1>2. ASSUME NEW r \in ResultMsgs, PublishResult(w, r) PROVE PublishedResult(OrderOf(w))'
  <2>1. resultQ'[r] = [at |-> Routed(ResultQueue), deaths |-> 0, order |-> OrderOf(w),
                       status |-> row[w].status, tx |-> row[w].tx, fits |-> TRUE]
    BY <1>2 DEF PublishResult, SendResult, IInv, TypeOK
  <2>2. resultQ'[r].at # "free" /\ resultQ'[r].order = OrderOf(w)
    BY <2>1 DEF Routed
  <2>3. OrderOf(w)' = OrderOf(w)
    BY DEF OrderOf
  <2> QED BY <2>2, <2>3 DEF PublishedResult
<1>3. \A v \in Workers : pc'[v] = "ack" => pc[v] = "ack" \/ PublishedResult(OrderOf(v))'
  <2>1. \A v \in Workers \ {w} : pc'[v] = pc[v]
    BY Pieces DEF WorkerTypes, StartDeaf, FindPayment, InsertPending, Charge, SavePayment,
                  DbFailure, PublishResult, Goto
  <2>2. pc'[w] = "ack" => \E r \in ResultMsgs : PublishResult(w, r)
    BY Pieces, Callback
       DEF WorkerTypes, StartDeaf, FindPayment, InsertPending, Charge, SavePayment,
           DbFailure, PublishResult, Goto, PaymentRow, PaymentStatus, Final
  <2> QED BY <1>2, <2>1, <2>2
<1> QED BY <1>1, <1>3 DEF OrderAckStep

LEMMA StartDelivery ==
    ASSUME IInv, OrderDelivery, NEW w \in Workers, Start(w)
    PROVE  OrderDelivery' /\ OrderAckStep
<1>1. /\ held[w] = NoMsg /\ UNCHANGED <<orderQ, held>> /\ pc'[w] = "idle"
      /\ \A v \in Workers \ {w} : conn'[v] = conn[v] /\ pc'[v] = pc[v]
  BY Pieces DEF Start, Goto, WorkerTypes, WorkerOK
<1>2. OrderDelivery'
  BY <1>1, Literals, WorkerDelivery
<1> QED BY <1>1, <1>2 DEF OrderAckStep

LEMMA ReceiveDelivery ==
    ASSUME IInv, OrderDelivery, NEW w \in Workers, NEW m \in OrderMsgs, Receive(w, m)
    PROVE  OrderDelivery' /\ OrderAckStep
<1>1. /\ held[w] = NoMsg /\ held'[w] = m /\ pc'[w] = "find" /\ orderQ[m].at = "main"
      /\ UNCHANGED conn
      /\ \A v \in Workers \ {w} : held'[v] = held[v] /\ pc'[v] = pc[v]
  BY Pieces DEF Receive, Goto, WorkerTypes, WorkerOK
<1>2. \A k \in OrderMsgs :
        /\ orderQ'[k].at = IF k = m THEN "unacked" ELSE orderQ[k].at
        /\ k # m => orderQ'[k] = orderQ[k]
  BY Literals, OrderQueueOps DEF Receive, IInv, TypeOK, Moved
<1>3. conn'[w]
  BY <1>1 DEF Receive
<1>4. OrderDelivery'
  BY <1>1, <1>2, <1>3, Literals, WorkerDelivery
<1> QED BY <1>1, <1>2, <1>4 DEF OrderAckStep

\* Where the message of an instance that goes away goes.
LEMMA RequeuedPlaces ==
    ASSUME IInv, NEW w \in Workers, NEW k \in OrderMsgs
    PROVE  Requeued(w)[k].at = IF conn[w] /\ held[w] = k THEN "main" ELSE orderQ[k].at
<1>1. held[w] \in OrderMsgs \cup {NoMsg} /\ orderQ \in [OrderMsgs -> OrderMessage]
  BY Pieces DEF WorkerTypes, IInv, TypeOK
<1> QED BY <1>1, Literals, OrderQueueOps DEF Requeued

\* An instance that goes away, or only loses its connection: its message, if it
\* is still out for delivery, goes back to the queue.
LEMMA StopDelivery ==
    ASSUME IInv, OrderDelivery, OrderQStep, NEW w \in Workers,
           Crash(w) \/ ChannelClosed(w) \/ LoseChannel(w)
    PROVE  OrderDelivery' /\ OrderAckStep
<1>1. /\ ~conn'[w] /\ held'[w] \in {NoMsg, held[w]}
      /\ pc'[w] = "ack" => pc[w] = "ack" /\ held'[w] = held[w]
      /\ \A v \in Workers \ {w} :
           conn'[v] = conn[v] /\ held'[v] = held[v] /\ pc'[v] = pc[v]
      /\ held[w] \in OrderMsgs \cup {NoMsg}
  BY Pieces DEF Crash, ChannelClosed, LoseChannel, Stopped, Goto, WorkerTypes
<1>2. \A k \in OrderMsgs :
        orderQ'[k].at = IF conn[w] /\ held[w] = k THEN "main" ELSE orderQ[k].at
  BY RequeuedPlaces DEF Crash, ChannelClosed, LoseChannel
<1>3. OrderDelivery'
  BY <1>1, <1>2, WorkerDelivery
<1>4. \A k \in OrderMsgs : orderQ'[k].at = "free" => orderQ'[k] = orderQ[k]
  <2>1. ASSUME NEW k \in OrderMsgs, ~(conn[w] /\ held[w] = k) PROVE orderQ'[k] = orderQ[k]
    BY <1>1, <2>1 DEF Crash, ChannelClosed, LoseChannel, Requeued, Moved, IInv, TypeOK
  <2> QED BY <1>2, <2>1
<1> QED BY <1>1, <1>2, <1>3, <1>4 DEF OrderAckStep

LEMMA ReleaseDelivery ==
    ASSUME IInv, OrderDelivery, NEW w \in Workers, Ack(w) \/ HandleFailure(w)
    PROVE  OrderDelivery' /\ OrderAckStep
<1>1. held[w] \in OrderMsgs /\ conn[w] /\ UNCHANGED conn
  BY Callback DEF Ack, HandleFailure
<1>2. orderQ \in [OrderMsgs -> OrderMessage]
  BY DEF IInv, TypeOK
<1>3. /\ pc'[w] = "idle" /\ held'[w] = NoMsg
      /\ \A v \in Workers \ {w} : held'[v] = held[v] /\ pc'[v] = pc[v]
  BY Pieces DEF Ack, HandleFailure, Released, Goto, WorkerTypes
<1>4. /\ orderQ'[held[w]].at \in {"acked", "dlq", "retry"}
      /\ orderQ'[held[w]].at = "acked" => pc[w] = "ack"
      /\ \A k \in OrderMsgs : k # held[w] => orderQ'[k] = orderQ[k]
  <2>1. CASE Ack(w)
    BY <1>1, <1>2, <2>1, OrderQueueOps, OthersUnmoved, Literals DEF Ack
  <2>2. CASE HandleFailure(w)
    BY <1>1, <1>2, <2>2, OrderQueueOps, OthersUnmoved, Literals DEF HandleFailure
  <2> QED BY <2>1, <2>2
<1>5. OrderDelivery'
  BY <1>1, <1>3, <1>4, Literals, WorkerDelivery
<1> QED BY <1>1, <1>3, <1>4, <1>5 DEF OrderAckStep

LEMMA DeadLetterDelivery ==
    ASSUME IInv, OrderDelivery, NEW w \in Workers, NEW n \in OrderMsgs,
           DeadLetterThenCrash(w, n)
    PROVE  OrderDelivery' /\ OrderAckStep
<1>1. held[w] \in OrderMsgs /\ conn[w] /\ held[w] # NoMsg /\ orderQ[n].at = "free"
  BY Callback, Literals DEF DeadLetterThenCrash, IsNext
<1>2. /\ pc'[w] = "down" /\ held'[w] = NoMsg /\ ~conn'[w]
      /\ \A v \in Workers \ {w} :
           conn'[v] = conn[v] /\ held'[v] = held[v] /\ pc'[v] = pc[v]
  BY Pieces DEF DeadLetterThenCrash, Stopped, Goto, WorkerTypes
<1>3. orderQ' = [Moved(orderQ, held[w], "main") EXCEPT ![n] =
                   [orderQ[held[w]] EXCEPT !.at = "dlq"]]
  BY <1>1 DEF DeadLetterThenCrash, Requeued
<1>4. /\ orderQ'[n].at = "dlq"
      /\ \A k \in OrderMsgs : k # n => orderQ'[k] = Moved(orderQ, held[w], "main")[k]
  BY <1>1, <1>3 DEF IInv, TypeOK, OrderMessage, Moved
<1>5. orderQ[held[w]].at = "unacked"
  BY <1>1 DEF OrderDelivery
<1>6. /\ orderQ'[held[w]].at = "main"
      /\ \A k \in OrderMsgs : k # n /\ k # held[w] => orderQ'[k] = orderQ[k]
  BY <1>1, <1>4, <1>5 DEF IInv, TypeOK, OrderMessage, Moved
<1>7. OrderDelivery'
  BY <1>1, <1>2, <1>4, <1>6, WorkerDelivery
<1> QED BY <1>1, <1>2, <1>4, <1>6, <1>7 DEF OrderAckStep

LEMMA ReprocessDelivery ==
    ASSUME IInv, OrderDelivery, OrderQStep, NEW w \in Workers, Operator(w)
    PROVE  OrderDelivery' /\ OrderAckStep
<1>1. PICK m, k \in OrderMsgs :
        /\ orderQ[k].at \in {"dlq", "free"}
        /\ orderQ' = [orderQ EXCEPT ![k] = Republished(orderQ[m])]
        /\ UNCHANGED <<pc, held, conn>>
  BY DEF Operator, Reprocess, ReprocessCopy, paymentsVars, IsNext
<1>2. Republished(orderQ[m]).at = "main"
  BY DEF Republished, IInv, TypeOK, OrderMessage
<1>3. \A j \in OrderMsgs :
        orderQ'[j] = orderQ[j] \/ (/\ orderQ[j].at # "unacked"
                                   /\ orderQ'[j].at \notin {"free", "unacked", "acked"})
  BY <1>1, <1>2 DEF IInv, TypeOK
<1> QED BY <1>1, <1>3, QuietStep

LEMMA PaymentsDelivery ==
    ASSUME IInv, IInv', OrderDelivery, OrderQStep, PaymentsNext
    PROVE  OrderDelivery' /\ OrderAckStep
<1>1. PICK w \in Workers :
        Start(w) \/ ChannelClosed(w) \/ Process(w) \/ WorkerFailure(w) \/ Operator(w)
  BY DEF PaymentsNext
<1>2. CASE Start(w) \/ ChannelClosed(w) \/ Operator(w)
  BY <1>2, StartDelivery, StopDelivery, ReprocessDelivery
<1>3. CASE \/ StartDeaf(w) \/ FindPayment(w) \/ InsertPending(w) \/ Charge(w)
           \/ SavePayment(w) \/ DbFailure(w)
           \/ \E r \in ResultMsgs : PublishResult(w, r)
  <2>1. UNCHANGED <<orderQ, held, conn>>
    BY <1>3 DEF StartDeaf, FindPayment, InsertPending, Charge, SavePayment, DbFailure,
                PublishResult
  <2> QED BY <1>3, <2>1, CallbackDelivery
<1>4. CASE \/ \E m \in OrderMsgs : Receive(w, m)
           \/ Ack(w) \/ HandleFailure(w) \/ Crash(w) \/ LoseChannel(w)
           \/ \E n \in OrderMsgs : DeadLetterThenCrash(w, n)
  BY <1>4, ReceiveDelivery, ReleaseDelivery, StopDelivery, DeadLetterDelivery
<1> QED BY <1>1, <1>2, <1>3, <1>4 DEF Process, WorkerFailure

\* Steps that move no result into or out of delivery, and acknowledge none.
LEMMA QuietResults ==
    ASSUME ResultDelivery, UNCHANGED <<shopPc, shopHeld, shopConn>>,
           \A k \in ResultMsgs :
             resultQ'[k] = resultQ[k] \/ (/\ resultQ[k].at # "unacked"
                                          /\ resultQ'[k].at \notin {"unacked", "acked"})
    PROVE  ResultDelivery' /\ ResultAckStep
  BY DEF ResultDelivery, ResultAckStep

\* The broker and payments-service only publish results, route and expire them.
LEMMA OthersLeaveResults ==
    ASSUME IInv, ResultDelivery, BrokerNext \/ PaymentsNext, UNCHANGED checkoutVars
    PROVE  ResultDelivery' /\ ResultAckStep
<1>1. \/ UNCHANGED resultQ
      \/ \E r \in ResultMsgs, p \in {"main", "lost", "expired"} :
           /\ resultQ[r].at \in {"retry", "expired", "main"}
           /\ resultQ' = Moved(resultQ, r, p)
      \/ \E w \in Workers, r \in ResultMsgs : PublishResult(w, r)
  BY DEF BrokerNext, RetryTimeout, CycleDropped, MainExpiry, DlqExpiry, PaymentsNext,
         Start, ChannelClosed, Process, WorkerFailure, Operator, StartDeaf, Crash,
         LoseChannel, DbFailure, DeadLetterThenCrash, Receive, FindPayment,
         InsertPending, Charge, SavePayment, Ack, HandleFailure, Reprocess, ReprocessCopy
<1>2. ASSUME NEW w \in Workers, NEW r \in ResultMsgs, PublishResult(w, r)
      PROVE  /\ resultQ[r].at = "free" /\ resultQ'[r].at \in {"main", "lost"}
             /\ \A k \in ResultMsgs : k # r => resultQ'[k] = resultQ[k]
  <2> DEFINE new == [at |-> Routed(ResultQueue), deaths |-> 0, order |-> OrderOf(w),
                     status |-> row[w].status, tx |-> row[w].tx, fits |-> TRUE]
  <2>1. new.at \in {"main", "lost"}
    BY DEF Routed
  <2>2. resultQ[r].at = "free" /\ resultQ' = [resultQ EXCEPT ![r] = new]
    BY <1>2 DEF PublishResult, SendResult, IsNext
  <2> HIDE DEF new
  <2> QED BY <2>1, <2>2 DEF IInv, TypeOK
<1>3. ASSUME NEW r \in ResultMsgs, NEW p \in {"main", "lost", "expired"},
             resultQ' = Moved(resultQ, r, p)
      PROVE  /\ resultQ'[r].at = p
             /\ \A k \in ResultMsgs : k # r => resultQ'[k] = resultQ[k]
  BY <1>3 DEF Moved, IInv, TypeOK, ResultMessage
<1>4. \A k \in ResultMsgs :
        resultQ'[k] = resultQ[k] \/ (/\ resultQ[k].at # "unacked"
                                     /\ resultQ'[k].at \notin {"unacked", "acked"})
  BY <1>1, <1>2, <1>3
<1> QED BY <1>4, QuietResults DEF checkoutVars

\* The consumer of checkout-service.
LEMMA ShopDelivery ==
    ASSUME IInv, ResultDelivery, CheckoutNext, LegalStep
    PROVE  ResultDelivery' /\ ResultAckStep
<1> USE DEF ResultDelivery, ResultAckStep
<1>1. resultQ \in [ResultMsgs -> ResultMessage] /\ ShopOK /\ ShopTypes
  BY Pieces DEF IInv, TypeOK
<1>2. CASE \/ \E o \in Orders : CompleteCheckout(o) \/ PublishUnavailable(o)
           \/ \E o \in Orders, m \in OrderMsgs : PublishPaymentOrder(o, m)
  BY <1>2, QuietResults DEF CompleteCheckout, PublishUnavailable, PublishPaymentOrder,
                            brokerVars
<1>3. CASE StartShop \/ StartShopDeaf
  <2>1. /\ shopHeld = NoResult /\ shopHeld' = NoResult /\ UNCHANGED resultQ
        /\ shopPc' = "idle"
    BY <1>1, <1>3 DEF StartShop, StartShopDeaf, ShopOK
  <2> QED BY <2>1, Literals
<1>4. CASE CrashShop \/ ShopChannelClosed \/ LoseShopChannel
  <2>1. /\ ~shopConn'
        /\ shopPc' = "ack" => shopPc = "ack" /\ shopHeld' = shopHeld
        /\ resultQ' = IF shopConn /\ shopHeld # NoResult
                      THEN Moved(resultQ, shopHeld, "main") ELSE resultQ
    BY <1>4 DEF CrashShop, ShopChannelClosed, LoseShopChannel, ShopStopped,
                RequeuedResult
  <2>2. \A k \in ResultMsgs :
          resultQ'[k].at = IF shopConn /\ shopHeld = k THEN "main" ELSE resultQ[k].at
    BY <1>1, <2>1, ResultQueueOps, Literals DEF ShopTypes
  <2> QED BY <2>1, <2>2
<1>5. ASSUME NEW r \in ResultMsgs, ReceiveResult(r) PROVE ResultDelivery' /\ ResultAckStep
  <2>1. /\ shopHeld = NoResult /\ shopHeld' = r /\ shopConn /\ shopConn'
        /\ shopPc' = "apply" /\ resultQ' = Moved(resultQ, r, "unacked")
    BY <1>1, <1>5 DEF ReceiveResult, ShopOK
  <2>2. \A k \in ResultMsgs :
          resultQ'[k].at = IF k = r THEN "unacked" ELSE resultQ[k].at
    BY <1>1, <2>1, ResultQueueOps, Literals
  <2> QED BY <2>1, <2>2, Literals
<1>6. CASE ApplyPaymentResult \/ ApplyDbFailure
  <2>1. UNCHANGED <<resultQ, shopHeld, shopConn>>
    BY <1>6 DEF ApplyPaymentResult, ApplyDbFailure, brokerVars
  <2>2. shopPc' = "ack" => order'[resultQ[shopHeld].order] \in Terminal
    <3>1. shopHeld \in ResultMsgs /\ resultQ[shopHeld].order \in Orders
      BY <1>1, <1>6 DEF ApplyPaymentResult, ApplyDbFailure, ShopOK, ShopTypes, IInv,
                        MessagesNameOrders
    <3> QED BY <1>6, <3>1 DEF ApplyPaymentResult, ApplyDbFailure, ExpectedStatus,
                              Terminal, IInv, TypeOK
  <2> QED BY <2>1, <2>2
<1>7. CASE AckResult \/ HandleResultFailure
  <2>1. /\ shopHeld \in ResultMsgs /\ shopHeld' = NoResult /\ shopPc' = "idle"
        /\ shopConn
    BY <1>1, <1>7 DEF AckResult, HandleResultFailure, ShopReleased, ShopOK, ShopTypes
  <2>2. /\ resultQ'[shopHeld].at \in {"acked", "dlq", "retry"}
        /\ resultQ'[shopHeld].at = "acked" => shopPc = "ack"
        /\ \A k \in ResultMsgs : k # shopHeld => resultQ'[k].at = resultQ[k].at
    BY <1>1, <1>7, <2>1, ResultQueueOps, Literals DEF AckResult, HandleResultFailure
  <2> QED BY <2>1, <2>2, Literals
<1>8. ASSUME NEW n \in ResultMsgs, DeadLetterAndRetry(n)
      PROVE  ResultDelivery' /\ ResultAckStep
  <2>1. /\ shopHeld \in ResultMsgs /\ shopHeld' = NoResult /\ shopPc' = "idle"
        /\ shopConn /\ resultQ[n].at = "free"
    BY <1>1, <1>8 DEF DeadLetterAndRetry, ShopReleased, ShopOK, ShopTypes, IsNext
  <2>2. shopHeld # n
    BY <1>1, <2>1 DEF ShopOK
  <2>3. /\ resultQ'[n].at = "dlq"
        /\ \A k \in ResultMsgs : k # n => resultQ'[k] = Nacked(resultQ, shopHeld)[k]
    BY <1>1, <1>8, <2>1 DEF DeadLetterAndRetry, Nacked, ResultMessage
  <2>4. /\ resultQ'[shopHeld].at = "retry"
        /\ \A k \in ResultMsgs : k # n /\ k # shopHeld => resultQ'[k].at = resultQ[k].at
    BY <1>1, <2>1, <2>2, <2>3, ResultQueueOps, Literals
  <2> QED BY <2>1, <2>3, <2>4, Literals
<1> QED BY <1>2, <1>3, <1>4, <1>5, <1>6, <1>7, <1>8 DEF CheckoutNext, Shop, ShopFailure

\* What checkout-service does to the order messages: it publishes.
LEMMA ShopLeavesOrders ==
    ASSUME IInv, OrderDelivery, OrderQStep, CheckoutNext, UNCHANGED paymentsVars
    PROVE  OrderDelivery' /\ OrderAckStep
<1>1. \/ UNCHANGED orderQ
      \/ \E o \in Orders, m \in OrderMsgs : PublishPaymentOrder(o, m)
  BY DEF CheckoutNext, StartShop, ShopChannelClosed, CompleteCheckout, Shop, ShopFailure,
         PublishUnavailable, ReceiveResult, ApplyPaymentResult, AckResult,
         HandleResultFailure, StartShopDeaf, CrashShop, LoseShopChannel, ApplyDbFailure,
         DeadLetterAndRetry, ShopReleased, brokerVars
<1>2. ASSUME NEW o \in Orders, NEW m \in OrderMsgs, PublishPaymentOrder(o, m)
      PROVE  /\ orderQ[m].at = "free" /\ orderQ'[m].at \in {"main", "lost"}
             /\ \A k \in OrderMsgs : k # m => orderQ'[k] = orderQ[k]
  <2>1. /\ orderQ[m].at = "free"
        /\ orderQ' = [orderQ EXCEPT ![m] = PaymentMessage(o)]
    BY <1>2 DEF PublishPaymentOrder, SendPaymentMessage, IsNext
  <2>2. PaymentMessage(o).at \in {"main", "lost"}
    BY DEF PaymentMessage, Routed
  <2> QED BY <2>1, <2>2 DEF IInv, TypeOK
<1>3. \A k \in OrderMsgs :
        orderQ'[k] = orderQ[k] \/ (/\ orderQ[k].at # "unacked"
                                   /\ orderQ'[k].at \notin {"free", "unacked", "acked"})
  BY <1>1, <1>2
<1> QED BY <1>3, QuietStep DEF paymentsVars

\* What any step does to deliveries and acknowledgements.
LEMMA DeliveryNext ==
    ASSUME IInv, OneConsumerPerMessage, [Next]_vars
    PROVE  OneConsumerPerMessage' /\ OrderAckStep /\ ResultAckStep
<1>1. OrderDelivery /\ ResultDelivery
  BY DEF OneConsumerPerMessage, OrderDelivery, ResultDelivery
<1>2. IInv' /\ LegalStep /\ OrderQStep
  BY IInvNext DEF LegalStep
<1>3. CASE BrokerNext /\ UNCHANGED <<paymentsVars, checkoutVars>>
  BY <1>1, <1>2, <1>3, BrokerDelivery, OthersLeaveResults
     DEF OneConsumerPerMessage, OrderDelivery, ResultDelivery
<1>4. CASE PaymentsNext /\ UNCHANGED checkoutVars
  BY <1>1, <1>2, <1>4, PaymentsDelivery, OthersLeaveResults
     DEF OneConsumerPerMessage, OrderDelivery, ResultDelivery
<1>5. CASE CheckoutNext /\ UNCHANGED paymentsVars
  BY <1>1, <1>2, <1>5, ShopDelivery, ShopLeavesOrders
     DEF OneConsumerPerMessage, OrderDelivery, ResultDelivery
<1>6. CASE UNCHANGED vars
  <2>1. UNCHANGED <<orderQ, resultQ, pc, held, conn, shopPc, shopHeld, shopConn>>
    BY <1>6 DEF vars, brokerVars, paymentsVars, checkoutVars
  <2> QED BY <2>1 DEF OneConsumerPerMessage, OrderAckStep, ResultAckStep
<1> QED BY <1>3, <1>4, <1>5, <1>6 DEF Next

\* A paid or failed order stays as it is: from the refinement.
LEMMA TerminalStays ==
    ASSUME IInv, [Next]_vars, NEW o \in Orders, order[o] \in Terminal
    PROVE  order'[o] = order[o]
<1>1. [Lifecycle!Next]_Lifecycle!vars
  BY NextRefines
<1>2. order \in [Orders -> OrderStatus]
  BY DEF IInv, TypeOK
<1>3. ASSUME NEW q \in Orders, Lifecycle!Place(q) \/ Lifecycle!Open(q)
                               \/ Lifecycle!Decide(q) \/ Lifecycle!Settle(q)
      PROVE  order'[o] = order[o]
  BY <1>2, <1>3 DEF Lifecycle!Place, Lifecycle!Open, Lifecycle!Decide, Lifecycle!Settle,
                    Terminal
<1> QED BY <1>1, <1>3 DEF Lifecycle!Next, Lifecycle!vars

LEMMA DeliveryInvNext == DeliveryInv /\ [Next]_vars => DeliveryInv'
<1> SUFFICES ASSUME DeliveryInv, [Next]_vars PROVE DeliveryInv'
  OBVIOUS
<1>1. IInv /\ OneConsumerPerMessage /\ AckedWorkPublished /\ AckedResultsSettled
  BY DEF DeliveryInv
<1>2. IInv' /\ OrderQStep /\ ResultQStep
  BY <1>1, IInvNext DEF LegalStep
<1>3. OneConsumerPerMessage' /\ OrderAckStep /\ ResultAckStep
  BY <1>1, DeliveryNext
<1>4. UnusedMessagesNameNone'
  BY <1>3 DEF DeliveryInv, UnusedMessagesNameNone, OrderAckStep
<1>5. \A o : PublishedResult(o) => PublishedResult(o)'
  BY <1>2 DEF PublishedResult, ResultQStep
<1>6. AckedWorkPublished'
  <2>1. ASSUME NEW w \in Workers, pc'[w] = "ack"
        PROVE  PublishedResult(OrderOf(w))'
    <3>1. CASE pc[w] = "ack" /\ held'[w] = held[w]
      <4>1. OrderOf(w)' = OrderOf(w)
        BY <1>1, <1>2, <3>1, SameOrder
      <4>2. PublishedResult(OrderOf(w))
        BY <1>1, <3>1 DEF AckedWorkPublished
      <4> QED BY <1>5, <4>1, <4>2 DEF PublishedResult
    <3> QED BY <1>3, <2>1, <3>1 DEF OrderAckStep
  <2>2. ASSUME NEW m \in OrderMsgs, orderQ'[m].at = "acked"
        PROVE  PublishedResult(orderQ[m].order)'
    <3>1. PublishedResult(orderQ[m].order) /\ orderQ[m].at # "free"
      <4>1. CASE orderQ[m].at = "acked"
        BY <1>1, <4>1 DEF AckedWorkPublished
      <4>2. CASE \E w \in Workers : pc[w] = "ack" /\ held[w] = m
        BY <1>1, <4>2, Callback DEF AckedWorkPublished, OrderOf
      <4> QED BY <1>3, <2>2, <4>1, <4>2 DEF OrderAckStep
    <3>2. orderQ'[m].order = orderQ[m].order
      BY <1>2, <3>1 DEF OrderQStep
    <3> QED BY <1>5, <3>1, <3>2 DEF PublishedResult
  <2> QED BY <2>1, <2>2 DEF AckedWorkPublished
<1>7. AckedResultsSettled'
  <2>1. ASSUME NEW r \in ResultMsgs, resultQ[r].at # "free",
               order[resultQ[r].order] \in Terminal
        PROVE  order'[resultQ'[r].order] \in Terminal
    <3>1. resultQ[r].order \in Orders /\ resultQ'[r].order = resultQ[r].order
      BY <1>1, <1>2, <2>1 DEF IInv, MessagesNameOrders, ResultQStep
    <3> QED BY <1>1, <2>1, <3>1, TerminalStays
  <2>2. shopPc = "ack" => /\ shopHeld \in ResultMsgs /\ resultQ[shopHeld].at # "free"
                          /\ order[resultQ[shopHeld].order] \in Terminal
    BY <1>1, Pieces DEF ShopOK, ShopTypes, AckedResultsSettled
  <2>3. shopPc' = "ack" => order'[resultQ'[shopHeld'].order] \in Terminal
    BY <1>3, <2>1, <2>2 DEF ResultAckStep
  <2>4. ASSUME NEW r \in ResultMsgs, resultQ'[r].at = "acked"
        PROVE  order'[resultQ'[r].order] \in Terminal
    BY <1>1, <1>3, <2>1, <2>2, <2>4 DEF ResultAckStep, AckedResultsSettled
  <2> QED BY <2>3, <2>4 DEF AckedResultsSettled
<1> QED BY <1>2, <1>3, <1>4, <1>6, <1>7 DEF DeliveryInv

LEMMA DeliveryInvInit == Init => DeliveryInv
<1> SUFFICES ASSUME Init PROVE DeliveryInv
  OBVIOUS
<1>1. /\ \A m \in OrderMsgs : orderQ[m].at = "free" /\ orderQ[m].order = NoOrder
      /\ \A r \in ResultMsgs : resultQ[r].at = "free"
  BY DEF Init, BrokerInit, NoOrderMessage, NoResultMessage
<1>2. /\ \A w \in Workers : pc[w] = "down" /\ held[w] = NoMsg /\ ~conn[w]
      /\ shopPc = "down" /\ ~shopConn
  BY DEF Init, PaymentsInit, CheckoutInit
<1>3. OneConsumerPerMessage /\ UnusedMessagesNameNone
  BY <1>1, <1>2 DEF OneConsumerPerMessage, UnusedMessagesNameNone
<1>4. AckedWorkPublished /\ AckedResultsSettled
  BY <1>1, <1>2 DEF AckedWorkPublished, AckedResultsSettled
<1> QED BY <1>3, <1>4, IInvInit DEF DeliveryInv

\* Every reachable state satisfies the invariant about deliveries: who holds a
\* message, and what was done before it was acknowledged.
THEOREM DeliveryInvariance == Spec => []DeliveryInv
  BY DeliveryInvInit, DeliveryInvNext, PTL DEF Spec

\* Each message is out at one connected consumer at most, and none is stuck in
\* delivery, through every crash, lost connection and redelivery.
THEOREM OneConsumer == Spec => []OneConsumerPerMessage
<1>1. DeliveryInv => OneConsumerPerMessage
  BY DEF DeliveryInv
<1> QED BY <1>1, DeliveryInvariance, PTL

\* No service drops an order it was handed: an ack follows the work it confirms.
THEOREM NoneDropped == Spec => []NothingDropped
<1>1. DeliveryInv => NothingDropped
  <2> SUFFICES ASSUME DeliveryInv, NEW o \in Orders, Queued(o), order[o] \notin Terminal,
                      \A r \in ResultMsgs : resultQ[r].order = o =>
                        ~Held(resultQ, r) /\ resultQ[r].at # "lost"
               PROVE  \E m \in OrderMsgs : /\ orderQ[m].order = o
                                           /\ Held(orderQ, m) \/ orderQ[m].at = "lost"
    BY DEF NothingDropped
  <2>1. PICK m \in OrderMsgs : orderQ[m].order = o
    BY DEF Queued
  <2>2. orderQ[m].at \in Places /\ orderQ[m].at # "free"
    BY <2>1, BrokerAssumption
       DEF DeliveryInv, IInv, TypeOK, OrderMessage, UnusedMessagesNameNone
  <2>3. ~PublishedResult(o)
    <3>1. ASSUME NEW r \in ResultMsgs, resultQ[r].at # "free", resultQ[r].order = o
          PROVE  FALSE
      <4>1. resultQ[r].at \in Places
        BY DEF DeliveryInv, IInv, TypeOK, ResultMessage
      <4>2. resultQ[r].at = "acked"
        BY <3>1, <4>1 DEF Places, Held
      <4> QED BY <3>1, <4>2 DEF DeliveryInv, AckedResultsSettled
    <3> QED BY <3>1 DEF PublishedResult
  <2>4. orderQ[m].at # "acked"
    BY <2>1, <2>3 DEF DeliveryInv, AckedWorkPublished
  <2> QED BY <2>1, <2>2, <2>4 DEF Places, Held
<1> QED BY <1>1, DeliveryInvariance, PTL

-----------------------------------------------------------------------------
(* One instance of payments-service: ResultsReflectPayments and              *)
(* NoChargeAfterFinal.                                                       *)

SoleInstance == \A w, v \in Workers : w = v

\* A result message is published by an instance or carries what a published one
\* carried before.
ResultContentStep ==
    \A k \in ResultMsgs : resultQ'[k].at # "free" =>
        \/ \E w \in Workers : PublishResult(w, k)
        \/ \E j \in ResultMsgs : /\ resultQ[j].at # "free"
                                 /\ resultQ'[k].order = resultQ[j].order
                                 /\ resultQ'[k].tx = resultQ[j].tx

\* Rows that are final are not written.
FinalRowsStep ==
    \A o \in Orders : payment[o].status \in Final => payment'[o] = payment[o]

LEMMA ContentMoved ==
    ASSUME NEW q \in [ResultMsgs -> ResultMessage], NEW m \in ResultMsgs, NEW p \in Places,
           NEW k \in ResultMsgs
    PROVE  /\ Moved(q, m, p)[k].order = q[k].order /\ Moved(q, m, p)[k].tx = q[k].tx
           /\ Nacked(q, m)[k].order = q[k].order /\ Nacked(q, m)[k].tx = q[k].tx
<1>1. q[m] \in ResultMessage
  OBVIOUS
<1>2. /\ [q[m] EXCEPT !.at = p].order = q[m].order
      /\ [q[m] EXCEPT !.at = p].tx = q[m].tx
      /\ [q[m] EXCEPT !.at = "retry", !.deaths = q[m].deaths + 1].order = q[m].order
      /\ [q[m] EXCEPT !.at = "retry", !.deaths = q[m].deaths + 1].tx = q[m].tx
  BY <1>1 DEF ResultMessage
<1> QED BY <1>2 DEF Moved, Nacked

LEMMA ResultContent ==
    ASSUME IInv, [Next]_vars PROVE ResultContentStep
<1>1. resultQ \in [ResultMsgs -> ResultMessage] /\ ShopOK /\ ShopTypes
  BY Pieces DEF IInv, TypeOK
<1>2. ASSUME NEW r \in ResultMsgs, resultQ[r].at # "free", NEW p \in Places,
             resultQ' = Moved(resultQ, r, p) \/ resultQ' = Nacked(resultQ, r)
      PROVE  ResultContentStep
  <2>1. \A k \in ResultMsgs :
          /\ resultQ'[k].order = resultQ[k].order /\ resultQ'[k].tx = resultQ[k].tx
          /\ k # r => resultQ'[k].at = resultQ[k].at
    BY <1>1, <1>2, ContentMoved, ResultQueueOps
  <2> QED BY <1>2, <2>1 DEF ResultContentStep
<1>3. CASE UNCHANGED resultQ
  BY <1>3 DEF ResultContentStep
<1>4. CASE \E w \in Workers, r \in ResultMsgs : PublishResult(w, r)
  <2>1. PICK w \in Workers, r \in ResultMsgs : PublishResult(w, r)
    BY <1>4
  <2>2. \A k \in ResultMsgs : k # r => resultQ'[k] = resultQ[k]
    BY <1>1, <2>1 DEF PublishResult, SendResult
  <2> QED BY <2>1, <2>2 DEF ResultContentStep
<1>5. CASE \E n \in ResultMsgs : DeadLetterAndRetry(n)
  <2>1. PICK n \in ResultMsgs : DeadLetterAndRetry(n)
    BY <1>5
  <2>2. shopHeld \in ResultMsgs /\ resultQ[shopHeld].at # "free"
    BY <1>1, <2>1 DEF DeadLetterAndRetry, ShopOK, ShopTypes
  <2>3. resultQ' = [Nacked(resultQ, shopHeld) EXCEPT ![n] =
                      [resultQ[shopHeld] EXCEPT !.at = "dlq"]]
    BY <2>1 DEF DeadLetterAndRetry
  <2>4. /\ resultQ'[n].order = resultQ[shopHeld].order
        /\ resultQ'[n].tx = resultQ[shopHeld].tx
    <3>1. resultQ[shopHeld] \in ResultMessage
      BY <1>1, <2>2
    <3>2. resultQ'[n] = [resultQ[shopHeld] EXCEPT !.at = "dlq"]
      BY <1>1, <2>2, <2>3, ResultQueueOps, Literals
    <3> QED BY <3>1, <3>2 DEF ResultMessage
  <2>5. \A k \in ResultMsgs : k # n =>
          /\ resultQ'[k].order = resultQ[k].order /\ resultQ'[k].tx = resultQ[k].tx
          /\ k # shopHeld => resultQ'[k].at = resultQ[k].at
    <3> DEFINE x == [resultQ[shopHeld] EXCEPT !.at = "dlq"]
    <3>1. \A k \in ResultMsgs :
            /\ Nacked(resultQ, shopHeld)[k].order = resultQ[k].order
            /\ Nacked(resultQ, shopHeld)[k].tx = resultQ[k].tx
            /\ k # shopHeld => Nacked(resultQ, shopHeld)[k].at = resultQ[k].at
      BY <1>1, <2>2, ContentMoved, ResultQueueOps, Literals
    <3>2. Nacked(resultQ, shopHeld) \in [ResultMsgs -> ResultMessage]
      BY <1>1, <2>2, ResultQueueOps, Literals
    <3>3. resultQ' = [Nacked(resultQ, shopHeld) EXCEPT ![n] = x]
      BY <2>3
    <3> HIDE DEF x
    <3> QED BY <3>1, <3>2, <3>3
  <2> QED BY <2>2, <2>4, <2>5 DEF ResultContentStep
<1>6. \/ UNCHANGED resultQ
      \/ \E r \in ResultMsgs, p \in Places :
           /\ resultQ[r].at # "free"
           /\ resultQ' = Moved(resultQ, r, p) \/ resultQ' = Nacked(resultQ, r)
      \/ \E w \in Workers, r \in ResultMsgs : PublishResult(w, r)
      \/ \E n \in ResultMsgs : DeadLetterAndRetry(n)
  <2>1. CASE BrokerNext
    BY <2>1, Literals DEF BrokerNext, RetryTimeout, CycleDropped, MainExpiry, DlqExpiry
  <2>2. CASE PaymentsNext
    BY <2>2 DEF PaymentsNext, Start, ChannelClosed, Process, WorkerFailure, Operator,
         StartDeaf, Crash, LoseChannel, DbFailure, DeadLetterThenCrash, Receive,
         FindPayment, InsertPending, Charge, SavePayment, Ack, HandleFailure, Reprocess,
         ReprocessCopy
  <2>3. CASE CheckoutNext
    <3>1. \/ UNCHANGED resultQ
          \/ \E r \in ResultMsgs : ReceiveResult(r)
          \/ AckResult \/ HandleResultFailure
          \/ resultQ' = RequeuedResult
          \/ \E n \in ResultMsgs : DeadLetterAndRetry(n)
      BY <2>3 DEF CheckoutNext, StartShop, ShopChannelClosed, CompleteCheckout, Shop,
           ShopFailure, PublishUnavailable, PublishPaymentOrder, ApplyPaymentResult,
           StartShopDeaf, CrashShop, LoseShopChannel, ApplyDbFailure, brokerVars
    <3>2. shopHeld # NoResult => shopHeld \in ResultMsgs /\ resultQ[shopHeld].at # "free"
      BY <1>1 DEF ShopOK, ShopTypes
    <3>3. shopPc \in {"ack", "fail"} => shopHeld # NoResult
      BY <1>1 DEF ShopOK
    <3> QED BY <3>1, <3>2, <3>3, Literals
            DEF ReceiveResult, AckResult, HandleResultFailure, RequeuedResult
  <2>4. CASE UNCHANGED vars
    BY <2>4 DEF vars, brokerVars
  <2> QED BY <2>1, <2>2, <2>3, <2>4 DEF Next
<1> QED BY <1>2, <1>3, <1>4, <1>5, <1>6

\* With one instance, its callback is the only writer of payments, and a row it
\* saves was still pending when the callback began.
LEMMA FinalRowsStay ==
    ASSUME IInv, EntityIsCurrent, [Next]_vars PROVE FinalRowsStep
<1>1. payment \in [Orders -> PaymentRow]
  BY DEF IInv, TypeOK
<1>2. CASE UNCHANGED payment
  BY <1>2 DEF FinalRowsStep
<1>3. ASSUME NEW w \in Workers, NEW r, payment' = [payment EXCEPT ![OrderOf(w)] = r],
             payment[OrderOf(w)].status \notin Final
      PROVE  FinalRowsStep
  BY <1>1, <1>3 DEF FinalRowsStep
<1>4. \/ UNCHANGED payment
      \/ \E w \in Workers : InsertPending(w) \/ SavePayment(w) \/ DbFailure(w)
  BY DEF Next, PaymentsNext, Start, ChannelClosed, Process, WorkerFailure, Operator,
         StartDeaf, Crash, LoseChannel, DeadLetterThenCrash, Receive, FindPayment,
         Charge, PublishResult, Ack, HandleFailure, Reprocess, ReprocessCopy,
         paymentsVars, vars
<1> QED BY <1>2, <1>3, <1>4 DEF InsertPending, SavePayment, DbFailure, EntityIsCurrent,
                                Final

\* What the callback works on stays current: nobody else writes the row.
LEMMA EntityStaysCurrent ==
    ASSUME SoleInstance, IInv, EntityIsCurrent, [Next]_vars PROVE EntityIsCurrent'
<1> SUFFICES ASSUME NEW w \in Workers
             PROVE  /\ pc'[w] \in {"charge", "save"} =>
                         payment'[OrderOf(w)'].status = "pending"
                    /\ pc'[w] = "publish" => row'[w] = payment'[OrderOf(w)']
  BY DEF EntityIsCurrent
<1>1. /\ payment \in [Orders -> PaymentRow] /\ WorkerTypes /\ WorkerOK(w)
      /\ \A v \in Workers : v = w
      /\ pc[w] \in {"charge", "save"} => payment[OrderOf(w)].status = "pending"
      /\ pc[w] = "publish" => row[w] = payment[OrderOf(w)]
  BY Pieces DEF IInv, TypeOK, SoleInstance, EntityIsCurrent
<1>2. CASE UNCHANGED paymentsVars
  <2>1. pc[w] \notin {"down", "idle"} => OrderOf(w)' = OrderOf(w)
    BY <1>2, IInvNext, SameOrder DEF LegalStep, paymentsVars
  <2> QED BY <1>1, <1>2, <2>1 DEF paymentsVars
<1>3. CASE \/ Start(w) \/ StartDeaf(w) \/ ChannelClosed(w) \/ Crash(w)
           \/ \E m \in OrderMsgs : Receive(w, m)
           \/ Ack(w) \/ HandleFailure(w) \/ DbFailure(w)
           \/ \E r \in ResultMsgs : PublishResult(w, r)
           \/ \E n \in OrderMsgs : DeadLetterThenCrash(w, n)
  <2>1. pc'[w] \in {"down", "idle", "find", "ack", "fail"}
    BY <1>1, <1>3 DEF WorkerTypes, Start, StartDeaf, ChannelClosed, Crash, Receive, Ack,
       HandleFailure, DbFailure, PublishResult, DeadLetterThenCrash, Stopped, Released, Goto
  <2> QED BY <2>1
<1>4. CASE LoseChannel(w)
  <2>1. pc[w] \notin {"down", "idle"} => OrderOf(w)' = OrderOf(w)
    BY <1>4, IInvNext, SameOrder DEF LegalStep, LoseChannel
  <2> QED BY <1>1, <1>4, <2>1 DEF LoseChannel
<1>5. CASE FindPayment(w) \/ InsertPending(w) \/ Charge(w) \/ SavePayment(w)
  <2>1. OrderOf(w) \in Orders /\ OrderOf(w)' = OrderOf(w)
    <3>1. pc[w] \notin {"down", "idle"} /\ UNCHANGED <<orderQ, held>>
      BY <1>5 DEF FindPayment, InsertPending, Charge, SavePayment
    <3> QED BY <3>1, Callback DEF OrderOf
  <2>2. CASE FindPayment(w)
    BY <1>1, <2>1, <2>2 DEF FindPayment, Goto, WorkerTypes, PaymentRow, PaymentStatus, Final
  <2>3. CASE InsertPending(w)
    BY <1>1, <2>1, <2>3, Literals DEF InsertPending, Goto, WorkerTypes
  <2>4. CASE Charge(w)
    BY <1>1, <2>1, <2>4 DEF Charge, Goto, WorkerTypes
  <2>5. CASE SavePayment(w)
    BY <1>1, <2>1, <2>5 DEF SavePayment, Goto, WorkerTypes
  <2> QED BY <1>5, <2>2, <2>3, <2>4, <2>5
<1>6. CASE Operator(w)
  BY <1>2, <1>6 DEF Operator, Reprocess, ReprocessCopy
<1>7. CASE PaymentsNext
  BY <1>1, <1>3, <1>4, <1>5, <1>6, <1>7 DEF PaymentsNext, Process, WorkerFailure
<1> QED BY <1>2, <1>7 DEF Next, vars

LEMMA SoleInvNext ==
    ASSUME SoleInstance PROVE SoleInstanceInv /\ [Next]_vars => SoleInstanceInv'
<1> SUFFICES ASSUME SoleInstanceInv, [Next]_vars PROVE SoleInstanceInv'
  OBVIOUS
<1>1. IInv /\ EntityIsCurrent /\ ResultsReflectPayments
  BY DEF SoleInstanceInv
<1>2. IInv' /\ EntityIsCurrent'
  BY <1>1, IInvNext, EntityStaysCurrent
<1>3. ResultContentStep /\ FinalRowsStep
  BY <1>1, ResultContent, FinalRowsStay
<1>4. ASSUME NEW k \in ResultMsgs, NEW w \in Workers, PublishResult(w, k)
      PROVE  resultQ'[k].tx = payment'[resultQ'[k].order].tx
  <2>1. resultQ'[k] = [at |-> Routed(ResultQueue), deaths |-> 0, order |-> OrderOf(w),
                       status |-> row[w].status, tx |-> row[w].tx, fits |-> TRUE]
    BY <1>1, <1>4 DEF PublishResult, SendResult, IInv, TypeOK
  <2>2. resultQ'[k].order = OrderOf(w) /\ resultQ'[k].tx = row[w].tx
    BY <2>1
  <2>3. row[w] = payment[OrderOf(w)] /\ UNCHANGED payment
    BY <1>1, <1>4 DEF EntityIsCurrent, PublishResult
  <2> QED BY <2>2, <2>3
<1>5. ASSUME NEW k \in ResultMsgs, NEW j \in ResultMsgs, resultQ[j].at # "free",
             resultQ'[k].order = resultQ[j].order, resultQ'[k].tx = resultQ[j].tx
      PROVE  resultQ'[k].tx = payment'[resultQ'[k].order].tx
  <2>1. resultQ[j].order \in Orders /\ resultQ[j].status \in Final
        /\ payment[resultQ[j].order].status = resultQ[j].status
    BY <1>1, <1>5 DEF IInv, MessagesNameOrders, ResultsArePersisted
  <2>2. payment'[resultQ[j].order] = payment[resultQ[j].order]
    BY <1>3, <2>1 DEF FinalRowsStep
  <2> QED BY <1>1, <1>5, <2>2 DEF ResultsReflectPayments
<1>6. ResultsReflectPayments'
  BY <1>3, <1>4, <1>5 DEF ResultsReflectPayments, ResultContentStep
<1> QED BY <1>2, <1>6 DEF SoleInstanceInv

LEMMA SoleInvInit == Init => SoleInstanceInv
<1> SUFFICES ASSUME Init PROVE SoleInstanceInv
  OBVIOUS
<1>1. \A r \in ResultMsgs : resultQ[r].at = "free"
  BY DEF Init, BrokerInit, NoResultMessage
<1>2. \A w \in Workers : pc[w] = "down"
  BY DEF Init, PaymentsInit
<1> QED BY <1>1, <1>2, IInvInit DEF SoleInstanceInv, EntityIsCurrent, ResultsReflectPayments

\* Only the step charge calls the gateway.
LEMMA ChargesArePending ==
    ASSUME IInv, EntityIsCurrent, [Next]_vars, NEW o \in Orders, payment[o].status \in Final
    PROVE  calls'[o] = calls[o]
<1>1. \/ UNCHANGED calls
      \/ \E w \in Workers : Charge(w)
  BY DEF Next, PaymentsNext, Start, ChannelClosed, Process, WorkerFailure, Operator,
         StartDeaf, Crash, LoseChannel, DeadLetterThenCrash, Receive, FindPayment,
         InsertPending, SavePayment, DbFailure, PublishResult, Ack, HandleFailure,
         Reprocess, ReprocessCopy, paymentsVars, vars
<1>2. ASSUME NEW w \in Workers, Charge(w) PROVE calls'[o] = calls[o]
  <2>1. OrderOf(w) # o
    BY <1>2 DEF Charge, EntityIsCurrent, Final
  <2> QED BY <1>2, <2>1 DEF Charge, IInv, TypeOK
<1> QED BY <1>1, <1>2

\* With one instance of payments-service every published result carries the
\* transactionId of the persisted record.
THEOREM ResultsAreTheRecord ==
    ASSUME SoleInstance PROVE Spec => []ResultsReflectPayments
<1>1. SoleInstanceInv => ResultsReflectPayments
  BY DEF SoleInstanceInv
<1>2. SoleInstanceInv /\ [Next]_vars => SoleInstanceInv'
  BY SoleInvNext
<1> QED BY <1>1, <1>2, SoleInvInit, PTL DEF Spec

\* With one instance of payments-service no final payment is charged again.
THEOREM ChargedWhileOpen ==
    ASSUME SoleInstance PROVE Spec => NoChargeAfterFinal
<1>1. SoleInstanceInv /\ [Next]_vars =>
        [\A o \in Orders : payment[o].status \in Final => calls'[o] = calls[o]]_vars
  BY ChargesArePending DEF SoleInstanceInv
<1>2. SoleInstanceInv /\ [Next]_vars => SoleInstanceInv'
  BY SoleInvNext
<1> QED BY <1>1, <1>2, SoleInvInit, PTL DEF Spec, NoChargeAfterFinal

=============================================================================
