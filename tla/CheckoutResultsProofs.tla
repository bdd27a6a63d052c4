------------------------ MODULE CheckoutResultsProofs ------------------------
(***************************************************************************)
(* Proofs about CheckoutResults: whatever results arrive, for any number   *)
(* of orders, messages, retries and faults.                                *)
(***************************************************************************)
EXTENDS CheckoutResults, TLAPS

\* NoResult is not a message, and the places the handlers use are places.
LEMMA Names ==
    /\ NoResult \notin ResultMsgs
    /\ NoResultMessage \in ResultMessage
    /\ {"main", "unacked", "retry", "expired", "dlq", "acked", "lost"} \subseteq Places
  BY BrokerAssumption, CheckoutAssumption
     DEF ResultMsgs, NoResultMessage, ResultMessage, Places

\* What a result says: moving and rejecting it never changes that.
Content(m) == <<m.order, m.status, m.fits>>

LEMMA QueueOps ==
    ASSUME NEW q \in [ResultMsgs -> ResultMessage], NEW m \in ResultMsgs,
           NEW p \in Places
    PROVE  /\ Moved(q, m, p) \in [ResultMsgs -> ResultMessage]
           /\ Nacked(q, m) \in [ResultMsgs -> ResultMessage]
           /\ Moved(q, m, p)[m].at = p /\ Content(Moved(q, m, p)[m]) = Content(q[m])
           /\ Nacked(q, m)[m].at = "retry" /\ Content(Nacked(q, m)[m]) = Content(q[m])
           /\ \A k \in ResultMsgs \ {m} :
                Moved(q, m, p)[k] = q[k] /\ Nacked(q, m)[k] = q[k]
<1>1. q[m] \in ResultMessage
  OBVIOUS
<1>2. /\ [q[m] EXCEPT !.at = p] \in ResultMessage
      /\ [q[m] EXCEPT !.at = p].at = p
      /\ Content([q[m] EXCEPT !.at = p]) = Content(q[m])
  BY <1>1 DEF ResultMessage, Content
<1>3. /\ [q[m] EXCEPT !.at = "retry", !.deaths = q[m].deaths + 1] \in ResultMessage
      /\ [q[m] EXCEPT !.at = "retry", !.deaths = q[m].deaths + 1].at = "retry"
      /\ Content([q[m] EXCEPT !.at = "retry", !.deaths = q[m].deaths + 1]) = Content(q[m])
  <2>1. q[m].deaths + 1 \in Nat /\ "retry" \in Places
    BY <1>1 DEF ResultMessage, Places
  <2> QED BY <1>1, <2>1 DEF ResultMessage, Content
<1> QED BY <1>2, <1>3 DEF Moved, Nacked

-----------------------------------------------------------------------------
(* What a step does to the results and to the orders.                        *)

\* A result is published once and keeps its content; it is acked only by a
\* callback at step ack that holds it.
ResultStep ==
    /\ resultQ' \in [ResultMsgs -> ResultMessage]
    /\ \A k \in ResultMsgs : resultQ[k].at # "free" =>
          resultQ'[k].at # "free" /\ Content(resultQ'[k]) = Content(resultQ[k])
    /\ \A k \in ResultMsgs : resultQ[k].at = "free" /\ resultQ'[k].at # "free" =>
          resultQ'[k].order \in Orders /\ resultQ'[k].status # "none"
    /\ \A k \in ResultMsgs : resultQ'[k].at = "acked" =>
          resultQ[k].at = "acked" \/ (shopPc = "ack" /\ shopHeld = k)

\* Paid and failed are final.
OrderStep ==
    /\ order' \in [Orders -> OrderStatus]
    /\ \A o \in Orders : order[o] \in Terminal => order'[o] = order[o]

\* Where the callback goes, and that it comes to ack only with the order settled.
ShopStep ==
    /\ shopPc' \in ShopSteps /\ shopHeld' \in ResultMsgs \cup {NoResult}
    /\ shopConn' \in BOOLEAN /\ request' \in [Orders -> RequestStates]
    /\ CallbackHoldsResult'
    /\ AckIsDue'

LEMMA Assemble ==
    ASSUME ResultsInv, ResultStep, OrderStep, ShopStep
    PROVE  ResultsInv' /\ OrderStep
<1>1. TypeOK'
  BY DEF ResultStep, OrderStep, ShopStep, TypeOK
<1>2. ResultsNameOrders'
  <2>1. ASSUME NEW r \in ResultMsgs, resultQ'[r].at # "free"
        PROVE  resultQ'[r].order \in Orders /\ resultQ'[r].status # "none"
    BY <2>1 DEF ResultsInv, ResultsNameOrders, ResultStep, Content
  <2> QED BY <2>1 DEF ResultsNameOrders
<1>3. AckedResultsApplied'
  <2>1. ASSUME NEW r \in ResultMsgs, resultQ'[r].at = "acked"
        PROVE  resultQ'[r].fits /\ order'[resultQ'[r].order] = ExpectedStatus(resultQ'[r].status)
    <3>1. /\ resultQ[r].at # "free" /\ resultQ[r].fits
          /\ order[resultQ[r].order] = ExpectedStatus(resultQ[r].status)
      BY <2>1, Names DEF ResultStep, ResultsInv, AckIsDue, AckedResultsApplied,
                         CallbackHoldsResult
    <3>2. resultQ[r].order \in Orders
      BY <3>1 DEF ResultsInv, ResultsNameOrders
    <3>3. /\ resultQ'[r].fits = resultQ[r].fits /\ resultQ'[r].order = resultQ[r].order
          /\ resultQ'[r].status = resultQ[r].status
      BY <3>1 DEF ResultStep, Content
    <3>4. order'[resultQ[r].order] = order[resultQ[r].order]
      BY <3>1, <3>2 DEF OrderStep, ExpectedStatus, Terminal
    <3> QED BY <3>1, <3>3, <3>4
  <2> QED BY <2>1 DEF AckedResultsApplied
<1> QED BY <1>1, <1>2, <1>3 DEF ShopStep, ResultsInv

\* A callback that does not move keeps its result and its due.
LEMMA ShopFrame ==
    ASSUME ResultsInv, ResultStep, OrderStep, UNCHANGED <<shopPc, shopHeld>>,
           shopConn' \in BOOLEAN, request' \in [Orders -> RequestStates]
    PROVE  ShopStep
<1>1. CallbackHoldsResult'
  BY DEF ResultsInv, TypeOK, CallbackHoldsResult, ResultStep
<1>2. ASSUME shopPc = "ack" PROVE AckIsDue'
  <2>1. /\ shopHeld \in ResultMsgs /\ resultQ[shopHeld].at # "free"
        /\ resultQ[shopHeld].fits
        /\ order[resultQ[shopHeld].order] = ExpectedStatus(resultQ[shopHeld].status)
    BY <1>2 DEF ResultsInv, TypeOK, CallbackHoldsResult, AckIsDue
  <2>2. resultQ[shopHeld].order \in Orders
    BY <2>1 DEF ResultsInv, ResultsNameOrders
  <2>3. order'[resultQ[shopHeld].order] = order[resultQ[shopHeld].order]
    BY <2>1, <2>2 DEF OrderStep, ExpectedStatus, Terminal
  <2>4. Content(resultQ'[shopHeld]) = Content(resultQ[shopHeld])
    BY <2>1 DEF ResultStep
  <2> QED BY <2>1, <2>3, <2>4 DEF AckIsDue, Content
<1> QED BY <1>1, <1>2 DEF ShopStep, ResultsInv, TypeOK, AckIsDue

\* A callback that ends or stops holds nothing.
LEMMA ShopRests ==
    ASSUME ResultsInv, shopPc' \in {"down", "idle"}, shopHeld' = NoResult,
           shopConn' \in BOOLEAN, request' \in [Orders -> RequestStates]
    PROVE  ShopStep
  BY DEF ShopStep, CallbackHoldsResult, AckIsDue, ShopSteps

LEMMA Still ==
    ASSUME ResultsInv
    PROVE  /\ UNCHANGED resultQ => ResultStep
           /\ UNCHANGED order => OrderStep
  BY DEF ResultsInv, TypeOK, ResultStep, OrderStep, Content

\* Moving a published result anywhere but to acked, or acking the one in hand.
LEMMA MoveResult ==
    ASSUME ResultsInv, NEW m \in ResultMsgs, resultQ[m].at # "free", NEW p \in Places \ {"free"},
           p = "acked" => shopPc = "ack" /\ shopHeld = m,
           resultQ' = Moved(resultQ, m, p) \/ resultQ' = Nacked(resultQ, m)
    PROVE  ResultStep
<1>1. /\ resultQ' \in [ResultMsgs -> ResultMessage]
      /\ resultQ'[m].at \in {p, "retry"} /\ Content(resultQ'[m]) = Content(resultQ[m])
      /\ \A k \in ResultMsgs \ {m} : resultQ'[k] = resultQ[k]
  BY QueueOps DEF ResultsInv, TypeOK
<1> QED BY <1>1 DEF ResultStep

\* Placing a new result.
LEMMA PlaceResult ==
    ASSUME ResultsInv, NEW q \in [ResultMsgs -> ResultMessage], NEW r \in ResultMsgs,
           resultQ[r].at = "free", NEW x \in ResultMessage,
           x.at \notin {"free", "acked"}, x.order \in Orders, x.status # "none",
           resultQ' = [q EXCEPT ![r] = x],
           \A k \in ResultMsgs \ {r} :
             /\ q[k].at = resultQ[k].at \/ (resultQ[k].at # "free" /\ q[k].at = "retry")
             /\ Content(q[k]) = Content(resultQ[k])
    PROVE  ResultStep
<1>1. /\ resultQ' \in [ResultMsgs -> ResultMessage] /\ resultQ'[r] = x
      /\ \A k \in ResultMsgs \ {r} : resultQ'[k] = q[k]
  OBVIOUS
<1> QED BY <1>1 DEF ResultStep

-----------------------------------------------------------------------------
(* The steps. *)

LEMMA BrokerPreserves ==
    ASSUME ResultsInv, BrokerNext, UNCHANGED checkoutVars
    PROVE  ResultsInv' /\ OrderStep
<1>1. ResultStep
  <2>1. \/ UNCHANGED resultQ
        \/ \E r \in ResultMsgs, p \in {"main", "lost", "expired"} :
             resultQ[r].at # "free" /\ resultQ' = Moved(resultQ, r, p)
    BY DEF BrokerNext, RetryTimeout, CycleDropped, MainExpiry, DlqExpiry
  <2> QED BY <2>1, Still, MoveResult, Names
<1>2. OrderStep
  BY Still DEF checkoutVars
<1>3. ShopStep
  BY <1>1, <1>2, ShopFrame DEF checkoutVars, ResultsInv, TypeOK
<1> QED BY <1>1, <1>2, <1>3, Assemble

LEMMA ProducerPreserves ==
    ASSUME ResultsInv, NEW o \in Orders, NEW status \in {"approved", "rejected"},
           NEW fits \in BOOLEAN, PublishAnyResult(o, status, fits)
    PROVE  ResultsInv' /\ OrderStep
<1> DEFINE x == [at |-> Routed(ResultQueue), deaths |-> 0, order |-> o,
                 status |-> status, tx |-> 0, fits |-> fits]
<1>1. PICK r \in ResultMsgs : resultQ[r].at = "free" /\ resultQ' = [resultQ EXCEPT ![r] = x]
  BY DEF PublishAnyResult, IsNext
<1>2. /\ x \in ResultMessage /\ x.at \notin {"free", "acked"} /\ x.order \in Orders
      /\ x.status # "none"
  BY Names DEF Routed, ResultMessage
<1>3. ResultStep
  <2> HIDE DEF x
  <2> QED BY <1>1, <1>2, PlaceResult DEF ResultsInv, TypeOK
<1>4. OrderStep
  BY Still DEF PublishAnyResult, checkoutVars
<1>5. ShopStep
  BY <1>3, <1>4, ShopFrame DEF PublishAnyResult, checkoutVars, ResultsInv, TypeOK
<1> QED BY <1>3, <1>4, <1>5, Assemble

\* The process starts, stops, loses its connection, or its callback ends.
LEMMA ProcessPreserves ==
    ASSUME ResultsInv,
           \/ StartShop \/ StartShopDeaf \/ CrashShop \/ ShopChannelClosed
           \/ LoseShopChannel \/ AckResult \/ HandleResultFailure
    PROVE  ResultsInv' /\ OrderStep
<1>1. /\ shopPc \in {"ack", "fail", "apply"} \/ shopHeld # NoResult =>
           shopHeld \in ResultMsgs /\ resultQ[shopHeld].at # "free"
      /\ shopPc \in {"down", "idle"} => shopHeld = NoResult
      /\ request \in [Orders -> RequestStates] /\ shopConn \in BOOLEAN
  BY DEF ResultsInv, TypeOK, CallbackHoldsResult
<1>2. ResultStep
  <2>1. CASE CrashShop \/ LoseShopChannel
    <3>1. resultQ' = RequeuedResult
      BY <2>1 DEF CrashShop, LoseShopChannel
    <3> QED BY <1>1, <3>1, Still, MoveResult, Names DEF RequeuedResult
  <2>2. CASE AckResult \/ HandleResultFailure
    BY <1>1, <2>2, MoveResult, Names DEF AckResult, HandleResultFailure
  <2>3. CASE StartShop \/ StartShopDeaf \/ ShopChannelClosed
    BY <2>3, Still DEF StartShop, StartShopDeaf, ShopChannelClosed
  <2> QED BY <2>1, <2>2, <2>3
<1>3. OrderStep
  BY Still DEF StartShop, StartShopDeaf, CrashShop, ShopChannelClosed, LoseShopChannel,
               AckResult, HandleResultFailure, ShopReleased
<1>4. request' \in [Orders -> RequestStates] /\ shopConn' \in BOOLEAN
  BY <1>1 DEF StartShop, StartShopDeaf, CrashShop, ShopChannelClosed, LoseShopChannel,
              AckResult, HandleResultFailure, ShopReleased, ShopStopped, RequestStates
<1>5. ShopStep
  <2>1. CASE LoseShopChannel
    BY <1>2, <1>3, <1>4, <2>1, ShopFrame DEF LoseShopChannel
  <2>2. CASE ~LoseShopChannel
    <3>1. shopPc' \in {"down", "idle"} /\ shopHeld' = NoResult
      BY <1>1, <2>2 DEF StartShop, StartShopDeaf, CrashShop, ShopChannelClosed,
                        AckResult, HandleResultFailure, ShopReleased, ShopStopped
    <3> QED BY <1>4, <3>1, ShopRests
  <2> QED BY <2>1, <2>2
<1> QED BY <1>2, <1>3, <1>5, Assemble

\* The requests leave results and the callback alone.
LEMMA RequestPreserves ==
    ASSUME ResultsInv, NEW o \in Orders,
           \/ CompleteCheckout(o) \/ PublishUnavailable(o)
           \/ \E m \in OrderMsgs : PublishPaymentOrder(o, m)
    PROVE  ResultsInv' /\ OrderStep
<1> USE DEF CompleteCheckout, PublishUnavailable, PublishPaymentOrder
<1>1. UNCHANGED <<resultQ, shopPc, shopHeld, shopConn>>
  BY DEF brokerVars
<1>2. ResultStep
  BY <1>1, Still
<1>3. OrderStep
  BY DEF OrderStep, ResultsInv, TypeOK, OrderStatus, Terminal
<1>4. request' \in [Orders -> RequestStates] /\ shopConn' \in BOOLEAN
  BY <1>1 DEF ResultsInv, TypeOK, RequestStates
<1> QED BY <1>1, <1>2, <1>3, <1>4, ShopFrame, Assemble

LEMMA ReceivePreserves ==
    ASSUME ResultsInv, NEW r \in ResultMsgs, ReceiveResult(r)
    PROVE  ResultsInv' /\ OrderStep
<1> USE DEF ReceiveResult
<1>1. ResultStep /\ OrderStep
  BY MoveResult, Still, Names
<1>2. ShopStep
  BY <1>1, Names DEF ShopStep, ResultStep, CallbackHoldsResult, AckIsDue, ShopSteps,
                     ResultsInv, TypeOK
<1> QED BY <1>1, <1>2, Assemble

\* applyPaymentResult: it comes to ack only after the order took the status, or
\* had it already.
LEMMA ApplyPreserves ==
    ASSUME ResultsInv, ApplyPaymentResult \/ ApplyDbFailure
    PROVE  ResultsInv' /\ OrderStep
<1> DEFINE o == resultQ[shopHeld].order
           expected == ExpectedStatus(resultQ[shopHeld].status)
<1>1. /\ shopHeld \in ResultMsgs /\ resultQ[shopHeld].at # "free"
      /\ UNCHANGED <<resultQ, shopHeld, shopConn, request>> /\ shopPc' \in {"ack", "fail"}
  BY DEF ResultsInv, TypeOK, CallbackHoldsResult, ApplyPaymentResult, ApplyDbFailure,
         brokerVars
<1>2. o \in Orders /\ expected \in Terminal
  BY <1>1 DEF ResultsInv, ResultsNameOrders, ExpectedStatus, Terminal
<1>3. \/ UNCHANGED order
      \/ order[o] \in {"pending", expected} /\ order' = [order EXCEPT ![o] = expected]
  BY DEF ApplyPaymentResult, ApplyDbFailure
<1>4. shopPc' = "ack" =>
        resultQ[shopHeld].fits /\ order' = [order EXCEPT ![o] = expected]
  BY DEF ApplyPaymentResult, ApplyDbFailure, Matches
<1> HIDE DEF expected, o
<1>5. OrderStep
  BY <1>2, <1>3 DEF OrderStep, ResultsInv, TypeOK, OrderStatus, Terminal
<1>6. ResultStep
  BY <1>1, Still
<1>7. ShopStep
  <2>1. AckIsDue'
    BY <1>1, <1>2, <1>4 DEF AckIsDue, ResultsInv, TypeOK, o, expected
  <2>2. CallbackHoldsResult'
    BY <1>1, Names DEF CallbackHoldsResult
  <2> QED BY <1>1, <2>1, <2>2 DEF ShopStep, ShopSteps, ResultsInv, TypeOK
<1> QED BY <1>5, <1>6, <1>7, Assemble

LEMMA DeadLetterAndRetryPreserves ==
    ASSUME ResultsInv, NEW n \in ResultMsgs, DeadLetterAndRetry(n)
    PROVE  ResultsInv' /\ OrderStep
<1> DEFINE x == [resultQ[shopHeld] EXCEPT !.at = "dlq"]
<1>1. /\ shopHeld \in ResultMsgs /\ resultQ[shopHeld].at # "free"
      /\ resultQ[n].at = "free" /\ shopHeld # n
      /\ resultQ' = [Nacked(resultQ, shopHeld) EXCEPT ![n] = x]
      /\ ShopReleased
  BY DEF ResultsInv, TypeOK, CallbackHoldsResult, DeadLetterAndRetry, IsNext
<1>2. x \in ResultMessage /\ x.at = "dlq" /\ Content(x) = Content(resultQ[shopHeld])
  <2>1. resultQ[shopHeld] \in ResultMessage
    BY <1>1 DEF ResultsInv, TypeOK
  <2> QED BY <2>1, Names DEF ResultMessage, Content
<1>3. x.order \in Orders /\ x.status # "none"
  BY <1>1, <1>2 DEF ResultsInv, ResultsNameOrders, Content
<1>4. ResultStep
  <2> HIDE DEF x
  <2>1. /\ Nacked(resultQ, shopHeld) \in [ResultMsgs -> ResultMessage]
        /\ \A k \in ResultMsgs :
             /\ \/ Nacked(resultQ, shopHeld)[k].at = resultQ[k].at
                \/ resultQ[k].at # "free" /\ Nacked(resultQ, shopHeld)[k].at = "retry"
             /\ Content(Nacked(resultQ, shopHeld)[k]) = Content(resultQ[k])
    <3>1. resultQ \in [ResultMsgs -> ResultMessage] /\ "retry" \in Places
      BY Names DEF ResultsInv, TypeOK
    <3>2. /\ Nacked(resultQ, shopHeld) \in [ResultMsgs -> ResultMessage]
          /\ Nacked(resultQ, shopHeld)[shopHeld].at = "retry"
          /\ Content(Nacked(resultQ, shopHeld)[shopHeld]) = Content(resultQ[shopHeld])
          /\ \A k \in ResultMsgs \ {shopHeld} : Nacked(resultQ, shopHeld)[k] = resultQ[k]
      BY <1>1, <3>1, QueueOps
    <3> QED BY <1>1, <3>2
  <2> QED BY <1>1, <1>2, <1>3, <2>1, PlaceResult
<1>5. OrderStep /\ ShopStep
  BY <1>1, Still, ShopRests DEF ShopReleased, ResultsInv, TypeOK
<1> QED BY <1>4, <1>5, Assemble

LEMMA ResultsInvNext == ResultsInv /\ [Next]_vars => ResultsInv' /\ OrderStep
<1> SUFFICES ASSUME ResultsInv, [Next]_vars PROVE ResultsInv' /\ OrderStep
  OBVIOUS
<1>1. CASE CheckoutNext
  BY <1>1, ProcessPreserves, RequestPreserves, ReceivePreserves, ApplyPreserves,
     DeadLetterAndRetryPreserves DEF CheckoutNext, Shop, ShopFailure
<1>2. CASE \E o \in Orders, status \in {"approved", "rejected"}, fits \in BOOLEAN :
             PublishAnyResult(o, status, fits)
  BY <1>2, ProducerPreserves
<1>3. CASE BrokerNext /\ UNCHANGED checkoutVars
  BY <1>3, BrokerPreserves
<1>4. CASE UNCHANGED vars
  <2>1. UNCHANGED <<resultQ, order, request, shopPc, shopHeld, shopConn>>
    BY <1>4 DEF vars, brokerVars, checkoutVars
  <2>2. ResultStep /\ OrderStep
    BY <2>1, Still
  <2>3. ShopStep
    BY <2>1, <2>2, ShopFrame DEF ResultsInv, TypeOK
  <2> QED BY <2>2, <2>3, Assemble
<1> QED BY <1>1, <1>2, <1>3, <1>4 DEF Next

LEMMA ResultsInvInit == Init => ResultsInv
<1> SUFFICES ASSUME Init PROVE ResultsInv
  OBVIOUS
<1>1. \A r \in ResultMsgs : resultQ[r].at = "free"
  BY DEF Init, BrokerInit, NoResultMessage
<1>2. TypeOK
  BY Names DEF Init, BrokerInit, CheckoutInit, TypeOK, OrderStatus, RequestStates, ShopSteps
<1> QED BY <1>1, <1>2 DEF Init, CheckoutInit, ResultsInv, ResultsNameOrders,
                          CallbackHoldsResult, AckIsDue, AckedResultsApplied

-----------------------------------------------------------------------------

\* Every reachable state satisfies the inductive invariant.
THEOREM ResultsInvariance == Spec => []ResultsInv
<1>1. ResultsInv /\ [Next]_vars => ResultsInv'
  BY ResultsInvNext
<1> QED BY <1>1, ResultsInvInit, PTL DEF Spec

\* Rows, results and the consumer's steps keep their types.
THEOREM ResultTypes == Spec => []TypeOK
<1>1. ResultsInv => TypeOK
  BY DEF ResultsInv
<1> QED BY <1>1, ResultsInvariance, PTL

\* A result is acknowledged only when its order has the status, amount, user and
\* method it names, whatever else arrived before and after it.
THEOREM AckedAreApplied == Spec => []AckedResultsApplied
<1>1. ResultsInv => AckedResultsApplied
  BY DEF ResultsInv
<1> QED BY <1>1, ResultsInvariance, PTL

\* No result, redelivery, retry or crash moves an order out of paid or failed.
THEOREM TerminalIsFinal == Spec => TerminalOrdersStay
<1>1. ResultsInv /\ [Next]_vars =>
        [\A o \in Orders : order[o] \in Terminal => order'[o] = order[o]]_vars
  BY ResultsInvNext DEF OrderStep
<1> QED BY <1>1, ResultsInvariance, PTL DEF Spec, TerminalOrdersStay

=============================================================================
