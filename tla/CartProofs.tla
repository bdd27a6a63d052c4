------------------------------ MODULE CartProofs ------------------------------
(***************************************************************************)
(* Proofs about Cart for any number of requests, products and attempts:    *)
(* the inductive invariant CartInv, frozen completed carts, when an        *)
(* addition gives up, and the refinement of ShoppingCart.                  *)
(***************************************************************************)
EXTENDS Cart, FiniteSetTheorems, TLAPS

-----------------------------------------------------------------------------
(* Facts about one request. *)

\* The items with one more addition are items, and a quantity more of one product.
LEMMA WithItemFacts ==
    ASSUME NEW r \in Requests, NEW items \in [Products -> Item],
           op[r] \in AddOp
    PROVE  /\ WithItem(r, items) \in [Products -> Item]
           /\ op[r].product \in Products
           /\ op[r].quantity \in Quantities
           /\ QuantitiesOf(WithItem(r, items)) =
                [QuantitiesOf(items) EXCEPT ![op[r].product] =
                    QuantitiesOf(items)[op[r].product] + op[r].quantity]
<1>1. op[r].product \in Products /\ op[r].quantity \in Quantities
  BY DEF AddOp
<1>2. op[r].quantity \in Nat
  BY <1>1, CartAssumption
<1>3. WithItem(r, items) \in [Products -> Item]
  BY <1>1, <1>2 DEF WithItem, Item
<1>4. QuantitiesOf(WithItem(r, items)) =
        [QuantitiesOf(items) EXCEPT ![op[r].product] =
            QuantitiesOf(items)[op[r].product] + op[r].quantity]
  BY <1>1 DEF QuantitiesOf, WithItem
<1> QED BY <1>1, <1>3, <1>4

LEMMA NoItemsType == NoItems \in [Products -> Item] /\ NoCartRow \in CartRow
  BY DEF NoItems, NoCartRow, CartRow, Item

\* A kind names the operation.
LEMMA KindIsAdd ==
    ASSUME TypeOK, NEW r \in Requests, op[r].kind = "add"
    PROVE  op[r] \in AddOp
  BY DEF TypeOK, AddOp, RemoveOp, CheckoutOp, NoOp

\* The carts and the orders in a state are as the invariant wants them.
CartsOK ==
    /\ cart \in [Requests -> CartRow]
    /\ \A c \in Requests : cart[c].total <= MaxCents
    /\ TotalsAgree
    /\ OneActiveCart

-----------------------------------------------------------------------------
(* CartInv is inductive. *)

\* No order, no cart and no lock holder exists at first.
LEMMA CartInvInit == Init => CartInv
<1> SUFFICES ASSUME Init PROVE CartInv
  OBVIOUS
<1> USE DEF Init
<1>1. NoOrderRow \in OrderRow
  BY NoItemsType DEF NoOrderRow, OrderRow
<1>2. TypeOK
  BY <1>1, NoItemsType, CartAssumption
     DEF TypeOK, CartSteps, Answers, NoCartRow
<1>3. TotalsAgree /\ OneActiveCart
  BY DEF TotalsAgree, OneActiveCart, Active, NoCartRow
<1>4. OrdersMatchCarts
  BY DEF OrdersMatchCarts, NoCartRow, NoOrderRow
<1>5. LockHolders /\ EffectsAreLast
  BY DEF LockHolders, EffectsAreLast, NoCartRow
<1> QED BY <1>2, <1>3, <1>4, <1>5 DEF CartInv

\* The steps that leave carts and orders alone and do not take the lock.
LEMMA QuietStep ==
    ASSUME CartInv, NEW r \in Requests,
           UNCHANGED <<cart, orders, view>>,
           pc[r] # "done",
           op' \in [Requests -> AddOp \cup RemoveOp \cup {CheckoutOp, NoOp}],
           attempt' \in [Requests -> 1 .. MaxAttempts],
           seen' \in [Requests -> Requests \cup {NoCart}],
           \A s \in Requests \ {r} : seen'[s] = seen[s] /\ op'[s] = op[s],
           NEW step \in CartSteps \ {"write"},
           pc' = [pc EXCEPT ![r] = step],
           step = "create" => op'[r].kind = "add",
           \/ answer' = answer
           \/ /\ step = "done"
              /\ \E a \in Answers : answer' = [answer EXCEPT ![r] = a]
    PROVE  CartInv'
<1> USE DEF CartInv
<1>1. TypeOK'
  BY DEF TypeOK
<1>2. TotalsAgree' /\ OneActiveCart' /\ OrdersMatchCarts'
  BY DEF TotalsAgree, OneActiveCart, OrdersMatchCarts, Active
<1>3. LockHolders'
  BY DEF LockHolders, TypeOK, Active
<1>4. EffectsAreLast'
  BY DEF EffectsAreLast, TypeOK
<1> QED BY <1>1, <1>2, <1>3, <1>4

\* The steps that end request r with a change of the carts.
LEMMA LastStep ==
    ASSUME CartInv, NEW r \in Requests,
           pc[r] # "done",
           CartsOK',
           OrdersMatchCarts',
           orders' \in [Requests -> OrderRow],
           \A s \in Requests \ {r} : orders'[s] = orders[s],
           \A s \in Requests : pc[s] # "done" /\ s # r => cart'[s] = cart[s],
           \A s \in Requests \ {r} : pc[s] # "write",
           UNCHANGED <<op, attempt, seen, view>>,
           Answer(r, "ok")
    PROVE  CartInv'
<1> USE DEF CartInv
<1>1. pc' = [pc EXCEPT ![r] = "done"] /\ answer' = [answer EXCEPT ![r] = "ok"]
  BY DEF Answer, Goto
<1>2. TypeOK'
  BY <1>1 DEF TypeOK, CartsOK, CartSteps, Answers
<1>3. LockHolders'
  BY <1>1 DEF LockHolders, TypeOK
<1>4. EffectsAreLast'
  BY <1>1 DEF EffectsAreLast, TypeOK
<1> QED BY <1>2, <1>3, <1>4 DEF CartsOK

\* Saving items in the cart that r has locked keeps the carts in order.
LEMMA SavedKeepsCarts ==
    ASSUME CartInv, NEW r \in Requests, pc[r] = "write",
           NEW items \in [Products -> Item], Saved(r, items),
           UNCHANGED orders
    PROVE  /\ CartsOK' /\ OrdersMatchCarts'
           /\ \A s \in Requests : pc[s] # "done" => cart'[s] = cart[s]
<1> DEFINE c == seen[r]
<1> USE DEF CartInv
<1>1. c \in Requests /\ Active(c) /\ cart[c] \in CartRow
  BY DEF LockHolders, TypeOK
<1>2. /\ cart' = [cart EXCEPT ![c] = [cart[c] EXCEPT !.items = items,
                                                     !.total = Total(items)]]
      /\ Total(items) \in 0 .. MaxCents
  BY DEF Saved
<1> HIDE DEF c
<1>3. /\ cart'[c].status = "active"
      /\ cart'[c].items = items
      /\ cart'[c].total = Total(items)
      /\ cart'[c] \in CartRow
      /\ \A d \in Requests \ {c} : cart'[d] = cart[d]
  <2>1. Total(items) \in Nat
    BY <1>2, CartAssumption
  <2>2. /\ cart'[c] = [cart[c] EXCEPT !.items = items, !.total = Total(items)]
        /\ \A d \in Requests \ {c} : cart'[d] = cart[d]
    BY <1>1, <1>2 DEF TypeOK
  <2> QED BY <1>1, <2>1, <2>2 DEF CartRow, Active
<1>4. cart' \in [Requests -> CartRow]
  BY <1>1, <1>2, <1>3 DEF TypeOK
<1>5. \A d \in Requests : cart'[d].total <= MaxCents
  BY <1>2, <1>3, CartAssumption DEF TypeOK
<1>6. TotalsAgree'
  BY <1>3 DEF TotalsAgree
<1>7. OneActiveCart'
  BY <1>1, <1>3 DEF OneActiveCart, Active
<1>8. OrdersMatchCarts'
  <2>1. \A s \in Requests : orders[s].cart # c
    BY <1>1, CartAssumption DEF OrdersMatchCarts, Active
  <2>2. \A s \in Requests : orders[s].cart \in Requests \cup {NoCart}
    BY DEF TypeOK, OrderRow
  <2>3. \A s \in Requests : orders[s].cart # NoCart =>
          cart'[orders[s].cart] = cart[orders[s].cart]
    BY <1>3, <2>1, <2>2
  <2>4. \A d \in Requests : cart'[d].status = "completed" => cart'[d] = cart[d]
    BY <1>3
  <2> QED BY <2>3, <2>4 DEF OrdersMatchCarts
<1>9. \A s \in Requests : pc[s] # "done" => cart'[s] = cart[s]
  BY <1>1, <1>3 DEF EffectsAreLast, Active
<1> QED BY <1>4, <1>5, <1>6, <1>7, <1>8, <1>9 DEF CartsOK

LEMMA CreateCartInv ==
    ASSUME CartInv, NEW r \in Requests, CreateCart(r)
    PROVE  CartInv'
<1> DEFINE items == WithItem(r, NoItems)
<1> USE DEF CartInv
<1>1. pc[r] = "create" /\ op[r] \in AddOp
  BY KindIsAdd DEF CreateCart, EffectsAreLast
<1>2. items \in [Products -> Item] /\ op[r].product \in Products
  BY <1>1, WithItemFacts, NoItemsType
<1> HIDE DEF items
<1>3. CASE /\ \A c \in Requests : ~Active(c)
           /\ Storable(items, op[r].product)
           /\ cart' = [cart EXCEPT ![r] = [status |-> "active", items |-> items,
                                           total |-> Total(items)]]
           /\ Answer(r, "ok")
           /\ UNCHANGED <<orders, op, attempt, seen, view>>
  <2>1. Total(items) \in 0 .. MaxCents
    BY <1>3 DEF Storable
  <2>2. /\ cart'[r].status = "active"
        /\ cart'[r].items = items
        /\ cart'[r].total = Total(items)
        /\ cart'[r] \in CartRow
        /\ \A d \in Requests \ {r} : cart'[d] = cart[d]
    BY <1>2, <1>3, <2>1, CartAssumption DEF TypeOK, CartRow
  <2>3. cart[r].status = "none"
    BY <1>1 DEF EffectsAreLast
  <2>4. cart' \in [Requests -> CartRow]
    BY <1>3, <2>2 DEF TypeOK
  <2>5. \A c \in Requests : cart'[c].total <= MaxCents
    BY <2>1, <2>2, CartAssumption DEF TypeOK
  <2>6. TotalsAgree'
    BY <2>2 DEF TotalsAgree
  <2>7. OneActiveCart'
    BY <1>3, <2>2 DEF OneActiveCart, Active
  <2>8. OrdersMatchCarts'
    <3>1. \A s \in Requests : orders[s].cart # r
      BY <2>3, CartAssumption DEF OrdersMatchCarts
    <3> QED BY <1>3, <2>2, <2>3, <3>1 DEF OrdersMatchCarts, TypeOK, OrderRow
  <2>9. \A s \in Requests : pc[s] # "write"
    BY <1>3 DEF LockHolders
  <2> QED BY <1>1, <1>3, <2>2, <2>4, <2>5, <2>6, <2>7, <2>8, <2>9, LastStep
         DEF CartsOK, TypeOK
<1>4. CASE /\ Answer(r, "invalid") \/ Answer(r, "conflict")
           /\ UNCHANGED <<cart, orders, op, attempt, seen, view>>
  BY <1>1, <1>4, QuietStep DEF Answer, Goto, TypeOK, Answers, CartSteps
<1>5. CASE /\ attempt[r] < MaxAttempts
           /\ attempt' = [attempt EXCEPT ![r] = attempt[r] + 1]
           /\ Goto(r, "select")
           /\ UNCHANGED <<cart, orders, op, seen, view, answer>>
  <2>1. attempt' \in [Requests -> 1 .. MaxAttempts]
    BY <1>5, CartAssumption DEF TypeOK
  <2> QED BY <1>1, <1>5, <2>1, QuietStep DEF Goto, TypeOK, CartSteps
<1> QED BY <1>3, <1>4, <1>5 DEF CreateCart, items

LEMMA LockCartInv ==
    ASSUME CartInv, NEW r \in Requests, LockCart(r)
    PROVE  CartInv'
<1> USE DEF CartInv
<1>1. pc[r] = "lock" /\ UNCHANGED <<cart, orders, op, attempt, seen>>
  BY DEF LockCart
<1>2. CASE /\ seen[r] # NoCart
           /\ ~Locked(seen[r])
           /\ Active(seen[r])
           /\ view' = [view EXCEPT ![r] = cart[seen[r]]]
           /\ Goto(r, "write")
           /\ UNCHANGED answer
  <2>1. pc' = [pc EXCEPT ![r] = "write"] /\ seen[r] \in Requests
    BY <1>2 DEF Goto, TypeOK
  <2>2. \A s \in Requests : pc[s] # "write"
    BY <1>2, <2>1 DEF LockHolders, OneActiveCart, Locked
  <2>3. TypeOK'
    BY <1>1, <1>2, <2>1 DEF TypeOK, CartSteps
  <2>4. LockHolders'
    BY <1>1, <1>2, <2>1, <2>2 DEF LockHolders, TypeOK, Active
  <2>5. TotalsAgree' /\ OneActiveCart' /\ OrdersMatchCarts'
    BY <1>1 DEF TotalsAgree, OneActiveCart, OrdersMatchCarts, Active
  <2>6. EffectsAreLast'
    BY <1>1, <1>2, <2>1 DEF EffectsAreLast, TypeOK
  <2> QED BY <2>3, <2>4, <2>5, <2>6
<1>3. CASE /\ op[r].kind = "add"
           /\ Goto(r, "create")
           /\ UNCHANGED <<answer, view>>
  BY <1>1, <1>3, QuietStep DEF Goto, TypeOK, CartSteps
<1>4. CASE Answer(r, "not found") /\ UNCHANGED view
  BY <1>1, <1>4, QuietStep DEF Answer, Goto, TypeOK, CartSteps, Answers
<1> QED BY <1>2, <1>3, <1>4 DEF LockCart

LEMMA WriteAddInv ==
    ASSUME CartInv, NEW r \in Requests, WriteAdd(r)
    PROVE  CartInv'
<1> DEFINE items == WithItem(r, view[r].items)
<1> USE DEF CartInv
<1>1. /\ pc[r] = "write" /\ op[r] \in AddOp
      /\ UNCHANGED <<orders, op, attempt, seen, view>>
  BY KindIsAdd DEF WriteAdd
<1>2. items \in [Products -> Item]
  BY <1>1, WithItemFacts DEF TypeOK, CartRow
<1>3. \A s \in Requests \ {r} : pc[s] # "write"
  BY <1>1 DEF LockHolders
<1> HIDE DEF items
<1>4. CASE Saved(r, items) /\ Answer(r, "ok")
  BY <1>1, <1>2, <1>3, <1>4, SavedKeepsCarts, LastStep DEF TypeOK
<1>5. CASE Answer(r, "invalid") /\ UNCHANGED cart
  BY <1>1, <1>5, QuietStep DEF Answer, Goto, TypeOK, CartSteps, Answers
<1> QED BY <1>4, <1>5 DEF WriteAdd, items

LEMMA WriteRemoveInv ==
    ASSUME CartInv, NEW r \in Requests, WriteRemove(r)
    PROVE  CartInv'
<1> USE DEF CartInv
<1>1. /\ pc[r] = "write"
      /\ UNCHANGED <<orders, op, attempt, seen, view>>
  BY DEF WriteRemove
<1>2. \A s \in Requests \ {r} : pc[s] # "write"
  BY <1>1 DEF LockHolders
<1>3. ASSUME NEW p \in Products,
             Saved(r, [view[r].items EXCEPT ![p] = [id |-> NoItem, quantity |-> 0]]),
             Answer(r, "ok")
      PROVE  CartInv'
  <2> DEFINE items == [view[r].items EXCEPT ![p] = [id |-> NoItem, quantity |-> 0]]
  <2>1. items \in [Products -> Item]
    BY DEF TypeOK, CartRow, Item
  <2> HIDE DEF items
  <2>2. Saved(r, items)
    BY <1>3 DEF items
  <2> QED BY <1>1, <1>2, <1>3, <2>1, <2>2, SavedKeepsCarts, LastStep DEF TypeOK
<1>4. CASE Answer(r, "not found") /\ UNCHANGED cart
  BY <1>1, <1>4, QuietStep DEF Answer, Goto, TypeOK, CartSteps, Answers
<1> QED BY <1>3, <1>4 DEF WriteRemove

LEMMA WriteCheckoutInv ==
    ASSUME CartInv, NEW r \in Requests, WriteCheckout(r)
    PROVE  CartInv'
<1> DEFINE c == seen[r]
<1> USE DEF CartInv
<1>1. /\ pc[r] = "write"
      /\ UNCHANGED <<op, attempt, seen, view>>
      /\ c \in Requests /\ Active(c) /\ view[r] = cart[c] /\ cart[c] \in CartRow
      /\ orders[r] = NoOrderRow
  BY DEF WriteCheckout, LockHolders, TypeOK, EffectsAreLast
<1>2. \A s \in Requests \ {r} : pc[s] # "write"
  BY <1>1 DEF LockHolders
<1>3. CASE /\ orders' = [orders EXCEPT ![r] =
                           [cart |-> seen[r], items |-> view[r].items,
                            total |-> view[r].total]]
           /\ cart' = [cart EXCEPT ![seen[r]] =
                         [cart[seen[r]] EXCEPT !.status = "completed"]]
           /\ Answer(r, "ok")
  <2> HIDE DEF c
  <2>1. /\ cart' = [cart EXCEPT ![c] = [cart[c] EXCEPT !.status = "completed"]]
        /\ orders' = [orders EXCEPT ![r] = [cart |-> c, items |-> cart[c].items,
                                            total |-> cart[c].total]]
    BY <1>1, <1>3 DEF c
  <2>2. /\ cart'[c].status = "completed"
        /\ cart'[c].items = cart[c].items
        /\ cart'[c].total = cart[c].total
        /\ cart'[c] \in CartRow
        /\ \A d \in Requests \ {c} : cart'[d] = cart[d]
    BY <1>1, <2>1 DEF TypeOK, CartRow
  <2>3. /\ orders'[r] = [cart |-> c, items |-> cart[c].items, total |-> cart[c].total]
        /\ orders'[r] \in OrderRow
        /\ \A s \in Requests \ {r} : orders'[s] = orders[s]
    BY <1>1, <2>1 DEF TypeOK, OrderRow, CartRow
  <2>4. CartsOK'
    <3>1. cart' \in [Requests -> CartRow]
      BY <2>1, <2>2 DEF TypeOK
    <3>2. \A d \in Requests : cart'[d].total <= MaxCents
      BY <1>1, <2>2 DEF TypeOK
    <3>3. TotalsAgree'
      BY <1>1, <2>2 DEF TotalsAgree, Active
    <3>4. OneActiveCart'
      BY <2>2 DEF OneActiveCart, Active
    <3> QED BY <3>1, <3>2, <3>3, <3>4 DEF CartsOK
  <2>5. OrdersMatchCarts'
    <3>1. cart[c].total = Total(cart[c].items)
      BY <1>1 DEF TotalsAgree, Active
    <3>2. \A s \in Requests : orders[s].cart # c
      BY <1>1, CartAssumption DEF OrdersMatchCarts, Active
    <3>3. \A s \in Requests : orders'[s].cart # NoCart =>
            LET d == cart'[orders'[s].cart]
            IN  /\ d.status = "completed"
                /\ orders'[s].items = d.items
                /\ orders'[s].total = Total(d.items)
      BY <1>1, <2>2, <2>3, <3>1, <3>2 DEF OrdersMatchCarts, TypeOK, OrderRow
    <3>4. \A s, t \in Requests :
            orders'[s].cart = orders'[t].cart /\ orders'[s].cart # NoCart => s = t
      BY <2>3, <3>2 DEF OrdersMatchCarts
    <3>5. \A d \in Requests : cart'[d].status = "completed" =>
            \E s \in Requests : orders'[s].cart = d
      <4>1. orders[r].cart = NoCart
        BY <1>1 DEF NoOrderRow
      <4> QED BY <1>1, <2>2, <2>3, <4>1, CartAssumption DEF OrdersMatchCarts
    <3> QED BY <3>3, <3>4, <3>5 DEF OrdersMatchCarts
  <2>6. orders' \in [Requests -> OrderRow]
    BY <2>1, <2>3 DEF TypeOK
  <2>7. \A s \in Requests : pc[s] # "done" => cart'[s] = cart[s]
    BY <1>1, <2>2 DEF EffectsAreLast, Active
  <2> QED BY <1>1, <1>2, <1>3, <2>3, <2>4, <2>5, <2>6, <2>7, LastStep
<1>4. CASE Answer(r, "invalid") /\ UNCHANGED <<cart, orders>>
  BY <1>1, <1>4, QuietStep DEF Answer, Goto, TypeOK, CartSteps, Answers
<1> QED BY <1>3, <1>4 DEF WriteCheckout

LEMMA CartInvNext == CartInv /\ [Next]_cartVars => CartInv'
<1> SUFFICES ASSUME CartInv, [Next]_cartVars PROVE CartInv'
  OBVIOUS
<1>1. ASSUME NEW r \in Requests, Begin(r) PROVE CartInv'
  <2> USE DEF CartInv
  <2>1. CASE \E p \in Products, q \in Quantities : AddItem(r, p, q)
    <3>1. PICK p \in Products, q \in Quantities : AddItem(r, p, q)
      BY <2>1
    <3>2. /\ pc[r] = "start"
          /\ op' = [op EXCEPT ![r] = [kind |-> "add", product |-> p, quantity |-> q]]
          /\ UNCHANGED <<cart, orders, attempt, seen, view>>
      BY <3>1 DEF AddItem
    <3>3. op' \in [Requests -> AddOp \cup RemoveOp \cup {CheckoutOp, NoOp}]
      BY <3>2 DEF TypeOK, AddOp
    <3>4. CASE Goto(r, "select") /\ UNCHANGED answer
      BY <3>2, <3>3, <3>4, QuietStep DEF Goto, TypeOK, CartSteps
    <3>5. CASE Answer(r, "refused")
      BY <3>2, <3>3, <3>5, QuietStep DEF Answer, Goto, TypeOK, CartSteps, Answers
    <3> QED BY <3>1, <3>4, <3>5 DEF AddItem, Lookup
  <2>2. CASE \E i \in Requests : RemoveItem(r, i)
    <3>1. PICK i \in Requests : RemoveItem(r, i)
      BY <2>2
    <3>2. op' \in [Requests -> AddOp \cup RemoveOp \cup {CheckoutOp, NoOp}]
      BY <3>1 DEF RemoveItem, TypeOK, RemoveOp
    <3> QED BY <3>1, <3>2, QuietStep DEF RemoveItem, Goto, TypeOK, CartSteps
  <2>3. CASE CheckOut(r)
    BY <2>3, QuietStep DEF CheckOut, Goto, TypeOK, CartSteps
  <2> QED BY <1>1, <2>1, <2>2, <2>3 DEF Begin
<1>2. ASSUME NEW r \in Requests, SelectCart(r) PROVE CartInv'
  <2> USE DEF CartInv
  <2>1. seen' \in [Requests -> Requests \cup {NoCart}]
    BY <1>2 DEF SelectCart, TypeOK
  <2>2. \A s \in Requests \ {r} : seen'[s] = seen[s]
    BY <1>2 DEF SelectCart, TypeOK
  <2> QED BY <1>2, <2>1, <2>2, QuietStep DEF SelectCart, Goto, TypeOK, CartSteps
<1>3. ASSUME NEW r \in Requests, Abort(r) PROVE CartInv'
  BY <1>3, QuietStep DEF CartInv, Abort, Answer, Goto, TypeOK, CartSteps, Answers
<1>4. CASE UNCHANGED cartVars
  BY <1>4 DEF cartVars, CartInv, TypeOK, TotalsAgree, OrdersMatchCarts,
              OneActiveCart, LockHolders, EffectsAreLast, Active
<1> QED BY <1>1, <1>2, <1>3, <1>4, LockCartInv, CreateCartInv, WriteAddInv,
           WriteRemoveInv, WriteCheckoutInv DEF Next, Proceed

\* Every reachable state satisfies the inductive invariant.
THEOREM CartInvariance == Spec => []CartInv
  BY CartInvInit, CartInvNext, PTL DEF Spec

\* Rows keep their columns' types and no amount exceeds MaxCents.
THEOREM CartTypes == Spec => []TypeOK
<1>1. CartInv => TypeOK
  BY DEF CartInv
<1> QED BY <1>1, CartInvariance, PTL

\* The total of every cart is the sum of its items.
THEOREM CartTotals == Spec => []TotalsAgree
<1>1. CartInv => TotalsAgree
  BY DEF CartInv
<1> QED BY <1>1, CartInvariance, PTL

\* Orders take what their completed cart holds, and no cart is ordered twice.
THEOREM CartOrders == Spec => []OrdersMatchCarts
<1>1. CartInv => OrdersMatchCarts
  BY DEF CartInv
<1> QED BY <1>1, CartInvariance, PTL

-----------------------------------------------------------------------------
(* Completed carts. *)

\* No step changes a completed cart.
LEMMA FrozenStep ==
    ASSUME CartInv, Next, NEW c \in Requests, cart[c].status = "completed"
    PROVE  cart'[c] = cart[c]
<1> USE DEF CartInv
<1>1. PICK r \in Requests : Begin(r) \/ Proceed(r) \/ Abort(r)
  BY DEF Next
<1>2. CASE pc[r] = "create" /\ CreateCart(r)
  BY <1>2 DEF CreateCart, EffectsAreLast, TypeOK
<1>3. CASE pc[r] = "write" /\ (WriteAdd(r) \/ WriteRemove(r) \/ WriteCheckout(r))
  <2>1. seen[r] \in Requests /\ seen[r] # c
    BY <1>3 DEF LockHolders, Active
  <2> QED BY <1>3, <2>1 DEF WriteAdd, WriteRemove, WriteCheckout, Saved, TypeOK
<1>4. CASE UNCHANGED cart
  BY <1>4
<1> QED BY <1>1, <1>2, <1>3, <1>4
      DEF Begin, AddItem, Lookup, RemoveItem, CheckOut, Proceed, SelectCart, LockCart,
          CreateCart, WriteAdd, WriteRemove, WriteCheckout, Abort

\* Nothing changes a cart once it is completed.
THEOREM CartsFrozen == Spec => CompletedCartsFrozen
<1>1. CartInv /\ [Next]_cartVars =>
        [\A c \in Requests : cart[c].status = "completed" => cart'[c] = cart[c]]_cartVars
  BY FrozenStep
<1> QED BY <1>1, CartInvariance, PTL DEF Spec, CompletedCartsFrozen

-----------------------------------------------------------------------------
(* Additions that give up. *)

LEMMA CartSets ==
    \A S, T \in SUBSET Requests :
        /\ Cardinality(S) \in Nat
        /\ S \subseteq T => Cardinality(S) <= Cardinality(T)
        /\ \A c \in T \ S : S \subseteq T => Cardinality(S) + 1 <= Cardinality(T)
<1> SUFFICES ASSUME NEW S \in SUBSET Requests, NEW T \in SUBSET Requests
             PROVE  /\ Cardinality(S) \in Nat
                    /\ S \subseteq T => Cardinality(S) <= Cardinality(T)
                    /\ \A c \in T \ S :
                          S \subseteq T => Cardinality(S) + 1 <= Cardinality(T)
  OBVIOUS
<1>1. IsFiniteSet(S) /\ IsFiniteSet(T)
  BY FS_Subset, CartAssumption
<1>2. Cardinality(S) \in Nat /\ Cardinality(T) \in Nat
  BY <1>1, FS_CardinalityType
<1>3. S \subseteq T => Cardinality(S) <= Cardinality(T)
  BY <1>1, FS_Subset
<1>4. ASSUME NEW c \in T \ S, S \subseteq T
      PROVE  Cardinality(S) + 1 <= Cardinality(T)
  <2>1. S \cup {c} \in SUBSET T
    BY <1>4
  <2>2. Cardinality(S \cup {c}) = Cardinality(S) + 1
    BY <1>1, <1>4, FS_AddElement
  <2> QED BY <1>1, <2>1, <2>2, FS_Subset
<1> QED BY <1>2, <1>3, <1>4

\* No cart is taken back, and none that is completed becomes anything else.
LEMMA CartsGrow ==
    ASSUME CartInv, Next
    PROVE  Completed \subseteq Completed' /\ Created \subseteq Created'
<1>1. Completed \subseteq Completed'
  BY FrozenStep DEF Completed
<1>2. ASSUME NEW c \in Requests, cart[c].status # "none" PROVE cart'[c].status # "none"
  <2> USE DEF CartInv
  <2>1. PICK r \in Requests : Begin(r) \/ Proceed(r) \/ Abort(r)
    BY DEF Next
  <2>2. CASE CreateCart(r)
    BY <1>2, <2>2 DEF CreateCart, TypeOK
  <2>3. CASE pc[r] = "write" /\ (WriteAdd(r) \/ WriteRemove(r) \/ WriteCheckout(r))
    <3>1. /\ seen[r] \in Requests /\ Active(seen[r])
          /\ cart \in [Requests -> CartRow] /\ cart[seen[r]] \in CartRow
      BY <2>3 DEF LockHolders, TypeOK
    <3>2. ASSUME NEW items, Saved(r, items) PROVE cart'[c].status # "none"
      BY <1>2, <3>1, <3>2 DEF Saved, CartRow, Active
    <3>3. ASSUME cart' = [cart EXCEPT ![seen[r]] = [cart[seen[r]] EXCEPT !.status = "completed"]]
          PROVE  cart'[c].status # "none"
      BY <1>2, <3>1, <3>3 DEF CartRow
    <3>4. CASE UNCHANGED cart
      BY <1>2, <3>4
    <3> QED BY <2>3, <3>2, <3>3, <3>4 DEF WriteAdd, WriteRemove, WriteCheckout
  <2>4. CASE UNCHANGED cart
    BY <1>2, <2>4
  <2> QED BY <2>1, <2>2, <2>3, <2>4
        DEF Begin, AddItem, Lookup, RemoveItem, CheckOut, Proceed, SelectCart, LockCart,
            WriteAdd, WriteRemove, WriteCheckout, Abort
<1> QED BY <1>1, <1>2 DEF Created

\* What ConflictInv says of request r.
RetryOK(r) ==
    /\ Cardinality(Created) >= attempt[r] - 1
    /\ pc[r] \in {"lock", "create"} => Cardinality(CompletedBy(r)) >= attempt[r] - 1
    /\ (pc[r] = "lock" /\ seen[r] # NoCart) => seen[r] \in Created
    /\ answer[r] = "conflict" => Cardinality(Completed) >= MaxAttempts - 1

\* Carts only grow in number: a request that does not move keeps its facts, and
\* so does one that leaves the lock and the insert behind.
LEMMA RetryKept ==
    ASSUME CartInv, CartInv', Next, NEW r \in Requests, RetryOK(r),
           attempt'[r] = attempt[r], seen'[r] = seen[r],
           pc'[r] = pc[r] \/ pc'[r] \notin {"lock", "create"},
           answer'[r] = answer[r] \/ answer'[r] # "conflict"
    PROVE  RetryOK(r)'
<1>1. /\ Completed \subseteq Completed' /\ Created \subseteq Created'
      /\ Completed \in SUBSET Requests /\ Completed' \in SUBSET Requests
      /\ Created \in SUBSET Requests /\ Created' \in SUBSET Requests
  BY CartsGrow DEF Completed, Created
<1>2. /\ Cardinality(Completed) <= Cardinality(Completed')
      /\ Cardinality(Created) <= Cardinality(Created')
      /\ Cardinality(Completed) \in Nat /\ Cardinality(Completed') \in Nat
      /\ Cardinality(Created) \in Nat /\ Cardinality(Created') \in Nat
      /\ attempt[r] \in Nat /\ MaxAttempts \in Nat
  <2>1. attempt[r] \in Nat /\ MaxAttempts \in Nat
    BY CartAssumption DEF CartInv, TypeOK
  <2> QED BY <1>1, <2>1, CartSets
<1>3. pc'[r] \in {"lock", "create"} => Cardinality(CompletedBy(r)') >= attempt[r] - 1
  <2>1. SUFFICES ASSUME pc'[r] = pc[r], pc[r] \in {"lock", "create"}
                 PROVE  Cardinality(CompletedBy(r)') >= attempt[r] - 1
    OBVIOUS
  <2>2. /\ CompletedBy(r) \subseteq CompletedBy(r)'
        /\ CompletedBy(r) \in SUBSET Requests /\ CompletedBy(r)' \in SUBSET Requests
    BY <1>1, <2>1 DEF CompletedBy, CartInv, TypeOK
  <2>3. /\ Cardinality(CompletedBy(r)) <= Cardinality(CompletedBy(r)')
        /\ Cardinality(CompletedBy(r)) \in Nat /\ Cardinality(CompletedBy(r)') \in Nat
    BY <2>2, CartSets
  <2>4. Cardinality(CompletedBy(r)) >= attempt[r] - 1
    BY <2>1 DEF RetryOK
  <2> QED BY <1>2, <2>3, <2>4
<1>4. Cardinality(Created') >= attempt'[r] - 1
  BY <1>2 DEF RetryOK
<1>5. answer'[r] = "conflict" => Cardinality(Completed') >= MaxAttempts - 1
  BY <1>2 DEF RetryOK
<1>6. (pc'[r] = "lock" /\ seen'[r] # NoCart) => seen'[r] \in Created'
  BY <1>1 DEF RetryOK
<1> QED BY <1>3, <1>4, <1>5, <1>6 DEF RetryOK

\* Where no cart is active, those that exist are completed; otherwise all but one.
LEMMA CreatedCarts ==
    ASSUME CartInv
    PROVE  /\ (\A c \in Requests : ~Active(c)) => Created = Completed
           /\ \A c \in Requests : Active(c) =>
                /\ Created = Completed \cup {c}
                /\ c \notin Completed
                /\ Cardinality(Completed) + 1 <= Cardinality(Created)
<1>1. \A c \in Requests : cart[c].status \in {"none", "active", "completed"}
  BY DEF CartInv, TypeOK, CartRow
<1>2. (\A c \in Requests : ~Active(c)) => Created = Completed
  BY <1>1 DEF Created, Completed, Active
<1>3. ASSUME NEW c \in Requests, Active(c)
      PROVE  Created = Completed \cup {c} /\ c \notin Completed
  BY <1>1, <1>3 DEF CartInv, OneActiveCart, Created, Completed, Active
<1>4. Created \in SUBSET Requests /\ Completed \in SUBSET Requests
  BY DEF Created, Completed
<1>5. ASSUME NEW c \in Requests, Active(c)
      PROVE  Cardinality(Completed) + 1 <= Cardinality(Created)
  <2>1. c \in Created \ Completed /\ Completed \subseteq Created
    BY <1>3, <1>5
  <2> QED BY <1>4, <2>1, CartSets
<1> QED BY <1>2, <1>3, <1>5

\* The snapshot contains the active cart, which then is all that is not completed.
LEMMA SelectRetry ==
    ASSUME CartInv, NEW r \in Requests, RetryOK(r), SelectCart(r)
    PROVE  RetryOK(r)'
<1>1. /\ pc'[r] = "lock" /\ UNCHANGED <<cart, attempt, answer>>
      /\ Created' = Created /\ Completed' = Completed
  BY DEF SelectCart, Goto, CartInv, TypeOK, Created, Completed
<1>2. Cardinality(Created) >= attempt[r] - 1
  BY DEF RetryOK
<1>3. CASE \E c \in Requests : Active(c) /\ seen' = [seen EXCEPT ![r] = c]
  <2>1. PICK c \in Requests : Active(c) /\ seen'[r] = c
    BY <1>3 DEF CartInv, TypeOK
  <2>2. Created = Completed \cup {c} /\ c # NoCart
    BY <2>1, CreatedCarts, CartAssumption
  <2>3. CompletedBy(r)' = Created /\ c \in Created
    BY <1>1, <2>1, <2>2 DEF CompletedBy
  <2> QED BY <1>1, <1>2, <2>1, <2>3 DEF RetryOK
<1>4. CASE (\A c \in Requests : ~Active(c)) /\ seen' = [seen EXCEPT ![r] = NoCart]
  <2>1. CompletedBy(r)' = Created /\ seen'[r] = NoCart
    BY <1>1, <1>4, CreatedCarts DEF CompletedBy, CartInv, TypeOK
  <2> QED BY <1>1, <1>2, <2>1 DEF RetryOK
<1> QED BY <1>3, <1>4 DEF SelectCart

\* A cart that is not active when the lock is granted was completed under the wait.
LEMMA LockRetry ==
    ASSUME CartInv, NEW r \in Requests, RetryOK(r), LockCart(r)
    PROVE  RetryOK(r)'
<1>1. /\ pc[r] = "lock" /\ UNCHANGED <<cart, attempt, seen>>
      /\ Created' = Created /\ Completed' = Completed
  BY DEF LockCart, Created, Completed
<1>2. pc'[r] \in {"write", "create", "done"} /\ (answer'[r] = answer[r] \/ answer'[r] = "not found")
  BY DEF LockCart, Goto, Answer, CartInv, TypeOK
<1>3. ASSUME pc'[r] = "create" PROVE CompletedBy(r)' = CompletedBy(r)
  <2>1. seen[r] # NoCart => ~Active(seen[r])
    BY <1>3 DEF LockCart, Goto, CartInv, TypeOK
  <2>2. seen[r] # NoCart => seen[r] \in Completed
    <3>1. seen[r] # NoCart => seen[r] \in Created
      BY <1>1 DEF RetryOK
    <3>2. \A c \in Requests : cart[c].status \in {"none", "active", "completed"}
      BY DEF CartInv, TypeOK, CartRow
    <3> QED BY <2>1, <3>1, <3>2 DEF Created, Completed, Active
  <2> QED BY <1>1, <1>3, <2>2 DEF CompletedBy
<1> QED BY <1>1, <1>2, <1>3 DEF RetryOK

\* The insert fails on a cart that is active by now: that is one more cart.
LEMMA CreateRetry ==
    ASSUME CartInv, CartInv', Next, NEW r \in Requests, RetryOK(r), CreateCart(r)
    PROVE  RetryOK(r)'
<1>1. pc[r] = "create" /\ seen' = seen /\ attempt[r] \in Nat /\ MaxAttempts \in Nat
  BY CartAssumption DEF CreateCart, CartInv, TypeOK
<1>2. Cardinality(Completed) >= attempt[r] - 1
  BY <1>1 DEF RetryOK, CompletedBy
<1>3. CASE attempt' = attempt /\ (Answer(r, "ok") \/ Answer(r, "invalid"))
  BY <1>1, <1>3, RetryKept DEF Answer, Goto, CartInv, TypeOK
<1>4. CASE /\ \E c \in Requests : Active(c)
           /\ attempt' = [attempt EXCEPT ![r] = attempt[r] + 1]
           /\ Goto(r, "select")
           /\ UNCHANGED <<cart, answer>>
  <2>1. Cardinality(Completed) + 1 <= Cardinality(Created)
    BY <1>4, CreatedCarts
  <2>2. Cardinality(Completed) \in Nat /\ Cardinality(Created) \in Nat
    BY CartSets DEF Completed, Created
  <2>3. /\ attempt'[r] = attempt[r] + 1 /\ pc'[r] = "select" /\ answer'[r] = answer[r]
        /\ Created' = Created /\ Completed' = Completed
    BY <1>4 DEF Goto, CartInv, TypeOK, Created, Completed
  <2>4. Cardinality(Created') >= attempt'[r] - 1
    BY <1>1, <1>2, <2>1, <2>2, <2>3
  <2> QED BY <2>3, <2>4 DEF RetryOK
<1>5. CASE attempt[r] = MaxAttempts /\ Answer(r, "conflict") /\ UNCHANGED <<cart, attempt>>
  <2>1. pc'[r] = "done" /\ Created' = Created /\ Completed' = Completed
    BY <1>5 DEF Answer, Goto, CartInv, TypeOK, Created, Completed
  <2> QED BY <1>2, <1>5, <2>1 DEF RetryOK
<1> QED BY <1>3, <1>4, <1>5 DEF CreateCart

\* What every step but these does to the request that takes it.
LEMMA OtherRetry ==
    ASSUME CartInv, CartInv', Next, NEW r \in Requests, RetryOK(r),
           \/ Begin(r) \/ Abort(r)
           \/ WriteAdd(r) \/ WriteRemove(r) \/ WriteCheckout(r)
    PROVE  RetryOK(r)'
<1>1. pc'[r] \in {"select", "done"}
  BY DEF Begin, AddItem, Lookup, RemoveItem, CheckOut, Abort, WriteAdd, WriteRemove,
         WriteCheckout, Answer, Goto, CartInv, TypeOK
<1>2. answer'[r] = answer[r] \/ answer'[r] # "conflict"
  BY DEF Begin, AddItem, Lookup, RemoveItem, CheckOut, Abort, WriteAdd, WriteRemove,
         WriteCheckout, Answer, CartInv, TypeOK
<1>3. UNCHANGED <<attempt, seen>>
  BY DEF Begin, AddItem, RemoveItem, CheckOut, Abort, WriteAdd, WriteRemove, WriteCheckout
<1> QED BY <1>1, <1>2, <1>3, RetryKept

\* A request does not touch what another one is at.
LEMMA OthersUntouched ==
    ASSUME CartInv, NEW r \in Requests, Begin(r) \/ Proceed(r) \/ Abort(r),
           NEW q \in Requests \ {r}
    PROVE  /\ pc'[q] = pc[q] /\ attempt'[q] = attempt[q]
           /\ seen'[q] = seen[q] /\ answer'[q] = answer[q]
<1> USE DEF CartInv, TypeOK, Answer, Goto
<1>1. CASE Begin(r)
  BY <1>1 DEF Begin, AddItem, Lookup, RemoveItem, CheckOut
<1>2. CASE SelectCart(r) \/ LockCart(r) \/ Abort(r)
  BY <1>2 DEF SelectCart, LockCart, Abort
<1>3. CASE CreateCart(r)
  BY <1>3 DEF CreateCart
<1>4. CASE WriteAdd(r) \/ WriteRemove(r) \/ WriteCheckout(r)
  BY <1>4 DEF WriteAdd, WriteRemove, WriteCheckout
<1> QED BY <1>1, <1>2, <1>3, <1>4 DEF Proceed

LEMMA ConflictNext ==
    ASSUME CartInv, CartInv', \A q \in Requests : RetryOK(q), [Next]_cartVars
    PROVE  \A q \in Requests : RetryOK(q)'
<1>1. CASE UNCHANGED cartVars
  BY <1>1 DEF cartVars, RetryOK, CompletedBy, Created, Completed
<1>2. CASE Next
  <2>1. PICK r \in Requests : Begin(r) \/ Proceed(r) \/ Abort(r)
    BY <1>2 DEF Next
  <2>2. RetryOK(r)'
    BY <1>2, <2>1, SelectRetry, LockRetry, CreateRetry, OtherRetry DEF Proceed
  <2>3. ASSUME NEW q \in Requests \ {r} PROVE RetryOK(q)'
    BY <1>2, <2>1, OthersUntouched, RetryKept
  <2> QED BY <2>2, <2>3
<1> QED BY <1>1, <1>2

\* Every reachable state satisfies the invariant about retries.
THEOREM ConflictInvariance == Spec => []ConflictInv
<1> DEFINE RetriesOK == \A q \in Requests : RetryOK(q)
<1>1. CartInv /\ RetriesOK => ConflictInv
  BY DEF ConflictInv, RetriesFollowCarts, ConflictNeedsCheckouts, RetryOK
<1>2. Init => RetriesOK
  <2> SUFFICES ASSUME Init PROVE RetriesOK
    OBVIOUS
  <2>1. Cardinality(Created) \in Nat
    BY CartSets DEF Created
  <2> QED BY <2>1 DEF Init, RetryOK
<1>3. CartInv /\ CartInv' /\ RetriesOK /\ [Next]_cartVars => RetriesOK'
  BY ConflictNext
<1> QED BY <1>1, <1>2, <1>3, CartInvariance, PTL DEF Spec

\* An addition is answered 409 only after as many checkouts of the user's carts as
\* there are retries, however many additions run at once
\* (CartService.addItem, MAX_TRANSACTION_ATTEMPTS, UQ_cart_active_user).
THEOREM ConflictsNeedCheckouts == Spec => []ConflictNeedsCheckouts
<1>1. ConflictInv => ConflictNeedsCheckouts
  BY DEF ConflictInv
<1> QED BY <1>1, ConflictInvariance, PTL

-----------------------------------------------------------------------------
(* Cart implements ShoppingCart. *)

\* What ShoppingCart sees.
Visible == <<QuantitiesOf(ActiveItems),
             [r \in Requests |-> QuantitiesOf(orders[r].items)],
             {r \in Requests : answer[r] = "ok"}>>

\* The active cart, when there is one, is what ActiveItems shows.
LEMMA ActiveCart ==
    ASSUME OneActiveCart, NEW c \in Requests, Active(c)
    PROVE  ActiveItems = cart[c].items
  BY DEF ActiveItems, OneActiveCart

LEMMA NoActiveCart ==
    ASSUME \A c \in Requests : ~Active(c)
    PROVE  ActiveItems = NoItems
  BY DEF ActiveItems

LEMMA EmptyBasket == QuantitiesOf(NoItems) = Basket!Empty
  BY DEF QuantitiesOf, NoItems, Basket!Empty

LEMMA CartInitRefines == Init => Basket!Init
<1> SUFFICES ASSUME Init PROVE Basket!Init
  OBVIOUS
<1>1. ActiveItems = NoItems
  BY NoActiveCart DEF Init, Active, NoCartRow
<1> QED BY <1>1, EmptyBasket DEF Init, Basket!Init, NoOrderRow

\* A request that is answered otherwise than with success changes nothing that
\* ShoppingCart sees.
LEMMA Unseen ==
    ASSUME CartInv, NEW r \in Requests, pc[r] # "done", UNCHANGED <<cart, orders>>,
           \/ UNCHANGED answer
           \/ \E a \in Answers \ {"ok"} : answer' = [answer EXCEPT ![r] = a]
    PROVE  UNCHANGED Basket!vars
<1> USE DEF CartInv
<1>1. (ActiveItems)' = ActiveItems
  BY DEF ActiveItems, Active
<1>2. {s \in Requests : answer[s] = "ok"}' = {s \in Requests : answer[s] = "ok"}
  BY DEF EffectsAreLast, TypeOK
<1> QED BY <1>1, <1>2 DEF Basket!vars, QuantitiesOf

\* A request that is answered with success takes effect now.
LEMMA Effective ==
    ASSUME CartInv, NEW r \in Requests, pc[r] # "done", Answer(r, "ok")
    PROVE  Basket!TakesEffect(r)
  BY DEF CartInv, EffectsAreLast, TypeOK, Answer, Basket!TakesEffect

\* An addition, to the active cart or to a new one, is Add.
LEMMA AddRefines ==
    ASSUME CartInv, NEW r \in Requests, pc[r] # "done", op[r] \in AddOp,
           NEW items \in [Products -> Item], items = ActiveItems,
           ActiveItems' = WithItem(r, items),
           Answer(r, "ok"), UNCHANGED orders
    PROVE  Basket!Next
<1>1. PICK p \in Products, q \in Quantities : p = op[r].product /\ q = op[r].quantity
  BY WithItemFacts
<1>2. QuantitiesOf(ActiveItems)' =
        [QuantitiesOf(ActiveItems) EXCEPT ![p] = QuantitiesOf(ActiveItems)[p] + q]
  BY <1>1, WithItemFacts
<1>3. Basket!Add(r, p, q)
  BY <1>2, Effective DEF Basket!Add
<1> QED BY <1>1, <1>3 DEF Basket!Next

LEMMA CreateRefines ==
    ASSUME CartInv, CartInv', NEW r \in Requests, CreateCart(r), Answer(r, "ok")
    PROVE  Basket!Next
<1>1. /\ pc[r] = "create" /\ op[r] \in AddOp
      /\ \A c \in Requests : ~Active(c)
      /\ cart' = [cart EXCEPT ![r] = [status |-> "active",
                                      items |-> WithItem(r, NoItems),
                                      total |-> Total(WithItem(r, NoItems))]]
      /\ UNCHANGED orders
  BY KindIsAdd DEF CreateCart, CartInv, EffectsAreLast, Answer, Goto, TypeOK
<1>2. cart'[r].status = "active" /\ cart'[r].items = WithItem(r, NoItems)
  BY <1>1 DEF CartInv, TypeOK
<1>3. ActiveItems' = WithItem(r, NoItems)
  BY <1>2 DEF CartInv, OneActiveCart, Active, ActiveItems
<1> QED BY <1>1, <1>3, NoActiveCart, NoItemsType, AddRefines

\* The lock holder sees the basket that the abstract request acts on.
LEMMA HolderSees ==
    ASSUME CartInv, NEW r \in Requests, pc[r] = "write"
    PROVE  /\ seen[r] \in Requests /\ Active(seen[r])
           /\ view[r] = cart[seen[r]]
           /\ view[r].items = ActiveItems
           /\ view[r].items \in [Products -> Item]
  BY ActiveCart DEF CartInv, LockHolders, TypeOK, CartRow

\* What a holder saves is what the basket becomes.
LEMMA SavedShows ==
    ASSUME CartInv, CartInv', NEW r \in Requests, pc[r] = "write",
           NEW items, Saved(r, items)
    PROVE  ActiveItems' = items
<1>1. PICK c \in Requests : c = seen[r]
  BY HolderSees
<1>2. cart'[c].status = "active" /\ cart'[c].items = items
  BY <1>1, HolderSees DEF Saved, CartInv, TypeOK, CartRow, Active
<1> QED BY <1>2 DEF CartInv, OneActiveCart, Active, ActiveItems

LEMMA WriteAddRefines ==
    ASSUME CartInv, CartInv', NEW r \in Requests, WriteAdd(r), Answer(r, "ok")
    PROVE  Basket!Next
<1>1. /\ pc[r] = "write" /\ op[r] \in AddOp
      /\ Saved(r, WithItem(r, view[r].items))
      /\ UNCHANGED orders
  BY KindIsAdd DEF WriteAdd, CartInv, Answer, Goto, TypeOK
<1>2. ActiveItems' = WithItem(r, view[r].items)
  BY <1>1, SavedShows
<1> QED BY <1>1, <1>2, HolderSees, AddRefines

LEMMA WriteRemoveRefines ==
    ASSUME CartInv, CartInv', NEW r \in Requests, WriteRemove(r), Answer(r, "ok")
    PROVE  Basket!Next
<1>1. /\ pc[r] = "write"
      /\ UNCHANGED orders
  BY DEF WriteRemove
<1>2. PICK p \in Products :
        /\ view[r].items[p].quantity # 0
        /\ Saved(r, [view[r].items EXCEPT ![p] = [id |-> NoItem, quantity |-> 0]])
  BY DEF WriteRemove, Holds, CartInv, Answer, TypeOK
<1>3. ActiveItems' = [view[r].items EXCEPT ![p] = [id |-> NoItem, quantity |-> 0]]
  BY <1>1, <1>2, SavedShows
<1>4. /\ QuantitiesOf(ActiveItems)' = [QuantitiesOf(ActiveItems) EXCEPT ![p] = 0]
      /\ QuantitiesOf(ActiveItems)[p] # 0
  BY <1>1, <1>2, <1>3, HolderSees DEF QuantitiesOf
<1>5. Basket!Remove(r, p)
  BY <1>1, <1>4, Effective DEF Basket!Remove
<1> QED BY <1>5 DEF Basket!Next

LEMMA WriteCheckoutRefines ==
    ASSUME CartInv, CartInv', NEW r \in Requests, WriteCheckout(r), Answer(r, "ok")
    PROVE  Basket!Next
<1>1. PICK c \in Requests : c = seen[r]
  BY HolderSees DEF WriteCheckout
<1>2. /\ pc[r] = "write"
      /\ Chargeable(view[r])
      /\ orders' = [orders EXCEPT ![r] = [cart |-> c, items |-> ActiveItems,
                                          total |-> view[r].total]]
      /\ cart' = [cart EXCEPT ![c] = [cart[c] EXCEPT !.status = "completed"]]
  BY <1>1, HolderSees DEF WriteCheckout, CartInv, Answer, TypeOK
<1>3. \A d \in Requests : cart'[d].status # "active"
  <2>1. cart'[c].status = "completed" /\ \A d \in Requests \ {c} : cart'[d] = cart[d]
    BY <1>2 DEF CartInv, TypeOK, CartRow
  <2> QED BY <1>1, <1>2, <2>1, HolderSees DEF CartInv, OneActiveCart, Active
<1>4. ActiveItems' = NoItems
  BY <1>3 DEF ActiveItems, Active
<1>5. QuantitiesOf(ActiveItems)' = Basket!Empty
  BY <1>4, EmptyBasket DEF QuantitiesOf, NoItems, Basket!Empty
<1>6. QuantitiesOf(ActiveItems) # Basket!Empty
  BY <1>2, HolderSees DEF Chargeable, QuantitiesOf, Basket!Empty
<1>7. [s \in Requests |-> QuantitiesOf(orders[s].items)]' =
        [[s \in Requests |-> QuantitiesOf(orders[s].items)]
           EXCEPT ![r] = QuantitiesOf(ActiveItems)]
  BY <1>2 DEF CartInv, TypeOK, QuantitiesOf
<1>8. Basket!Place(r)
  BY <1>2, <1>5, <1>6, <1>7, Effective DEF Basket!Place
<1> QED BY <1>8 DEF Basket!Next

\* The requests on a cart take effect one at a time and at most once each, and a
\* checkout orders the whole basket as it is at that moment.
THEOREM CartRefinement == Spec => CartRefined
<1>1. CartInv /\ CartInv' /\ [Next]_cartVars => [Basket!Next]_Basket!vars
  <2> SUFFICES ASSUME CartInv, CartInv', [Next]_cartVars
               PROVE  [Basket!Next]_Basket!vars
    OBVIOUS
  <2>1. CASE UNCHANGED cartVars
    BY <2>1 DEF cartVars, Basket!vars, ActiveItems, Active, QuantitiesOf
  <2>2. ASSUME NEW r \in Requests, Begin(r) PROVE UNCHANGED Basket!vars
    BY <2>2, Unseen DEF Begin, AddItem, Lookup, RemoveItem, CheckOut, Answer, Answers
  <2>3. ASSUME NEW r \in Requests, SelectCart(r) \/ LockCart(r) \/ Abort(r)
        PROVE  UNCHANGED Basket!vars
    BY <2>3, Unseen DEF SelectCart, LockCart, Abort, Answer, Answers
  <2>4. ASSUME NEW r \in Requests,
               CreateCart(r) \/ WriteAdd(r) \/ WriteRemove(r) \/ WriteCheckout(r)
        PROVE  [Basket!Next]_Basket!vars
    <3>1. CASE Answer(r, "ok")
      BY <2>4, <3>1, CreateRefines, WriteAddRefines, WriteRemoveRefines,
         WriteCheckoutRefines
    <3>2. CASE ~Answer(r, "ok")
      BY <2>4, <3>2, Unseen
         DEF CreateCart, WriteAdd, WriteRemove, WriteCheckout, Answer, Answers
    <3> QED BY <3>1, <3>2
  <2> QED BY <2>1, <2>2, <2>3, <2>4 DEF Next, Proceed
<1> QED
  BY <1>1, CartInitRefines, CartInvariance, PTL
     DEF Spec, CartRefined, Basket!Spec

=============================================================================
