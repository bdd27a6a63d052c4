--------------------------------- MODULE Cart ---------------------------------
(***************************************************************************)
(* The cart of one user of checkout-service under concurrent requests: add *)
(* an item, remove an item, check out.  Every statement of the code        *)
(* filters on the user, so users do not interact.                          *)
(*                                                                         *)
(* Each request runs one PostgreSQL transaction at READ COMMITTED.  It     *)
(* looks for the active cart (`seen' is what the snapshot of its SELECT    *)
(* ... FOR UPDATE contains), waits for the row lock, has its condition     *)
(* evaluated again on the row as it is by then, reads the items, and       *)
(* writes.  The lock is held from the read to the end of the transaction,  *)
(* which is when the writes become visible: the last step of a request     *)
(* stands for its writes and its commit, because what another request      *)
(* could see of uncommitted writes only makes it wait.                     *)
(***************************************************************************)
EXTENDS Naturals, FiniteSets, Functions

CONSTANTS
    Requests,      \* the HTTP requests of the user, each used once
    Asks,          \* Asks[r]: the kinds of request that r may be (all three in the code)
    Products,      \* the products of the catalogue
    Quantities,    \* the quantities a request asks for
    Price,         \* Price[p] in cents; the catalogue has no update
    MaxCents,      \* the largest amount of money (9999999999 in the code)
    MaxQuantity,   \* the largest value of the quantity column (int: 2^31-1)
    MaxAttempts,   \* MAX_TRANSACTION_ATTEMPTS (3 in the code)
    NoCart,        \* no active cart was found
    NoItem         \* the id of an item that is not there

ASSUME CartAssumption ==
    /\ IsFiniteSet(Requests)
    /\ Asks \in [Requests -> SUBSET {"add", "remove", "checkout"}]
    /\ Quantities \subseteq Nat \ {0}
    /\ Price \in [Products -> Nat]
    /\ MaxCents \in Nat
    /\ MaxQuantity \in Nat
    /\ MaxAttempts \in Nat \ {0}
    /\ NoCart \notin Requests
    /\ NoItem \notin Requests

VARIABLES
    cart,      \* cart[c]: the cart that request c created
    orders,    \* orders[r]: the order that request r inserted
    pc,        \* pc[r]: the step request r is at
    op,        \* op[r]: what it asks for
    attempt,   \* attempt[r]: which run of its transaction this is
    seen,      \* seen[r]: the active cart its snapshot contains
    view,      \* view[r]: the cart it has read under the lock
    answer     \* answer[r]: how it was answered

cartVars == <<cart, orders, pc, op, attempt, seen, view, answer>>

\* The row of cart_item for a product: quantity 0 stands for no row.  The id of
\* an item is the request that inserted it.
Item == [id : Requests \cup {NoItem}, quantity : Nat]

NoItems == [p \in Products |-> [id |-> NoItem, quantity |-> 0]]

CartRow ==
    [ status : {"none", "active", "completed"}, items : [Products -> Item],
      total : Nat ]

NoCartRow == [status |-> "none", items |-> NoItems, total |-> 0]

\* The order and the items of its payment message; cart is NoCart before it exists.
OrderRow == [ cart : Requests \cup {NoCart}, items : [Products -> Item], total : Nat ]

NoOrderRow == [cart |-> NoCart, items |-> NoItems, total |-> 0]

AddOp == [kind : {"add"}, product : Products, quantity : Quantities]

RemoveOp == [kind : {"remove"}, item : Requests]

CheckoutOp == [kind |-> "checkout"]

NoOp == [kind |-> "none"]

CartSteps == {"start", "select", "lock", "create", "write", "done"}

Answers == {"none", "ok", "refused", "invalid", "not found", "conflict", "error"}

Init ==
    /\ cart = [c \in Requests |-> NoCartRow]
    /\ orders = [r \in Requests |-> NoOrderRow]
    /\ pc = [r \in Requests |-> "start"]
    /\ op = [r \in Requests |-> NoOp]
    /\ attempt = [r \in Requests |-> 1]
    /\ seen = [r \in Requests |-> NoCart]
    /\ view = [r \in Requests |-> NoCartRow]
    /\ answer = [r \in Requests |-> "none"]

\* calculateTotal: the sum of the subtotals.
Total(items) ==
    FoldFunction(LAMBDA a, b : a + b, 0,
                 [p \in Products |-> Price[p] * items[p].quantity])

\* multiplyMoney, the quantity column and calculateTotal accept the item of p.
Storable(items, p) ==
    /\ Price[p] * items[p].quantity <= MaxCents
    /\ items[p].quantity <= MaxQuantity
    /\ Total(items) \in 0 .. MaxCents

Active(c) == cart[c].status = "active"

\* Faulty variants: SELECT without FOR UPDATE; a lock that outlives its transaction.
LockedNever(c) == FALSE
LockedForever(c) == \E r \in Requests : pc[r] \in {"write", "done"} /\ seen[r] = c

\* A transaction that has read cart c holds its lock until it ends.
Locked(c) == \E r \in Requests : pc[r] = "write" /\ seen[r] = c

Goto(r, step) == pc' = [pc EXCEPT ![r] = step]

Answer(r, a) == Goto(r, "done") /\ answer' = [answer EXCEPT ![r] = a]

-----------------------------------------------------------------------------
(* The requests. *)

\* getProduct gives the product, which must be active, or ends the request: 404,
\* 422 for a product that is not well formed, 503 for any other failure.
Lookup(r) ==
    \/ Goto(r, "select") /\ UNCHANGED answer
    \/ Answer(r, "refused")

\* addItem before its transaction.
AddItem(r, p, q) ==
    /\ pc[r] = "start"
    /\ op' = [op EXCEPT ![r] = [kind |-> "add", product |-> p, quantity |-> q]]
    /\ Lookup(r)
    /\ UNCHANGED <<cart, orders, attempt, seen, view>>

RemoveItem(r, i) ==
    /\ pc[r] = "start"
    /\ op' = [op EXCEPT ![r] = [kind |-> "remove", item |-> i]]
    /\ Goto(r, "select")
    /\ UNCHANGED <<cart, orders, attempt, seen, view, answer>>

CheckOut(r) ==
    /\ pc[r] = "start"
    /\ op' = [op EXCEPT ![r] = CheckoutOp]
    /\ Goto(r, "select")
    /\ UNCHANGED <<cart, orders, attempt, seen, view, answer>>

-----------------------------------------------------------------------------
(* The transaction. *)

\* The snapshot of SELECT ... WHERE status = 'active' FOR UPDATE.
SelectCart(r) ==
    /\ pc[r] = "select"
    /\ \/ \E c \in Requests : Active(c) /\ seen' = [seen EXCEPT ![r] = c]
       \/ (\A c \in Requests : ~Active(c)) /\ seen' = [seen EXCEPT ![r] = NoCart]
    /\ Goto(r, "lock")
    /\ UNCHANGED <<cart, orders, op, attempt, view, answer>>

\* A faulty variant: the row is used as it was when the wait began.
LockCartStale(r) ==
    /\ pc[r] = "lock"
    /\ \/ /\ seen[r] # NoCart
          /\ ~Locked(seen[r])
          /\ view' = [view EXCEPT ![r] = cart[seen[r]]]
          /\ Goto(r, "write")
          /\ UNCHANGED answer
       \/ /\ seen[r] = NoCart
          /\ IF op[r].kind = "add" THEN Goto(r, "create") /\ UNCHANGED answer
                                   ELSE Answer(r, "not found")
          /\ UNCHANGED view
    /\ UNCHANGED <<cart, orders, op, attempt, seen>>

\* The lock is granted and the row checked again: a cart completed meanwhile is
\* not returned, and neither is one created meanwhile.
LockCart(r) ==
    /\ pc[r] = "lock"
    /\ \/ /\ seen[r] # NoCart
          /\ ~Locked(seen[r])
          /\ Active(seen[r])
          /\ view' = [view EXCEPT ![r] = cart[seen[r]]]
          /\ Goto(r, "write")
          /\ UNCHANGED answer
       \/ /\ seen[r] # NoCart => ~Locked(seen[r]) /\ ~Active(seen[r])
          /\ IF op[r].kind = "add" THEN Goto(r, "create") /\ UNCHANGED answer
                                   ELSE Answer(r, "not found")
          /\ UNCHANGED view
    /\ UNCHANGED <<cart, orders, op, attempt, seen>>

\* items with the quantity that request r asks for added.
WithItem(r, items) ==
    LET p == op[r].product
        old == items[p]
    IN  [items EXCEPT ![p] =
           [id |-> IF old.quantity = 0 THEN r ELSE old.id,
            quantity |-> old.quantity + op[r].quantity]]

\* A faulty variant: a unique violation is reported at once.
CreateCartOnce(r) ==
    /\ pc[r] = "create"
    /\ LET items == WithItem(r, NoItems)
       IN  \/ /\ \A c \in Requests : ~Active(c)
              /\ Storable(items, op[r].product)
              /\ cart' = [cart EXCEPT ![r] = [status |-> "active", items |-> items,
                                              total |-> Total(items)]]
              /\ Answer(r, "ok")
           \/ /\ \E c \in Requests : Active(c)
              /\ Answer(r, "conflict")
              /\ UNCHANGED cart
    /\ UNCHANGED <<orders, op, attempt, seen, view>>

\* No active cart was found: one is inserted with the item.  UQ_cart_active_user
\* makes the insert fail when there is one by now; the transaction is then tried
\* again, MaxAttempts times in all.
CreateCart(r) ==
    /\ pc[r] = "create"
    /\ LET items == WithItem(r, NoItems)
           unique == \A c \in Requests : ~Active(c)
       IN  \/ /\ unique
              /\ Storable(items, op[r].product)
              /\ cart' = [cart EXCEPT ![r] = [status |-> "active", items |-> items,
                                              total |-> Total(items)]]
              /\ Answer(r, "ok")
              /\ UNCHANGED attempt
           \/ /\ unique
              /\ ~Storable(items, op[r].product)
              /\ Answer(r, "invalid")
              /\ UNCHANGED <<cart, attempt>>
           \/ /\ ~unique
              /\ attempt[r] < MaxAttempts
              /\ attempt' = [attempt EXCEPT ![r] = attempt[r] + 1]
              /\ Goto(r, "select")
              /\ UNCHANGED <<cart, answer>>
           \/ /\ ~unique
              /\ attempt[r] = MaxAttempts
              /\ Answer(r, "conflict")
              /\ UNCHANGED <<cart, attempt>>
    /\ UNCHANGED <<orders, op, seen, view>>

\* save of the item and of the cart, both computed from what was read, the total
\* being one that calculateTotal accepts.
Saved(r, items) ==
    /\ Total(items) \in 0 .. MaxCents
    /\ cart' = [cart EXCEPT ![seen[r]] =
                  [cart[seen[r]] EXCEPT !.items = items, !.total = Total(items)]]

\* A faulty variant: the total is not checked against the column.
WriteAddUnchecked(r) ==
    /\ pc[r] = "write"
    /\ op[r].kind = "add"
    /\ LET items == WithItem(r, view[r].items)
       IN  cart' = [cart EXCEPT ![seen[r]] =
                      [cart[seen[r]] EXCEPT !.items = items, !.total = Total(items)]]
    /\ Answer(r, "ok")
    /\ UNCHANGED <<orders, op, attempt, seen, view>>

\* addItemInTransaction with an active cart.
WriteAdd(r) ==
    /\ pc[r] = "write"
    /\ op[r].kind = "add"
    /\ LET items == WithItem(r, view[r].items)
       IN  \/ /\ Storable(items, op[r].product)
              /\ Saved(r, items)
              /\ Answer(r, "ok")
           \/ /\ ~Storable(items, op[r].product)
              /\ Answer(r, "invalid")
              /\ UNCHANGED cart
    /\ UNCHANGED <<orders, op, attempt, seen, view>>

\* The item is in the cart that was read, under the id the request names.
Holds(items, p, i) == items[p].quantity # 0 /\ items[p].id = i

\* A faulty variant: the total is summed before the item is taken out.
WriteRemoveStaleTotal(r) ==
    /\ pc[r] = "write"
    /\ op[r].kind = "remove"
    /\ \/ \E p \in Products :
            /\ Holds(view[r].items, p, op[r].item)
            /\ cart' = [cart EXCEPT ![seen[r]].items[p] = [id |-> NoItem, quantity |-> 0]]
            /\ Answer(r, "ok")
       \/ /\ \A p \in Products : ~Holds(view[r].items, p, op[r].item)
          /\ Answer(r, "not found")
          /\ UNCHANGED cart
    /\ UNCHANGED <<orders, op, attempt, seen, view>>

\* removeItem: an item of another cart, or one removed meanwhile, is not found.
WriteRemove(r) ==
    /\ pc[r] = "write"
    /\ op[r].kind = "remove"
    /\ \/ \E p \in Products :
            /\ Holds(view[r].items, p, op[r].item)
            /\ Saved(r, [view[r].items EXCEPT ![p] = [id |-> NoItem, quantity |-> 0]])
            /\ Answer(r, "ok")
       \/ /\ \A p \in Products : ~Holds(view[r].items, p, op[r].item)
          /\ Answer(r, "not found")
          /\ UNCHANGED cart
    /\ UNCHANGED <<orders, op, attempt, seen, view>>

\* validateCart
Chargeable(row) ==
    /\ \E p \in Products : row.items[p].quantity # 0
    /\ row.total > 0

\* completeCheckout: the order takes the total of the row and the items that were
\* read, and the cart is completed.
WriteCheckout(r) ==
    /\ pc[r] = "write"
    /\ op[r].kind = "checkout"
    /\ \/ /\ Chargeable(view[r])
          /\ orders' = [orders EXCEPT ![r] =
                          [cart |-> seen[r], items |-> view[r].items,
                           total |-> view[r].total]]
          /\ cart' = [cart EXCEPT ![seen[r]] =
                        [cart[seen[r]] EXCEPT !.status = "completed"]]
          /\ Answer(r, "ok")
       \/ /\ ~Chargeable(view[r])
          /\ Answer(r, "invalid")
          /\ UNCHANGED <<cart, orders>>
    /\ UNCHANGED <<op, attempt, seen, view>>

\* The database or the process fails: the transaction is rolled back, its lock
\* released, and the request is not tried again.
Abort(r) ==
    /\ pc[r] \in {"select", "lock", "create", "write"}
    /\ Answer(r, "error")
    /\ UNCHANGED <<cart, orders, op, attempt, seen, view>>

-----------------------------------------------------------------------------

Begin(r) ==
    \/ "add" \in Asks[r] /\ \E p \in Products, q \in Quantities : AddItem(r, p, q)
    \/ "remove" \in Asks[r] /\ \E i \in Requests : RemoveItem(r, i)
    \/ "checkout" \in Asks[r] /\ CheckOut(r)

Proceed(r) ==
    \/ SelectCart(r)
    \/ LockCart(r)
    \/ CreateCart(r)
    \/ WriteAdd(r)
    \/ WriteRemove(r)
    \/ WriteCheckout(r)

Next == \E r \in Requests : Begin(r) \/ Proceed(r) \/ Abort(r)

Spec == Init /\ [][Next]_cartVars

(* The event loop and the database bring every started transaction forward. *)
FairSpec == Spec /\ \A r \in Requests : WF_cartVars(Proceed(r))

-----------------------------------------------------------------------------
(* Invariants. *)

\* Rows, requests and money stay in their columns: no amount exceeds MaxCents.
TypeOK ==
    /\ cart \in [Requests -> CartRow]
    /\ orders \in [Requests -> OrderRow]
    /\ pc \in [Requests -> CartSteps]
    /\ op \in [Requests -> AddOp \cup RemoveOp \cup {CheckoutOp, NoOp}]
    /\ attempt \in [Requests -> 1 .. MaxAttempts]
    /\ seen \in [Requests -> Requests \cup {NoCart}]
    /\ view \in [Requests -> CartRow]
    /\ answer \in [Requests -> Answers]
    /\ \A c \in Requests : cart[c].total <= MaxCents

\* The total of a cart is the sum of its items in every committed state, however
\* additions, removals and checkouts interleave.
TotalsAgree ==
    \A c \in Requests :
        cart[c].status # "none" => cart[c].total = Total(cart[c].items)

\* RN-03 and RN-04 of the checkout spec: an order is placed for a completed cart,
\* with exactly the items and the total that cart has, and no cart is ordered twice.
OrdersMatchCarts ==
    /\ \A r \in Requests : orders[r].cart # NoCart =>
         LET c == cart[orders[r].cart]
         IN  /\ c.status = "completed"
             /\ orders[r].items = c.items
             /\ orders[r].total = Total(c.items)
    /\ \A r, s \in Requests :
         orders[r].cart = orders[s].cart /\ orders[r].cart # NoCart => r = s
    /\ \A c \in Requests : cart[c].status = "completed" =>
         \E r \in Requests : orders[r].cart = c

Completed == {c \in Requests : cart[c].status = "completed"}

\* An addition gives up with 409 only after as many carts of the user were
\* completed under it as there are retries: concurrent additions alone never
\* make one another fail.
ConflictNeedsCheckouts ==
    \A r \in Requests : answer[r] = "conflict" =>
        Cardinality(Completed) >= MaxAttempts - 1

-----------------------------------------------------------------------------
(* The inductive invariant behind them.                                      *)

\* UQ_cart_active_user: one active cart at a time.
OneActiveCart == \A c, d \in Requests : Active(c) /\ Active(d) => c = d

\* A transaction that holds the lock has read the active cart as it is, and no
\* other transaction holds a lock.
LockHolders ==
    /\ \A r \in Requests : pc[r] = "write" =>
         seen[r] \in Requests /\ Active(seen[r]) /\ view[r] = cart[seen[r]]
    /\ \A r, s \in Requests : pc[r] = "write" /\ pc[s] = "write" => r = s

\* A request leaves something behind, or has taken effect, only when it is done;
\* only an addition creates a cart.
EffectsAreLast ==
    \A r \in Requests :
        /\ pc[r] # "done" =>
             /\ cart[r].status = "none"
             /\ orders[r] = NoOrderRow
             /\ answer[r] = "none"
        /\ pc[r] = "create" => op[r].kind = "add"

CartInv ==
    /\ TypeOK
    /\ TotalsAgree
    /\ OrdersMatchCarts
    /\ OneActiveCart
    /\ LockHolders
    /\ EffectsAreLast

Created == {c \in Requests : cart[c].status # "none"}

\* The carts that can have been completed when request r no longer waits.
CompletedBy(r) ==
    IF pc[r] = "lock" /\ seen[r] # NoCart THEN Completed \cup {seen[r]} ELSE Completed

\* Every run of a transaction but the first follows a cart of its own; by the time
\* the insert is tried, those carts are completed.
RetriesFollowCarts ==
    \A r \in Requests :
        /\ Cardinality(Created) >= attempt[r] - 1
        /\ pc[r] \in {"lock", "create"} => Cardinality(CompletedBy(r)) >= attempt[r] - 1
        /\ (pc[r] = "lock" /\ seen[r] # NoCart) => seen[r] \in Created

ConflictInv ==
    /\ CartInv
    /\ RetriesFollowCarts
    /\ ConflictNeedsCheckouts

-----------------------------------------------------------------------------
(* Action and liveness properties. *)

\* Nothing changes a cart once it is completed: a request that was waiting for
\* the lock, or that read the cart before, must not write to it.
CompletedCartsFrozen ==
    [][\A c \in Requests : cart[c].status = "completed" => cart'[c] = cart[c]]_cartVars

\* Every request that was started is answered: lock waits and retries end.
RequestsAnswered ==
    \A r \in Requests : pc[r] # "start" ~> pc[r] = "done"

-----------------------------------------------------------------------------
(* The requests are serializable: the detailed cart implements ShoppingCart. *)

QuantitiesOf(items) == [p \in Products |-> items[p].quantity]

ActiveItems ==
    IF \E c \in Requests : Active(c)
    THEN cart[CHOOSE c \in Requests : Active(c)].items
    ELSE NoItems

Basket ==
    INSTANCE ShoppingCart WITH
        basket <- QuantitiesOf(ActiveItems),
        placed <- [r \in Requests |-> QuantitiesOf(orders[r].items)],
        applied <- {r \in Requests : answer[r] = "ok"}

CartRefined == Basket!Spec

=============================================================================
