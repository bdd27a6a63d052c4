---------------------------- MODULE ShoppingCart ----------------------------
(***************************************************************************)
(* What checkout-service promises a user about the cart: requests take     *)
(* effect one at a time and at most once each, and a checkout turns the    *)
(* whole basket, as it is at that moment, into one order.                  *)
(***************************************************************************)
EXTENDS Naturals

CONSTANTS Requests, Products, Quantities

VARIABLES
    basket,    \* basket[p]: how many of product p the user has put in
    placed,    \* placed[r]: the basket that request r turned into an order
    applied    \* the requests that took effect

vars == <<basket, placed, applied>>

Empty == [p \in Products |-> 0]

Init ==
    /\ basket = Empty
    /\ placed = [r \in Requests |-> Empty]
    /\ applied = {}

TakesEffect(r) ==
    /\ r \notin applied
    /\ applied' = applied \cup {r}

Add(r, p, q) ==
    /\ TakesEffect(r)
    /\ basket' = [basket EXCEPT ![p] = basket[p] + q]
    /\ UNCHANGED placed

Remove(r, p) ==
    /\ TakesEffect(r)
    /\ basket[p] # 0
    /\ basket' = [basket EXCEPT ![p] = 0]
    /\ UNCHANGED placed

Place(r) ==
    /\ TakesEffect(r)
    /\ basket # Empty
    /\ placed' = [placed EXCEPT ![r] = basket]
    /\ basket' = Empty

Next ==
    \E r \in Requests :
        \/ \E p \in Products, q \in Quantities : Add(r, p, q)
        \/ \E p \in Products : Remove(r, p)
        \/ Place(r)

Spec == Init /\ [][Next]_vars

=============================================================================
