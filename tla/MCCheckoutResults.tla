-------------------------- MODULE MCCheckoutResults --------------------------
(* CheckoutResults with concrete fault kinds for TLC. *)
EXTENDS CheckoutResults

CONSTANTS o1

OneOrder  == {o1}
AllFaults == AllFaultKinds

=============================================================================
