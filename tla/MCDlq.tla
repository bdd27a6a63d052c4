--------------------------------- MODULE MCDlq ---------------------------------
(* Dlq with concrete calls and orders for TLC. *)
EXTENDS Dlq

CONSTANTS k1, k2, o1, o2

OneCall   == {k1}
TwoCalls  == {k1, k2}
TwoOrders == {o1, o2}

=============================================================================
