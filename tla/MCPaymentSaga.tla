---------------------------- MODULE MCPaymentSaga ----------------------------
(* PaymentSaga with concrete amounts for TLC. *)
EXTENDS PaymentSaga

CONSTANTS w1, w2, o1, o2

OneWorker  == {w1}
TwoWorkers == {w1, w2}
OneOrder   == {o1}
TwoOrders  == {o1, o2}

\* 50.00 is approved, 10.99 is declined (the cents end in 99)
MCCents == [o \in Orders |-> IF o = o1 THEN 5000 ELSE 1099]

AllFaults    == AllFaultKinds
ServerFaults == {"crash", "db", "buffer"}

=============================================================================
