-------------------------------- MODULE MCCart --------------------------------
(* Cart with concrete requests and prices for TLC. *)
EXTENDS Cart

CONSTANTS r1, r2, r3, r4, p1, p2

FourRequests == {r1, r2, r3, r4}
TwoProducts  == {p1, p2}
One          == {1}

\* Three additions against one checkout is the least that makes an addition give
\* up; r3 may do anything else in its stead.
MCAsks ==
    [r \in Requests |-> IF r \in {r1, r2} THEN {"add"}
                       ELSE IF r = r3 THEN {"add", "remove", "checkout"}
                       ELSE {"checkout"}]

\* Two p1, or one p1 and one p2, fit in MaxCents = 35; two p1 and one p2 do not.
MCPrice == [p \in Products |-> IF p = p1 THEN 10 ELSE 25]

=============================================================================
