------------------------- MODULE MCGatewayRegistration -------------------------
(* GatewayRegistration with concrete requests and e-mails for TLC. *)
EXTENDS GatewayRegistration

CONSTANTS r1, r2, r3, e1, e2

ThreeRequests == {r1, r2, r3}

\* r1 and r2 register the same e-mail.
MCEmail == [r \in Requests |-> IF r = r3 THEN e2 ELSE e1]

=============================================================================
