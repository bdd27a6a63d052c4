--------------------------- MODULE MCGatewayCheckout ---------------------------
(* GatewayCheckout with one request for TLC. *)
EXTENDS GatewayCheckout

CONSTANT r1

=============================================================================
