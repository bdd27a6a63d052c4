--------------------------- MODULE MCGatewayProducts ---------------------------
(* GatewayProducts with concrete requests for TLC: the creation and two reads,  *)
(* of all products, of the list of another seller, or of the product that the   *)
(* second attempt of the creation inserts, if it does.                          *)
EXTENDS GatewayProducts, TLC

CONSTANTS post, get1, get2

ThreeRequests == {post, get1, get2}
TwoLists      == {"/products", "/products/seller/other"}
OneItem       == {"/products/second"}

Rows == [ p \in TwoLists \cup OneItem |->
            CASE p = "/products"        -> {post} \X Attempts
              [] p = "/products/second" -> {<<post, 1>>}
              [] OTHER                  -> {} ]

\* The two reads do the same (no property is a liveness property).
ReadSymmetry == Permutations({get1, get2})

=============================================================================
