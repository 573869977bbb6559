------------------------------- MODULE MCSync -------------------------------
(***************************************************************************)
(* Catalogue synchronisation on a small instance.                          *)
(***************************************************************************)
EXTENDS CatalogSync

OpenCart == [looksAhead |-> TRUE, offset |-> 0]
WooCommerce == [looksAhead |-> FALSE, offset |-> 1]

OneShop == {OpenCart}
BothShops == {OpenCart, WooCommerce}

EventsOfEach == [s \in Shops |-> IF s.looksAhead THEN 3 ELSE 2]

=============================================================================
