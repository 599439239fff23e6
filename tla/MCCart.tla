------------------------------- MODULE MCCart -------------------------------
(* Two invocations of update_cart, two carts, one product they share, and a *)
(* rate counter in their table.                                             *)
EXTENDS InventoryListing

CONSTANTS w1, w2, c1, c2, hub, window

MCSkus == {hub}
MCWorkers == {w1, w2}
MCCarts == {c1, c2}
=============================================================================
