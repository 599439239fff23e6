------------------------- MODULE MCLowStockPipeline -------------------------
(* One product and two concurrent invocations of update_cart; thresholds   *)
(* and stocks in the proportions of the deployment (threshold 5, stock 6). *)
EXTENDS LowStockPipeline

CONSTANTS w1, w2, hub, demo

MCSkus == {hub}
MCWorkers == {w1, w2}
MCCarts == {demo}
MCSeed == [s \in MCSkus |-> 4]
=============================================================================
