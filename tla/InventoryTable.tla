--------------------------- MODULE InventoryTable ---------------------------
(***************************************************************************)
(* The single DynamoDB table seen through its stream                       *)
(* (stacks/data_stack.py).  The table holds the PRODUCT#<sku>/INVENTORY    *)
(* items of the shop next to cart lines and rate-limit counters; every     *)
(* write that changes an item appends one record with the old and the new  *)
(* image (StreamViewType.NEW_AND_OLD_IMAGES) to the stream, in write       *)
(* order.  A write that leaves the item as it was appends nothing.         *)
(*                                                                         *)
(* `log' is everything ever written to the stream: what the event source   *)
(* mapping has consumed is a prefix of it (StreamProcessor).               *)
(***************************************************************************)
EXTENDS Integers, Sequences

CONSTANTS
    Skus,       \* the products
    Absent,     \* "the item, or its attribute, is not there"
    Other       \* the key of any stream record whose SK is not INVENTORY

ASSUME TableAssumption ==
    /\ Absent \notin Int
    /\ Other \notin Skus

VARIABLES
    stock,      \* stock[s]: the stock attribute of product s
    log         \* the stream: all records, in the order of the writes

tableVars == <<stock, log>>

Level == Int \cup {Absent}

\* A cart line (CART#../ITEM#..) or a rate-limit counter (RL#../WINDOW#..)
\* changed: to the consumer one is like the other, and no stock is in them.
OtherRecord == [key |-> Other, old |-> Absent, new |-> Absent]

Record == [key : Skus, old : Level, new : Level] \cup {OtherRecord}

\* One write that leaves product s with stock n.
PutStock(s, n) ==
    /\ stock' = [stock EXCEPT ![s] = n]
    /\ log' = IF n = stock[s]
                THEN log
                ELSE Append(log, [key |-> s, old |-> stock[s], new |-> n])

\* One write to an item that is not a product; changed says if it differs.
PutOther(changed) ==
    /\ log' = IF changed THEN Append(log, OtherRecord) ELSE log
    /\ UNCHANGED stock

TableInit ==
    /\ stock = [s \in Skus |-> Absent]
    /\ log = <<>>

TableTypeOK ==
    /\ stock \in [Skus -> Level]
    /\ log \in Seq(Record)
=============================================================================
