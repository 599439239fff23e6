--------------------------- MODULE InventoryListing ---------------------------
(***************************************************************************)
(* get_inventory (lambda/inventory/handler.py) while carts are being       *)
(* filled: GET /inventory/{sku} reads one item, GET /inventory scans the   *)
(* table that products share with cart lines and with the authorizer's     *)
(* rate counters (RateLimiter).  The scan is filtered, but only after a    *)
(* page of items has been read, and one page is all the handler asks for.  *)
(*                                                                         *)
(* DynamoDB is external: a scan visits the keys one after the other in an  *)
(* order of its own while others write, and a page ends at a limit (1 MB;  *)
(* here a number of items).  A read that does not ask for consistency may  *)
(* return an earlier version of the item.                                  *)
(***************************************************************************)
EXTENDS Cart, FiniteSets

CONSTANTS
    PageItems,      \* the items that fit in one page of a scan
    Counters        \* the keys of rate counters, stored at any time

ASSUME PageAssumption == PageItems \in Nat

Keys == Skus \cup Line \cup Counters

ASSUME KeysAssumption == Skus \cap (Line \cup Counters) = {}

VARIABLE get    \* Idle, or the invocation of get_inventory

listingVars == <<tableVars, cartVars, get>>

\* What a read of product s may return: a version it had, in the past or now.
Versions(s) == {Absent} \cup {log[i].new : i \in {j \in DOMAIN log : log[j].key = s}}

Products == {s \in Skus : stock[s] # Absent}

\* GET /inventory.  before remembers products stored long enough ago for every
\* read to find them.
Scan ==
    /\ get = Idle
    /\ \E settled \in SUBSET Products :
           get' = [todo |-> Keys, read |-> 0, before |-> settled,
                   items |-> [s \in Skus |-> Absent], pc |-> "scanning"]

\* The item of one more key, if there is one, is read into the page, and listed
\* when the filter SK = INVENTORY lets it through.
Visit(k) ==
    /\ get # Idle /\ get.pc = "scanning"
    /\ k \in get.todo /\ get.read < PageItems
    /\ \/ /\ k \in Skus
          /\ \E level \in Versions(k) :
                 /\ k \in get.before => level # Absent
                 /\ get' = [get EXCEPT !.todo = @ \ {k},
                                       !.read = IF level = Absent THEN @ ELSE @ + 1,
                                       !.items[k] = level]
       \/ /\ k \in Line
          /\ get' = [get EXCEPT !.todo = @ \ {k},
                                !.read = IF cart[k] = Absent THEN @ ELSE @ + 1]
       \/ /\ k \in Counters
          /\ \E n \in {get.read, get.read + 1} :
                 get' = [get EXCEPT !.todo = @ \ {k}, !.read = n]

\* Slip: a Limit is taken for the number of products wanted.
PageEndCapped ==
    /\ get # Idle /\ get.pc = "scanning"
    /\ get.todo = {} \/ get.read >= PageItems - 1
    /\ get' = [get EXCEPT !.pc = "answered"]

\* resp["Items"] is the answer, and LastEvaluatedKey is not looked at.
PageEnd ==
    /\ get # Idle /\ get.pc = "scanning"
    /\ get.todo = {} \/ get.read = PageItems
    /\ get' = [get EXCEPT !.pc = "answered"]

\* GET /inventory/{sku}: the item, or 404; only the state of one product is read.
Lookup(s) ==
    /\ get = Idle
    /\ \E level \in Versions(s) :
           get' = [todo |-> {}, read |-> 1, before |-> {}, pc |-> "answered",
                   items |-> [p \in Skus |-> IF p = s THEN level ELSE Absent]]

Answered ==
    /\ get # Idle /\ get.pc = "answered"
    /\ get' = Idle

ListingInit == CartInit /\ get = Idle

ListingNext ==
    \/ CartNext /\ UNCHANGED get
    \/ /\ \/ Scan
          \/ \E k \in Keys : Visit(k)
          \/ PageEnd
          \/ \E s \in Skus : Lookup(s)
          \/ Answered
       /\ UNCHANGED <<tableVars, cartVars>>

ListingSpec == ListingInit /\ [][ListingNext]_listingVars

----------------------------------------------------------------------------
\* What a listing may leave out, with lines and products being stored while it
\* runs: a product stored well before the request is missing only when a full
\* page of other items, cart lines and rate counters among them, came before it.
ListingCompletePage ==
    get # Idle /\ get.pc = "answered" =>
        \A s \in get.before :
            get.items[s] = Absent => get.read = PageItems
=============================================================================
