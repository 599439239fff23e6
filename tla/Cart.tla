-------------------------------- MODULE Cart --------------------------------
(***************************************************************************)
(* update_cart (lambda/inventory/handler.py): POST /cart puts the cart     *)
(* line, then, with a second and separate call, takes qty off the stock.   *)
(* Nothing ties the two writes together: an invocation that dies between   *)
(* them leaves a line that no stock was taken for, and a client that sends *)
(* the request again overwrites the line but takes stock a second time.    *)
(*                                                                         *)
(* An invocation is a Worker; between its two writes others run.  Where    *)
(* the response is lost after the second write the state is that of a      *)
(* success, and where put_item fails nothing happened: neither needs an    *)
(* action, and a client's retry is just a further AddLine.                 *)
(***************************************************************************)
EXTENDS InventoryTable, FiniteSets, Functions

CONSTANTS
    Workers,    \* concurrent invocations of update_cart
    Carts,      \* cart ids
    Qtys,       \* the quantities requested; int(body.get("qty", 1)) may be < 1
    Idle,       \* no invocation in flight
    MaxLog      \* bound: how many stream records a behaviour writes

ASSUME CartAssumption ==
    /\ Qtys \subseteq Int
    /\ MaxLog \in Nat

\* So many ids are ever in use.
ASSUME CartsAreFew == IsFiniteSet(Carts)

Line == Carts \X Skus

Request == [line : Line, qty : Qtys]

ASSUME IdleAssumption == Idle \notin Request

VARIABLES
    cart,       \* cart[l]: the qty attribute of cart line l
    pending,    \* pending[w]: the request whose decrement w still has to do
    taken,      \* history: the units that requests for a line were to take
    abandoned   \* history: lines whose invocation died between its writes

cartVars == <<cart, pending, taken, abandoned>>

Units(level) == IF level = Absent THEN 0 ELSE level

\* Slip: the line accumulates instead of being overwritten.
AddLineMerged(w, l, q) ==
    /\ pending[w] = Idle
    /\ Len(log) < MaxLog
    /\ PutOther(TRUE)
    /\ cart' = [cart EXCEPT ![l] = Units(@) + q]
    /\ pending' = [pending EXCEPT ![w] = [line |-> l, qty |-> q]]
    /\ UNCHANGED <<taken, abandoned>>

\* The first write: put_item overwrites the line, whatever it held.
AddLine(w, l, q) ==
    /\ pending[w] = Idle
    /\ Len(log) < MaxLog
    /\ PutOther(cart[l] # q)
    /\ cart' = [cart EXCEPT ![l] = q]
    /\ pending' = [pending EXCEPT ![w] = [line |-> l, qty |-> q]]
    /\ UNCHANGED <<taken, abandoned>>

\* SET stock = if_not_exists(stock, :z) - :q, with :z = 0.
Decremented(level, q) == Units(level) - q

\* Slip: the handler refuses what stock cannot cover, and keeps the line.
DecrementIfEnough(w) ==
    /\ pending[w] # Idle
    /\ Len(log) < MaxLog
    /\ LET l == pending[w].line
           q == pending[w].qty
       IN  IF Units(stock[l[2]]) >= q
             THEN /\ PutStock(l[2], Decremented(stock[l[2]], q))
                  /\ taken' = [taken EXCEPT ![l] = @ + q]
             ELSE UNCHANGED <<tableVars, taken>>
    /\ pending' = [pending EXCEPT ![w] = Idle]
    /\ UNCHANGED <<cart, abandoned>>

\* Slip: the quantity is read back from the line, which another request may have
\* overwritten meanwhile.
DecrementByLine(w) ==
    /\ pending[w] # Idle
    /\ Len(log) < MaxLog
    /\ LET l == pending[w].line
       IN  /\ PutStock(l[2], Decremented(stock[l[2]], cart[l]))
           /\ taken' = [taken EXCEPT ![l] = @ + pending[w].qty]
    /\ pending' = [pending EXCEPT ![w] = Idle]
    /\ UNCHANGED <<cart, abandoned>>

\* The second write, evaluated by DynamoDB atomically on the stored item.
Decrement(w) ==
    /\ pending[w] # Idle
    /\ Len(log) < MaxLog
    /\ LET l == pending[w].line
           s == l[2]
           q == pending[w].qty
       IN  /\ PutStock(s, Decremented(stock[s], q))
           /\ taken' = [taken EXCEPT ![l] = @ + q]
    /\ pending' = [pending EXCEPT ![w] = Idle]
    /\ UNCHANGED <<cart, abandoned>>

\* The invocation dies (Lambda timeout) or update_item raises: a 500 with the
\* line already stored.
Abandon(w) ==
    /\ pending[w] # Idle
    /\ abandoned' = abandoned \cup {pending[w].line}
    /\ pending' = [pending EXCEPT ![w] = Idle]
    /\ UNCHANGED <<cart, taken>>
    /\ UNCHANGED tableVars

CartInit ==
    /\ TableInit
    /\ cart = [l \in Line |-> Absent]
    /\ pending = [w \in Workers |-> Idle]
    /\ taken = [l \in Line |-> 0]
    /\ abandoned = {}

CartNext ==
    \E w \in Workers :
        \/ \E l \in Line, q \in Qtys : AddLine(w, l, q)
        \/ Decrement(w)
        \/ Abandon(w)

\* update_cart alone on the table, which nobody else writes.
CartSpec ==
    /\ CartInit
    /\ [][CartNext]_<<tableVars, cartVars>>

----------------------------------------------------------------------------
\* The variables of update_cart have their types.
CartTypeOK ==
    /\ cart \in [Line -> Qtys \cup {Absent}]
    /\ pending \in [Workers -> Request \cup {Idle}]
    /\ taken \in [Line -> Int]
    /\ abandoned \subseteq Line

\* The two writes of update_cart, interleaved with those of others on the same
\* line: as long as no quantity is below 1, a stored line has had at least that
\* many units taken off the stock, or the invocation that will take them is in
\* flight, or one died between its writes and the line is an orphan.
CartLinesBacked ==
    (\A q \in Qtys : q >= 1) =>
        \A l \in Line :
            \/ cart[l] = Absent
            \/ taken[l] >= cart[l]
            \/ l \in abandoned
            \/ \E w \in Workers : pending[w] = [line |-> l, qty |-> cart[l]]

\* No units are lost or counted twice under interleaved requests: what is gone
\* from a product, which starts out absent, is what the finished requests for
\* its lines asked for, over all carts and however often a line was rewritten.
StockAccounted ==
    \A s \in Skus : -Units(stock[s]) = SumFunctionOnSet(taken, Carts \X {s})
=============================================================================
