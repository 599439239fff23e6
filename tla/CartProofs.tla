----------------------------- MODULE CartProofs -----------------------------
(***************************************************************************)
(* Theorems about update_cart and get_inventory, for every set of workers, *)
(* carts, products and quantities, every page size and every order of the  *)
(* reads.  The typing lemmas are used again in PipelineProofs.             *)
(***************************************************************************)
EXTENDS InventoryListing, FoldTheorems, SequenceTheorems, TLAPS

\* A step writes at most one record, behind all others.
LogExtended ==
    \/ log' = log
    \/ \E r \in Record : log' = Append(log, r)

\* What is in the stream stays there.
LEMMA ExtendedLog ==
    ASSUME TableTypeOK, LogExtended
    PROVE  /\ log' \in Seq(Record)
           /\ Len(log') >= Len(log)
           /\ \A i \in 1..Len(log) : log'[i] = log[i]
<1>1. ASSUME NEW r \in Record, log' = Append(log, r)
      PROVE  /\ log' \in Seq(Record)
             /\ Len(log') >= Len(log)
             /\ \A i \in 1..Len(log) : log'[i] = log[i]
  BY <1>1, AppendProperties DEF TableTypeOK
<1>2. CASE log' = log
  BY <1>2 DEF TableTypeOK
<1> QED
  BY <1>1, <1>2 DEF LogExtended

\* A write to a product keeps the table's types and only extends the log.
LEMMA PutStockType ==
    ASSUME TableTypeOK, NEW s \in Skus, NEW n \in Int, PutStock(s, n)
    PROVE  /\ TableTypeOK'
           /\ LogExtended
<1> DEFINE r == [key |-> s, old |-> stock[s], new |-> n]
<1>1. r \in Record
  BY DEF TableTypeOK, Record, Level, OtherRecord
<1>2. stock' \in [Skus -> Level]
  BY DEF TableTypeOK, PutStock, Level
<1>3. CASE n = stock[s]
  BY <1>2, <1>3 DEF TableTypeOK, PutStock, LogExtended
<1>4. CASE n # stock[s]
  <2>1. log' = Append(log, r)
    BY <1>4 DEF PutStock
  <2>2. LogExtended
    BY <1>1, <2>1 DEF LogExtended
  <2> QED
    BY <1>2, <2>2, ExtendedLog DEF TableTypeOK
<1> QED
  BY <1>3, <1>4

\* So does a write to any other item.
LEMMA PutOtherType ==
    ASSUME TableTypeOK, NEW changed \in BOOLEAN, PutOther(changed)
    PROVE  /\ TableTypeOK'
           /\ LogExtended
<1>1. OtherRecord \in Record
  BY DEF Record
<1>2. CASE changed
  <2>1. log' = Append(log, OtherRecord)
    BY <1>2 DEF PutOther
  <2>2. LogExtended
    BY <1>1, <2>1 DEF LogExtended
  <2> QED
    BY <2>2, ExtendedLog DEF TableTypeOK, PutOther
<1>3. CASE ~changed
  BY <1>3 DEF TableTypeOK, PutOther, LogExtended
<1> QED
  BY <1>2, <1>3

\* update_cart keeps its types and those of the table it writes to.
LEMMA CartNextType ==
    ASSUME TableTypeOK, CartTypeOK, CartNext
    PROVE  /\ TableTypeOK'
           /\ CartTypeOK'
           /\ LogExtended
<1>1. PICK w \in Workers :
        \/ \E l \in Line, q \in Qtys : AddLine(w, l, q)
        \/ Decrement(w)
        \/ Abandon(w)
  BY DEF CartNext
<1>2. ASSUME NEW l \in Line, NEW q \in Qtys, AddLine(w, l, q)
      PROVE  /\ TableTypeOK'
             /\ CartTypeOK'
             /\ LogExtended
  <2>1. PutOther(cart[l] # q)
    BY <1>2 DEF AddLine
  <2>2. (cart[l] # q) \in BOOLEAN
    OBVIOUS
  <2>3. [line |-> l, qty |-> q] \in Request
    BY DEF Request
  <2>4. CartTypeOK'
    BY <1>2, <2>3 DEF AddLine, CartTypeOK
  <2> QED
    BY <2>1, <2>2, <2>4, PutOtherType
<1>3. ASSUME Decrement(w)
      PROVE  /\ TableTypeOK'
             /\ CartTypeOK'
             /\ LogExtended
  <2> DEFINE l == pending[w].line
             q == pending[w].qty
  <2>1. pending[w] \in Request
    BY <1>3 DEF Decrement, CartTypeOK
  <2>2. l \in Line /\ q \in Int /\ l[2] \in Skus
    BY <2>1, CartAssumption DEF Request, Line
  <2>3. Decremented(stock[l[2]], q) \in Int
    BY <2>2 DEF TableTypeOK, Level, Decremented, Units
  <2>4. PutStock(l[2], Decremented(stock[l[2]], q))
    BY <1>3 DEF Decrement
  <2>5. CartTypeOK'
    BY <1>3, <2>2 DEF Decrement, CartTypeOK
  <2> QED
    BY <2>2, <2>3, <2>4, <2>5, PutStockType
<1>4. ASSUME Abandon(w)
      PROVE  /\ TableTypeOK'
             /\ CartTypeOK'
             /\ LogExtended
  <2>1. pending[w].line \in Line
    BY <1>4 DEF Abandon, CartTypeOK, Request
  <2> QED
    BY <1>4, <2>1 DEF Abandon, CartTypeOK, TableTypeOK, tableVars, LogExtended
<1> QED
  BY <1>1, <1>2, <1>3, <1>4

\* Type correctness of update_cart on its own table.
THEOREM CartTypeCorrect == CartSpec => [](TableTypeOK /\ CartTypeOK)
<1>1. CartInit => TableTypeOK /\ CartTypeOK
  BY DEF TableInit, CartInit, TableTypeOK, CartTypeOK, Level
<1>2. TableTypeOK /\ CartTypeOK /\ [CartNext]_<<tableVars, cartVars>>
        => (TableTypeOK /\ CartTypeOK)'
  <2>1. ASSUME TableTypeOK, CartTypeOK, UNCHANGED <<tableVars, cartVars>>
        PROVE  TableTypeOK' /\ CartTypeOK'
    BY <2>1 DEF tableVars, cartVars, TableTypeOK, CartTypeOK
  <2> QED
    BY <2>1, CartNextType
<1> QED
  BY <1>1, <1>2, PTL DEF CartSpec

----------------------------------------------------------------------------
(* Cart lines are backed by stock.                                         *)

\* CartLinesBacked is inductive once nothing was ever put back.
BackedInv ==
    (\A q \in Qtys : q >= 1) =>
        /\ \A l \in Line : taken[l] >= 0
        /\ CartLinesBacked

\* The case of a line that a step leaves alone: its own four ways of being
\* covered carry over if its pending request does.
LEMMA BackedStep ==
    ASSUME CartTypeOK, BackedInv, CartNext
    PROVE  BackedInv'
<1> SUFFICES ASSUME \A q \in Qtys : q >= 1
             PROVE  /\ \A l \in Line : taken'[l] >= 0
                    /\ CartLinesBacked'
  BY DEF BackedInv
<1>1. /\ \A l \in Line : taken[l] \in Int /\ taken[l] >= 0
      /\ \A l \in Line : \/ cart[l] = Absent
                         \/ taken[l] >= cart[l]
                         \/ l \in abandoned
                         \/ \E w \in Workers :
                                pending[w] = [line |-> l, qty |-> cart[l]]
      /\ \A l \in Line : cart[l] = Absent \/ cart[l] \in Int
  BY CartAssumption DEF BackedInv, CartLinesBacked, CartTypeOK
<1>2. PICK w \in Workers :
        \/ \E l \in Line, q \in Qtys : AddLine(w, l, q)
        \/ Decrement(w)
        \/ Abandon(w)
  BY DEF CartNext
<1>3. ASSUME NEW l \in Line, NEW q \in Qtys, AddLine(w, l, q)
      PROVE  /\ \A m \in Line : taken'[m] >= 0
             /\ CartLinesBacked'
  <2>1. /\ taken' = taken /\ abandoned' = abandoned
        /\ cart'[l] = q
        /\ pending'[w] = [line |-> l, qty |-> q]
        /\ \A m \in Line : m # l => cart'[m] = cart[m]
        /\ \A v \in Workers : v # w => pending'[v] = pending[v]
        /\ pending[w] = Idle
    BY <1>3 DEF AddLine, CartTypeOK
  <2>2. ASSUME NEW m \in Line, m # l
        PROVE  \/ cart'[m] = Absent
               \/ taken'[m] >= cart'[m]
               \/ m \in abandoned'
               \/ \E v \in Workers :
                      pending'[v] = [line |-> m, qty |-> cart'[m]]
    <3>1. ASSUME NEW v \in Workers,
                 pending[v] = [line |-> m, qty |-> cart[m]],
                 cart[m] # Absent
          PROVE  v # w
      <4>1. [line |-> m, qty |-> cart[m]] \in Request
        BY <3>1 DEF CartTypeOK, Request
      <4> QED
        BY <3>1, <4>1, <2>1, IdleAssumption
    <3> QED
      BY <1>1, <2>1, <2>2, <3>1
  <2>3. CartLinesBacked'
    BY <2>1, <2>2 DEF CartLinesBacked
  <2> QED
    BY <1>1, <2>1, <2>3
<1>4. CASE Decrement(w)
  <2> DEFINE k == pending[w].line
             q == pending[w].qty
  <2>1. pending[w] \in Request
    BY <1>4 DEF Decrement, CartTypeOK
  <2>2. k \in Line /\ q \in Qtys /\ q \in Int /\ q >= 1
    BY <2>1, CartAssumption DEF Request
  <2>3. /\ cart' = cart /\ abandoned' = abandoned
        /\ taken'[k] = taken[k] + q
        /\ \A m \in Line : m # k => taken'[m] = taken[m]
        /\ \A v \in Workers : v # w => pending'[v] = pending[v]
    BY <1>4, <2>2 DEF Decrement, CartTypeOK
  <2> HIDE DEF k, q
  <2>4. ASSUME NEW m \in Line
        PROVE  \/ cart'[m] = Absent
               \/ taken'[m] >= cart'[m]
               \/ m \in abandoned'
               \/ \E v \in Workers :
                      pending'[v] = [line |-> m, qty |-> cart'[m]]
    <3>1. CASE pending[w] = [line |-> m, qty |-> cart[m]]
      <4>1. k = m /\ q = cart[m]
        BY <3>1 DEF k, q
      <4> QED
        BY <1>1, <2>2, <2>3, <4>1
    <3>2. CASE pending[w] # [line |-> m, qty |-> cart[m]]
      BY <1>1, <2>2, <2>3, <3>2
    <3> QED
      BY <3>1, <3>2
  <2>5. \A m \in Line : taken'[m] >= 0
    BY <1>1, <2>2, <2>3
  <2> QED
    BY <2>4, <2>5 DEF CartLinesBacked
<1>5. CASE Abandon(w)
  <2>1. /\ cart' = cart /\ taken' = taken
        /\ abandoned' = abandoned \cup {pending[w].line}
        /\ \A v \in Workers : v # w => pending'[v] = pending[v]
    BY <1>5 DEF Abandon, CartTypeOK
  <2>2. ASSUME NEW m \in Line
        PROVE  \/ cart'[m] = Absent
               \/ taken'[m] >= cart'[m]
               \/ m \in abandoned'
               \/ \E v \in Workers :
                      pending'[v] = [line |-> m, qty |-> cart'[m]]
    BY <1>1, <2>1
  <2> QED
    BY <1>1, <2>1, <2>2 DEF CartLinesBacked
<1> QED
  BY <1>2, <1>3, <1>4, <1>5

\* However requests interleave, repeat or die, a cart line is backed by units
\* taken off the stock, waits for a running invocation, or is an orphan.
THEOREM LinesBacked == CartSpec => []CartLinesBacked
<1>1. CartInit => BackedInv
  BY DEF CartInit, BackedInv, CartLinesBacked
<1>2. /\ TableTypeOK /\ CartTypeOK /\ BackedInv
      /\ [CartNext]_<<tableVars, cartVars>>
      => BackedInv'
  <2>1. ASSUME BackedInv, UNCHANGED <<tableVars, cartVars>>
        PROVE  BackedInv'
    BY <2>1 DEF cartVars, BackedInv, CartLinesBacked
  <2> QED
    BY <2>1, BackedStep
<1>3. CartTypeOK /\ BackedInv => CartLinesBacked
  BY DEF BackedInv, CartLinesBacked
<1> QED
  BY <1>1, <1>2, <1>3, CartTypeCorrect, PTL DEF CartSpec

----------------------------------------------------------------------------
(* Stock and the units taken.                                              *)

LEMMA LinesOfProduct ==
    ASSUME NEW s
    PROVE  IsFiniteSet(Carts \X {s})
BY CartsAreFew, FS_Singleton, FS_Product

\* What a decrement takes off a product is what it adds to one of its lines.
LEMMA DecrementAccounts ==
    ASSUME TableTypeOK, CartTypeOK, StockAccounted, NEW w \in Workers, Decrement(w)
    PROVE  StockAccounted'
<1> DEFINE l == pending[w].line
           q == pending[w].qty
<1>1. pending[w] \in Request
  BY DEF Decrement, CartTypeOK
<1>2. l \in Line /\ q \in Int /\ l[1] \in Carts /\ l[2] \in Skus /\ l = <<l[1], l[2]>>
  <2>1. l \in Carts \X Skus /\ q \in Int
    BY <1>1, CartAssumption DEF Request, Line
  <2> HIDE DEF l, q
  <2> QED
    BY <2>1 DEF Line
<1>3. /\ stock' = [stock EXCEPT ![l[2]] = Decremented(stock[l[2]], q)]
      /\ taken' = [taken EXCEPT ![l] = @ + q]
  BY DEF Decrement, PutStock
<1>4. \A m \in Line : taken[m] \in Int
  BY DEF CartTypeOK
<1>5. \A s \in Skus : Units(stock[s]) \in Int
  BY DEF TableTypeOK, Level, Units
<1>6. Units(Decremented(stock[l[2]], q)) = Units(stock[l[2]]) - q
  <2>1. Decremented(stock[l[2]], q) \in Int
    BY <1>2, <1>5 DEF Decremented
  <2> QED
    BY <2>1, TableAssumption DEF Decremented, Units
<1> HIDE DEF l, q
<1>7. ASSUME NEW s \in Skus
      PROVE  -Units(stock'[s]) = SumFunctionOnSet(taken', Carts \X {s})
  <2> DEFINE L == Carts \X {s}
  <2>1. IsFiniteSet(L) /\ L \subseteq Line
    BY LinesOfProduct DEF Line
  <2>2. /\ -Units(stock[s]) = SumFunctionOnSet(taken, L)
        /\ Units(stock[s]) \in Int
    BY <1>5 DEF StockAccounted
  <2>3. ASSUME s = l[2]
        PROVE  -Units(stock'[s]) = SumFunctionOnSet(taken', L)
    <3>1. l \in L
      BY <1>2, <2>3
    <3>2. Units(stock'[s]) = Units(stock[s]) - q
      BY <1>2, <1>3, <1>6, <2>3 DEF TableTypeOK
    <3>3. \A m \in L : taken'[m] = IF m = l THEN taken[m] + q ELSE taken[m]
      BY <1>3, <2>1 DEF CartTypeOK
    <3> HIDE DEF L
    <3>4. \A m \in L : taken[m] \in Int
      BY <1>4, <2>1
    <3>5. SumFunctionOnSet(taken', L) = SumFunctionOnSet(taken, L) + q
      BY <1>2, <2>1, <3>1, <3>3, <3>4, SumGrows
    <3> QED
      BY <1>2, <2>2, <3>2, <3>5
  <2>4. ASSUME s # l[2]
        PROVE  -Units(stock'[s]) = SumFunctionOnSet(taken', L)
    <3>1. \A m \in L : taken'[m] = taken[m]
      BY <1>2, <1>3, <2>1, <2>4 DEF CartTypeOK
    <3>2. stock'[s] = stock[s]
      BY <1>3, <2>4 DEF TableTypeOK
    <3> HIDE DEF L
    <3>3. SumFunctionOnSet(taken', L) = SumFunctionOnSet(taken, L)
      BY <1>4, <2>1, <3>1, SumAgrees
    <3> QED
      BY <2>2, <3>2, <3>3
  <2> QED
    BY <2>3, <2>4
<1> QED
  BY <1>7 DEF StockAccounted

\* No units are lost or counted twice, however requests interleave, repeat or die,
\* and over any number of carts.
THEOREM UnitsAccounted == CartSpec => []StockAccounted
<1>1. ASSUME CartInit
      PROVE  StockAccounted
  <2> SUFFICES ASSUME NEW s \in Skus
               PROVE  -Units(stock[s]) = SumFunctionOnSet(taken, Carts \X {s})
    BY DEF StockAccounted
  <2>1. \A m \in Carts \X {s} : taken[m] = 0
    BY <1>1 DEF CartInit, Line
  <2>2. SumFunctionOnSet(taken, Carts \X {s}) = 0
    BY <2>1, LinesOfProduct, SumOfZeros
  <2>3. Units(stock[s]) = 0
    BY <1>1 DEF CartInit, TableInit, Units
  <2>4. \A n \in Int : n < 1 /\ n > -1 => -n = 0
    OBVIOUS
  <2>5. Units(stock[s]) \in Int /\ Units(stock[s]) < 1 /\ Units(stock[s]) > -1
    BY <2>3
  <2>6. -Units(stock[s]) = 0
    BY <2>4, <2>5
  <2> QED
    BY <2>2, <2>6
<1>2. ASSUME TableTypeOK, CartTypeOK, StockAccounted,
             [CartNext]_<<tableVars, cartVars>>
      PROVE  StockAccounted'
  <2>1. ASSUME stock' = stock, taken' = taken
        PROVE  StockAccounted'
    BY <1>2, <2>1 DEF StockAccounted
  <2>2. ASSUME NEW w \in Workers, NEW l \in Line, NEW q \in Qtys, AddLine(w, l, q)
        PROVE  StockAccounted'
    BY <2>1, <2>2 DEF AddLine, PutOther
  <2>3. ASSUME NEW w \in Workers, Abandon(w)
        PROVE  StockAccounted'
    BY <2>1, <2>3 DEF Abandon, tableVars
  <2>4. ASSUME UNCHANGED <<tableVars, cartVars>>
        PROVE  StockAccounted'
    BY <2>1, <2>4 DEF tableVars, cartVars
  <2> QED
    BY <1>2, <2>2, <2>3, <2>4, DecrementAccounts DEF CartNext
<1> QED
  BY <1>1, <1>2, CartTypeCorrect, PTL DEF CartSpec

----------------------------------------------------------------------------
(* get_inventory beside update_cart.                                       *)

\* A listing only reads: with it the carts are what they are without it.
LEMMA ListingOnlyReads == ListingSpec => CartSpec
<1>1. ListingInit => CartInit
  BY DEF ListingInit
<1>2. [ListingNext]_listingVars => [CartNext]_<<tableVars, cartVars>>
  BY DEF ListingNext, listingVars
<1> QED
  BY <1>1, <1>2, PTL DEF ListingSpec, CartSpec

\* So a stored line is backed whoever lists the products.
THEOREM ListedLinesBacked == ListingSpec => []CartLinesBacked
BY ListingOnlyReads, LinesBacked, PTL

\* And stock is accounted for.
THEOREM ListedUnitsAccounted == ListingSpec => []StockAccounted
BY ListingOnlyReads, UnitsAccounted, PTL

----------------------------------------------------------------------------
\* How far a listing has come: a product stored before it was asked for is still
\* to be read, or in the answer.
Listing(g) ==
    /\ g = [todo |-> g.todo, read |-> g.read, before |-> g.before,
            items |-> g.items, pc |-> g.pc]
    /\ g.items = [s \in Skus |-> g.items[s]]
    /\ g.before \subseteq Skus
    /\ \A s \in g.before : s \in g.todo \/ g.items[s] # Absent
    /\ g.pc = "answered" => g.todo \cap g.before = {} \/ g.read = PageItems

ListingInv == get # Idle => Listing(get)

LEMMA VisitKeeps ==
    ASSUME ListingInv, NEW k \in Keys, Visit(k)
    PROVE  Listing(get')
<1>1. Listing(get) /\ get.pc = "scanning"
  BY DEF Visit, ListingInv
<1>2. ASSUME k \in Skus, NEW level, k \in get.before => level # Absent, NEW n,
             get' = [get EXCEPT !.todo = @ \ {k}, !.read = n, !.items[k] = level]
      PROVE  Listing(get')
  <2> DEFINE items == [get.items EXCEPT ![k] = level]
  <2>1. get' = [todo |-> get.todo \ {k}, read |-> n, before |-> get.before,
                items |-> items, pc |-> get.pc]
    BY <1>1, <1>2 DEF Listing
  <2>2. items = [s \in Skus |-> IF s = k THEN level ELSE get.items[s]]
    BY <1>1 DEF Listing
  <2>3. \A s \in get.before : s \in get.todo \ {k} \/ items[s] # Absent
    BY <1>1, <1>2, <2>2 DEF Listing
  <2>4. items = [s \in Skus |-> items[s]]
    BY <2>2
  <2> HIDE DEF items
  <2> QED
    BY <1>1, <2>1, <2>3, <2>4 DEF Listing
<1>3. ASSUME k \in Line \cup Counters, NEW n,
             get' = [get EXCEPT !.todo = @ \ {k}, !.read = n]
      PROVE  Listing(get')
  <2>1. get' = [todo |-> get.todo \ {k}, read |-> n, before |-> get.before,
                items |-> get.items, pc |-> get.pc]
    BY <1>1, <1>3 DEF Listing
  <2>2. k \notin get.before
    BY <1>1, <1>3, KeysAssumption DEF Listing
  <2> QED
    BY <1>1, <2>1, <2>2 DEF Listing
<1> QED
  BY <1>2, <1>3 DEF Visit

LEMMA ListingInvStays == ListingInv /\ [ListingNext]_listingVars => ListingInv'
<1> SUFFICES ASSUME ListingInv, [ListingNext]_listingVars, get' # Idle
             PROVE  Listing(get')
  BY DEF ListingInv, Listing
<1>1. CASE UNCHANGED get
  BY <1>1 DEF ListingInv
<1>2. CASE Scan
  <2>1. PICK settled \in SUBSET Products :
           get' = [todo |-> Keys, read |-> 0, before |-> settled,
                   items |-> [s \in Skus |-> Absent], pc |-> "scanning"]
    BY <1>2 DEF Scan
  <2>2. settled \subseteq Skus /\ settled \subseteq Keys
    BY DEF Products, Keys
  <2> QED
    BY <2>1, <2>2 DEF Listing
<1>3. ASSUME NEW k \in Keys, Visit(k)
      PROVE  Listing(get')
  BY <1>3, VisitKeeps
<1>4. CASE PageEnd
  <2>1. Listing(get) /\ (get.todo = {} \/ get.read = PageItems)
    BY <1>4 DEF PageEnd, ListingInv
  <2>2. get' = [todo |-> get.todo, read |-> get.read, before |-> get.before,
                items |-> get.items, pc |-> "answered"]
    BY <1>4, <2>1 DEF PageEnd, Listing
  <2> QED
    BY <2>1, <2>2 DEF Listing
<1>5. ASSUME NEW s \in Skus, Lookup(s)
      PROVE  Listing(get')
  <2>1. PICK level \in Versions(s) :
           get' = [todo |-> {}, read |-> 1, before |-> {}, pc |-> "answered",
                   items |-> [p \in Skus |-> IF p = s THEN level ELSE Absent]]
    BY <1>5 DEF Lookup
  <2> QED
    BY <2>1 DEF Listing
<1>6. CASE Answered
  BY <1>6 DEF Answered
<1> QED
  BY <1>1, <1>2, <1>3, <1>4, <1>5, <1>6 DEF ListingNext, listingVars

\* A product stored well before the request is missing from a listing only when
\* a page of other items came before it.
THEOREM CompletePage == ListingSpec => []ListingCompletePage
<1>1. ListingInit => ListingInv
  BY DEF ListingInit, ListingInv
<1>2. ListingInv => ListingCompletePage
  BY DEF ListingInv, Listing, ListingCompletePage
<1> QED
  BY <1>1, <1>2, ListingInvStays, PTL DEF ListingSpec
=============================================================================
