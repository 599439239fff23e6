-------------------------------- MODULE Orders --------------------------------
(***************************************************************************)
(* create_order and get_reports (lambda/create_order, lambda/get_reports)  *)
(* on the one MySQL instance.  A create_order invocation connects, creates *)
(* the table if need be, inserts the order, commits and answers 201; any   *)
(* exception on the way is answered with 500, and Lambda may kill the      *)
(* invocation, so that nothing is answered at all.  A call that fails may  *)
(* have taken effect; a COMMIT that nobody waits for any more may still    *)
(* take effect later.                                                      *)
(*                                                                         *)
(* Every request draws its own order_id (uuid4): an order is known by its  *)
(* checkout and the number of the request for it.  sku and qty are what    *)
(* the checkout says and left out.  MySQL is external: a connection runs   *)
(* with autocommit off (PyMySQL's default), CREATE TABLE commits what is   *)
(* open, and a connection that is dropped is rolled back.                  *)
(***************************************************************************)
EXTENDS Integers, FiniteSets

CONSTANTS
    Checkouts,      \* what clients want to order
    Workers,        \* concurrent invocations of create_order
    Readers,        \* concurrent invocations of get_reports
    Idle,           \* no invocation in flight
    MaxRequests     \* bound: requests for one checkout

ASSUME OrdersAssumption == MaxRequests \in Nat

Order == Checkouts \X (1..MaxRequests)

Steps == {"connecting", "creating", "inserting", "committing", "closing"}

Invocation == [pc : Steps, order : Order, tx : SUBSET Order]

ASSUME NotInvoked == Idle \notin Invocation

VARIABLES
    table,      \* does the orders table exist?
    rows,       \* the orders committed
    late,       \* orders whose COMMIT is under way and nobody waits for
    requests,   \* requests[c]: how many requests there were for checkout c
    inv,        \* inv[w]: an invocation of create_order; tx is its transaction
    report,     \* report[r]: an invocation of get_reports
    created,    \* history: orders answered with 201
    failed,     \* history: orders answered with 500
    doubtful    \* history: orders whose COMMIT or 201 got no answer

vars == <<table, rows, late, requests, inv, report, created, failed, doubtful>>

history == <<created, failed, doubtful>>

At(w, pc) == inv[w] # Idle /\ inv[w].pc = pc

\* The order of the calls in handler, and a slip: the commit is forgotten.
AfterUncommitted == [connecting |-> "creating", creating |-> "inserting",
                     inserting |-> "closing", committing |-> "closing"]
After == [connecting |-> "creating", creating |-> "inserting",
          inserting |-> "committing", committing |-> "closing"]

Proceed(w, tx) ==
    inv' = [inv EXCEPT ![w] = [inv[w] EXCEPT !.pc = After[inv[w].pc], !.tx = tx]]

----------------------------------------------------------------------------
(* create_order                                                            *)

Request(w, c) ==
    /\ inv[w] = Idle
    /\ requests[c] < MaxRequests
    /\ requests' = [requests EXCEPT ![c] = @ + 1]
    /\ inv' = [inv EXCEPT ![w] = [pc |-> "connecting", tx |-> {},
                                  order |-> <<c, requests[c] + 1>>]]
    /\ UNCHANGED <<table, rows, late, report, history>>

\* Slip: one connection for all invocations, with what is open on it.
ConnectShared(w) ==
    /\ At(w, "connecting")
    /\ Proceed(w, UNION {inv[v].tx : v \in {u \in Workers : inv[u] # Idle}})
    /\ UNCHANGED <<table, rows, late, requests, report, history>>

Connect(w) ==
    /\ At(w, "connecting")
    /\ Proceed(w, {})
    /\ UNCHANGED <<table, rows, late, requests, report, history>>

\* CREATE TABLE IF NOT EXISTS, with its implicit commit.
CreateTable(w) == table' = TRUE /\ rows' = rows \cup inv[w].tx

Create(w) ==
    /\ At(w, "creating")
    /\ CreateTable(w)
    /\ Proceed(w, {})
    /\ UNCHANGED <<late, requests, report, history>>

\* Slip: the connection runs with autocommit.
InsertCommitted(w) ==
    /\ At(w, "inserting")
    /\ table
    /\ rows' = rows \cup {inv[w].order}
    /\ Proceed(w, {})
    /\ UNCHANGED <<table, late, requests, report, history>>

Insert(w) ==
    /\ At(w, "inserting")
    /\ table
    /\ Proceed(w, inv[w].tx \cup {inv[w].order})
    /\ UNCHANGED <<table, rows, late, requests, report, history>>

CommitTx(w) == rows' = rows \cup inv[w].tx /\ UNCHANGED table

Commit(w) ==
    /\ At(w, "committing")
    /\ CommitTx(w)
    /\ Proceed(w, {})
    /\ UNCHANGED <<late, requests, report, history>>

\* conn.close() swallows what goes wrong; then 201.
Answer201(w) ==
    /\ At(w, "closing")
    /\ created' = created \cup {inv[w].order}
    /\ inv' = [inv EXCEPT ![w] = Idle]
    /\ UNCHANGED <<table, rows, late, requests, report, failed, doubtful>>

\* The call in hand fails, or the invocation is killed in it: the call took
\* effect, or did not, or a COMMIT still will.  The connection is dropped.
BreakOff(w) ==
    /\ inv[w] # Idle
    /\ inv' = [inv EXCEPT ![w] = Idle]
    /\ \/ UNCHANGED <<table, rows, late>>
       \/ At(w, "creating") /\ CreateTable(w) /\ UNCHANGED late
       \/ At(w, "committing") /\ CommitTx(w) /\ UNCHANGED late
       \/ /\ At(w, "committing")
          /\ late' = late \cup inv[w].tx
          /\ UNCHANGED <<table, rows>>
    /\ doubtful' = IF At(w, "committing") \/ At(w, "closing")
                     THEN doubtful \cup {inv[w].order}
                     ELSE doubtful
    /\ UNCHANGED <<requests, report, created>>

Answer500(w) ==
    /\ ~At(w, "closing")
    /\ BreakOff(w)
    /\ failed' = failed \cup {inv[w].order}

Kill(w) == BreakOff(w) /\ UNCHANGED failed

\* The server gets to a COMMIT whose client is gone, or to the loss of the
\* connection first.
CommitLate(o) ==
    /\ o \in late
    /\ late' = late \ {o}
    /\ rows' = rows \cup {o} \/ UNCHANGED rows
    /\ UNCHANGED <<table, requests, inv, report, history>>

----------------------------------------------------------------------------
(* get_reports: a connection of its own and one SELECT, a snapshot of the  *)
(* rows there are.                                                         *)

Ask(r) ==
    /\ report[r].pc = "idle"
    /\ report' = [report EXCEPT ![r].pc = "reading", ![r].before = created]
    /\ UNCHANGED <<table, rows, late, requests, inv, history>>

Serve(r, seen) ==
    report' = [report EXCEPT ![r].pc = "read", ![r].seen = seen]

Read(r) ==
    /\ report[r].pc = "reading"
    /\ table
    /\ Serve(r, rows)
    /\ UNCHANGED <<table, rows, late, requests, inv, history>>

\* The answer is out; or it is a 500, for want of the table as for any fault.
ReportDone(r) ==
    /\ report[r].pc # "idle"
    /\ report' = [report EXCEPT ![r].pc = "idle"]
    /\ UNCHANGED <<table, rows, late, requests, inv, history>>

----------------------------------------------------------------------------
Init ==
    /\ table = FALSE
    /\ rows = {}
    /\ late = {}
    /\ requests = [c \in Checkouts |-> 0]
    /\ inv = [w \in Workers |-> Idle]
    /\ report = [r \in Readers |-> [pc |-> "idle", before |-> {}, seen |-> {}]]
    /\ created = {}
    /\ failed = {}
    /\ doubtful = {}

Handle(w) ==
    \/ Connect(w)
    \/ Create(w)
    \/ Insert(w)
    \/ Commit(w)
    \/ Answer201(w)
    \/ Answer500(w)
    \/ Kill(w)

Next ==
    \/ \E w \in Workers, c \in Checkouts : Request(w, c)
    \/ \E w \in Workers : Handle(w)
    \/ \E o \in Order : CommitLate(o)
    \/ \E r \in Readers : Ask(r) \/ Read(r) \/ ReportDone(r)

Spec == Init /\ [][Next]_vars

----------------------------------------------------------------------------
\* Every variable has its type; a transaction holds at most the own order.
TypeOK ==
    /\ table \in BOOLEAN
    /\ rows \subseteq Order
    /\ late \subseteq Order
    /\ requests \in [Checkouts -> 0..MaxRequests]
    /\ inv \in [Workers -> Invocation \cup {Idle}]
    /\ \A w \in Workers : inv[w] # Idle => inv[w].tx \subseteq {inv[w].order}
    /\ report \in [Readers -> [pc : {"idle", "reading", "read"},
                               before : SUBSET Order, seen : SUBSET Order]]
    /\ created \subseteq Order
    /\ failed \subseteq Order
    /\ doubtful \subseteq Order

\* Durability as the client sees it: what was answered with 201 is stored, and
\* no 500 is ever sent for it.
CreatedIsStored == created \subseteq rows /\ created \cap failed = {}

\* Atomicity: an order comes to be stored without a 201 in one way only: the
\* answer to its COMMIT was lost, or the invocation was killed after it.  A 500
\* for a failure before the COMMIT means that the order is not stored, now or
\* later.
StoredIsAccountedFor ==
    \A o \in rows \cup late :
        \/ o \in created
        \/ o \in doubtful
        \/ \E w \in Workers : At(w, "closing") /\ inv[w].order = o

\* A report contains every order that was answered with 201 before the report
\* was asked for.
ReportsFollowOrders ==
    \A r \in Readers : report[r].pc = "read" => report[r].before \subseteq report[r].seen
=============================================================================
