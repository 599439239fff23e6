----------------------------- MODULE OrdersProofs -----------------------------
(***************************************************************************)
(* Theorems about create_order and get_reports, for every number of        *)
(* checkouts, requests and overlapping invocations: first with the one     *)
(* database of Orders, then through Act 1, when the primary is lost, a     *)
(* replica promoted and get_reports pointed at it, at any moment.          *)
(***************************************************************************)
EXTENDS DisasterRecovery, SequenceTheorems, TLAPS

\* Going on to the next call keeps an invocation well formed.
LEMMA ProceedType ==
    ASSUME TypeOK, NEW w \in Workers, inv[w] # Idle, inv[w].pc # "closing",
           NEW tx, tx \subseteq {inv[w].order}, Proceed(w, tx)
    PROVE  /\ inv' \in [Workers -> Invocation \cup {Idle}]
           /\ \A v \in Workers : inv'[v] # Idle => inv'[v].tx \subseteq {inv'[v].order}
           /\ inv'[w].pc = After[inv[w].pc]
           /\ inv'[w].order = inv[w].order
           /\ inv'[w].tx = tx
           /\ \A v \in Workers \ {w} : inv'[v] = inv[v]
<1> DEFINE next == [inv[w] EXCEPT !.pc = After[inv[w].pc], !.tx = tx]
<1>1. inv[w] \in Invocation
  BY DEF TypeOK
<1>2. After[inv[w].pc] \in Steps
  BY <1>1 DEF Invocation, Steps, After
<1>3. next \in Invocation /\ next.order = inv[w].order
      /\ next.pc = After[inv[w].pc] /\ next.tx = tx
  BY <1>1, <1>2 DEF Invocation
<1>4. inv' = [inv EXCEPT ![w] = next]
  BY DEF Proceed
<1> QED
  BY <1>3, <1>4 DEF TypeOK

\* A step of create_order keeps the types.
LEMMA HandleType ==
    ASSUME TypeOK, NEW w \in Workers, Handle(w)
    PROVE  TypeOK'
<1>1. inv[w] \in Invocation /\ inv[w] # Idle
  BY DEF Handle, Connect, Create, Insert, Commit, Answer201, Answer500, Kill,
         BreakOff, At, TypeOK
<1>2. inv[w].order \in Order /\ inv[w].tx \subseteq {inv[w].order}
  BY <1>1 DEF TypeOK, Invocation
<1>3. CASE Connect(w)
  BY <1>1, <1>3, ProceedType DEF Connect, At, TypeOK, history
<1>4. CASE Create(w)
  BY <1>1, <1>2, <1>4, ProceedType DEF Create, CreateTable, At, TypeOK, history
<1>5. CASE Insert(w)
  <2>1. inv[w].tx \cup {inv[w].order} \subseteq {inv[w].order}
    BY <1>2
  <2> QED
    BY <1>1, <1>5, <2>1, ProceedType DEF Insert, At, TypeOK, history
<1>6. CASE Commit(w)
  BY <1>1, <1>2, <1>6, ProceedType DEF Commit, CommitTx, At, TypeOK, history
<1>7. CASE Answer201(w)
  BY <1>2, <1>7 DEF Answer201, TypeOK
<1>8. CASE BreakOff(w) /\ failed' \subseteq Order
  <2>1. rows' \subseteq Order /\ late' \subseteq Order /\ table' \in BOOLEAN
    BY <1>2, <1>8 DEF BreakOff, CreateTable, CommitTx, TypeOK
  <2>2. doubtful' \subseteq Order
    BY <1>2, <1>8 DEF BreakOff, TypeOK
  <2> QED
    BY <1>8, <2>1, <2>2 DEF BreakOff, TypeOK
<1>9. CASE Answer500(w)
  BY <1>2, <1>8, <1>9 DEF Answer500, TypeOK
<1>10. CASE Kill(w)
  BY <1>8, <1>10 DEF Kill, TypeOK
<1> QED
  BY <1>3, <1>4, <1>5, <1>6, <1>7, <1>9, <1>10 DEF Handle

\* So does a request for an order.
LEMMA RequestType ==
    ASSUME TypeOK, NEW w \in Workers, NEW c \in Checkouts, Request(w, c)
    PROVE  TypeOK'
<1> DEFINE new == [pc |-> "connecting", tx |-> {},
                   order |-> <<c, requests[c] + 1>>]
<1>1. requests[c] \in 0..MaxRequests /\ requests[c] + 1 \in 1..MaxRequests
  BY OrdersAssumption DEF Request, TypeOK
<1>2. new \in Invocation
  BY <1>1 DEF Invocation, Steps, Order
<1>3. inv' = [inv EXCEPT ![w] = new]
  BY DEF Request
<1>4. /\ inv' \in [Workers -> Invocation \cup {Idle}]
      /\ \A v \in Workers : inv'[v] # Idle => inv'[v].tx \subseteq {inv'[v].order}
  BY <1>2, <1>3 DEF TypeOK
<1>5. requests' \in [Checkouts -> 0..MaxRequests]
  BY <1>1 DEF Request, TypeOK
<1> QED
  BY <1>4, <1>5 DEF Request, TypeOK, history

\* And a step of get_reports.
LEMMA ReportType ==
    ASSUME TypeOK, NEW r \in Readers, Ask(r) \/ Read(r) \/ ReportDone(r)
    PROVE  TypeOK'
<1> DEFINE Rep == [pc : {"idle", "reading", "read"},
                   before : SUBSET Order, seen : SUBSET Order]
<1>1. report[r] \in Rep
  BY DEF TypeOK
<1>2. report' \in [Readers -> Rep]
  <2>1. CASE Ask(r)
    <3>1. [[report[r] EXCEPT !.pc = "reading"] EXCEPT !.before = created] \in Rep
      BY <1>1 DEF TypeOK
    <3> QED
      BY <2>1, <3>1 DEF Ask, TypeOK
  <2>2. CASE Read(r)
    <3>1. [[report[r] EXCEPT !.pc = "read"] EXCEPT !.seen = rows] \in Rep
      BY <1>1 DEF TypeOK
    <3> QED
      BY <2>2, <3>1 DEF Read, Serve, TypeOK
  <2>3. CASE ReportDone(r)
    <3>1. [report[r] EXCEPT !.pc = "idle"] \in Rep
      BY <1>1
    <3> QED
      BY <2>3, <3>1 DEF ReportDone, TypeOK
  <2> QED
    BY <2>1, <2>2, <2>3
<1>3. UNCHANGED <<table, rows, late, requests, inv, history>>
  BY DEF Ask, Read, ReportDone
<1> QED
  BY <1>2, <1>3 DEF TypeOK, history

\* The initial values have their types, and a step keeps them.
LEMMA TypeInit == Init => TypeOK
<1> SUFFICES ASSUME Init PROVE TypeOK
  OBVIOUS
<1>1. requests \in [Checkouts -> 0..MaxRequests]
  BY OrdersAssumption DEF Init
<1>2. report \in [Readers -> [pc : {"idle", "reading", "read"},
                             before : SUBSET Order, seen : SUBSET Order]]
  BY DEF Init
<1> QED
  BY <1>1, <1>2 DEF Init, TypeOK

LEMMA TypeStays == TypeOK /\ [Next]_vars => TypeOK'
<1> SUFFICES ASSUME TypeOK, [Next]_vars PROVE TypeOK'
  OBVIOUS
<1>1. CASE \E w \in Workers, c \in Checkouts : Request(w, c)
  BY <1>1, RequestType
<1>2. CASE \E w \in Workers : Handle(w)
  BY <1>2, HandleType
<1>3. CASE \E o \in Order : CommitLate(o)
  BY <1>3 DEF CommitLate, TypeOK, history
<1>4. CASE \E r \in Readers : Ask(r) \/ Read(r) \/ ReportDone(r)
  BY <1>4, ReportType
<1>5. CASE UNCHANGED vars
  BY <1>5 DEF vars, history, TypeOK
<1> QED
  BY <1>1, <1>2, <1>3, <1>4, <1>5 DEF Next

\* Every variable has its type, in every behaviour; a transaction never holds
\* the order of another invocation.
THEOREM TypeCorrect == Spec => []TypeOK
BY TypeInit, TypeStays, PTL DEF Spec

----------------------------------------------------------------------------
\* Where an order is, by how far its invocation has come.
InHand ==
    \A w \in Workers : inv[w] # Idle =>
        /\ inv[w].pc \in {"connecting", "creating", "inserting"} => inv[w].tx = {}
        /\ inv[w].pc = "committing" => inv[w].tx = {inv[w].order}
        /\ inv[w].pc = "closing" => inv[w].order \in rows

\* Rows are never lost, and the order of an invocation does not change.
LEMMA RowsStay == TypeOK /\ [Next]_vars => rows \subseteq rows'
BY DEF Next, vars, history, Handle, Request, Connect, Create, CreateTable, Insert,
       Commit, CommitTx, Answer201, Answer500, Kill, BreakOff, CommitLate, Ask,
       Read, ReportDone

LEMMA InHandStays == TypeOK /\ InHand /\ [Next]_vars => InHand'
<1> SUFFICES ASSUME TypeOK, InHand, [Next]_vars, NEW v \in Workers,
                    inv'[v] # Idle
             PROVE
        /\ inv'[v].pc \in {"connecting", "creating", "inserting"} => inv'[v].tx = {}
        /\ inv'[v].pc = "committing" => inv'[v].tx = {inv'[v].order}
        /\ inv'[v].pc = "closing" => inv'[v].order \in rows'
  BY DEF InHand
<1>1. CASE inv'[v] = inv[v]
  BY <1>1, RowsStay DEF InHand
<1>2. ASSUME NEW c \in Checkouts, Request(v, c)
      PROVE  inv'[v].pc = "connecting" /\ inv'[v].tx = {}
  BY <1>2 DEF Request, TypeOK
<1>3. CASE Connect(v)
  <2>1. inv'[v].pc = "creating" /\ inv'[v].tx = {}
    BY <1>3, ProceedType DEF Connect, At, After
  <2> QED
    BY <2>1
<1>4. CASE Create(v)
  <2>1. inv'[v].pc = "inserting" /\ inv'[v].tx = {}
    BY <1>4, ProceedType DEF Create, At, After
  <2> QED
    BY <2>1
<1>5. CASE Insert(v)
  <2>1. inv[v].tx = {}
    BY <1>5 DEF Insert, At, InHand
  <2>2. inv'[v].pc = "committing" /\ inv'[v].tx = {inv'[v].order}
    BY <1>5, <2>1, ProceedType DEF Insert, At, After
  <2> QED
    BY <2>2
<1>6. CASE Commit(v)
  <2>1. inv[v].order \in rows'
    BY <1>6 DEF Commit, CommitTx, At, InHand
  <2>2. inv'[v].pc = "closing" /\ inv'[v].order = inv[v].order
    BY <1>6, ProceedType DEF Commit, At, After
  <2> QED
    BY <2>1, <2>2
<1>7. CASE inv'[v] # inv[v]
  <2>1. CASE \E c \in Checkouts : Request(v, c)
    BY <1>2, <2>1
  <2>2. CASE Handle(v)
    <3>1. ~Answer201(v) /\ ~BreakOff(v)
      BY DEF Answer201, BreakOff, TypeOK
    <3> QED
      BY <1>3, <1>4, <1>5, <1>6, <2>2, <3>1 DEF Handle, Answer500, Kill
  <2>3. ASSUME NEW w \in Workers, w # v, Handle(w)
        PROVE  inv'[v] = inv[v]
    BY <2>3 DEF Handle, Connect, Create, Insert, Commit, Answer201, Answer500,
                Kill, BreakOff, Proceed, TypeOK
  <2>4. ASSUME NEW w \in Workers, w # v, NEW c \in Checkouts, Request(w, c)
        PROVE  inv'[v] = inv[v]
    BY <2>4 DEF Request, TypeOK
  <2>5. (\E w \in Workers : Handle(w)) \/ (\E w \in Workers, c \in Checkouts : Request(w, c))
    BY <1>7 DEF Next, vars, CommitLate, Ask, Read, ReportDone
  <2> QED
    BY <1>7, <2>1, <2>2, <2>3, <2>4, <2>5
<1> QED
  BY <1>1, <1>7

\* An order that a COMMIT stores is in the hands of its invocation, answered, or
\* doubtful, and stays so.
LEMMA AccountedStays ==
    TypeOK /\ InHand /\ StoredIsAccountedFor /\ [Next]_vars => StoredIsAccountedFor'
<1> SUFFICES ASSUME TypeOK, InHand, StoredIsAccountedFor, [Next]_vars,
                    NEW o \in rows' \cup late'
             PROVE  \/ o \in created' \cup doubtful'
                    \/ \E w \in Workers : At(w, "closing")' /\ inv'[w].order = o
  BY DEF StoredIsAccountedFor, At
<1>1. created \subseteq created' /\ doubtful \subseteq doubtful'
  BY DEF Next, vars, history, Handle, Request, Connect, Create, Insert, Commit,
         Answer201, Answer500, Kill, BreakOff, CommitLate, Ask, Read, ReportDone
<1>2. ASSUME NEW w \in Workers, Commit(w)
      PROVE  At(w, "closing")' /\ inv'[w].order = inv[w].order
  <2>1. /\ inv[w] # Idle /\ inv[w].pc = "committing"
        /\ inv'[w].pc = "closing" /\ inv'[w].order = inv[w].order
    BY <1>2, ProceedType DEF Commit, At, After
  <2>2. inv'[w] # Idle
    <3>1. inv'[w] = [inv[w] EXCEPT !.pc = "closing", !.tx = {}]
      BY <1>2, <2>1 DEF Commit, Proceed, TypeOK, After
    <3>2. inv'[w] \in Invocation
      <4>1. Proceed(w, {})
        BY <1>2 DEF Commit
      <4>2. inv' \in [Workers -> Invocation \cup {Idle}]
        BY <2>1, <4>1, ProceedType
      <4>3. inv[w] \in Invocation
        BY <2>1 DEF TypeOK
      <4> QED
        BY <3>1, <4>3 DEF Invocation, Steps
    <3> QED
      BY <3>2, NotInvoked
  <2> QED
    BY <2>1, <2>2 DEF At
<1>3. CASE o \in rows \cup late
  <2>1. CASE o \in created \cup doubtful
    BY <1>1, <2>1
  <2>2. ASSUME NEW w \in Workers, At(w, "closing"), inv[w].order = o
        PROVE  \/ o \in created' \cup doubtful'
               \/ At(w, "closing")' /\ inv'[w].order = o
    <3>1. CASE inv'[w] = inv[w]
      BY <2>2, <3>1 DEF At
    <3>2. CASE Answer201(w)
      BY <2>2, <3>2 DEF Answer201
    <3>3. CASE BreakOff(w)
      BY <2>2, <3>3 DEF BreakOff
    <3>4. CASE inv'[w] # inv[w]
      <4>1. ASSUME NEW v \in Workers, v # w, Handle(v)
            PROVE  inv'[w] = inv[w]
        BY <4>1 DEF Handle, Connect, Create, Insert, Commit, Answer201,
                    Answer500, Kill, BreakOff, Proceed, TypeOK
      <4>2. ASSUME NEW v \in Workers, NEW c \in Checkouts, Request(v, c)
            PROVE  inv'[w] = inv[w]
        BY <2>2, <4>2 DEF Request, At, TypeOK
      <4>3. Handle(w)
        BY <3>4, <4>1, <4>2 DEF Next, vars, CommitLate, Ask, Read, ReportDone
      <4> QED
        BY <2>2, <3>2, <3>3, <4>3 DEF Handle, Connect, Create, Insert, Commit,
                                      Answer500, Kill, At
    <3> QED
      BY <3>1, <3>4
  <2> QED
    BY <1>3, <2>1, <2>2 DEF StoredIsAccountedFor
<1>4. CASE o \notin rows \cup late
  <2>1. PICK w \in Workers : Handle(w)
    BY <1>4 DEF Next, vars, history, Request, CommitLate, Ask, Read, ReportDone
  <2>2. inv[w].tx \subseteq {inv[w].order}
    BY <2>1 DEF Handle, Connect, Create, Insert, Commit, Answer201, Answer500,
                Kill, BreakOff, At, TypeOK
  <2>3. CASE Commit(w)
    BY <1>2, <1>4, <2>2, <2>3 DEF Commit, CommitTx
  <2>4. CASE Create(w)
    BY <1>4, <2>4 DEF Create, CreateTable, At, InHand
  <2>5. CASE BreakOff(w)
    <3>1. At(w, "committing") /\ o = inv[w].order
      BY <1>4, <2>2, <2>5 DEF BreakOff, CreateTable, CommitTx, At, InHand
    <3> QED
      BY <2>5, <3>1 DEF BreakOff
  <2>6. Commit(w) \/ Create(w) \/ BreakOff(w)
    BY <1>4, <2>1 DEF Handle, Connect, Insert, Answer201, Answer500, Kill
  <2> QED
    BY <2>3, <2>4, <2>5, <2>6
<1> QED
  BY <1>3, <1>4

\* An order is stored without a 201 only when its COMMIT got no answer.
THEOREM StoredAccountedFor == Spec => []StoredIsAccountedFor
<1>1. Init => InHand /\ StoredIsAccountedFor
  BY DEF Init, InHand, StoredIsAccountedFor
<1> QED
  BY <1>1, AccountedStays, InHandStays, TypeCorrect, PTL DEF Spec

----------------------------------------------------------------------------
\* What is answered with 201 is stored, and what a report has to contain, too.
ReportInv ==
    /\ created \subseteq rows
    /\ \A r \in Readers : report[r].pc = "reading" => report[r].before \subseteq created
    /\ ReportsFollowOrders

LEMMA AnswersStay == TypeOK /\ [Next]_vars => created \subseteq created'
BY DEF Next, vars, history, Handle, Request, Connect, Create, Insert, Commit,
       Answer201, Answer500, Kill, BreakOff, CommitLate, Ask, Read, ReportDone

LEMMA CreatedStays ==
    TypeOK /\ InHand /\ created \subseteq rows /\ [Next]_vars => created' \subseteq rows'
<1> SUFFICES ASSUME TypeOK, InHand, created \subseteq rows, [Next]_vars
             PROVE  created' \subseteq rows'
  OBVIOUS
<1>1. CASE created' = created
  BY <1>1, RowsStay
<1>2. CASE created' # created
  <2>1. PICK w \in Workers : Answer201(w)
    BY <1>2 DEF Next, vars, history, Handle, Request, Connect, Create, Insert,
           Commit, Answer500, Kill, BreakOff, CommitLate, Ask, Read, ReportDone
  <2> QED
    BY <2>1, RowsStay DEF Answer201, At, InHand
<1> QED
  BY <1>1, <1>2

LEMMA ReportInvStays == TypeOK /\ InHand /\ ReportInv /\ [Next]_vars => ReportInv'
<1> SUFFICES ASSUME TypeOK, InHand, ReportInv, [Next]_vars
             PROVE  ReportInv'
  OBVIOUS
<1>1. created' \subseteq rows'
  BY CreatedStays DEF ReportInv
<1>2. ASSUME NEW r \in Readers
      PROVE  /\ report'[r].pc = "reading" => report'[r].before \subseteq created'
             /\ report'[r].pc = "read" => report'[r].before \subseteq report'[r].seen
  <2>1. CASE report'[r] = report[r]
    BY <2>1, AnswersStay DEF ReportInv, ReportsFollowOrders
  <2>2. CASE Ask(r)
    <3>1. report'[r] = [[report[r] EXCEPT !.pc = "reading"] EXCEPT !.before = created]
      BY <2>2 DEF Ask, TypeOK
    <3>2. report'[r].pc = "reading" /\ report'[r].before = created
      BY <3>1 DEF TypeOK
    <3> QED
      BY <3>2, AnswersStay
  <2>3. CASE Read(r)
    <3>1. report'[r] = [[report[r] EXCEPT !.pc = "read"] EXCEPT !.seen = rows]
      BY <2>3 DEF Read, Serve, TypeOK
    <3>2. report'[r].pc = "read" /\ report'[r].seen = rows
          /\ report'[r].before = report[r].before
      BY <3>1 DEF TypeOK
    <3> QED
      BY <2>3, <3>2 DEF Read, ReportInv
  <2>4. CASE ReportDone(r)
    BY <2>4 DEF ReportDone, TypeOK
  <2>5. ASSUME NEW q \in Readers, q # r, Ask(q) \/ Read(q) \/ ReportDone(q)
        PROVE  report'[r] = report[r]
    BY <2>5 DEF Ask, Read, Serve, ReportDone, TypeOK
  <2>6. (\E q \in Readers : Ask(q) \/ Read(q) \/ ReportDone(q)) \/ report' = report
    BY DEF Next, vars, history, Handle, Request, Connect, Create, Insert, Commit,
           Answer201, Answer500, Kill, BreakOff, CommitLate
  <2> QED
    BY <2>1, <2>2, <2>3, <2>4, <2>5, <2>6
<1> QED
  BY <1>1, <1>2 DEF ReportInv, ReportsFollowOrders

\* A report contains every order answered with 201 before it was asked for.
THEOREM ReportsFollow == Spec => []ReportsFollowOrders
<1>1. Init => InHand /\ ReportInv
  BY DEF Init, InHand, ReportInv, ReportsFollowOrders
<1>2. ReportInv => ReportsFollowOrders
  BY DEF ReportInv
<1> QED
  BY <1>1, <1>2, InHandStays, ReportInvStays, TypeCorrect, PTL DEF Spec

----------------------------------------------------------------------------
\* Order numbers are not handed out again: an order in flight has no other
\* invocation and no answer yet, and no order has two answers.
Numbered(o) == o[2] <= requests[o[1]]

OneAnswer ==
    /\ \A w \in Workers : inv[w] # Idle =>
          Numbered(inv[w].order) /\ inv[w].order \notin created \cup failed
    /\ \A v, w \in Workers :
          v # w /\ inv[v] # Idle /\ inv[w] # Idle => inv[v].order # inv[w].order
    /\ \A o \in created \cup failed : Numbered(o)
    /\ created \cap failed = {}

\* An invocation keeps its order to the end.
LEMMA OrderKept ==
    ASSUME TypeOK, NEW w \in Workers, Handle(w)
    PROVE  /\ inv[w] # Idle
           /\ inv'[w] = Idle \/ inv'[w].order = inv[w].order
           /\ \A v \in Workers \ {w} : inv'[v] = inv[v]
           /\ UNCHANGED requests
<1>1. CASE Answer201(w) \/ BreakOff(w)
  BY <1>1 DEF Answer201, BreakOff, At, TypeOK
<1>2. ASSUME NEW tx, tx \subseteq {inv[w].order}, inv[w] # Idle,
             inv[w].pc # "closing", Proceed(w, tx)
      PROVE  /\ inv'[w].order = inv[w].order
             /\ \A v \in Workers \ {w} : inv'[v] = inv[v]
  BY <1>2, ProceedType
<1>3. CASE Connect(w) \/ Create(w) \/ Commit(w)
  <2>1. Proceed(w, {}) /\ At(w, inv[w].pc) /\ inv[w].pc # "closing" /\ UNCHANGED requests
    BY <1>3 DEF Connect, Create, Commit, At
  <2> QED
    BY <1>2, <2>1 DEF At
<1>4. CASE Insert(w)
  <2>1. inv[w].tx \cup {inv[w].order} \subseteq {inv[w].order}
    BY <1>4 DEF Insert, At, TypeOK
  <2> QED
    BY <1>2, <1>4, <2>1 DEF Insert, At
<1> QED
  BY <1>1, <1>3, <1>4 DEF Handle, Answer500, Kill

LEMMA OneAnswerStays == TypeOK /\ OneAnswer /\ [Next]_vars => OneAnswer'
<1> SUFFICES ASSUME TypeOK, OneAnswer, [Next]_vars
             PROVE  OneAnswer'
  OBVIOUS
<1>1. ASSUME NEW w \in Workers, NEW c \in Checkouts, Request(w, c)
      PROVE  OneAnswer'
  <2> DEFINE new == <<c, requests[c] + 1>>
  <2>1. \A d \in Checkouts : requests[d] \in Nat /\ requests'[d] >= requests[d]
    BY <1>1, OrdersAssumption DEF Request, TypeOK
  <2>2. requests'[c] = requests[c] + 1
    BY <1>1 DEF Request, TypeOK
  <2>3. inv'[w].order = new /\ (\A v \in Workers \ {w} : inv'[v] = inv[v])
    BY <1>1 DEF Request, TypeOK
  <2>4. ASSUME NEW o \in Order, Numbered(o)
        PROVE  o # new /\ o[2] <= requests'[o[1]]
    <3>1. o[1] \in Checkouts /\ o[2] \in Nat /\ o[2] <= requests[o[1]]
      BY <2>4, OrdersAssumption DEF Order, Numbered
    <3>2. o[2] <= requests'[o[1]]
      <4>1. requests[o[1]] \in Nat /\ requests'[o[1]] >= requests[o[1]]
        BY <2>1, <3>1
      <4>2. requests'[o[1]] \in Nat
        BY <1>1, <3>1, <4>1 DEF Request, TypeOK
      <4> QED
        BY <3>1, <4>1, <4>2
    <3>3. CASE o = new
      <4>1. requests[c] \in Nat
        BY <2>1
      <4>2. o[1] = c /\ o[2] = requests[c] + 1
        BY <3>3
      <4> QED
        BY <3>1, <4>1, <4>2
    <3> QED
      BY <3>2, <3>3
  <2>5. \A v \in Workers : inv[v] # Idle => inv[v].order \in Order
    BY DEF TypeOK, Invocation
  <2>6. UNCHANGED <<created, failed>> /\ created \subseteq Order /\ failed \subseteq Order
    BY <1>1 DEF Request, history, TypeOK
  <2>7. new \notin created \cup failed
    BY <2>4, <2>6 DEF OneAnswer
  <2>8. new[2] <= requests'[new[1]]
    BY <2>1, <2>2
  <2>9. ASSUME NEW v \in Workers, inv'[v] # Idle
        PROVE  Numbered(inv[v].order)' /\ inv'[v].order \notin created \cup failed
    <3>1. CASE v = w
      BY <2>3, <2>7, <2>8, <3>1 DEF Numbered
    <3>2. CASE v # w
      BY <2>3, <2>4, <2>5, <2>9, <3>2 DEF OneAnswer, Numbered
    <3> QED
      BY <3>1, <3>2
  <2>10. ASSUME NEW u \in Workers, NEW v \in Workers, u # v, inv'[u] # Idle,
                inv'[v] # Idle
         PROVE  inv'[u].order # inv'[v].order
    BY <2>3, <2>4, <2>5, <2>10 DEF OneAnswer
  <2>11. \A o \in created' \cup failed' : Numbered(o)'
    BY <2>4, <2>6 DEF OneAnswer, Numbered
  <2> QED
    BY <2>6, <2>9, <2>10, <2>11 DEF OneAnswer
<1>2. ASSUME NEW w \in Workers, Handle(w)
      PROVE  OneAnswer'
  <2>1. \/ UNCHANGED <<created, failed>>
        \/ /\ inv'[w] = Idle
           /\ \/ created' = created \cup {inv[w].order} /\ UNCHANGED failed
              \/ failed' = failed \cup {inv[w].order} /\ UNCHANGED created
    BY <1>2 DEF Handle, Connect, Create, Insert, Commit, Answer201, Answer500,
                Kill, BreakOff, history, TypeOK
  <2> QED
    BY <1>2, <2>1, OrderKept DEF OneAnswer, Numbered
<1>3. CASE UNCHANGED <<inv, requests, created, failed>>
  BY <1>3 DEF OneAnswer, Numbered
<1> QED
  BY <1>1, <1>2, <1>3 DEF Next, vars, history, CommitLate, Ask, Read, ReportDone

\* What was answered with 201 is stored, and never answered with 500.
THEOREM CreatedStored == Spec => []CreatedIsStored
<1>1. Init => InHand /\ ReportInv /\ OneAnswer
  BY DEF Init, InHand, ReportInv, ReportsFollowOrders, OneAnswer
<1>2. ReportInv /\ OneAnswer => CreatedIsStored
  BY DEF ReportInv, OneAnswer, CreatedIsStored
<1> QED
  BY <1>1, <1>2, InHandStays, ReportInvStays, OneAnswerStays, TypeCorrect,
     PTL DEF Spec

-----------------------------------------------------------------------------
(* Act 1.  The steps of create_order are those proved about above; only a  *)
(* report read from the promoted instance is new.                          *)

\* A report read from the promoted instance.
ReadCopy(r) ==
    /\ host[r] = "replica" /\ report[r].pc = "reading"
    /\ Serve(r, Copy.rows)
    /\ UNCHANGED <<table, rows, late, requests, inv, history>>

\* The kinds of steps there are.
StepOfReports ==
    \E r \in Readers : AskHost(r) \/ ReadHost(r) \/ (ReportDone(r) /\ UNCHANGED drVars)

StepOfOperator ==
    /\ Lose \/ CreateReplica \/ Replicate \/ Promote \/ Repoint
    /\ UNCHANGED vars

LEMMA KindsOfStep ==
    ASSUME RecoveryNext
    PROVE  OrderStep \/ StepOfReports \/ StepOfOperator
BY DEF RecoveryNext, StepOfReports, StepOfOperator

\* A step is one of Orders, or one that Orders does not see, or reads the copy.
LEMMA StepOfOrders ==
    ASSUME [RecoveryNext]_<<vars, drVars>>
    PROVE  [Next]_vars \/ \E r \in Readers : ReadCopy(r)
<1>1. CASE OrderStep
  BY <1>1 DEF OrderStep, Next, Handle
<1>2. ASSUME NEW r \in Readers, AskHost(r) \/ ReadHost(r) \/ ReportDone(r)
      PROVE  Next \/ ReadCopy(r)
  BY <1>2 DEF AskHost, ReadHost, ReadCopy, Next
<1>3. CASE UNCHANGED vars
  BY <1>3
<1> QED
  BY <1>1, <1>2, <1>3 DEF RecoveryNext

LEMMA ReadCopyChanges ==
    ASSUME TypeOK, NEW r \in Readers, ReadCopy(r)
    PROVE  /\ report'[r].pc = "read"
           /\ report'[r].seen = Copy.rows
           /\ report'[r].before = report[r].before
           /\ \A q \in Readers \ {r} : report'[q] = report[q]
           /\ Copy.rows \subseteq Order => TypeOK'
<1>1. report'[r] = [[report[r] EXCEPT !.pc = "read"] EXCEPT !.seen = Copy.rows]
  BY DEF ReadCopy, Serve, TypeOK
<1>2. report[r] \in [pc : {"idle", "reading", "read"},
                     before : SUBSET Order, seen : SUBSET Order]
  BY DEF TypeOK
<1>3. \A q \in Readers \ {r} : report'[q] = report[q]
  BY DEF ReadCopy, Serve, TypeOK
<1>4. ASSUME Copy.rows \subseteq Order
      PROVE  TypeOK'
  <2>1. report' \in [Readers -> [pc : {"idle", "reading", "read"},
                                 before : SUBSET Order, seen : SUBSET Order]]
    <3>1. report'[r] \in [pc : {"idle", "reading", "read"},
                          before : SUBSET Order, seen : SUBSET Order]
      BY <1>1, <1>2, <1>4
    <3> QED
      BY <3>1 DEF ReadCopy, Serve, TypeOK
  <2> QED
    BY <2>1 DEF ReadCopy, TypeOK, history
<1> QED
  BY <1>1, <1>2, <1>3, <1>4

----------------------------------------------------------------------------
\* The binary log only grows, by states the primary went through.
LogTypeOK ==
    /\ binlog \in Seq([table : BOOLEAN, rows : SUBSET Order])
    /\ copied \in 1..Len(binlog)
    /\ binlog[Len(binlog)] = [table |-> table, rows |-> rows]
    /\ \A i \in 1..Len(binlog) : binlog[i].rows \subseteq rows

\* The rest of the type, and: nobody reads the replica before its promotion.
ActTypeOK ==
    /\ up \in BOOLEAN
    /\ replica \in {"none", "replicating", "standalone"}
    /\ reader \in Instances
    /\ host \in [Readers -> Instances]
    /\ reader = "replica" => replica = "standalone"
    /\ \A r \in Readers : host[r] = "replica" => replica = "standalone"

ActInv == TypeOK /\ InHand /\ LogTypeOK /\ ActTypeOK

LEMMA ActTypeStays ==
    ActTypeOK /\ [RecoveryNext]_<<vars, drVars>> => ActTypeOK'
<1> SUFFICES ASSUME ActTypeOK, [RecoveryNext]_<<vars, drVars>>
             PROVE  ActTypeOK'
  OBVIOUS
<1>1. CASE UNCHANGED <<up, replica, reader, host>>
  BY <1>1 DEF ActTypeOK
<1>2. ASSUME NEW r \in Readers, AskHost(r)
      PROVE  ActTypeOK'
  BY <1>2 DEF AskHost, ActTypeOK
<1>3. CASE Lose \/ CreateReplica \/ Replicate \/ Promote \/ Repoint
  BY <1>3 DEF Lose, CreateReplica, Replicate, Promote, Repoint, ActTypeOK, Instances
<1> QED
  BY <1>1, <1>2, <1>3 DEF RecoveryNext, OrderStep, ReadHost, drVars

\* The tables change in steps of create_order only, and those are logged.
LEMMA LogStays ==
    ASSUME TypeOK, TypeOK', LogTypeOK, [RecoveryNext]_<<vars, drVars>>
    PROVE  /\ LogTypeOK'
           /\ Len(binlog) <= Len(binlog')
           /\ \A i \in 1..Len(binlog) : binlog'[i] = binlog[i]
<1>1. CASE UNCHANGED <<table, rows, binlog>> /\ copied' \in 1..Len(binlog)
  BY <1>1 DEF LogTypeOK
<1>2. CASE OrderStep
  <2> DEFINE now == [table |-> table', rows |-> rows']
  <2>1. [Next]_vars
    BY <1>2 DEF OrderStep, Next, Handle
  <2>2. rows \subseteq rows'
    BY <2>1, RowsStay
  <2>3. now \in [table : BOOLEAN, rows : SUBSET Order]
    BY DEF TypeOK
  <2>4. CASE UNCHANGED <<table, rows>>
    BY <1>1, <1>2, <2>4 DEF OrderStep, Log, LogTypeOK
  <2>5. CASE ~ UNCHANGED <<table, rows>>
    <3>1. binlog' = Append(binlog, now) /\ copied' = copied
      BY <1>2, <2>5 DEF OrderStep, Log
    <3>2. /\ binlog' \in Seq([table : BOOLEAN, rows : SUBSET Order])
          /\ Len(binlog') = Len(binlog) + 1
          /\ \A i \in 1..Len(binlog) : binlog'[i] = binlog[i]
          /\ binlog'[Len(binlog) + 1] = now
      BY <2>3, <3>1, AppendProperties DEF LogTypeOK
    <3>3. Len(binlog) \in Nat
      BY LenProperties DEF LogTypeOK
    <3>4. \A i \in 1..Len(binlog') : binlog'[i].rows \subseteq rows'
      <4> SUFFICES ASSUME NEW i \in 1..Len(binlog'), NEW o \in binlog'[i].rows
                   PROVE  o \in rows'
        OBVIOUS
      <4>1. i \in 1..Len(binlog) \/ i = Len(binlog) + 1
        BY <3>2, <3>3
      <4> QED
        BY <2>2, <3>2, <4>1 DEF LogTypeOK
    <3>5. copied' \in 1..Len(binlog')
      BY <3>1, <3>2, <3>3 DEF LogTypeOK
    <3>6. binlog'[Len(binlog')] = [table |-> table', rows |-> rows']
      BY <3>2
    <3>7. LogTypeOK'
      BY <3>2, <3>4, <3>5, <3>6 DEF LogTypeOK
    <3>8. Len(binlog) <= Len(binlog')
      BY <3>2, <3>3
    <3> QED
      BY <3>2, <3>7, <3>8
  <2> QED
    BY <2>4, <2>5
<1>3. ASSUME CreateReplica \/ Replicate, UNCHANGED vars
      PROVE  UNCHANGED <<table, rows, binlog>> /\ copied' \in 1..Len(binlog)
  <2>1. Len(binlog) \in Nat
    BY LenProperties DEF LogTypeOK
  <2> QED
    BY <1>3, <2>1 DEF CreateReplica, Replicate, LogTypeOK, vars
<1>4. CASE UNCHANGED <<table, rows, binlog, copied>>
  BY <1>1, <1>4 DEF LogTypeOK
<1>5. ASSUME NEW r \in Readers,
             AskHost(r) \/ ReadHost(r) \/ (ReportDone(r) /\ UNCHANGED drVars)
      PROVE  UNCHANGED <<table, rows, binlog, copied>>
  BY <1>5 DEF AskHost, ReadHost, Ask, Read, ReportDone, drVars
<1>6. ASSUME Lose \/ Promote \/ Repoint, UNCHANGED vars
      PROVE  UNCHANGED <<table, rows, binlog, copied>>
  BY <1>6 DEF Lose, Promote, Repoint, vars
<1>7. CASE UNCHANGED <<vars, drVars>>
  BY <1>4, <1>7 DEF vars, drVars
<1>8. CASE StepOfReports
  BY <1>4, <1>5, <1>8 DEF StepOfReports
<1>9. CASE StepOfOperator
  BY <1>1, <1>3, <1>4, <1>6, <1>9 DEF StepOfOperator
<1> QED
  BY <1>2, <1>7, <1>8, <1>9, KindsOfStep

\* What is read once from the promoted instance, is read again.
LEMMA CopyStays ==
    ASSUME TypeOK, TypeOK', LogTypeOK, [RecoveryNext]_<<vars, drVars>>,
           replica = "standalone"
    PROVE  Copy' = Copy
<1>1. copied' = copied
  BY DEF RecoveryNext, OrderStep, AskHost, ReadHost, Lose, CreateReplica,
         Replicate, Promote, Repoint, drVars
<1> QED
  BY <1>1, LogStays DEF Copy, LogTypeOK

LEMMA ActInvInit == RecoveryInit => ActInv
<1> SUFFICES ASSUME RecoveryInit PROVE ActInv
  OBVIOUS
<1>1. TypeOK /\ InHand
  BY TypeInit DEF RecoveryInit, Init, InHand
<1>2. LogTypeOK
  <2> DEFINE State == [table : BOOLEAN, rows : SUBSET Order]
             empty == [table |-> FALSE, rows |-> {}]
  <2>1. empty \in State /\ binlog = <<empty>>
    BY DEF RecoveryInit
  <2>2. binlog \in Seq(State) /\ Len(binlog) = 1 /\ binlog[1] = empty
    BY <2>1
  <2>3. copied = 1 /\ rows = {} /\ table = FALSE
    BY DEF RecoveryInit, Init
  <2>4. \A i \in 1..Len(binlog) : binlog[i].rows \subseteq rows
    BY <2>2
  <2>5. binlog[Len(binlog)] = [table |-> table, rows |-> rows]
    BY <2>2, <2>3
  <2>6. copied \in 1..Len(binlog)
    BY <2>2, <2>3
  <2> QED
    BY <2>2, <2>4, <2>5, <2>6 DEF LogTypeOK
<1>3. ActTypeOK
  BY DEF RecoveryInit, ActTypeOK, Instances
<1> QED
  BY <1>1, <1>2, <1>3 DEF ActInv

LEMMA ActInvStays == ActInv /\ [RecoveryNext]_<<vars, drVars>> => ActInv'
<1> SUFFICES ASSUME ActInv, [RecoveryNext]_<<vars, drVars>> PROVE ActInv'
  OBVIOUS
<1>1. TypeOK' /\ InHand'
  <2>1. CASE [Next]_vars
    BY <2>1, TypeStays, InHandStays DEF ActInv
  <2>2. ASSUME NEW r \in Readers, ReadCopy(r)
        PROVE  TypeOK' /\ InHand'
    <3>1. Copy.rows \subseteq Order
      BY DEF ActInv, LogTypeOK, Copy, TypeOK
    <3>2. TypeOK'
      BY <2>2, <3>1, ReadCopyChanges DEF ActInv
    <3>3. InHand'
      BY <2>2 DEF ReadCopy, ActInv, InHand
    <3> QED
      BY <3>2, <3>3
  <2> QED
    BY <2>1, <2>2, StepOfOrders
<1>2. LogTypeOK'
  BY <1>1, LogStays DEF ActInv
<1>3. ActTypeOK'
  BY ActTypeStays DEF ActInv
<1> QED
  BY <1>1, <1>2, <1>3 DEF ActInv

\* The state of Act 1 has its type, and the binary log ends with what is stored.
THEOREM RecoveryTypeCorrect == RecoverySpec => []RecoveryTypeOK
<1>1. ActInv => RecoveryTypeOK
  BY DEF ActInv, LogTypeOK, ActTypeOK, RecoveryTypeOK
<1> QED
  BY <1>1, ActInvInit, ActInvStays, PTL DEF RecoverySpec

----------------------------------------------------------------------------
\* Whatever becomes of the primary and of get_reports, an order is stored without
\* a 201 only when its COMMIT got no answer.
THEOREM RecoveryAccountedFor == RecoverySpec => []StoredIsAccountedFor
<1>1. RecoveryInit => StoredIsAccountedFor
  BY DEF RecoveryInit, Init, StoredIsAccountedFor
<1>2. ActInv /\ StoredIsAccountedFor /\ [RecoveryNext]_<<vars, drVars>>
          => StoredIsAccountedFor'
  <2> SUFFICES ASSUME ActInv, StoredIsAccountedFor, [RecoveryNext]_<<vars, drVars>>
               PROVE  StoredIsAccountedFor'
    OBVIOUS
  <2>1. CASE [Next]_vars
    BY <2>1, AccountedStays DEF ActInv
  <2>2. ASSUME NEW r \in Readers, ReadCopy(r)
        PROVE  StoredIsAccountedFor'
    BY <2>2 DEF ReadCopy, history, StoredIsAccountedFor, At
  <2> QED
    BY <2>1, <2>2, StepOfOrders
<1> QED
  BY <1>1, <1>2, ActInvInit, ActInvStays, PTL DEF RecoverySpec

\* And what was answered with 201 is in the primary's table, and in no 500.
AnswerInv == created \subseteq rows /\ OneAnswer

LEMMA AnswerInvStays ==
    ActInv /\ AnswerInv /\ [RecoveryNext]_<<vars, drVars>> => AnswerInv'
<1> SUFFICES ASSUME ActInv, AnswerInv, [RecoveryNext]_<<vars, drVars>>
             PROVE  AnswerInv'
  OBVIOUS
<1>1. CASE [Next]_vars
  BY <1>1, CreatedStays, OneAnswerStays DEF ActInv, AnswerInv
<1>2. ASSUME NEW r \in Readers, ReadCopy(r)
      PROVE  AnswerInv'
  BY <1>2 DEF ReadCopy, history, AnswerInv, OneAnswer, Numbered
<1> QED
  BY <1>1, <1>2, StepOfOrders

LEMMA AnswerInvInit == RecoveryInit => AnswerInv
BY DEF RecoveryInit, Init, AnswerInv, OneAnswer

\* An order answered with 201 is in the primary's table from then on, and no 500
\* was answered for it.
THEOREM RecoveryCreatedStored == RecoverySpec => []CreatedIsStored
<1>1. AnswerInv => CreatedIsStored
  BY DEF AnswerInv, OneAnswer, CreatedIsStored
<1> QED
  BY <1>1, ActInvInit, ActInvStays, AnswerInvInit, AnswerInvStays, PTL
     DEF RecoverySpec

----------------------------------------------------------------------------
\* What a report that is being read, or was read, can miss.
GapInv ==
    /\ \A r \in Readers : report[r].pc = "reading" => report[r].before \subseteq created
    /\ ReportGapsExplained

LEMMA GapInvStays ==
    ActInv /\ AnswerInv /\ GapInv /\ [RecoveryNext]_<<vars, drVars>> => GapInv'
<1> SUFFICES ASSUME ActInv, AnswerInv, GapInv, [RecoveryNext]_<<vars, drVars>>,
                    NEW r \in Readers
             PROVE  /\ report'[r].pc = "reading" => report'[r].before \subseteq created'
                    /\ report'[r].pc = "read" =>
                         /\ report'[r].seen \subseteq rows'
                         /\ host'[r] = "primary"
                              => report'[r].before \subseteq report'[r].seen
                         /\ host'[r] = "replica"
                              => (report'[r].before \ report'[r].seen) \cap Copy'.rows = {}
  BY DEF GapInv, ReportGapsExplained, Copy
<1>1. rows \subseteq rows' /\ created \subseteq created'
  <2>1. CASE [Next]_vars
    BY <2>1, RowsStay, AnswersStay DEF ActInv
  <2>2. ASSUME NEW q \in Readers, ReadCopy(q)
        PROVE  UNCHANGED <<rows, created>>
    BY <2>2 DEF ReadCopy, history
  <2> QED
    BY <2>1, <2>2, StepOfOrders
<1>2. host[r] = "replica" => Copy' = Copy
  BY CopyStays, ActInvStays DEF ActInv, ActTypeOK
<1>3. CASE report'[r] = report[r] /\ host'[r] = host[r]
  BY <1>1, <1>2, <1>3 DEF GapInv, ReportGapsExplained
<1>4. CASE Ask(r)
  <2>1. report'[r] = [[report[r] EXCEPT !.pc = "reading"] EXCEPT !.before = created]
    BY <1>4 DEF Ask, ActInv, TypeOK
  <2>2. report'[r].pc = "reading" /\ report'[r].before = created
    BY <2>1 DEF ActInv, TypeOK
  <2> QED
    BY <1>1, <2>2
<1>5. CASE Read(r) /\ host[r] = "primary" /\ UNCHANGED drVars
  <2>1. report'[r] = [[report[r] EXCEPT !.pc = "read"] EXCEPT !.seen = rows]
    BY <1>5 DEF Read, Serve, ActInv, TypeOK
  <2>2. report'[r].pc = "read" /\ report'[r].seen = rows
        /\ report'[r].before = report[r].before
    BY <2>1 DEF ActInv, TypeOK
  <2>3. host'[r] = "primary"
    BY <1>5 DEF drVars
  <2> QED
    BY <1>1, <1>5, <2>2, <2>3 DEF Read, GapInv, AnswerInv
<1>6. CASE ReadCopy(r) /\ UNCHANGED drVars
  <2>1. report'[r].pc = "read" /\ report'[r].seen = Copy.rows
    BY <1>6, ReadCopyChanges DEF ActInv
  <2>2. Copy.rows \subseteq rows
    BY DEF ActInv, LogTypeOK, Copy
  <2>3. Copy' = Copy /\ host'[r] = "replica"
    BY <1>2, <1>6 DEF ReadCopy, drVars
  <2> QED
    BY <1>1, <2>1, <2>2, <2>3
<1>7. CASE ReportDone(r)
  BY <1>7 DEF ReportDone, ActInv, TypeOK
<1>8. ASSUME NEW q \in Readers, q # r, AskHost(q) \/ ReadHost(q)
                                       \/ (ReportDone(q) /\ UNCHANGED drVars)
      PROVE  report'[r] = report[r] /\ host'[r] = host[r]
  BY <1>8 DEF AskHost, ReadHost, Ask, Read, ReportDone, Serve, drVars, ActInv,
              TypeOK, ActTypeOK
<1>9. CASE OrderStep
  <2>1. report' = report
    BY <1>9 DEF OrderStep, Request, Connect, Create, Insert, Commit, Answer201,
                Answer500, Kill, BreakOff, CommitLate
  <2> QED
    BY <1>3, <1>9, <2>1 DEF OrderStep
<1>10. ASSUME Lose \/ CreateReplica \/ Replicate \/ Promote \/ Repoint, UNCHANGED vars
       PROVE  UNCHANGED <<report, host>>
  BY <1>10 DEF Lose, CreateReplica, Replicate, Promote, Repoint, vars
<1>11. AskHost(r) => Ask(r)
  BY DEF AskHost
<1>12. ReadHost(r) => \/ Read(r) /\ host[r] = "primary" /\ UNCHANGED drVars
                      \/ ReadCopy(r) /\ UNCHANGED drVars
  BY DEF ReadHost, ReadCopy
<1> QED
  BY <1>3, <1>4, <1>5, <1>6, <1>7, <1>8, <1>9, <1>10, <1>11, <1>12
     DEF RecoveryNext, vars, drVars

\* A report lacks only what the promoted instance never received, or what was
\* ordered after the promotion; and it shows nothing that is not stored.
THEOREM GapsExplained == RecoverySpec => []ReportGapsExplained
<1>1. RecoveryInit => GapInv
  BY DEF RecoveryInit, Init, GapInv, ReportGapsExplained
<1>2. GapInv => ReportGapsExplained
  BY DEF GapInv
<1> QED
  BY <1>1, <1>2, ActInvInit, ActInvStays, AnswerInvInit, AnswerInvStays,
     GapInvStays, PTL DEF RecoverySpec
=============================================================================
