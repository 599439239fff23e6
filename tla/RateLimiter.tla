----------------------------- MODULE RateLimiter -----------------------------
(***************************************************************************)
(* The per-IP fixed-window rate limit of the request authorizer            *)
(* (lambda/authorizer/handler.py).  An invocation reads the clock to name  *)
(* the counter, adds one to it in DynamoDB and judges the request by the   *)
(* number that comes back, its slot; between these steps others run, time  *)
(* passes, the demo reset deletes counters, and the invocation may die.    *)
(* When the counter cannot be updated, or its answer is lost, the request  *)
(* is let through (fail open) and gets slot 0.                             *)
(*                                                                         *)
(* A request that matches a signature is denied before it is counted and   *)
(* leaves no trace here; the alert a Deny publishes never changes the      *)
(* answer.  Both are left out.                                             *)
(***************************************************************************)
EXTENDS Integers, FiniteSets, Functions

CONSTANTS
    Ips,            \* clients
    Workers,        \* concurrent invocations of the authorizer
    Idle,           \* no invocation in flight
    RATE_LIMIT,
    RATE_WINDOW,    \* length of a window, in ticks
    MaxDelay,       \* the Lambda timeout, in ticks
    MaxTime,        \* bound: ticks of a behaviour
    MaxSent,        \* bound: update calls for one counter
    MaxClears       \* bound: resets of one counter

ASSUME FinitelyMany == IsFiniteSet(Workers)

ASSUME LimiterAssumption ==
    /\ RATE_LIMIT \in Nat
    /\ RATE_WINDOW \in Nat \ {0}
    /\ {MaxDelay, MaxTime, MaxSent, MaxClears} \subseteq Nat

\* Invocations live for 5 seconds, windows for 300 (compute_stack.py:77, 87).
ASSUME TimeoutWithinWindow == MaxDelay <= RATE_WINDOW

\* int(time.time() // RATE_WINDOW).
WindowOf(t) == t \div RATE_WINDOW

Windows == {WindowOf(t) : t \in 0..MaxTime}

\* PK = "RL#<ip>", SK = "WINDOW#<window>".
Key == Ips \X Windows

\* A counter is deleted now and then and starts again: its lives.
Lives == 0..MaxClears

Invocation == [pc : {"counting", "counted"}, key : Key, at : 0..MaxTime,
               gen : Lives, slot : Nat]

ASSUME NotRunning == Idle \notin Invocation

VARIABLES
    now,        \* the clock
    cnt,        \* cnt[k]: the counter item, 0 when there is none
    inv,        \* inv[w]: what the invocation of worker w knows
    sent,       \* history: update calls sent for a counter
    cleared,    \* history: how often a counter was deleted
    grants,     \* history: the slots requests were allowed on
    passed,     \* history: requests allowed on a slot, per life of a counter
    passedAt    \* history: the same, per client and time of the answer

vars == <<now, cnt, inv, sent, cleared, grants, passed, passedAt>>

history == <<grants, passed, passedAt>>

\* count > RATE_LIMIT; and two slips, off by one either way.
ExceededEarly(slot) == slot >= RATE_LIMIT
ExceededLate(slot) == slot > RATE_LIMIT + 1
Exceeded(slot) == slot > RATE_LIMIT

ReadClock(w, ip) ==
    LET k == <<ip, WindowOf(now)>>
    IN  /\ inv[w] = Idle
        /\ sent[k] < MaxSent
        /\ sent' = [sent EXCEPT ![k] = @ + 1]
        /\ inv' = [inv EXCEPT ![w] = [pc |-> "counting", key |-> k,
                                      at |-> now, gen |-> 0, slot |-> 0]]
        /\ UNCHANGED <<now, cnt, cleared, history>>

Counting(w) == inv[w] # Idle /\ inv[w].pc = "counting"

\* ADD cnt :one creates the item when it is not there.
Add(k) == cnt' = [cnt EXCEPT ![k] = @ + 1]

Counted(w, slot) ==
    inv' = [inv EXCEPT ![w] = [@ EXCEPT !.pc = "counted", !.slot = slot,
                                        !.gen = cleared[inv[w].key]]]

\* Slip: get_item, then put_item of the number read plus one, in two calls
\* between which another invocation may have counted.
CountStale(w) ==
    /\ Counting(w)
    /\ \E seen \in Nat \cap {cnt[inv[w].key], cnt[inv[w].key] - 1} :
           /\ cnt' = [cnt EXCEPT ![inv[w].key] = seen + 1]
           /\ Counted(w, seen + 1)
    /\ UNCHANGED <<now, sent, cleared, history>>

\* update_item with ReturnValues=UPDATED_NEW, atomic in the table.
Count(w) ==
    /\ Counting(w)
    /\ Add(inv[w].key)
    /\ Counted(w, cnt[inv[w].key] + 1)
    /\ UNCHANGED <<now, sent, cleared, history>>

\* The update is applied, its answer lost, and the SDK sends it once more.
Resend(w) ==
    /\ Counting(w)
    /\ sent[inv[w].key] < MaxSent
    /\ Add(inv[w].key)
    /\ sent' = [sent EXCEPT ![inv[w].key] = @ + 1]
    /\ UNCHANGED <<now, inv, cleared, history>>

\* except Exception: return False, 0 - whether or not the update was applied.
FailOpen(w) ==
    /\ Counting(w)
    /\ Add(inv[w].key) \/ UNCHANGED cnt
    /\ Counted(w, 0)
    /\ UNCHANGED <<now, sent, cleared, history>>

Answering(w) == inv[w] # Idle /\ inv[w].pc = "counted"

Finish(w) ==
    /\ inv' = [inv EXCEPT ![w] = Idle]
    /\ UNCHANGED <<now, cnt, sent, cleared>>

\* Slip: a denied request gives its number back.
DenyRefunding(w) ==
    /\ Answering(w)
    /\ Exceeded(inv[w].slot)
    /\ cnt' = [cnt EXCEPT ![inv[w].key] = @ - 1]
    /\ inv' = [inv EXCEPT ![w] = Idle]
    /\ UNCHANGED <<now, sent, cleared, history>>

Deny(w) ==
    /\ Answering(w)
    /\ Exceeded(inv[w].slot)
    /\ Finish(w)
    /\ UNCHANGED history

Allow(w) ==
    /\ Answering(w)
    /\ ~Exceeded(inv[w].slot)
    /\ inv[w].slot > 0
    /\ LET k == inv[w].key
       IN  /\ grants' = grants \cup
                  {[key |-> k, gen |-> inv[w].gen, slot |-> inv[w].slot]}
           /\ passed' = [passed EXCEPT ![<<k, inv[w].gen>>] = @ + 1]
           /\ passedAt' = [passedAt EXCEPT ![<<k[1], now>>] = @ + 1]
    /\ Finish(w)

AllowUncounted(w) ==
    /\ Answering(w)
    /\ inv[w].slot = 0
    /\ Finish(w)
    /\ UNCHANGED history

\* The invocation dies or is killed at its timeout; API Gateway answers 500.
Die(w) ==
    /\ inv[w] # Idle
    /\ Finish(w)
    /\ UNCHANGED history

\* Time passes, but not beyond the timeout of a running invocation.
Tick ==
    /\ now < MaxTime
    /\ \A w \in Workers : inv[w] # Idle => now < inv[w].at + MaxDelay
    /\ now' = now + 1
    /\ UNCHANGED <<cnt, inv, sent, cleared, history>>

\* demo.sh reset deletes the caller's counters of three windows, one by one.
Clear(k) ==
    /\ k[2] \in WindowOf(now) - 1 .. WindowOf(now) + 1
    /\ cleared[k] < MaxClears
    /\ cnt' = [cnt EXCEPT ![k] = 0]
    /\ cleared' = [cleared EXCEPT ![k] = @ + 1]
    /\ UNCHANGED <<now, inv, sent, history>>

Init ==
    /\ now = 0
    /\ cnt = [k \in Key |-> 0]
    /\ inv = [w \in Workers |-> Idle]
    /\ sent = [k \in Key |-> 0]
    /\ cleared = [k \in Key |-> 0]
    /\ grants = {}
    /\ passed = [l \in Key \X Lives |-> 0]
    /\ passedAt = [p \in Ips \X (0..MaxTime) |-> 0]

Progress(w) ==
    \/ Count(w)
    \/ Resend(w)
    \/ FailOpen(w)
    \/ Deny(w)
    \/ Allow(w)
    \/ AllowUncounted(w)
    \/ Die(w)

Next ==
    \/ \E w \in Workers, ip \in Ips : ReadClock(w, ip)
    \/ \E w \in Workers : Progress(w)
    \/ Tick
    \/ \E k \in Key : Clear(k)

\* Lambda answers or kills every invocation, and time passes; nobody has to
\* call the API or to run the reset.
Spec ==
    /\ Init
    /\ [][Next]_vars
    /\ \A w \in Workers : WF_vars(Progress(w))
    /\ WF_vars(Tick)

----------------------------------------------------------------------------
\* Every variable has its type.
TypeOK ==
    /\ now \in 0..MaxTime
    /\ cnt \in [Key -> Nat]
    /\ inv \in [Workers -> Invocation \cup {Idle}]
    /\ sent \in [Key -> Nat]
    /\ cleared \in [Key -> Lives]
    /\ grants \subseteq [key : Key, gen : Lives, slot : Nat]
    /\ passed \in [Key \X Lives -> Nat]
    /\ passedAt \in [Ips \X (0..MaxTime) -> Nat]

SlotOf(w) == [key |-> inv[w].key, gen |-> inv[w].gen, slot |-> inv[w].slot]

\* However invocations interleave with each other, with resent updates and with
\* deletions of the counter, no two requests get the same slot of one life of
\* a counter: neither two that are in flight nor one that was already granted.
SlotsUnique ==
    \A w \in Workers : Answering(w) /\ inv[w].slot > 0 =>
        /\ SlotOf(w) \notin grants
        /\ \A v \in Workers \ {w} : Answering(v) => SlotOf(v) # SlotOf(w)

\* The limit: of the requests that one life of a counter counted, at most
\* RATE_LIMIT get through (fail-open answers come on top).
AllowedPerWindow ==
    \A l \in Key \X Lives : passed[l] <= RATE_LIMIT

\* A client is only denied for its own requests in that very window: more than
\* RATE_LIMIT update calls were sent for its counter, resent ones included.
DenyJustified ==
    \A w \in Workers :
        Answering(w) /\ Exceeded(inv[w].slot) => sent[inv[w].key] > RATE_LIMIT

\* What the fixed windows do promise over any stretch of time as long as a
\* window: where no counter was reset, a client gets at most three times the
\* limit through - the rest of one window, a whole one, and the late answers
\* of the one before.
SlidingBound ==
    (\A k \in Key : cleared[k] = 0) =>
        \A ip \in Ips, t \in 0..MaxTime :
            LET stretch == {u \in 0..MaxTime : t <= u /\ u < t + RATE_WINDOW}
            IN  SumFunctionOnSet(passedAt, {ip} \X stretch) <= 3 * RATE_LIMIT

\* handler.py:10-11: the counters carry a TTL "so the counters self-expire".
ExpireAt(k) == (k[2] + 2) * RATE_WINDOW
CountersSelfExpire ==
    \A k \in Key : cnt[k] > 0 /\ now >= ExpireAt(k) ~> cnt[k] = 0
=============================================================================
