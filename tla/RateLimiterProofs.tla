-------------------------- MODULE RateLimiterProofs --------------------------
(***************************************************************************)
(* Theorems about RateLimiter for every set of clients and invocations,    *)
(* every limit and window length, and every bound on time and resets.      *)
(***************************************************************************)
EXTENDS RateLimiter, FoldTheorems, TLAPS

\* Every step keeps the types.
LEMMA StepType ==
    ASSUME TypeOK, [Next]_vars
    PROVE  TypeOK'
<1> USE LimiterAssumption DEF TypeOK
<1>1. ASSUME NEW w \in Workers, NEW ip \in Ips, ReadClock(w, ip)
      PROVE  TypeOK'
  <2>1. <<ip, WindowOf(now)>> \in Key
    BY DEF Key, Windows
  <2>2. [pc |-> "counting", key |-> <<ip, WindowOf(now)>>, at |-> now,
         gen |-> 0, slot |-> 0] \in Invocation
    BY <2>1 DEF Invocation, Lives
  <2> QED
    BY <1>1, <2>1, <2>2 DEF ReadClock, history
<1>2. ASSUME NEW w \in Workers, Progress(w)
      PROVE  TypeOK'
  <2>1. ASSUME NEW slot \in Nat, Counting(w), Counted(w, slot)
        PROVE  inv' \in [Workers -> Invocation \cup {Idle}]
    <3> DEFINE r == [inv[w] EXCEPT !.pc = "counted", !.slot = slot,
                                   !.gen = cleared[inv[w].key]]
    <3>1. inv[w] \in Invocation
      BY <2>1 DEF Counting
    <3>2. inv[w].key \in Key /\ cleared[inv[w].key] \in Lives
      BY <3>1 DEF Invocation
    <3>3. r \in Invocation
      BY <3>1, <3>2 DEF Invocation
    <3>4. inv' = [inv EXCEPT ![w] = r]
      BY <2>1 DEF Counted
    <3> QED
      BY <3>3, <3>4
  <2>2. ASSUME Counting(w)
        PROVE  inv[w].key \in Key
    BY <2>2 DEF Counting, Invocation
  <2>3. CASE Count(w)
    <3>1. cnt[inv[w].key] + 1 \in Nat
      BY <2>2, <2>3 DEF Count
    <3> QED
      BY <2>1, <2>3, <3>1 DEF Count, Add, history
  <2>4. CASE Resend(w)
    BY <2>2, <2>4 DEF Resend, Add, history
  <2>5. CASE FailOpen(w)
    BY <2>1, <2>2, <2>5 DEF FailOpen, Add, history
  <2>6. CASE Deny(w) \/ AllowUncounted(w) \/ Die(w)
    BY <2>6 DEF Deny, AllowUncounted, Die, Finish, history
  <2>7. CASE Allow(w)
    <3>1. inv[w] \in Invocation
      BY <2>7 DEF Allow, Answering
    <3>2. inv[w].key \in Key /\ inv[w].gen \in Lives /\ inv[w].slot \in Nat
      BY <3>1 DEF Invocation
    <3>3. inv[w].key[1] \in Ips
      BY <3>2 DEF Key
    <3> QED
      BY <2>7, <3>2, <3>3 DEF Allow, Finish
  <2> QED
    BY <1>2, <2>3, <2>4, <2>5, <2>6, <2>7 DEF Progress
<1>3. CASE Tick
  BY <1>3 DEF Tick, history
<1>4. ASSUME NEW k \in Key, Clear(k)
      PROVE  TypeOK'
  BY <1>4 DEF Clear, Lives, history
<1>5. CASE UNCHANGED vars
  BY <1>5 DEF vars
<1> QED
  BY <1>1, <1>2, <1>3, <1>4, <1>5 DEF Next

\* Type correctness of the limiter.
THEOREM TypeCorrect == Spec => []TypeOK
<1>1. Init => TypeOK
  BY LimiterAssumption DEF Init, TypeOK, Lives
<1> QED
  BY <1>1, StepType, PTL DEF Spec

----------------------------------------------------------------------------
(* No slot is granted twice.                                               *)

\* A slot handed out in the current life of a counter is not above it, and no
\* life is ahead of the counter's own.
SlotsBelowCounter ==
    /\ \A w \in Workers : Answering(w) /\ inv[w].slot > 0 =>
           /\ inv[w].gen <= cleared[inv[w].key]
           /\ inv[w].gen = cleared[inv[w].key] =>
                  inv[w].slot <= cnt[inv[w].key]
    /\ \A g \in grants :
           /\ g.gen <= cleared[g.key]
           /\ g.gen = cleared[g.key] => g.slot <= cnt[g.key]

SlotInv == SlotsBelowCounter /\ SlotsUnique

\* Steps that hand out no slot and grant none: counters may only grow, or
\* start a new life.
LEMMA QuietStep ==
    ASSUME TypeOK, SlotInv, TypeOK',
           UNCHANGED grants,
           \A k \in Key : \/ cleared'[k] = cleared[k] /\ cnt'[k] >= cnt[k]
                          \/ cleared'[k] > cleared[k],
           \A w \in Workers :
               Answering(w)' /\ inv'[w].slot > 0 => inv'[w] = inv[w]
    PROVE  SlotInv'
<1>1. ASSUME NEW w \in Workers, Answering(w)', inv'[w].slot > 0
      PROVE  /\ inv'[w] = inv[w] /\ Answering(w) /\ inv[w].slot > 0
             /\ SlotOf(w)' = SlotOf(w)
             /\ inv[w].key \in Key
             /\ inv[w].gen \in Int /\ inv[w].slot \in Nat
  <2>1. inv'[w] = inv[w]
    BY <1>1
  <2>2. inv[w] \in Invocation
    BY <1>1, <2>1 DEF Answering, TypeOK
  <2> QED
    BY <1>1, <2>1, <2>2 DEF Answering, SlotOf, Invocation, Lives
<1>2. \A k \in Key : /\ cleared[k] \in Int /\ cleared'[k] \in Int
                     /\ cnt[k] \in Nat /\ cnt'[k] \in Nat
  BY DEF TypeOK, Lives
<1>3. \A g \in grants : g.key \in Key /\ g.gen \in Int /\ g.slot \in Nat
  BY DEF TypeOK, Lives
<1>4. SlotsBelowCounter'
  BY <1>1, <1>2, <1>3 DEF SlotInv, SlotsBelowCounter
<1>5. SlotsUnique'
  <2> SUFFICES ASSUME NEW w \in Workers, Answering(w)', inv'[w].slot > 0
               PROVE  /\ SlotOf(w)' \notin grants
                      /\ \A v \in Workers \ {w} :
                             Answering(v)' => SlotOf(v)' # SlotOf(w)'
    BY DEF SlotsUnique
  <2>1. SlotOf(w)' \notin grants
    BY <1>1 DEF SlotInv, SlotsUnique
  <2>2. ASSUME NEW v \in Workers \ {w}, Answering(v)',
               SlotOf(v)' = SlotOf(w)'
        PROVE  FALSE
    <3>1. inv'[v].slot = inv'[w].slot
      BY <2>2 DEF SlotOf
    <3> QED
      BY <1>1, <2>2, <3>1 DEF SlotInv, SlotsUnique
  <2> QED
    BY <2>1, <2>2
<1> QED
  BY <1>4, <1>5 DEF SlotInv

\* update_item hands out the next number: above every slot of this life.
LEMMA CountStep ==
    ASSUME TypeOK, SlotInv, TypeOK', NEW w \in Workers, Count(w)
    PROVE  SlotInv'
<1> DEFINE k == inv[w].key
           c == cnt[k] + 1
<1>1. /\ k \in Key /\ cnt[k] \in Nat /\ cnt' = [cnt EXCEPT ![k] = c]
      /\ inv[w] \in Invocation /\ inv[w].pc = "counting"
      /\ grants' = grants /\ cleared' = cleared
  BY DEF Count, Add, Counting, TypeOK, Invocation, history
<1>2. /\ inv'[w].key = k /\ inv'[w].slot = c /\ inv'[w].gen = cleared[k]
      /\ SlotOf(w)' = [key |-> k, gen |-> cleared[k], slot |-> c]
      /\ \A v \in Workers : v # w => inv'[v] = inv[v]
  <2>1. inv' = [inv EXCEPT ![w] =
                   [inv[w] EXCEPT !.pc = "counted", !.slot = c,
                                  !.gen = cleared[k]]]
    BY DEF Count, Counted
  <2>2. inv'[w] = [inv[w] EXCEPT !.pc = "counted", !.slot = c,
                                 !.gen = cleared[k]]
    BY <2>1 DEF TypeOK
  <2>3. inv'[w].key = k /\ inv'[w].slot = c /\ inv'[w].gen = cleared[k]
    BY <1>1, <2>2 DEF Invocation
  <2> QED
    BY <2>1, <2>3 DEF SlotOf, TypeOK
<1>3. ASSUME NEW v \in Workers, v # w, Answering(v)'
      PROVE  /\ inv'[v] = inv[v] /\ Answering(v) /\ SlotOf(v)' = SlotOf(v)
             /\ inv[v].key \in Key
             /\ inv[v].gen \in Int /\ inv[v].slot \in Nat
  <2>1. inv'[v] = inv[v]
    BY <1>2, <1>3
  <2>2. inv[v] \in Invocation
    BY <1>3, <2>1 DEF Answering, TypeOK
  <2> QED
    BY <1>3, <2>1, <2>2 DEF Answering, SlotOf, Invocation, Lives
<1>4. /\ \A j \in Key : cleared[j] \in Int /\ cnt[j] \in Nat
      /\ \A g \in grants : g.key \in Key /\ g.gen \in Int /\ g.slot \in Nat
  BY DEF TypeOK, Lives
<1>5. /\ cnt'[k] = c /\ c \in Nat /\ c > cnt[k]
      /\ \A j \in Key : cnt'[j] >= cnt[j] /\ cnt'[j] \in Nat
  BY <1>1, <1>4 DEF TypeOK
<1> HIDE DEF c, k
<1>6. SlotsBelowCounter'
  <2>1. ASSUME NEW v \in Workers, Answering(v)', inv'[v].slot > 0
        PROVE  /\ inv'[v].gen <= cleared[inv'[v].key]
               /\ inv'[v].gen = cleared[inv'[v].key] =>
                      inv'[v].slot <= cnt'[inv'[v].key]
    <3>1. CASE v = w
      BY <1>1, <1>2, <1>4, <1>5, <3>1
    <3>2. CASE v # w
      BY <1>3, <1>4, <1>5, <2>1, <3>2 DEF SlotInv, SlotsBelowCounter
    <3> QED
      BY <3>1, <3>2
  <2>2. \A g \in grants :
            /\ g.gen <= cleared[g.key]
            /\ g.gen = cleared[g.key] => g.slot <= cnt'[g.key]
    BY <1>4, <1>5 DEF SlotInv, SlotsBelowCounter
  <2> QED
    BY <1>1, <2>1, <2>2 DEF SlotsBelowCounter
<1>7. SlotOf(w)' \notin grants
  <2> SUFFICES ASSUME SlotOf(w)' \in grants PROVE FALSE
    OBVIOUS
  <2>1. /\ SlotOf(w)'.key = k /\ SlotOf(w)'.gen = cleared[k]
        /\ SlotOf(w)'.slot = c
    BY <1>2
  <2>2. c <= cnt[k]
    BY <2>1 DEF SlotInv, SlotsBelowCounter
  <2> QED
    BY <1>1, <1>5, <2>2
<1>8. ASSUME NEW v \in Workers, v # w, Answering(v)'
      PROVE  SlotOf(v)' # SlotOf(w)'
  <2> SUFFICES ASSUME SlotOf(v)' = SlotOf(w)' PROVE FALSE
    OBVIOUS
  <2>1. inv[v].key = k /\ inv[v].gen = cleared[k] /\ inv[v].slot = c
    BY <1>2, <1>3, <1>8 DEF SlotOf
  <2>2. c <= cnt[k]
    BY <1>1, <1>3, <1>5, <1>8, <2>1 DEF SlotInv, SlotsBelowCounter
  <2> QED
    BY <1>1, <1>5, <2>2
<1>9. SlotsUnique'
  <2> SUFFICES ASSUME NEW v \in Workers, Answering(v)', inv'[v].slot > 0
               PROVE  /\ SlotOf(v)' \notin grants
                      /\ \A u \in Workers \ {v} :
                             Answering(u)' => SlotOf(u)' # SlotOf(v)'
    BY <1>1 DEF SlotsUnique
  <2>1. CASE v = w
    BY <1>7, <1>8, <2>1
  <2>2. CASE v # w
    <3>1. /\ inv[v].slot > 0 /\ Answering(v) /\ SlotOf(v)' = SlotOf(v)
      BY <1>3, <2>2
    <3>2. ASSUME NEW u \in Workers \ {v}, Answering(u)'
          PROVE  SlotOf(u)' # SlotOf(v)'
      <4>1. CASE u = w
        BY <1>8, <2>2, <4>1
      <4>2. CASE u # w
        BY <1>3, <3>1, <3>2, <4>2 DEF SlotInv, SlotsUnique
      <4> QED
        BY <4>1, <4>2
    <3> QED
      BY <3>1, <3>2 DEF SlotInv, SlotsUnique
  <2> QED
    BY <2>1, <2>2
<1> QED
  BY <1>6, <1>9 DEF SlotInv

\* A granted slot leaves the hands of its only holder.
LEMMA AllowStep ==
    ASSUME TypeOK, SlotInv, TypeOK', NEW w \in Workers, Allow(w)
    PROVE  SlotInv'
<1>1. /\ grants' = grants \cup {SlotOf(w)} /\ inv' = [inv EXCEPT ![w] = Idle]
      /\ cnt' = cnt /\ cleared' = cleared
      /\ Answering(w) /\ inv[w].slot > 0
  BY DEF Allow, Finish, SlotOf
<1>2. ASSUME NEW v \in Workers, Answering(v)'
      PROVE  /\ v # w /\ inv'[v] = inv[v] /\ Answering(v)
             /\ SlotOf(v)' = SlotOf(v)
  <2>1. v # w
    BY <1>1, <1>2 DEF Answering, TypeOK
  <2> QED
    BY <1>1, <1>2, <2>1 DEF Answering, SlotOf, TypeOK
<1>3. SlotsBelowCounter'
  <2>1. /\ SlotOf(w).gen <= cleared[SlotOf(w).key]
        /\ SlotOf(w).gen = cleared[SlotOf(w).key] =>
               SlotOf(w).slot <= cnt[SlotOf(w).key]
    BY <1>1 DEF SlotInv, SlotsBelowCounter, SlotOf
  <2> QED
    BY <1>1, <1>2, <2>1 DEF SlotInv, SlotsBelowCounter
<1>4. SlotsUnique'
  BY <1>1, <1>2 DEF SlotInv, SlotsUnique
<1> QED
  BY <1>3, <1>4 DEF SlotInv

\* All steps together.
LEMMA SlotStep ==
    ASSUME TypeOK, SlotInv, TypeOK', [Next]_vars
    PROVE  SlotInv'
<1>0. \A k \in Key : cleared[k] \in Int /\ cnt[k] \in Nat
  BY DEF TypeOK, Lives
<1>1. ASSUME NEW w \in Workers, NEW ip \in Ips, ReadClock(w, ip)
      PROVE  SlotInv'
  <2>1. /\ grants' = grants /\ cnt' = cnt /\ cleared' = cleared
        /\ \A v \in Workers : inv'[v] = inv[v] \/ inv'[v].slot = 0
    BY <1>1 DEF ReadClock, history, TypeOK
  <2> QED
    BY <1>0, <2>1, QuietStep
<1>2. ASSUME NEW w \in Workers, Resend(w)
      PROVE  SlotInv'
  <2>1. /\ grants' = grants /\ inv' = inv /\ cleared' = cleared
        /\ \A k \in Key : cnt'[k] >= cnt[k]
    BY <1>0, <1>2 DEF Resend, Add, history, TypeOK
  <2> QED
    BY <1>0, <2>1, QuietStep
<1>3. ASSUME NEW w \in Workers, FailOpen(w)
      PROVE  SlotInv'
  <2>1. /\ grants' = grants /\ cleared' = cleared
        /\ \A k \in Key : cnt'[k] >= cnt[k]
    BY <1>0, <1>3 DEF FailOpen, Add, history, TypeOK
  <2>2. \A v \in Workers : inv'[v] = inv[v] \/ inv'[v].slot = 0
    <3>1. inv[w] \in Invocation
      BY <1>3 DEF FailOpen, Counting, TypeOK
    <3>2. inv'[w].slot = 0
      BY <1>3, <3>1 DEF FailOpen, Counted, Invocation, TypeOK
    <3> QED
      BY <1>3, <3>2 DEF FailOpen, Counted, TypeOK
  <2> QED
    BY <1>0, <2>1, <2>2, QuietStep
<1>4. ASSUME NEW w \in Workers, Deny(w) \/ AllowUncounted(w) \/ Die(w)
      PROVE  SlotInv'
  <2>1. /\ grants' = grants /\ cnt' = cnt /\ cleared' = cleared
        /\ inv' = [inv EXCEPT ![w] = Idle]
    BY <1>4 DEF Deny, AllowUncounted, Die, Finish, history
  <2>2. \A v \in Workers : Answering(v)' => inv'[v] = inv[v]
    BY <2>1 DEF Answering, TypeOK
  <2> QED
    BY <1>0, <2>1, <2>2, QuietStep
<1>5. CASE Tick \/ UNCHANGED vars
  <2>1. grants' = grants /\ cnt' = cnt /\ cleared' = cleared /\ inv' = inv
    BY <1>5 DEF Tick, vars, history
  <2> QED
    BY <1>0, <2>1, QuietStep
<1>6. ASSUME NEW k \in Key, Clear(k)
      PROVE  SlotInv'
  <2>1. /\ grants' = grants /\ inv' = inv
        /\ \A j \in Key : \/ cleared'[j] = cleared[j] /\ cnt'[j] = cnt[j]
                          \/ cleared'[j] > cleared[j]
    BY <1>0, <1>6 DEF Clear, history, TypeOK
  <2> QED
    BY <1>0, <2>1, QuietStep
<1> QED
  BY <1>1, <1>2, <1>3, <1>4, <1>5, <1>6, CountStep, AllowStep
  DEF Next, Progress

\* No two requests ever get the same number of the same life of a counter,
\* although the counter is read, judged and deleted by many at once.
THEOREM NoSlotTwice == Spec => []SlotsUnique
<1>1. Init => SlotInv
  BY DEF Init, SlotInv, SlotsBelowCounter, SlotsUnique, Answering
<1>2. TypeOK /\ TypeOK' /\ SlotInv /\ [Next]_vars => SlotInv'
  BY SlotStep
<1>3. SlotInv => SlotsUnique
  BY DEF SlotInv
<1> QED
  BY <1>1, <1>2, <1>3, TypeCorrect, PTL DEF Spec

----------------------------------------------------------------------------
(* The limit.                                                              *)

\* The slots granted in one life of one counter.
Granted(l) ==
    {s \in 1..RATE_LIMIT : [key |-> l[1], gen |-> l[2], slot |-> s] \in grants}

PassedInv ==
    \A l \in Key \X Lives : passed[l] = Cardinality(Granted(l))

\* A set of slots within the limit is finite and no larger than the limit.
LEMMA SlotSetBound ==
    ASSUME NEW S \in SUBSET (1..RATE_LIMIT)
    PROVE  IsFiniteSet(S) /\ Cardinality(S) <= RATE_LIMIT
<1>1. IsFiniteSet(1..RATE_LIMIT) /\ Cardinality(1..RATE_LIMIT) = RATE_LIMIT
  <2>1. 1 \in Int /\ RATE_LIMIT \in Int /\ RATE_LIMIT >= 0
    BY LimiterAssumption
  <2> QED
    BY <2>1, FS_Interval
<1>2. IsFiniteSet(S) /\ Cardinality(S) <= Cardinality(1..RATE_LIMIT)
  BY <1>1, FS_Subset
<1> QED
  BY <1>1, <1>2

\* An Allow on a slot counts one and uses up one slot that was free.
LEMMA AllowCounts ==
    ASSUME TypeOK, SlotsUnique, PassedInv, NEW w \in Workers, Allow(w)
    PROVE  PassedInv'
<1>1. PICK k \in Key, n \in Lives, s \in 1..RATE_LIMIT :
        /\ SlotOf(w) = [key |-> k, gen |-> n, slot |-> s]
        /\ passed' = [passed EXCEPT ![<<k, n>>] = @ + 1]
        /\ grants' = grants \cup {[key |-> k, gen |-> n, slot |-> s]}
  <2>1. inv[w] \in Invocation
    BY DEF Allow, Answering, TypeOK
  <2>2. /\ inv[w].key \in Key /\ inv[w].gen \in Lives
        /\ inv[w].slot \in 1..RATE_LIMIT
    BY <2>1, LimiterAssumption DEF Allow, Exceeded, Invocation
  <2> QED
    BY <2>2 DEF Allow, SlotOf
<1>2. [key |-> k, gen |-> n, slot |-> s] \notin grants
  BY <1>1 DEF Allow, SlotsUnique
<1>3. <<k, n>> \in Key \X Lives
  OBVIOUS
<1>4. ASSUME NEW l \in Key \X Lives, l # <<k, n>>
      PROVE  passed'[l] = passed[l] /\ Granted(l)' = Granted(l)
  <2>1. l = <<l[1], l[2]>> /\ ~(l[1] = k /\ l[2] = n)
    BY <1>4
  <2>2. \A x \in 1..RATE_LIMIT :
            [key |-> l[1], gen |-> l[2], slot |-> x]
                # [key |-> k, gen |-> n, slot |-> s]
    BY <2>1
  <2>3. Granted(l)' = Granted(l)
    BY <1>1, <2>2 DEF Granted
  <2> QED
    BY <1>1, <1>3, <1>4, <2>3 DEF TypeOK
<1>5. /\ Granted(<<k, n>>)' = Granted(<<k, n>>) \cup {s}
      /\ s \notin Granted(<<k, n>>)
  BY <1>1, <1>2 DEF Granted
<1>6. IsFiniteSet(Granted(<<k, n>>))
  BY SlotSetBound DEF Granted
<1>7. Cardinality(Granted(<<k, n>>)') = Cardinality(Granted(<<k, n>>)) + 1
  BY <1>5, <1>6, FS_AddElement
<1>8. passed'[<<k, n>>] = passed[<<k, n>>] + 1
  BY <1>1, <1>3 DEF TypeOK
<1>9. passed'[<<k, n>>] = Cardinality(Granted(<<k, n>>)')
  BY <1>3, <1>7, <1>8 DEF PassedInv
<1> QED
  BY <1>4, <1>9 DEF PassedInv

\* The limit holds for every counter in each of its lives: at most RATE_LIMIT
\* of the requests it counted are let through.
THEOREM LimitHolds == Spec => []AllowedPerWindow
<1>1. Init => PassedInv
  <2> SUFFICES ASSUME Init, NEW l \in Key \X Lives
               PROVE  passed[l] = Cardinality(Granted(l))
    BY DEF PassedInv
  <2>1. Granted(l) = {} /\ passed[l] = 0
    BY DEF Init, Granted
  <2> QED
    BY <2>1, FS_EmptySet
<1>2. TypeOK /\ SlotsUnique /\ PassedInv /\ [Next]_vars => PassedInv'
  <2> SUFFICES ASSUME TypeOK, SlotsUnique, PassedInv, [Next]_vars
               PROVE  PassedInv'
    OBVIOUS
  <2>1. CASE \E w \in Workers : Allow(w)
    BY <2>1, AllowCounts
  <2>2. CASE ~\E w \in Workers : Allow(w)
    <3>1. passed' = passed /\ grants' = grants
      BY <2>2 DEF Next, Progress, ReadClock, Count, Resend, FailOpen, Deny,
                  AllowUncounted, Die, Tick, Clear, vars, history
    <3> QED
      BY <3>1 DEF PassedInv, Granted
  <2> QED
    BY <2>1, <2>2
<1>3. PassedInv => AllowedPerWindow
  <2> SUFFICES ASSUME PassedInv, NEW l \in Key \X Lives
               PROVE  passed[l] <= RATE_LIMIT
    BY DEF AllowedPerWindow
  <2>1. Cardinality(Granted(l)) <= RATE_LIMIT
    BY SlotSetBound DEF Granted
  <2> QED
    BY <2>1 DEF PassedInv
<1> QED
  BY <1>1, <1>2, <1>3, TypeCorrect, NoSlotTwice, PTL DEF Spec

----------------------------------------------------------------------------
(* Nobody is denied for what was not sent.                                 *)

\* The invocations that have a counter's update still before them.
Pending(k) == {w \in Workers : Counting(w) /\ inv[w].key = k}

\* A counter and the updates still to come are covered by the updates sent, and
\* so is every slot in hand.
SentInv ==
    /\ \A k \in Key : cnt[k] + Cardinality(Pending(k)) <= sent[k]
    /\ \A w \in Workers : Answering(w) => inv[w].slot <= sent[inv[w].key]

LEMMA PendingFinite ==
    ASSUME NEW k
    PROVE  /\ IsFiniteSet(Pending(k)) /\ Cardinality(Pending(k)) \in Nat
           /\ IsFiniteSet(Pending(k)') /\ Cardinality(Pending(k)') \in Nat
<1>1. Pending(k) \in SUBSET Workers /\ Pending(k)' \in SUBSET Workers
  BY DEF Pending
<1> QED
  BY <1>1, FinitelyMany, FS_Subset, FS_CardinalityType

\* Invocation w counts no longer: its update is made, or never will be.
LEMMA PendingWithout ==
    ASSUME TypeOK, NEW w \in Workers, NEW r, inv' = [inv EXCEPT ![w] = r],
           r = Idle \/ r.pc # "counting", NEW k \in Key
    PROVE  /\ Pending(k)' = Pending(k) \ {w}
           /\ Cardinality(Pending(k)') <= Cardinality(Pending(k))
           /\ w \in Pending(k) =>
                  Cardinality(Pending(k)') = Cardinality(Pending(k)) - 1
<1>1. Pending(k)' = Pending(k) \ {w}
  BY DEF Pending, Counting, TypeOK
<1>2. Cardinality(Pending(k) \ {w}) =
        IF w \in Pending(k) THEN Cardinality(Pending(k)) - 1 ELSE Cardinality(Pending(k))
  BY PendingFinite, FS_RemoveElement
<1>3. Cardinality(Pending(k)) \in Nat
  BY PendingFinite
<1> QED
  BY <1>1, <1>2, <1>3

\* Reading the clock: one more update sent, one more to come.
LEMMA ReadClockSent ==
    ASSUME TypeOK, SentInv, TypeOK',
           NEW w \in Workers, NEW ip \in Ips, ReadClock(w, ip)
    PROVE  SentInv'
<1> DEFINE k == <<ip, WindowOf(now)>>
           r == [pc |-> "counting", key |-> k, at |-> now, gen |-> 0, slot |-> 0]
<1>1. /\ k \in Key /\ inv[w] = Idle /\ cnt' = cnt
      /\ sent' = [sent EXCEPT ![k] = @ + 1] /\ inv' = [inv EXCEPT ![w] = r]
  BY DEF ReadClock, Key, Windows, TypeOK
<1>2. r # Idle
  <2>1. r \in Invocation
    BY <1>1, LimiterAssumption DEF Invocation, Lives, TypeOK
  <2> QED
    BY <2>1, NotRunning
<1>3. r.pc = "counting" /\ r.key = k /\ inv'[w] = r
  BY <1>1 DEF TypeOK
<1> HIDE DEF k, r
<1>4. ASSUME NEW j \in Key
      PROVE  cnt'[j] + Cardinality(Pending(j)') <= sent'[j]
  <2>1. cnt[j] + Cardinality(Pending(j)) <= sent[j] /\ cnt[j] \in Nat /\ sent[j] \in Nat
    BY DEF SentInv, TypeOK
  <2>2. CASE j = k
    <3>1. \A v \in Workers : v # w => inv'[v] = inv[v]
      BY <1>1 DEF TypeOK
    <3>2. Counting(w)' /\ inv'[w].key = j /\ ~Counting(w)
      BY <1>1, <1>2, <1>3, <2>2 DEF Counting
    <3>3. Pending(j)' = Pending(j) \cup {w} /\ w \notin Pending(j)
      BY <3>1, <3>2 DEF Pending, Counting
    <3>4. Cardinality(Pending(j)') = Cardinality(Pending(j)) + 1
      BY <3>3, PendingFinite, FS_AddElement
    <3>5. sent'[j] = sent[j] + 1
      BY <1>1, <2>2 DEF TypeOK
    <3> QED
      BY <1>1, <2>1, <3>4, <3>5, PendingFinite
  <2>3. CASE j # k
    <3>1. Pending(j)' = Pending(j)
      BY <1>1, <1>2, <1>3, <2>3 DEF Pending, Counting, TypeOK
    <3> QED
      BY <1>1, <2>1, <2>3, <3>1 DEF TypeOK
  <2> QED
    BY <2>2, <2>3
<1>5. ASSUME NEW v \in Workers, Answering(v)'
      PROVE  inv'[v].slot <= sent'[inv'[v].key]
  <2>1. v # w /\ inv'[v] = inv[v] /\ Answering(v)
    BY <1>1, <1>3, <1>5 DEF Answering, TypeOK
  <2>2. inv[v].key \in Key /\ inv[v].slot \in Nat
    BY <2>1 DEF Answering, TypeOK, Invocation
  <2>3. sent[inv[v].key] \in Nat /\ sent'[inv[v].key] >= sent[inv[v].key]
    BY <1>1, <2>2 DEF TypeOK
  <2>4. inv[v].slot <= sent[inv[v].key] /\ sent'[inv[v].key] \in Nat
    BY <2>1, <2>2 DEF SentInv, TypeOK
  <2> QED
    BY <2>1, <2>2, <2>3, <2>4
<1> QED
  BY <1>4, <1>5 DEF SentInv

\* The update is made, at most once, and the invocation knows its slot or has given
\* it up.
LEMMA CountedSent ==
    ASSUME TypeOK, SentInv, TypeOK', NEW w \in Workers, NEW slot \in Nat,
           Counting(w), Counted(w, slot), sent' = sent,
           cnt' = cnt \/ cnt' = [cnt EXCEPT ![inv[w].key] = @ + 1],
           slot <= cnt'[inv[w].key]
    PROVE  SentInv'
<1> DEFINE r == [inv[w] EXCEPT !.pc = "counted", !.slot = slot,
                               !.gen = cleared[inv[w].key]]
<1>0. PICK k \in Key : k = inv[w].key
  BY DEF Counting, TypeOK, Invocation
<1>1. inv[w] \in Invocation /\ k = inv[w].key /\ w \in Pending(k)
  BY <1>0 DEF Counting, TypeOK, Pending
<1>2. inv' = [inv EXCEPT ![w] = r] /\ r.pc = "counted" /\ r.slot = slot /\ r.key = k
  BY <1>1 DEF Counted, Invocation
<1>3. inv'[w] = r
  BY <1>2 DEF TypeOK
<1> HIDE DEF r
<1>4. ASSUME NEW j \in Key
      PROVE  cnt'[j] + Cardinality(Pending(j)') <= sent'[j]
  <2>1. cnt[j] + Cardinality(Pending(j)) <= sent[j] /\ cnt[j] \in Nat /\ sent[j] \in Nat
    BY DEF SentInv, TypeOK
  <2>2. /\ Cardinality(Pending(j)') <= Cardinality(Pending(j))
        /\ w \in Pending(j) =>
               Cardinality(Pending(j)') = Cardinality(Pending(j)) - 1
    BY <1>2, PendingWithout
  <2>3. CASE j = k
    <3>1. Cardinality(Pending(j)') = Cardinality(Pending(j)) - 1
      BY <1>1, <2>2, <2>3
    <3>2. cnt'[j] <= cnt[j] + 1 /\ cnt'[j] \in Nat
      BY <1>1, <2>1, <2>3 DEF TypeOK
    <3> QED
      BY <2>1, <3>1, <3>2, PendingFinite
  <2>4. CASE j # k
    <3>1. cnt'[j] = cnt[j]
      BY <1>1, <2>4 DEF TypeOK
    <3> QED
      BY <2>1, <2>2, <3>1, PendingFinite
  <2> QED
    BY <2>3, <2>4
<1>5. ASSUME NEW v \in Workers, Answering(v)'
      PROVE  inv'[v].slot <= sent'[inv'[v].key]
  <2>1. CASE v = w
    <3>1. cnt'[k] + Cardinality(Pending(k)') <= sent'[k]
      BY <1>1, <1>4
    <3>2. cnt'[k] \in Nat /\ sent'[k] \in Nat
      BY <1>1 DEF TypeOK
    <3>3. slot <= sent'[k]
      BY <1>0, <3>1, <3>2, PendingFinite
    <3> QED
      BY <1>2, <1>3, <2>1, <3>3
  <2>2. CASE v # w
    BY <1>2, <1>5, <2>2 DEF SentInv, Answering, TypeOK
  <2> QED
    BY <2>1, <2>2
<1> QED
  BY <1>4, <1>5 DEF SentInv

\* The update is sent, and made, once more.
LEMMA ResendSent ==
    ASSUME TypeOK, SentInv, TypeOK', NEW w \in Workers, Resend(w)
    PROVE  SentInv'
<1> DEFINE k == inv[w].key
<1>1. /\ k \in Key /\ inv' = inv
      /\ cnt' = [cnt EXCEPT ![k] = @ + 1] /\ sent' = [sent EXCEPT ![k] = @ + 1]
  BY DEF Resend, Add, Counting, TypeOK, Invocation
<1> HIDE DEF k
<1>2. ASSUME NEW j \in Key
      PROVE  cnt'[j] + Cardinality(Pending(j)') <= sent'[j]
  <2>1. cnt[j] + Cardinality(Pending(j)) <= sent[j] /\ cnt[j] \in Nat /\ sent[j] \in Nat
    BY DEF SentInv, TypeOK
  <2>2. Pending(j)' = Pending(j)
    BY <1>1 DEF Pending, Counting
  <2>3. \/ cnt'[j] = cnt[j] + 1 /\ sent'[j] = sent[j] + 1
        \/ cnt'[j] = cnt[j] /\ sent'[j] = sent[j]
    BY <1>1 DEF TypeOK
  <2> QED
    BY <2>1, <2>2, <2>3, PendingFinite
<1>3. ASSUME NEW v \in Workers, Answering(v)'
      PROVE  inv'[v].slot <= sent'[inv'[v].key]
  <2>1. inv'[v] = inv[v] /\ Answering(v)
    BY <1>1, <1>3 DEF Answering
  <2>2. inv[v].key \in Key /\ inv[v].slot \in Nat
    BY <2>1 DEF Answering, TypeOK, Invocation
  <2>3. sent[inv[v].key] \in Nat /\ sent'[inv[v].key] >= sent[inv[v].key]
    BY <1>1, <2>2 DEF TypeOK
  <2>4. inv[v].slot <= sent[inv[v].key] /\ sent'[inv[v].key] \in Nat
    BY <2>1, <2>2 DEF SentInv, TypeOK
  <2> QED
    BY <2>1, <2>2, <2>3, <2>4
<1> QED
  BY <1>2, <1>3 DEF SentInv

\* Steps that send nothing, count nothing and hand out nothing.
LEMMA SilentSent ==
    ASSUME TypeOK, SentInv, TypeOK', sent' = sent,
           \A k \in Key : /\ cnt'[k] <= cnt[k]
                          /\ Cardinality(Pending(k)') <= Cardinality(Pending(k)),
           \A v \in Workers : Answering(v)' => inv'[v] = inv[v]
    PROVE  SentInv'
<1>1. ASSUME NEW k \in Key
      PROVE  cnt'[k] + Cardinality(Pending(k)') <= sent'[k]
  <2>1. cnt[k] \in Nat /\ cnt'[k] \in Nat /\ sent[k] \in Nat
    BY DEF TypeOK
  <2> QED
    BY <2>1, PendingFinite DEF SentInv
<1>2. ASSUME NEW v \in Workers, Answering(v)'
      PROVE  inv'[v].slot <= sent'[inv'[v].key]
  BY <1>2 DEF SentInv, Answering
<1> QED
  BY <1>1, <1>2 DEF SentInv

\* All steps together.
LEMMA SentStep ==
    ASSUME TypeOK, SentInv, TypeOK', [Next]_vars
    PROVE  SentInv'
<1>1. ASSUME NEW w \in Workers, Count(w)
      PROVE  SentInv'
  <2>1. inv[w].key \in Key
    BY <1>1 DEF Count, Counting, TypeOK, Invocation
  <2>2. cnt[inv[w].key] + 1 \in Nat /\ cnt'[inv[w].key] = cnt[inv[w].key] + 1
    BY <1>1, <2>1 DEF Count, Add, TypeOK
  <2>3. cnt[inv[w].key] + 1 <= cnt'[inv[w].key]
    BY <2>2
  <2>4. /\ Counting(w) /\ Counted(w, cnt[inv[w].key] + 1) /\ sent' = sent
        /\ cnt' = [cnt EXCEPT ![inv[w].key] = @ + 1]
    BY <1>1 DEF Count, Add
  <2> QED
    BY <2>2, <2>3, <2>4, CountedSent
<1>2. ASSUME NEW w \in Workers, FailOpen(w)
      PROVE  SentInv'
  <2>1. inv[w].key \in Key
    BY <1>2 DEF FailOpen, Counting, TypeOK, Invocation
  <2>2. cnt'[inv[w].key] \in Nat
    BY <2>1 DEF TypeOK
  <2> QED
    BY <1>2, <2>2, CountedSent DEF FailOpen, Add
<1>3. ASSUME NEW w \in Workers, Deny(w) \/ Allow(w) \/ AllowUncounted(w) \/ Die(w)
      PROVE  SentInv'
  <2>1. inv' = [inv EXCEPT ![w] = Idle] /\ cnt' = cnt /\ sent' = sent
    BY <1>3 DEF Deny, Allow, AllowUncounted, Die, Finish
  <2>2. \A k \in Key : Cardinality(Pending(k)') <= Cardinality(Pending(k))
    BY <2>1, PendingWithout
  <2>3. \A v \in Workers : Answering(v)' => inv'[v] = inv[v]
    BY <2>1 DEF Answering, TypeOK
  <2>4. \A k \in Key : cnt'[k] <= cnt[k]
    BY <2>1 DEF TypeOK
  <2> QED
    BY <2>1, <2>2, <2>3, <2>4, SilentSent
<1>4. CASE Tick \/ (\E k \in Key : Clear(k)) \/ UNCHANGED vars
  <2>1. inv' = inv /\ sent' = sent
    BY <1>4 DEF Tick, Clear, vars
  <2>2. \A k \in Key : cnt'[k] <= cnt[k]
    BY <1>4 DEF Tick, Clear, vars, TypeOK
  <2>3. \A k \in Key : Cardinality(Pending(k)') <= Cardinality(Pending(k))
    <3>1. ASSUME NEW k \in Key
          PROVE  Pending(k)' = Pending(k) /\ Cardinality(Pending(k)) \in Nat
      BY <2>1, PendingFinite DEF Pending, Counting
    <3> QED
      BY <3>1
  <2>4. \A v \in Workers : Answering(v)' => inv'[v] = inv[v]
    BY <2>1
  <2> QED
    BY <2>1, <2>2, <2>3, <2>4, SilentSent
<1> QED
  BY <1>1, <1>2, <1>3, <1>4, ReadClockSent, ResendSent DEF Next, Progress

\* A request is only denied when more than RATE_LIMIT updates were sent for its
\* own counter, for every number of clients and overlapping invocations, however
\* often updates are resent or counters reset.
THEOREM DenialsJustified == Spec => []DenyJustified
<1>1. Init => SentInv
  <2> SUFFICES ASSUME Init PROVE SentInv
    OBVIOUS
  <2>1. \A w \in Workers : ~Counting(w) /\ ~Answering(w)
    BY DEF Init, Counting, Answering
  <2>2. \A k \in Key : Pending(k) = {} /\ cnt[k] = 0 /\ sent[k] = 0
    BY <2>1 DEF Init, Pending
  <2> QED
    BY <2>1, <2>2, FS_EmptySet DEF SentInv
<1>2. TypeOK /\ TypeOK' /\ SentInv /\ [Next]_vars => SentInv'
  BY SentStep
<1>3. TypeOK /\ SentInv => DenyJustified
  <2> SUFFICES ASSUME TypeOK, SentInv, NEW w \in Workers, Answering(w),
                      Exceeded(inv[w].slot)
               PROVE  sent[inv[w].key] > RATE_LIMIT
    BY DEF DenyJustified
  <2>1. /\ inv[w].slot \in Nat /\ sent[inv[w].key] \in Nat
        /\ inv[w].slot <= sent[inv[w].key]
    BY DEF Answering, TypeOK, Invocation, SentInv
  <2> QED
    BY <2>1, LimiterAssumption DEF Exceeded
<1> QED
  BY <1>1, <1>2, <1>3, TypeCorrect, PTL DEF Spec

----------------------------------------------------------------------------
(* Any stretch of time.                                                    *)

\* An invocation counts in the window it started in, and is over before a window
\* has passed; what it counted was no later life than the counter's.
TimelyInv ==
    \A w \in Workers : inv[w] # Idle =>
        /\ inv[w].key[2] = WindowOf(inv[w].at)
        /\ inv[w].at <= now /\ now <= inv[w].at + MaxDelay
        /\ inv[w].gen <= cleared[inv[w].key]

Stretch(t) == {u \in 0..MaxTime : t <= u /\ u < t + RATE_WINDOW}

\* The requests that the first life of a client's counter let through.
PassedIn(ip, n) == IF n \in Windows THEN passed[<<<<ip, n>>, 0>>] ELSE 0

\* What got through in a stretch of time was counted in the window it begins in
\* or in a neighbour of it.
StretchInv ==
    (\A k \in Key : cleared[k] = 0) =>
        \A ip \in Ips, t \in 0..MaxTime :
            SumFunctionOnSet(passedAt, {ip} \X Stretch(t))
              <= PassedIn(ip, WindowOf(t) - 1) + PassedIn(ip, WindowOf(t))
                   + PassedIn(ip, WindowOf(t) + 1)

LEMMA TimelyStep ==
    ASSUME TypeOK, TimelyInv, TypeOK', [Next]_vars
    PROVE  TimelyInv'
<1>0. /\ now \in Nat /\ now' \in Nat /\ MaxDelay \in Nat
      /\ \A k \in Key : cleared[k] \in Nat
      /\ \A w \in Workers : inv[w] # Idle =>
             inv[w] \in Invocation /\ inv[w].key \in Key /\ inv[w].at \in Nat /\ inv[w].gen \in Nat
  BY LimiterAssumption DEF TypeOK, Lives, Invocation
<1>1. ASSUME inv' = inv, now' = now, \A k \in Key : cleared'[k] >= cleared[k],
             \A k \in Key : cleared'[k] \in Nat
      PROVE  TimelyInv'
  BY <1>0, <1>1 DEF TimelyInv
<1>2. ASSUME NEW w \in Workers, inv' = [inv EXCEPT ![w] = Idle],
             now' = now, cleared' = cleared
      PROVE  TimelyInv'
  BY <1>2 DEF TimelyInv, TypeOK
<1>3. ASSUME NEW w \in Workers, NEW ip \in Ips, ReadClock(w, ip)
      PROVE  TimelyInv'
  <2> DEFINE k == <<ip, WindowOf(now)>>
             r == [pc |-> "counting", key |-> k, at |-> now, gen |-> 0, slot |-> 0]
  <2>1. inv' = [inv EXCEPT ![w] = r] /\ now' = now /\ cleared' = cleared
    BY <1>3 DEF ReadClock, history
  <2>2. k \in Key
    BY DEF Key, Windows, TypeOK
  <2>3. /\ r.key = k /\ k[2] = WindowOf(now) /\ r.at = now /\ r.gen = 0
    OBVIOUS
  <2> HIDE DEF r, k
  <2>4. ASSUME NEW v \in Workers, inv'[v] # Idle
        PROVE  /\ inv'[v].key[2] = WindowOf(inv'[v].at)
               /\ inv'[v].at <= now' /\ now' <= inv'[v].at + MaxDelay
               /\ inv'[v].gen <= cleared'[inv'[v].key]
    <3>1. CASE v = w
      <4>1. inv'[v] = r
        BY <2>1, <3>1 DEF TypeOK
      <4> QED
        BY <1>0, <2>1, <2>2, <2>3, <4>1
    <3>2. CASE v # w
      <4>1. inv'[v] = inv[v]
        BY <2>1, <3>2 DEF TypeOK
      <4> QED
        BY <2>1, <2>4, <4>1 DEF TimelyInv
    <3> QED
      BY <3>1, <3>2
  <2> QED
    BY <2>4 DEF TimelyInv
<1>4. ASSUME NEW w \in Workers, NEW slot \in Nat, Counting(w), Counted(w, slot),
             now' = now, cleared' = cleared
      PROVE  TimelyInv'
  <2> DEFINE r == [inv[w] EXCEPT !.pc = "counted", !.slot = slot,
                                 !.gen = cleared[inv[w].key]]
  <2>1. inv' = [inv EXCEPT ![w] = r]
    BY <1>4 DEF Counted
  <2>2. inv[w] # Idle /\ inv[w] \in Invocation /\ inv[w].key \in Key
    BY <1>0, <1>4 DEF Counting
  <2>3. /\ r.key = inv[w].key /\ r.at = inv[w].at /\ r.gen = cleared[inv[w].key]
    BY <2>2 DEF Invocation
  <2>4. /\ inv[w].key[2] = WindowOf(inv[w].at)
        /\ inv[w].at <= now /\ now <= inv[w].at + MaxDelay
    BY <2>2 DEF TimelyInv
  <2> HIDE DEF r
  <2>5. ASSUME NEW v \in Workers, inv'[v] # Idle
        PROVE  /\ inv'[v].key[2] = WindowOf(inv'[v].at)
               /\ inv'[v].at <= now' /\ now' <= inv'[v].at + MaxDelay
               /\ inv'[v].gen <= cleared'[inv'[v].key]
    <3>1. CASE v = w
      <4>1. inv'[v] = r
        BY <2>1, <3>1 DEF TypeOK
      <4> QED
        BY <1>0, <1>4, <2>2, <2>3, <2>4, <4>1
    <3>2. CASE v # w
      <4>1. inv'[v] = inv[v]
        BY <2>1, <3>2 DEF TypeOK
      <4> QED
        BY <1>4, <2>5, <4>1 DEF TimelyInv
    <3> QED
      BY <3>1, <3>2
  <2> QED
    BY <2>5 DEF TimelyInv
<1>5. ASSUME NEW w \in Workers, Count(w) \/ FailOpen(w)
      PROVE  TimelyInv'
  <2>1. Counting(w) /\ now' = now /\ cleared' = cleared
    BY <1>5 DEF Count, FailOpen
  <2>2. inv[w].key \in Key
    BY <1>0, <2>1 DEF Counting
  <2>3. cnt[inv[w].key] + 1 \in Nat /\ 0 \in Nat
    BY <2>2 DEF TypeOK
  <2>4. Counted(w, cnt[inv[w].key] + 1) \/ Counted(w, 0)
    BY <1>5 DEF Count, FailOpen
  <2> QED
    BY <1>4, <2>1, <2>3, <2>4
<1>6. ASSUME NEW w \in Workers, Resend(w)
      PROVE  TimelyInv'
  BY <1>0, <1>1, <1>6 DEF Resend
<1>7. ASSUME NEW w \in Workers, Deny(w) \/ Allow(w) \/ AllowUncounted(w) \/ Die(w)
      PROVE  TimelyInv'
  BY <1>2, <1>7 DEF Deny, Allow, AllowUncounted, Die, Finish
<1>8. ASSUME Tick
      PROVE  TimelyInv'
  <2>1. inv' = inv /\ cleared' = cleared /\ now' = now + 1
    BY <1>8 DEF Tick
  <2>2. \A w \in Workers : inv[w] # Idle => now < inv[w].at + MaxDelay
    BY <1>8 DEF Tick
  <2> QED
    BY <1>0, <2>1, <2>2 DEF TimelyInv
<1>9. ASSUME NEW k \in Key, Clear(k)
      PROVE  TimelyInv'
  <2>1. inv' = inv /\ now' = now /\ cleared' = [cleared EXCEPT ![k] = @ + 1]
    BY <1>9 DEF Clear
  <2>2. \A j \in Key : cleared'[j] >= cleared[j] /\ cleared'[j] \in Nat
    BY <1>0, <2>1 DEF TypeOK
  <2> QED
    BY <1>1, <2>1, <2>2
<1>10. ASSUME UNCHANGED vars
       PROVE  TimelyInv'
  BY <1>10 DEF vars, TimelyInv
<1> QED
  BY <1>3, <1>5, <1>6, <1>7, <1>8, <1>9, <1>10 DEF Next, Progress

\* A request answered within a stretch started in its first window or next to it.
LEMMA NeighbouringWindows ==
    ASSUME NEW t \in Nat, NEW u \in Nat, NEW a \in Nat,
           t <= u, u < t + RATE_WINDOW, a <= u, u <= a + MaxDelay
    PROVE  WindowOf(a) \in {WindowOf(t) - 1, WindowOf(t), WindowOf(t) + 1}
<1> DEFINE W == RATE_WINDOW
           p == WindowOf(t)
           q == WindowOf(a)
<1>1. /\ W \in Nat \ {0} /\ MaxDelay \in Nat /\ MaxDelay <= W
  BY LimiterAssumption, TimeoutWithinWindow
<1>2. p \in Int /\ W * p <= t /\ t < W * p + W
  BY <1>1 DEF WindowOf
<1>3. q \in Int /\ W * q <= a /\ a < W * q + W
  BY <1>1 DEF WindowOf
<1> HIDE DEF W, p, q
<1>4. W * (p - 1) = W * p - W /\ W * (p + 1) = W * p + W /\ W * p \in Int /\ W * q \in Int
  BY <1>1, <1>2, <1>3
<1>5. q >= p - 1
  <2> SUFFICES ASSUME q + 1 <= p - 1 PROVE FALSE
    BY <1>2, <1>3
  <2>1. W * (q + 1) <= W * (p - 1)
    BY <1>1, <1>2, <1>3
  <2>2. W * (q + 1) = W * q + W
    BY <1>1, <1>3
  <2> QED
    BY <1>1, <1>2, <1>3, <1>4, <2>1, <2>2 DEF W
<1>6. q <= p + 1
  <2> SUFFICES ASSUME p + 2 <= q PROVE FALSE
    BY <1>2, <1>3
  <2>1. W * (p + 2) <= W * q
    BY <1>1, <1>2, <1>3
  <2>2. W * (p + 2) = W * p + W + W
    BY <1>1, <1>2
  <2> QED
    BY <1>1, <1>2, <1>3, <1>4, <2>1, <2>2 DEF W
<1>7. q = p - 1 \/ q = p \/ q = p + 1
  BY <1>2, <1>3, <1>5, <1>6
<1> QED
  BY <1>7 DEF p, q

LEMMA StretchIsFinite ==
    ASSUME NEW ip \in Ips, NEW t
    PROVE  /\ IsFiniteSet({ip} \X Stretch(t))
           /\ {ip} \X Stretch(t) \subseteq Ips \X (0..MaxTime)
<1>1. IsFiniteSet(0..MaxTime)
  <2>1. 0 \in Int /\ MaxTime \in Int
    BY LimiterAssumption
  <2> QED
    BY <2>1, FS_Interval
<1>2. Stretch(t) \in SUBSET (0..MaxTime)
  BY DEF Stretch
<1>3. IsFiniteSet(Stretch(t)) /\ IsFiniteSet({ip})
  BY <1>1, <1>2, FS_Subset, FS_Singleton
<1> QED
  BY <1>2, <1>3, FS_Product

LEMMA PassedInType ==
    ASSUME TypeOK, NEW ip \in Ips, NEW n
    PROVE  PassedIn(ip, n) \in Nat
<1>1. n \in Windows => <<<<ip, n>>, 0>> \in Key \X Lives
  BY LimiterAssumption DEF Key, Lives
<1> QED
  BY <1>1 DEF PassedIn, TypeOK

\* One more answer within a stretch is one more in one of its three windows.
LEMMA AllowStretch ==
    ASSUME TypeOK, TimelyInv, StretchInv, NEW w \in Workers, Allow(w)
    PROVE  StretchInv'
<1> SUFFICES ASSUME \A k \in Key : cleared[k] = 0,
                    NEW ip \in Ips, NEW t \in 0..MaxTime
             PROVE  SumFunctionOnSet(passedAt', {ip} \X Stretch(t))
                      <= PassedIn(ip, WindowOf(t) - 1)' + PassedIn(ip, WindowOf(t))'
                           + PassedIn(ip, WindowOf(t) + 1)'
  BY DEF StretchInv, Allow, Finish, Stretch, WindowOf
<1> DEFINE k == inv[w].key
           S == {ip} \X Stretch(t)
           p == WindowOf(t)
<1>1. /\ inv[w] \in Invocation /\ k \in Key /\ inv[w].gen \in Nat /\ inv[w].at \in Nat
      /\ inv[w] # Idle
  BY DEF Allow, Answering, TypeOK, Invocation, Lives
<1>2. k[1] \in Ips /\ k[2] \in Windows /\ k = <<k[1], k[2]>>
  BY <1>1 DEF Key
<1>3. /\ k[2] = WindowOf(inv[w].at) /\ inv[w].at <= now /\ now <= inv[w].at + MaxDelay
      /\ inv[w].gen = 0
  BY <1>1 DEF TimelyInv
<1>4. /\ passed' = [passed EXCEPT ![<<k, 0>>] = @ + 1]
      /\ passedAt' = [passedAt EXCEPT ![<<k[1], now>>] = @ + 1]
  BY <1>3 DEF Allow
<1>5. ASSUME NEW n
      PROVE  /\ PassedIn(ip, n) \in Nat
             /\ PassedIn(ip, n)' = IF ip = k[1] /\ n = k[2] THEN PassedIn(ip, n) + 1
                                                          ELSE PassedIn(ip, n)
  <2>1. PassedIn(ip, n) \in Nat
    BY PassedInType
  <2>2. CASE n \notin Windows
    BY <1>2, <2>1, <2>2 DEF PassedIn
  <2>3. CASE n \in Windows
    <3>1. <<<<ip, n>>, 0>> \in Key \X Lives
      BY <2>3, LimiterAssumption DEF Key, Lives
    <3>2. <<<<ip, n>>, 0>> = <<k, 0>> <=> ip = k[1] /\ n = k[2]
      BY <1>2
    <3>3. passed'[<<<<ip, n>>, 0>>] = IF <<<<ip, n>>, 0>> = <<k, 0>>
                                        THEN passed[<<<<ip, n>>, 0>>] + 1
                                        ELSE passed[<<<<ip, n>>, 0>>]
      BY <1>4, <3>1 DEF TypeOK
    <3> HIDE DEF k
    <3> QED
      BY <2>1, <2>3, <3>2, <3>3 DEF PassedIn
  <2> QED
    BY <2>2, <2>3
<1>6. /\ PassedIn(ip, p - 1) \in Nat /\ PassedIn(ip, p) \in Nat /\ PassedIn(ip, p + 1) \in Nat
      /\ p \in Int
  BY <1>5, LimiterAssumption DEF WindowOf
<1>7. IsFiniteSet(S) /\ S \subseteq Ips \X (0..MaxTime)
  BY StretchIsFinite
<1>8. \A x \in S : passedAt[x] \in Int
  BY <1>7 DEF TypeOK
<1>9. /\ SumFunctionOnSet(passedAt, S)
             <= PassedIn(ip, p - 1) + PassedIn(ip, p) + PassedIn(ip, p + 1)
      /\ SumFunctionOnSet(passedAt, S) \in Int
  BY <1>7, <1>8, SumType DEF StretchInv
<1>10. ASSUME <<k[1], now>> \in S
       PROVE  SumFunctionOnSet(passedAt', S)
                <= PassedIn(ip, p - 1)' + PassedIn(ip, p)' + PassedIn(ip, p + 1)'
  <2>1. ip = k[1] /\ now \in 0..MaxTime /\ t <= now /\ now < t + RATE_WINDOW
    BY <1>10 DEF Stretch
  <2>2. k[2] \in {p - 1, p, p + 1}
    BY <1>1, <1>3, <2>1, NeighbouringWindows
  <2>3. \A x \in S : passedAt'[x] = IF x = <<k[1], now>> THEN passedAt[x] + 1 ELSE passedAt[x]
    BY <1>4, <1>7 DEF TypeOK
  <2> HIDE DEF S, k, p
  <2>4. SumFunctionOnSet(passedAt', S) = SumFunctionOnSet(passedAt, S) + 1
    <3> DEFINE x == <<k[1], now>>
               after == passedAt'
    <3>1. x \in S /\ 1 \in Int /\ IsFiniteSet(S)
      BY <1>7, <1>10
    <3>2. \A y \in S : after[y] = IF y = x THEN passedAt[y] + 1 ELSE passedAt[y]
      BY <2>3
    <3>3. \A y \in S : passedAt[y] \in Int
      BY <1>8
    <3> HIDE DEF x, after
    <3>4. SumFunctionOnSet(after, S) = SumFunctionOnSet(passedAt, S) + 1
      BY <3>1, <3>2, <3>3, SumGrows
    <3> QED
      BY <3>4 DEF after
  <2>5. /\ PassedIn(ip, p - 1)' = IF p - 1 = k[2] THEN PassedIn(ip, p - 1) + 1 ELSE PassedIn(ip, p - 1)
        /\ PassedIn(ip, p)' = IF p = k[2] THEN PassedIn(ip, p) + 1 ELSE PassedIn(ip, p)
        /\ PassedIn(ip, p + 1)' = IF p + 1 = k[2] THEN PassedIn(ip, p + 1) + 1 ELSE PassedIn(ip, p + 1)
    BY <1>5, <2>1
  <2> QED
    BY <1>6, <1>9, <2>2, <2>4, <2>5
<1>11. ASSUME <<k[1], now>> \notin S
       PROVE  SumFunctionOnSet(passedAt', S)
                <= PassedIn(ip, p - 1)' + PassedIn(ip, p)' + PassedIn(ip, p + 1)'
  <2>1. \A x \in S : passedAt'[x] = passedAt[x]
    BY <1>4, <1>7, <1>11 DEF TypeOK
  <2> HIDE DEF S, k, p
  <2>2. SumFunctionOnSet(passedAt', S) = SumFunctionOnSet(passedAt, S)
    BY <1>7, <1>8, <2>1, SumAgrees
  <2>3. \A n : PassedIn(ip, n)' \in Nat /\ PassedIn(ip, n)' >= PassedIn(ip, n)
    BY <1>5
  <2> QED
    BY <1>6, <1>9, <2>2, <2>3
<1> QED
  BY <1>10, <1>11

LEMMA StretchStep ==
    ASSUME TypeOK, TypeOK', TimelyInv, StretchInv, [Next]_vars
    PROVE  StretchInv'
<1>1. ASSUME passed' = passed, passedAt' = passedAt,
             \A k \in Key : cleared'[k] >= cleared[k]
      PROVE  StretchInv'
  <2> SUFFICES ASSUME \A k \in Key : cleared'[k] = 0
               PROVE  \A k \in Key : cleared[k] = 0
    BY <1>1 DEF StretchInv, PassedIn
  <2>1. \A k \in Key : cleared[k] \in Nat /\ cleared'[k] >= cleared[k]
    BY <1>1 DEF TypeOK, Lives
  <2> QED
    BY <2>1
<1>2. ASSUME history' = history, cleared' = cleared
      PROVE  StretchInv'
  <2>1. \A k \in Key : cleared[k] \in Int /\ cleared'[k] = cleared[k]
    BY <1>2 DEF TypeOK, Lives
  <2> QED
    BY <1>1, <1>2, <2>1 DEF history
<1>3. ASSUME NEW w \in Workers, NEW ip \in Ips, ReadClock(w, ip)
      PROVE  StretchInv'
  BY <1>2, <1>3 DEF ReadClock
<1>4. ASSUME NEW w \in Workers, Count(w) \/ Resend(w) \/ FailOpen(w)
      PROVE  StretchInv'
  BY <1>2, <1>4 DEF Count, Resend, FailOpen
<1>5. ASSUME NEW w \in Workers, Deny(w) \/ AllowUncounted(w) \/ Die(w)
      PROVE  StretchInv'
  BY <1>2, <1>5 DEF Deny, AllowUncounted, Die, Finish
<1>6. ASSUME Tick \/ UNCHANGED vars
      PROVE  StretchInv'
  BY <1>2, <1>6 DEF Tick, vars, history
<1>7. ASSUME NEW k \in Key, Clear(k)
      PROVE  StretchInv'
  <2>1. /\ cleared' = [cleared EXCEPT ![k] = @ + 1]
        /\ passed' = passed /\ passedAt' = passedAt
    BY <1>7 DEF Clear, history
  <2>2. \A j \in Key : cleared'[j] >= cleared[j]
    BY <2>1 DEF TypeOK, Lives
  <2> QED
    BY <1>1, <2>1, <2>2
<1> QED
  BY <1>3, <1>4, <1>5, <1>6, <1>7, AllowStretch DEF Next, Progress

\* Over any stretch of time as long as a window, at most three times the limit
\* gets through for one client, whatever the limit and the window, and however
\* many requests overlap; a stretch meets three windows at most, because an
\* invocation is over before a window has passed.
THEOREM StretchBounded == Spec => []SlidingBound
<1>1. ASSUME Init
      PROVE  TimelyInv /\ StretchInv
  <2>1. ASSUME NEW ip \in Ips, NEW t \in 0..MaxTime
        PROVE  SumFunctionOnSet(passedAt, {ip} \X Stretch(t))
                 <= PassedIn(ip, WindowOf(t) - 1) + PassedIn(ip, WindowOf(t))
                      + PassedIn(ip, WindowOf(t) + 1)
    <3> DEFINE S == {ip} \X Stretch(t)
    <3>1. \A x \in S : passedAt[x] = 0
      BY <1>1, StretchIsFinite DEF Init
    <3>2. IsFiniteSet(S)
      BY StretchIsFinite
    <3>3. \A n : n \in Windows => <<<<ip, n>>, 0>> \in Key \X Lives
      BY LimiterAssumption DEF Key, Lives
    <3>4. \A n : PassedIn(ip, n) = 0
      BY <1>1, <3>3 DEF Init, PassedIn
    <3> HIDE DEF S
    <3>5. SumFunctionOnSet(passedAt, S) = 0
      BY <3>1, <3>2, SumOfZeros
    <3> QED
      BY <3>4, <3>5 DEF S
  <2> QED
    BY <1>1, <2>1 DEF Init, TimelyInv, StretchInv
<1>2. TypeOK /\ TypeOK' /\ TimelyInv /\ StretchInv /\ [Next]_vars
        => TimelyInv' /\ StretchInv'
  BY TimelyStep, StretchStep
<1>3. ASSUME TypeOK, AllowedPerWindow, StretchInv
      PROVE  SlidingBound
  <2> SUFFICES ASSUME \A k \in Key : cleared[k] = 0,
                      NEW ip \in Ips, NEW t \in 0..MaxTime
               PROVE  SumFunctionOnSet(passedAt, {ip} \X Stretch(t)) <= 3 * RATE_LIMIT
    BY DEF SlidingBound, Stretch
  <2> DEFINE S == {ip} \X Stretch(t)
  <2>1. ASSUME NEW n
        PROVE  PassedIn(ip, n) \in Nat /\ PassedIn(ip, n) <= RATE_LIMIT
    <3>1. n \in Windows => <<<<ip, n>>, 0>> \in Key \X Lives
      BY LimiterAssumption DEF Key, Lives
    <3>2. n \in Windows => passed[<<<<ip, n>>, 0>>] <= RATE_LIMIT
      BY <1>3, <3>1 DEF AllowedPerWindow
    <3>3. PassedIn(ip, n) \in Nat
      BY <1>3, PassedInType
    <3> QED
      BY <3>2, <3>3, LimiterAssumption DEF PassedIn
  <2>2. /\ SumFunctionOnSet(passedAt, S)
             <= PassedIn(ip, WindowOf(t) - 1) + PassedIn(ip, WindowOf(t))
                  + PassedIn(ip, WindowOf(t) + 1)
    BY <1>3 DEF StretchInv
  <2>3. SumFunctionOnSet(passedAt, S) \in Int
    <3>1. IsFiniteSet(S) /\ S \subseteq Ips \X (0..MaxTime)
      BY StretchIsFinite
    <3>2. \A x \in S : passedAt[x] \in Int
      BY <1>3, <3>1 DEF TypeOK
    <3> HIDE DEF S
    <3> QED
      BY <3>1, <3>2, SumType
  <2>4. /\ PassedIn(ip, WindowOf(t) - 1) \in Nat /\ PassedIn(ip, WindowOf(t) - 1) <= RATE_LIMIT
        /\ PassedIn(ip, WindowOf(t)) \in Nat /\ PassedIn(ip, WindowOf(t)) <= RATE_LIMIT
        /\ PassedIn(ip, WindowOf(t) + 1) \in Nat /\ PassedIn(ip, WindowOf(t) + 1) <= RATE_LIMIT
    BY <2>1
  <2> HIDE DEF S
  <2>5. SumFunctionOnSet(passedAt, S) <= 3 * RATE_LIMIT
    BY <2>2, <2>3, <2>4, LimiterAssumption
  <2> QED
    BY <2>5 DEF S
<1> QED
  BY <1>1, <1>2, <1>3, TypeCorrect, LimitHolds, PTL DEF Spec
=============================================================================
