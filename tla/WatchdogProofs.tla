---------------------------- MODULE WatchdogProofs ----------------------------
(***************************************************************************)
(* Theorems about security_group_watchdog, for every set of rules and of   *)
(* overlapping invocations.                                                *)
(***************************************************************************)
EXTENDS Watchdog, FiniteSetTheorems, TLAPS

\* A permission's fields.
LEMMA PermissionFields ==
    ASSUME NEW r, NEW sources
    PROVE  /\ Permission(r, sources).proto = r.proto
           /\ Permission(r, sources).from = r.from
           /\ Permission(r, sources).to = r.to
           /\ Permission(r, sources).ranges = sources
BY DEF Permission

\* What the handler finds in the list that EC2 makes of the rules: permissions
\* that name a rule each, and none but rules that let the world in on port 22.
LEMMA OffendingFinds ==
    ASSUME NEW rs \in SUBSET Rules
    PROVE  /\ Offending(rs) \subseteq Permissions
           /\ Offending(rs) # {} => Named(Offending(rs)) # {}
           /\ \A r \in Named(Offending(rs)) : OpensPort22(r)
<1>1. ASSUME NEW p \in Offending(rs)
      PROVE  \E r \in rs, c \in World, o \in rs :
                 /\ p.proto = r.proto /\ p.from = r.from /\ p.to = r.to
                 /\ p.from # NoPort /\ p.from <= 22 /\ 22 <= p.to
                 /\ p.ranges \subseteq World /\ c \in p.ranges
                 /\ p \in Permissions
                 /\ c = o.cidr /\ Under(o, p)
  <2>1. PICK q \in Listed(rs) : Suspect(q) /\ p = Permission(q, q.ranges \cap World)
    BY DEF Offending
  <2>2. PICK r \in rs : q = Permission(r, {o.cidr : o \in {o \in rs : Under(o, r)}})
    BY DEF Listed
  <2>3. /\ q.proto = r.proto /\ q.from = r.from /\ q.to = r.to
        /\ q.ranges = {o.cidr : o \in {o \in rs : Under(o, r)}}
    BY <2>2, PermissionFields
  <2>4. /\ p.proto = q.proto /\ p.from = q.from /\ p.to = q.to
        /\ p.ranges = q.ranges \cap World
    BY <2>1, PermissionFields
  <2>5. PICK c \in q.ranges : c \in World
    BY <2>1 DEF Suspect
  <2>6. PICK o \in rs : Under(o, r) /\ c = o.cidr
    BY <2>3, <2>5
  <2>7. p = Permission(r, q.ranges \cap World)
    BY <2>1, <2>3 DEF Permission
  <2>8. q.ranges \cap World \in SUBSET {x.cidr : x \in Rules}
    BY <2>3
  <2>9. p \in Permissions
    BY <2>7, <2>8 DEF Permissions
  <2>10. Under(o, p)
    BY <2>3, <2>4, <2>6 DEF Under
  <2>11. p.from # NoPort /\ p.from <= 22 /\ 22 <= p.to
    BY <2>1, <2>4 DEF Suspect
  <2> QED
    BY <2>3, <2>4, <2>5, <2>6, <2>9, <2>10, <2>11
<1>2. Offending(rs) # {} => Named(Offending(rs)) # {}
  <2> SUFFICES ASSUME NEW p \in Offending(rs)
               PROVE  \E o \in Rules : o \in Named(Offending(rs))
    OBVIOUS
  <2>1. PICK o \in rs : o.cidr \in p.ranges /\ Under(o, p)
    BY <1>1
  <2> QED
    BY <2>1 DEF Named
<1>3. ASSUME NEW r \in Named(Offending(rs)) PROVE OpensPort22(r)
  <2>1. PICK p \in Offending(rs) : Under(r, p) /\ r.cidr \in p.ranges
    BY DEF Named
  <2>2. /\ p.from # NoPort /\ p.from <= 22 /\ 22 <= p.to
        /\ p.ranges \subseteq World
    BY <1>1
  <2> QED
    BY <2>1, <2>2 DEF OpensPort22, Under
<1> QED
  BY <1>1, <1>2, <1>3

\* An invocation that raises starts over within its attempts, or ends.
LEMMA RaiseType ==
    ASSUME TypeOK, NEW w \in Workers, inv[w] # Idle, Raise(w)
    PROVE  /\ inv' \in [Workers -> Invocation \cup {Idle}]
           /\ \A v \in Workers \ {w} : inv'[v] = inv[v]
           /\ ~At(w, "seen")' /\ ~At(w, "revoked")'
<1> DEFINE again == [pc |-> "started", bad |-> {},
                     attempt |-> inv[w].attempt + 1]
<1>1. inv[w] \in Invocation
  BY DEF TypeOK
<1>2. CASE w \in Scheduled /\ inv[w].attempt < MaxAttempts
  <2>1. again \in Invocation
    BY <1>1, <1>2, WatchdogAssumption DEF Invocation
  <2>2. inv' = [inv EXCEPT ![w] = again]
    BY <1>2 DEF Raise
  <2>3. inv'[w].pc = "started"
    BY <2>2 DEF TypeOK
  <2> QED
    BY <2>1, <2>2, <2>3 DEF TypeOK, At
<1>3. CASE ~(w \in Scheduled /\ inv[w].attempt < MaxAttempts)
  BY <1>3 DEF Raise, TypeOK, At
<1> QED
  BY <1>2, <1>3

\* Counting some more keeps a counter a counter.
LEMMA OneMoreType ==
    ASSUME NEW f \in [Rules -> Nat], NEW S
    PROVE  OneMore(f, S) \in [Rules -> Nat]
BY DEF OneMore

\* A step of one invocation.
LEMMA WorkType ==
    ASSUME TypeOK, NEW w \in Workers, Start(w) \/ Work(w)
    PROVE  TypeOK'
<1>1. CASE Start(w)
  <2>1. [pc |-> "started", bad |-> {}, attempt |-> 1] \in Invocation
    BY WatchdogAssumption DEF Invocation
  <2> QED
    BY <1>1, <2>1 DEF Start, TypeOK, At, Fix, Named
<1>2. CASE Describe(w)
  <2>1. inv[w] \in Invocation /\ inv[w].pc = "started"
    BY <1>2 DEF Describe, At, TypeOK
  <2>2. CASE Offending(rules) = {}
    BY <1>2, <2>2 DEF Describe, TypeOK, At, Fix, Named
  <2>3. CASE Offending(rules) # {}
    <3> DEFINE found == [inv[w] EXCEPT !.pc = "seen", !.bad = Offending(rules)]
    <3>0. Offending(rules) \subseteq Permissions /\ Named(Offending(rules)) # {}
      BY <2>3, OffendingFinds DEF TypeOK
    <3>1. found \in Invocation /\ found.bad = Offending(rules)
      BY <2>1, <3>0 DEF Invocation
    <3>2. inv' = [inv EXCEPT ![w] = found]
      BY <1>2, <2>3 DEF Describe
    <3>3. inv' \in [Workers -> Invocation \cup {Idle}]
      BY <3>1, <3>2 DEF TypeOK
    <3>4. \A v \in Workers : At(v, "seen")' \/ At(v, "revoked")' => Fix(v)' # {}
      <4>1. inv'[w].bad = Offending(rules)
        BY <3>1, <3>2 DEF TypeOK
      <4>2. Fix(w)' # {}
        BY <3>0, <4>1 DEF Fix, Named
      <4>3. \A v \in Workers \ {w} : inv'[v] = inv[v]
        BY <3>2 DEF TypeOK
      <4> QED
        BY <4>2, <4>3 DEF TypeOK, At, Fix, Named
    <3> QED
      BY <1>2, <3>3, <3>4 DEF Describe, TypeOK
  <2> QED
    BY <2>2, <2>3
<1>3. CASE Revoke(w)
  <2>1. inv[w] \in Invocation /\ Fix(w) # {}
    BY <1>3 DEF Revoke, TypeOK, At
  <2>2. inv' \in [Workers -> Invocation \cup {Idle}]
    BY <1>3, <2>1 DEF Revoke, TypeOK, Invocation
  <2>3. \A v \in Workers : At(v, "seen")' \/ At(v, "revoked")' => Fix(v)' # {}
    <3>1. inv'[w].bad = inv[w].bad /\ \A v \in Workers \ {w} : inv'[v] = inv[v]
      BY <1>3, <2>1 DEF Revoke, TypeOK, Invocation
    <3> QED
      BY <2>1, <3>1 DEF TypeOK, At, Fix, Named
  <2>4. rules' \subseteq Rules /\ revoked' \in [Rules -> Nat]
    BY <1>3, OneMoreType DEF Revoke, Revocation, TypeOK
  <2> QED
    BY <1>3, <2>2, <2>3, <2>4 DEF Revoke, TypeOK
<1>4. CASE RevokeNotFound(w)
  BY <1>4, RaiseType DEF RevokeNotFound, TypeOK, At, Fix, Named
<1>5. CASE Publish(w)
  <2>1. announced' \in [Rules -> Nat]
    BY <1>5, OneMoreType DEF Publish, Publication, TypeOK
  <2> QED
    BY <1>5, <2>1 DEF Publish, TypeOK, At, Fix, Named
<1>6. CASE Fail(w)
  <2>1. /\ rules' \subseteq Rules
        /\ revoked' \in [Rules -> Nat]
        /\ announced' \in [Rules -> Nat]
    BY <1>6, OneMoreType DEF Fail, Revocation, Publication, TypeOK
  <2>2. faults' \in 0..MaxFaults
    BY <1>6, WatchdogAssumption DEF Fail, TypeOK
  <2>3. inv[w] # Idle /\ Raise(w) /\ opened' = opened
    BY <1>6 DEF Fail
  <2> QED
    BY <2>1, <2>2, <2>3, RaiseType DEF TypeOK, At, Fix, Named
<1> QED
  BY <1>1, <1>2, <1>3, <1>4, <1>5, <1>6 DEF Work

\* Every variable of the watchdog has its type, in every behaviour.
THEOREM TypeCorrect == Spec => []TypeOK
<1>1. Init => TypeOK
  BY WatchdogAssumption DEF Init, TypeOK, At
<1>2. TypeOK /\ [Next]_vars => TypeOK'
  <2> SUFFICES ASSUME TypeOK, [Next]_vars PROVE TypeOK'
    OBVIOUS
  <2>1. CASE \E w \in Workers : Start(w) \/ Work(w)
    BY <2>1, WorkType
  <2>2. ASSUME NEW r \in Rules, Open(r) PROVE TypeOK'
    BY <2>2, OneMoreType DEF Open, TypeOK, At, Fix, Named
  <2>3. ASSUME NEW r \in Rules, Close(r) PROVE TypeOK'
    BY <2>3 DEF Close, TypeOK, At, Fix, Named
  <2>4. CASE UNCHANGED vars
    BY <2>4 DEF vars, TypeOK, At, Fix, Named
  <2> QED
    BY <2>1, <2>2, <2>3, <2>4 DEF Next
<1> QED
  BY <1>1, <1>2, PTL DEF Spec

----------------------------------------------------------------------------
\* Is the invocation of w still to publish the removal of r?
Owes(w, r) == IF w \in Owed(r) THEN 1 ELSE 0

\* A step of one invocation changes what is owed only by its own part.
LEMMA OwedChange ==
    ASSUME NEW w \in Workers, NEW r \in Rules,
           \A v \in Workers \ {w} : inv'[v] = inv[v]
    PROVE  \E others \in Nat :
               /\ Cardinality(Owed(r)) = others + Owes(w, r)
               /\ Cardinality(Owed(r)') = others + Owes(w, r)'
<1> DEFINE rest == Owed(r) \ {w}
<1>1. IsFiniteSet(Owed(r)) /\ IsFiniteSet(Owed(r)')
  <2>1. Owed(r) \subseteq Workers /\ Owed(r)' \subseteq Workers
    BY DEF Owed
  <2> QED
    BY <2>1, FS_Subset, WatchdogAssumption
<1>2. rest = Owed(r)' \ {w}
  BY DEF Owed, At, Fix, Named
<1>3. IsFiniteSet(rest) /\ Cardinality(rest) \in Nat
  BY <1>1, FS_Subset, FS_CardinalityType
<1>4. Cardinality(Owed(r)) = Cardinality(rest) + Owes(w, r)
  <2>1. CASE w \in Owed(r)
    <3>1. Cardinality(rest) = Cardinality(Owed(r)) - 1
      BY <1>1, <2>1, FS_RemoveElement
    <3> QED
      BY <1>1, <2>1, <3>1, FS_CardinalityType DEF Owes
  <2>2. CASE w \notin Owed(r)
    <3>1. rest = Owed(r)
      BY <2>2
    <3>2. Cardinality(Owed(r)) = Cardinality(rest)
      BY <3>1
    <3>3. Owes(w, r) = 0
      BY <2>2 DEF Owes
    <3> HIDE DEF rest
    <3> QED
      BY <1>3, <3>2, <3>3
  <2> QED
    BY <2>1, <2>2
<1>5. Cardinality(Owed(r)') = Cardinality(rest) + Owes(w, r)'
  <2>1. CASE w \in Owed(r)'
    <3>1. Cardinality(rest) = Cardinality(Owed(r)') - 1
      BY <1>1, <1>2, <2>1, FS_RemoveElement
    <3> QED
      BY <1>1, <2>1, <3>1, FS_CardinalityType DEF Owes
  <2>2. CASE w \notin Owed(r)'
    <3>1. rest = Owed(r)'
      BY <1>2, <2>2
    <3>2. Cardinality(Owed(r)') = Cardinality(rest)
      BY <3>1
    <3>3. Owes(w, r)' = 0
      BY <2>2 DEF Owes
    <3> HIDE DEF rest
    <3> QED
      BY <1>3, <3>2, <3>3
  <2> QED
    BY <2>1, <2>2
<1> QED
  BY <1>3, <1>4, <1>5

\* A revocation, in a step that leaves the worker's duty to publish as the
\* step says, and a publication: what they do to one rule.
LEMMA RevocationOf ==
    ASSUME TypeOK, NEW w \in Workers, NEW r \in Rules, Revocation(w)
    PROVE  /\ r \in Fix(w) => Present(r) = 1 /\ Present(r)' = 0
           /\ r \notin Fix(w) => Present(r)' = Present(r)
BY DEF Revocation, Present, TypeOK

LEMMA PublicationOf ==
    ASSUME TypeOK, NEW w \in Workers, NEW r \in Rules, Publication(w)
    PROVE  announced'[r] = announced[r] + (IF r \in Fix(w) THEN 1 ELSE 0)
BY DEF Publication, OneMore, TypeOK

\* A step of an invocation never makes alerts and rules outgrow what was added.
LEMMA WorkBacked ==
    ASSUME TypeOK, AlertsTruthful, NEW w \in Workers, Start(w) \/ Work(w)
    PROVE  AlertsTruthful'
<1> SUFFICES ASSUME NEW r \in Rules
             PROVE  announced'[r] + Cardinality(Owed(r)') + Present(r)'
                        <= opened'[r]
  BY DEF AlertsTruthful
<1>1. \A v \in Workers \ {w} : inv'[v] = inv[v]
  BY RaiseType DEF Work, Start, Describe, Revoke, RevokeNotFound, Publish, Fail,
                   TypeOK, At
<1>2. PICK others \in Nat :
        /\ Cardinality(Owed(r)) = others + Owes(w, r)
        /\ Cardinality(Owed(r)') = others + Owes(w, r)'
  BY <1>1, OwedChange
<1>3. announced[r] + others + Owes(w, r) + Present(r) <= opened[r]
  BY <1>2 DEF AlertsTruthful, TypeOK, Owes, Present
<1>4. opened' = opened
  BY DEF Work, Start, Describe, Revoke, RevokeNotFound, Publish, Fail
<1>5. /\ announced[r] \in Nat /\ opened[r] \in Nat
      /\ Owes(w, r) \in {0, 1} /\ Present(r) \in {0, 1}
      /\ Owes(w, r)' \in {0, 1} /\ Present(r)' \in {0, 1}
  BY DEF TypeOK, Owes, Present
<1> SUFFICES announced'[r] + Owes(w, r)' + Present(r)'
                 <= announced[r] + Owes(w, r) + Present(r)
             /\ announced'[r] \in Nat
  BY <1>2, <1>3, <1>4, <1>5
<1>6. CASE Start(w) \/ Describe(w)
  <2>1. w \notin Owed(r)'
    <3>1. CASE Start(w)
      BY <3>1 DEF Start, Owed, At, TypeOK
    <3>2. CASE Describe(w)
      BY <3>2 DEF Describe, Owed, At, TypeOK, Invocation
    <3> QED
      BY <1>6, <3>1, <3>2
  <2>2. announced' = announced /\ Present(r)' = Present(r)
    BY <1>6 DEF Start, Describe, Present
  <2> QED
    BY <1>5, <2>1, <2>2 DEF Owes
<1>7. CASE Revoke(w)
  <2>1. Owes(w, r)' = IF r \in Fix(w) THEN 1 ELSE 0
    <3>1. inv[w] \in Invocation /\ inv' = [inv EXCEPT ![w].pc = "revoked"]
      BY <1>7 DEF Revoke, At, TypeOK
    <3>2. inv'[w] = [inv[w] EXCEPT !.pc = "revoked"]
      BY <3>1 DEF TypeOK
    <3>3. inv'[w].pc = "revoked" /\ inv'[w].bad = inv[w].bad /\ inv'[w] # Idle
      BY <3>1, <3>2, NotInvoked DEF Invocation
    <3>4. At(w, "revoked")'
      BY <3>3 DEF At
    <3> QED
      BY <3>3, <3>4 DEF Owes, Owed, Fix, Named
  <2>2. announced' = announced /\ Revocation(w)
    BY <1>7 DEF Revoke
  <2>3. Owes(w, r)' + Present(r)' <= Owes(w, r) + Present(r)
    BY <1>5, <2>1, <2>2, RevocationOf
  <2> QED
    BY <1>5, <2>2, <2>3
<1>8. CASE RevokeNotFound(w)
  <2>1. Owes(w, r)' = 0
    BY <1>8, RaiseType DEF RevokeNotFound, Owes, Owed, At
  <2> QED
    BY <1>5, <1>8, <2>1 DEF RevokeNotFound, Present
<1>9. CASE Publish(w)
  <2>1. Owes(w, r) = IF r \in Fix(w) THEN 1 ELSE 0
    BY <1>9 DEF Publish, Owes, Owed
  <2>2. Owes(w, r)' = 0
    BY <1>9 DEF Publish, Owes, Owed, At, TypeOK
  <2>3. announced'[r] = announced[r] + Owes(w, r)
    BY <1>9, <2>1, PublicationOf DEF Publish
  <2>4. Present(r)' = Present(r)
    BY <1>9 DEF Publish, Present
  <2> QED
    BY <1>5, <2>2, <2>3, <2>4
<1>10. CASE Fail(w)
  <2>1. Owes(w, r)' = 0
    BY <1>10, RaiseType DEF Fail, Owes, Owed
  <2>2. CASE UNCHANGED <<rules, revoked, announced>>
    BY <1>5, <2>1, <2>2 DEF Present
  <2>3. CASE At(w, "seen") /\ Revocation(w) /\ UNCHANGED announced
    <3>1. Present(r)' <= Present(r)
      BY <1>5, <2>3, RevocationOf
    <3> QED
      BY <1>5, <2>1, <2>3, <3>1
  <2>4. CASE At(w, "revoked") /\ Publication(w) /\ UNCHANGED <<rules, revoked>>
    <3>1. Owes(w, r) = IF r \in Fix(w) THEN 1 ELSE 0
      BY <2>4 DEF Owes, Owed
    <3>2. announced'[r] = announced[r] + Owes(w, r)
      BY <2>4, <3>1, PublicationOf
    <3>3. Present(r)' = Present(r)
      BY <2>4 DEF Present
    <3> QED
      BY <1>5, <2>1, <3>2, <3>3
  <2> QED
    BY <1>10, <2>2, <2>3, <2>4 DEF Fail
<1> QED
  BY <1>6, <1>7, <1>8, <1>9, <1>10 DEF Work

\* However invocations overlap, fail and are retried, every alert stands for
\* a time of its own that somebody added the rule it names.
THEOREM AlertsAreTruthful == Spec => []AlertsTruthful
<1>1. Init => AlertsTruthful
  <2> SUFFICES ASSUME Init, NEW r \in Rules
               PROVE  announced[r] + Cardinality(Owed(r)) + Present(r)
                          <= opened[r]
    BY DEF AlertsTruthful
  <2>1. Owed(r) = {}
    BY DEF Init, Owed, At
  <2> QED
    BY <2>1, FS_EmptySet DEF Init, Present
<1>2. TypeOK /\ AlertsTruthful /\ [Next]_vars => AlertsTruthful'
  <2> SUFFICES ASSUME TypeOK, AlertsTruthful, [Next]_vars
               PROVE  AlertsTruthful'
    OBVIOUS
  <2>1. CASE \E w \in Workers : Start(w) \/ Work(w)
    BY <2>1, WorkBacked
  <2>2. ASSUME UNCHANGED <<inv, announced>>,
               \A r \in Rules : \E more \in Nat :
                   /\ opened'[r] = opened[r] + more
                   /\ Present(r)' <= Present(r) + more
        PROVE  AlertsTruthful'
    <3> SUFFICES ASSUME NEW r \in Rules
                 PROVE  announced'[r] + Cardinality(Owed(r)') + Present(r)'
                            <= opened'[r]
      BY DEF AlertsTruthful
    <3>1. Owed(r)' = Owed(r) /\ IsFiniteSet(Owed(r))
      BY <2>2, FS_Subset, WatchdogAssumption DEF Owed, At, Fix, Named
    <3>2. Cardinality(Owed(r)) \in Nat
      BY <3>1, FS_CardinalityType
    <3>3. announced[r] + Cardinality(Owed(r)) + Present(r) <= opened[r]
      BY DEF AlertsTruthful
    <3>4. /\ announced[r] \in Nat /\ opened[r] \in Nat
          /\ Present(r) \in {0, 1} /\ Present(r)' \in {0, 1}
      BY DEF TypeOK, Present
    <3>5. PICK more \in Nat : /\ opened'[r] = opened[r] + more
                              /\ Present(r)' <= Present(r) + more
      BY <2>2
    <3> QED
      BY <2>2, <3>1, <3>2, <3>3, <3>4, <3>5
  <2>3. ASSUME NEW o \in Rules, Open(o) PROVE AlertsTruthful'
    <3>1. ASSUME NEW r \in Rules
          PROVE  \E more \in Nat : /\ opened'[r] = opened[r] + more
                                   /\ Present(r)' <= Present(r) + more
      <4>1. opened[r] \in Nat
        BY DEF TypeOK
      <4>2. CASE r = o
        BY <2>3, <4>1, <4>2 DEF Open, OneMore, Present
      <4>3. CASE r # o
        BY <2>3, <4>1, <4>3 DEF Open, OneMore, Present
      <4> QED
        BY <4>2, <4>3
    <3> QED
      BY <2>2, <2>3, <3>1 DEF Open
  <2>4. ASSUME NEW c \in Rules, Close(c) PROVE AlertsTruthful'
    <3>1. ASSUME NEW r \in Rules
          PROVE  /\ opened'[r] = opened[r] + 0
                 /\ Present(r)' <= Present(r) + 0
      BY <2>4 DEF Close, Present, TypeOK
    <3> QED
      BY <2>2, <2>4, <3>1 DEF Close
  <2>5. CASE UNCHANGED vars
    <3>1. ASSUME NEW r \in Rules
          PROVE  /\ opened'[r] = opened[r] + 0
                 /\ Present(r)' <= Present(r) + 0
      BY <2>5 DEF vars, Present, TypeOK
    <3> QED
      BY <2>2, <2>5, <3>1 DEF vars
  <2> QED
    BY <2>1, <2>3, <2>4, <2>5 DEF Next
<1> QED
  BY <1>1, <1>2, TypeCorrect, PTL DEF Spec

----------------------------------------------------------------------------
\* What an invocation goes for lets the world in on port 22: it was judged when
\* it was seen, and a rule never changes.
FixesPort22 ==
    \A w \in Workers : At(w, "seen") => \A r \in Fix(w) : OpensPort22(r)

LEMMA FixesStay == TypeOK /\ FixesPort22 /\ [Next]_vars => FixesPort22'
<1> SUFFICES ASSUME TypeOK, FixesPort22, [Next]_vars, NEW v \in Workers,
                    At(v, "seen")', NEW r \in Fix(v)'
             PROVE  OpensPort22(r)
  BY DEF FixesPort22, OpensPort22
<1>1. CASE inv'[v] = inv[v]
  BY <1>1 DEF FixesPort22, At, Fix, Named
<1>2. CASE inv'[v] # inv[v]
  <2>1. PICK w \in Workers : Start(w) \/ Work(w)
    BY <1>2 DEF Next, vars, Open, Close
  <2>2. Describe(w) /\ w = v
    <3>1. CASE Start(w)
      BY <1>2, <3>1 DEF Start, At, TypeOK
    <3>2. CASE Revoke(w)
      BY <1>2, <3>2 DEF Revoke, At, TypeOK, Invocation
    <3>3. CASE RevokeNotFound(w)
      BY <1>2, <3>3, RaiseType DEF RevokeNotFound, At
    <3>4. CASE Publish(w)
      BY <1>2, <3>4 DEF Publish, At, TypeOK
    <3>5. CASE Fail(w)
      BY <1>2, <3>5, RaiseType DEF Fail
    <3>6. CASE Describe(w)
      BY <1>2, <3>6 DEF Describe, TypeOK
    <3> QED
      BY <2>1, <3>1, <3>2, <3>3, <3>4, <3>5, <3>6 DEF Work
  <2>3. inv[v] \in Invocation
    BY <2>2 DEF Describe, At, TypeOK
  <2>4. inv'[v].bad = Offending(rules)
    BY <2>2, <2>3 DEF Describe, At, TypeOK, Invocation
  <2>5. r \in Named(Offending(rules))
    BY <2>4 DEF Fix, Named
  <2> QED
    BY <2>5, OffendingFinds DEF TypeOK
<1> QED
  BY <1>1, <1>2

\* However EC2 groups the rules and whatever changed since they were seen, the
\* watchdog never removes a rule that keeps the world out of port 22.
THEOREM OthersAreKept == Spec => []OthersKept
<1>1. Init => FixesPort22 /\ OthersKept
  BY DEF Init, FixesPort22, OthersKept, At
<1>2. TypeOK /\ FixesPort22 /\ OthersKept /\ [Next]_vars => OthersKept'
  <2> SUFFICES ASSUME TypeOK, FixesPort22, OthersKept, [Next]_vars,
                      NEW r \in Rules, ~OpensPort22(r)
               PROVE  revoked'[r] = 0
    BY DEF OthersKept, OpensPort22
  <2>1. revoked[r] = 0
    BY DEF OthersKept
  <2>2. CASE revoked' = revoked
    BY <2>1, <2>2
  <2>3. CASE revoked' # revoked
    <3>1. PICK w \in Workers : At(w, "seen") /\ Revocation(w)
      BY <2>3 DEF Next, vars, Open, Close, Start, Work, Describe, Revoke,
                  RevokeNotFound, Publish, Fail
    <3>2. r \notin Fix(w)
      BY <3>1 DEF FixesPort22
    <3> QED
      BY <2>1, <3>1, <3>2 DEF Revocation, OneMore
  <2> QED
    BY <2>2, <2>3
<1> QED
  BY <1>1, <1>2, FixesStay, TypeCorrect, PTL DEF Spec
=============================================================================
