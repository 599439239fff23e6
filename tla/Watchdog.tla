------------------------------- MODULE Watchdog -------------------------------
(***************************************************************************)
(* security_group_watchdog (lambda/sg_watchdog/handler.py): look at the    *)
(* demo security group, revoke the rules that open SSH to the world in one *)
(* call, publish what was removed.  The schedule and people start          *)
(* invocations that overlap; rules are opened and closed by hand meanwhile;*)
(* any call may fail, before or after it took effect, and Lambda runs a    *)
(* failed scheduled invocation again.                                      *)
(*                                                                         *)
(* A rule is one source range of one protocol and port range.  EC2 lists   *)
(* the rules grouped into permissions: one for each protocol and port      *)
(* range, with the source ranges it is open to; a rule for all traffic has *)
(* no ports.  The group is not in a default VPC: EC2 refuses a revocation  *)
(* as a whole (InvalidPermission.NotFound) when one range it names is not  *)
(* there.                                                                  *)
(***************************************************************************)
EXTENDS Integers, FiniteSets

CONSTANTS
    Rules,          \* the inbound rules somebody may add
    NoPort,         \* FromPort and ToPort of a rule that has none
    World,          \* _OPEN_CIDRS
    Workers,        \* overlapping invocations
    Scheduled,      \* those EventBridge starts; the others run on demand
    Idle,           \* no invocation in flight
    MaxAttempts,    \* a scheduled invocation and Lambda's retries of it
    MaxOpened,      \* bound: how often each rule is added
    MaxFaults       \* bound: calls that fail

ASSUME WatchdogAssumption ==
    /\ IsFiniteSet(Workers)
    /\ Scheduled \subseteq Workers
    /\ {MaxAttempts, MaxFaults} \subseteq Nat \ {0}
    /\ MaxOpened \in [Rules -> Nat]
    /\ \A r \in Rules : r.from # NoPort => {r.from, r.to} \subseteq Int

VARIABLES
    rules,      \* the inbound rules of the group
    inv,        \* inv[w]: what the invocation of worker w knows
    faults,     \* bound: calls failed so far
    opened,     \* history: how often a rule came to be there
    revoked,    \* history: how often the watchdog removed it
    announced   \* history: how often the watchdog published its removal
                \* (requests botocore sends again for one call count once)

vars == <<rules, inv, faults, opened, revoked, announced>>

\* The rule lets the world in on port 22, whatever the handler thinks of it.
OpensPort22(r) ==
    /\ r.cidr \in World
    /\ \/ r.proto = "all traffic"
       \/ r.from # NoPort /\ r.from <= 22 /\ 22 <= r.to

\* The rules of r's protocol and ports for some sources, as one permission.
Permission(r, sources) ==
    [proto |-> r.proto, from |-> r.from, to |-> r.to, ranges |-> sources]

Under(r, p) == r.proto = p.proto /\ r.from = p.from /\ r.to = p.to

\* IpPermissions of describe_security_groups.
Listed(rs) ==
    {Permission(r, {o.cidr : o \in {o \in rs : Under(o, r)}}) : r \in rs}

\* Slip: only rules for port 22 alone are looked for.
SuspectExact(p) ==
    p.from = 22 /\ p.to = 22 /\ p.ranges \cap World # {}

\* The ports are there and include 22, and one source is open.
Suspect(p) ==
    /\ p.from # NoPort
    /\ p.from <= 22 /\ 22 <= p.to
    /\ p.ranges \cap World # {}

\* Slip: a permission goes whole, with the named sources it is open to.
OffendingWhole(rs) == {p \in Listed(rs) : Suspect(p)}

\* _offending_permissions: of each such permission only the open sources.
Offending(rs) ==
    {Permission(p, p.ranges \cap World) : p \in {p \in Listed(rs) : Suspect(p)}}

\* The rules that a list of permissions names.
Named(ps) == {r \in Rules : \E p \in ps : Under(r, p) /\ r.cidr \in p.ranges}

Permissions ==
    {Permission(r, sources) :
        r \in Rules, sources \in SUBSET {o.cidr : o \in Rules}}

Invocation == [pc : {"started", "seen", "revoked"}, bad : SUBSET Permissions,
               attempt : 1..MaxAttempts]

ASSUME NotInvoked == Idle \notin Invocation

\* The rules the invocation of w goes for.
Fix(w) == Named(inv[w].bad)

OneMore(f, S) == [r \in Rules |-> IF r \in S THEN f[r] + 1 ELSE f[r]]

At(w, pc) == inv[w] # Idle /\ inv[w].pc = pc

----------------------------------------------------------------------------
Start(w) ==
    /\ inv[w] = Idle
    /\ inv' = [inv EXCEPT ![w] = [pc |-> "started", bad |-> {}, attempt |-> 1]]
    /\ UNCHANGED <<rules, faults, opened, revoked, announced>>

\* Slip: no early return where nothing is wrong.
DescribeOnly(w) ==
    /\ At(w, "started")
    /\ inv' = [inv EXCEPT ![w] = [@ EXCEPT !.pc = "seen", !.bad = Offending(rules)]]
    /\ UNCHANGED <<rules, faults, opened, revoked, announced>>

\* describe_security_groups.  Where nothing is wrong the invocation is over.
Describe(w) ==
    /\ At(w, "started")
    /\ inv' = [inv EXCEPT ![w] =
           IF Offending(rules) = {} THEN Idle
           ELSE [@ EXCEPT !.pc = "seen", !.bad = Offending(rules)]]
    /\ UNCHANGED <<rules, faults, opened, revoked, announced>>

Revocation(w) ==
    /\ Fix(w) \subseteq rules
    /\ rules' = rules \ Fix(w)
    /\ revoked' = OneMore(revoked, Fix(w))

\* Slip: rules that are gone by now are passed over, as in a default VPC.
RevokeWhatIsLeft(w) ==
    /\ At(w, "seen")
    /\ rules' = rules \ Fix(w)
    /\ revoked' = OneMore(revoked, Fix(w) \cap rules)
    /\ inv' = [inv EXCEPT ![w].pc = "revoked"]
    /\ UNCHANGED <<faults, opened, announced>>

Revoke(w) ==
    /\ At(w, "seen")
    /\ Revocation(w)
    /\ inv' = [inv EXCEPT ![w].pc = "revoked"]
    /\ UNCHANGED <<faults, opened, announced>>

Publication(w) == announced' = OneMore(announced, Fix(w))

Publish(w) ==
    /\ At(w, "revoked")
    /\ Publication(w)
    /\ inv' = [inv EXCEPT ![w] = Idle]
    /\ UNCHANGED <<rules, faults, opened, revoked>>

\* handler catches nothing: the invocation ends, and Lambda runs a scheduled
\* one from its start again unless that was the last attempt.
Raise(w) ==
    inv' = [inv EXCEPT ![w] =
        IF w \in Scheduled /\ @.attempt < MaxAttempts
        THEN [pc |-> "started", bad |-> {}, attempt |-> @.attempt + 1]
        ELSE Idle]

\* Another invocation or a person removed one of the rules first.
RevokeNotFound(w) ==
    /\ At(w, "seen")
    /\ ~(Fix(w) \subseteq rules)
    /\ Raise(w)
    /\ UNCHANGED <<rules, faults, opened, revoked, announced>>

\* A call fails, or the invocation is killed: the call in hand took effect or
\* it did not.  A revocation that did and is sent again by the SDK ends in
\* NotFound, which comes to the same.
Fail(w) ==
    /\ inv[w] # Idle
    /\ faults < MaxFaults
    /\ faults' = faults + 1
    /\ Raise(w)
    /\ \/ UNCHANGED <<rules, revoked, announced>>
       \/ At(w, "seen") /\ Revocation(w) /\ UNCHANGED announced
       \/ At(w, "revoked") /\ Publication(w) /\ UNCHANGED <<rules, revoked>>
    /\ UNCHANGED opened

\* aws ec2 authorize- and revoke-security-group-ingress (demo.sh act4, reset).
Open(r) ==
    /\ r \notin rules
    /\ opened[r] < MaxOpened[r]
    /\ rules' = rules \cup {r}
    /\ opened' = OneMore(opened, {r})
    /\ UNCHANGED <<inv, faults, revoked, announced>>

Close(r) ==
    /\ r \in rules
    /\ rules' = rules \ {r}
    /\ UNCHANGED <<inv, faults, opened, revoked, announced>>

\* SecurityStack creates the group without inbound rules.
Init ==
    /\ rules = {}
    /\ inv = [w \in Workers |-> Idle]
    /\ faults = 0
    /\ opened = [r \in Rules |-> 0]
    /\ revoked = [r \in Rules |-> 0]
    /\ announced = [r \in Rules |-> 0]

Work(w) ==
    \/ Describe(w)
    \/ Revoke(w)
    \/ RevokeNotFound(w)
    \/ Publish(w)
    \/ Fail(w)

Next ==
    \/ \E w \in Workers : Start(w) \/ Work(w)
    \/ \E r \in Rules : Open(r) \/ Close(r)

\* The schedule keeps firing and Lambda finishes what it started.
Spec ==
    /\ Init
    /\ [][Next]_vars
    /\ \A w \in Workers : WF_vars(Work(w))
    /\ \A w \in Scheduled : WF_vars(Start(w))

----------------------------------------------------------------------------
\* Every variable has its type, and what is revoked and announced is something:
\* a clean group causes neither a call nor an alert.
TypeOK ==
    /\ rules \subseteq Rules
    /\ inv \in [Workers -> Invocation \cup {Idle}]
    /\ faults \in 0..MaxFaults
    /\ opened \in [Rules -> Nat]
    /\ revoked \in [Rules -> Nat]
    /\ announced \in [Rules -> Nat]
    /\ \A w \in Workers : At(w, "seen") \/ At(w, "revoked") => Fix(w) # {}

Owed(r) == {w \in Workers : At(w, "revoked") /\ r \in Fix(w)}
Present(r) == IF r \in rules THEN 1 ELSE 0

\* "describing the fix": however invocations overlap and are retried, every
\* alert that names a rule, out or still to come, stands for a time of its own
\* that somebody added that rule, and that rule is gone.
AlertsTruthful ==
    \A r \in Rules :
        announced[r] + Cardinality(Owed(r)) + Present(r) <= opened[r]

\* "to remove exactly that rule": EC2 lists the rules of one port range under
\* one permission and takes away what a revocation names, from what is there by
\* then; still the watchdog never removes a rule that is for other ports or
\* for a named source.
OthersKept == \A r \in Rules : ~OpensPort22(r) => revoked[r] = 0

\* A rule that lets the world in on a range of ports around 22 does not stay,
\* whatever the races for it, once people stop adding rules and calls stop
\* failing.
OpenRangesRevoked ==
    \A r \in Rules :
        OpensPort22(r) /\ r.from # NoPort => (r \in rules ~> r \notin rules)

\* handler.py:10-11: "If any inbound rule allows 0.0.0.0/0 (or ::/0) on port 22
\* -> ec2:RevokeSecurityGroupIngress to remove exactly that rule."
AnyOpenRuleRevoked ==
    \A r \in Rules : OpensPort22(r) => (r \in rules ~> r \notin rules)

\* handler.py:9-13 (README:102-104): what is revoked is published.
RemovalsAnnounced ==
    (\A w \in Workers : inv[w] = Idle) =>
        \A r \in Rules : announced[r] = revoked[r]
=============================================================================
