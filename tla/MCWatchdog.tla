----------------------------- MODULE MCWatchdog -----------------------------
(* Two rules the watchdog goes for, one of them under the same permission  *)
(* as a third that is to stay, and a rule for all traffic.                 *)
EXTENDS Watchdog

CONSTANTS any4, any6, office    \* sources

Rule(proto, from, to, cidr) ==
    [proto |-> proto, from |-> from, to |-> to, cidr |-> cidr]

MCRules == {Rule("tcp", 22, 22, any4),
            Rule("tcp", 22, 22, office),
            Rule("udp", 0, 100, any6),
            Rule("all traffic", NoPort, NoPort, any4)}

MCWorld == {any4, any6}

\* Rules the watchdog removes come back once.
Once == [r \in MCRules |-> 1]
Twice == [r \in MCRules |-> IF OpensPort22(r) /\ r.from # NoPort THEN 2 ELSE 1]
=============================================================================
