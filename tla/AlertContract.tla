---------------------------- MODULE AlertContract ----------------------------
(***************************************************************************)
(* What the low-stock pipeline promises a subscriber, without batches in   *)
(* hand, attempts, cursors or cached thresholds: changes of stock are      *)
(* appended to the stream; the consumer looks ahead at most BatchSize      *)
(* records and publishes alerts for shortages it finds there, possibly     *)
(* more than once; and it either settles the next few records, with every  *)
(* shortage among them alerted, or gives them up.                          *)
(***************************************************************************)
EXTENDS InventoryTable

CONSTANTS Thresholds, BatchSize, Dropped

VARIABLES alerts, settled

contractVars == <<log, alerts, settled>>

Short(level, t) == level # Absent /\ level < t

\* The change made a product short that was not short before.
Shortage(r, t) == Short(r.new, t) /\ ~Short(r.old, t)

Ahead(n) == Len(settled) + 1 .. Len(settled) + n

Announced(i) == \E a \in DOMAIN alerts : alerts[a].rec = i

Change ==
    /\ log' \in Seq(Record)
    /\ Len(log') = Len(log) + 1
    /\ SubSeq(log', 1, Len(log)) = log
    /\ UNCHANGED <<alerts, settled>>

\* One more message, about a shortage in the next n records.
Message(n, messages) ==
    \E i \in Ahead(n), t \in Thresholds :
        /\ Shortage(log[i], t)
        /\ messages = Append(alerts, [rec |-> i, threshold |-> t])

Announce ==
    /\ \E n \in 1..BatchSize :
           /\ Len(settled) + n <= Len(log)
           /\ Message(n, alerts')
    /\ UNCHANGED <<log, settled>>

SettleShortages ==
    /\ \E n \in 1..BatchSize, t \in Thresholds :
           /\ Len(settled) + n <= Len(log)
           /\ \A i \in Ahead(n) : Shortage(log[i], t) => Announced(i)
           /\ settled' = settled \o [i \in 1..n |-> t]
    /\ UNCHANGED <<log, alerts>>

GiveUp ==
    /\ \E n \in 1..BatchSize :
           /\ Len(settled) + n <= Len(log)
           /\ alerts' = alerts \/ Message(n, alerts')
           /\ settled' = settled \o [i \in 1..n |-> Dropped]
    /\ UNCHANGED log

ContractInit == log = <<>> /\ alerts = <<>> /\ settled = <<>>

ContractNext == Change \/ Announce \/ SettleShortages \/ GiveUp

ContractSafety == ContractInit /\ [][ContractNext]_contractVars

\* Records never wait for ever.
ContractProgress == WF_contractVars(SettleShortages \/ GiveUp)
=============================================================================
