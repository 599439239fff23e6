--------------------------- MODULE DisasterRecovery ---------------------------
(***************************************************************************)
(* Act 1 around Orders (scripts/demo.sh replica and act1, RUNBOOK.md): a   *)
(* read replica follows the one MySQL instance asynchronously; it can be   *)
(* promoted, whether or not the primary is lost, and then get_reports, but *)
(* not create_order, is pointed at it.                                     *)
(*                                                                         *)
(* RDS is external: the replica receives what the primary commits, in that *)
(* order and with any delay; a promotion applies what was received and     *)
(* ends the replication for good.                                          *)
(***************************************************************************)
EXTENDS Orders, Sequences

VARIABLES
    up,         \* is the primary there?
    binlog,     \* the committed states of the primary, in order
    replica,    \* "none", "replicating" or "standalone"
    copied,     \* the replica holds binlog[copied]
    reader,     \* DB_READER_ENDPOINT of get_reports
    host        \* host[r]: DB_HOST, read when r's container was started

drVars == <<up, binlog, replica, copied, reader, host>>

Instances == {"primary", "replica"}

Copy == binlog[copied]

----------------------------------------------------------------------------
(* Orders on the primary.                                                  *)

\* What a step commits goes to the binary log.
Log ==
    binlog' = IF UNCHANGED <<table, rows>>
                THEN binlog
                ELSE Append(binlog, [table |-> table', rows |-> rows'])

\* create_order always talks to the primary; without it calls fail, or hang
\* until Lambda kills the invocation.
OrderStep ==
    /\ \/ \E w \in Workers, c \in Checkouts : Request(w, c)
       \/ \E w \in Workers : Answer201(w)
       \/ up /\ \E w \in Workers :
                    Connect(w) \/ Create(w) \/ Insert(w) \/ Commit(w)
       \/ up /\ \E o \in Order : CommitLate(o)
       \/ /\ \E w \in Workers : Answer500(w) \/ Kill(w)
          /\ up \/ UNCHANGED <<table, rows, late>>
    /\ Log
    /\ UNCHANGED <<up, replica, copied, reader, host>>

\* A new invocation runs with the endpoint of the day, a running one keeps its
\* own: an update of the environment starts new containers.
AskHost(r) ==
    /\ Ask(r)
    /\ host' = [host EXCEPT ![r] = reader]
    /\ UNCHANGED <<up, binlog, replica, copied, reader>>

ReadHost(r) ==
    /\ \/ host[r] = "primary" /\ up /\ Read(r)
       \/ /\ host[r] = "replica" /\ report[r].pc = "reading"
          /\ Copy.table
          /\ Serve(r, Copy.rows)
          /\ UNCHANGED <<table, rows, late, requests, inv, history>>
    /\ UNCHANGED drVars

----------------------------------------------------------------------------
(* The operator and RDS.                                                   *)

\* The primary is lost, with its rows: they stay in the model as what was committed.
Lose ==
    /\ up
    /\ up' = FALSE
    /\ UNCHANGED <<binlog, replica, copied, reader, host>>

\* create-db-instance-read-replica: a snapshot of the primary to start from.
CreateReplica ==
    /\ up /\ replica = "none"
    /\ replica' = "replicating"
    /\ copied' = Len(binlog)
    /\ UNCHANGED <<up, binlog, reader, host>>

Replicate ==
    /\ up /\ replica = "replicating"
    /\ copied < Len(binlog)
    /\ copied' = copied + 1
    /\ UNCHANGED <<up, binlog, replica, reader, host>>

\* promote-read-replica, after the operator typed PROMOTE.
Promote ==
    /\ replica = "replicating"
    /\ replica' = "standalone"
    /\ UNCHANGED <<up, binlog, copied, reader, host>>

\* Slip: reports are moved over while the replica still follows.
RepointEarly ==
    /\ replica # "none"
    /\ reader' = "replica"
    /\ UNCHANGED <<up, binlog, replica, copied, host>>

\* update-function-configuration of get_reports.
Repoint ==
    /\ replica = "standalone" /\ reader = "primary"
    /\ reader' = "replica"
    /\ UNCHANGED <<up, binlog, replica, copied, host>>

RecoveryInit ==
    /\ Init
    /\ up = TRUE
    /\ binlog = << [table |-> FALSE, rows |-> {}] >>
    /\ replica = "none"
    /\ copied = 1
    /\ reader = "primary"
    /\ host = [r \in Readers |-> "primary"]

RecoveryNext ==
    \/ OrderStep
    \/ \E r \in Readers : \/ AskHost(r)
                          \/ ReadHost(r)
                          \/ ReportDone(r) /\ UNCHANGED drVars
    \/ /\ Lose \/ CreateReplica \/ Replicate \/ Promote \/ Repoint
       /\ UNCHANGED vars

RecoverySpec == RecoveryInit /\ [][RecoveryNext]_<<vars, drVars>>

----------------------------------------------------------------------------
\* The state of Act 1 has its type; the binary log ends with the rows there are.
RecoveryTypeOK ==
    /\ TypeOK
    /\ up \in BOOLEAN
    /\ binlog \in Seq([table : BOOLEAN, rows : SUBSET Order])
    /\ copied \in 1..Len(binlog)
    /\ binlog[Len(binlog)] = [table |-> table, rows |-> rows]
    /\ replica \in {"none", "replicating", "standalone"}
    /\ reader \in Instances
    /\ host \in [Readers -> Instances]

\* What Act 1 does to reports, whatever was in flight when the primary was lost,
\* the replica promoted or get_reports pointed at it.  A report never shows an
\* order that is not accounted for.  On the primary it shows every order that
\* was answered with 201 before; on the promoted instance it lacks only what had
\* not reached the replica at the promotion, or was ordered after it: an order
\* that is missing from one report does not turn up in the next.
ReportGapsExplained ==
    \A r \in Readers : report[r].pc = "read" =>
        /\ report[r].seen \subseteq rows
        /\ host[r] = "primary" => report[r].before \subseteq report[r].seen
        /\ host[r] = "replica" => (report[r].before \ report[r].seen) \cap Copy.rows = {}
=============================================================================
