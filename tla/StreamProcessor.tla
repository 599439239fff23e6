--------------------------- MODULE StreamProcessor ---------------------------
(***************************************************************************)
(* stream_processor (lambda/stream_processor/handler.py) and the event     *)
(* source mapping that invokes it (stacks/compute_stack.py): one shard,    *)
(* batches of at most BatchSize consecutive records, one invocation at a   *)
(* time, a failed batch retried whole and given up after MaxAttempts.      *)
(*                                                                         *)
(* An invocation reads the threshold from SSM once, then walks the batch   *)
(* and publishes one alert for each record that crosses it.  Any call may  *)
(* fail and the invocation may die anywhere; what it published before      *)
(* stays published, and the next attempt starts from the first record.     *)
(* Within one call of sns.publish botocore sends the request again when no *)
(* answer or a server error comes back, though the topic may have taken it.*)
(***************************************************************************)
EXTENDS InventoryTable

CONSTANTS
    Thresholds,     \* values the low-stock-threshold parameter may take
    BatchSize,      \* batch_size of the mapping
    MaxAttempts,    \* retry_attempts + 1
    MaxSends,       \* botocore: requests sent for one call of sns.publish
    Dropped         \* verdict on the records of a batch given up

ASSUME ProcessorAssumption ==
    /\ Thresholds \subseteq Int
    /\ BatchSize \in Nat \ {0}
    /\ MaxAttempts \in Nat \ {0}
    /\ MaxSends \in Nat \ {0}
    /\ Dropped \notin Int
    /\ Absent \notin Thresholds

VARIABLES
    threshold,  \* the SSM parameter now
    batch,      \* number of records in the batch in hand, 0 when there is none
    attempt,    \* which attempt at the batch this is
    thr,        \* the threshold the running invocation read, or Absent
    pos,        \* the record the running invocation looks at next
    sends,      \* copies of its message the topic took without an answer
    alerts,     \* the topic: every message published, in order
    settled     \* history: for each record behind the checkpoint, the
                \* threshold it was judged with, or Dropped

processorVars ==
    <<threshold, batch, attempt, thr, pos, sends, alerts, settled>>

\* The mapping's position in the stream: all up to here is done with.
checkpoint == Len(settled)

\* Slip: alert on the level, not on the crossing.
CrossedLevel(r, t) ==
    r.key # Other /\ r.new # Absent /\ r.new < t

\* Slip: an item without an old image never crosses.
CrossedNoInsert(r, t) ==
    CrossedLevel(r, t) /\ r.old # Absent /\ r.old >= t

\* A product's record with a new stock below t and an old one, if there was
\* one, at or above t.
Crossed(r, t) ==
    /\ r.key # Other
    /\ r.new # Absent
    /\ r.new < t
    /\ r.old # Absent => r.old >= t

Poll(n) ==
    /\ batch = 0
    /\ n \in 1..BatchSize
    /\ checkpoint + n <= Len(log)
    /\ batch' = n
    /\ attempt' = 1
    /\ UNCHANGED <<threshold, thr, pos, sends, alerts, settled>>

ReadThreshold ==
    /\ batch > 0
    /\ thr = Absent
    /\ thr' = threshold
    /\ pos' = checkpoint + 1
    /\ UNCHANGED <<threshold, batch, attempt, sends, alerts, settled>>

AtRecord == thr # Absent /\ pos <= checkpoint + batch

Skip ==
    /\ AtRecord
    /\ ~Crossed(log[pos], thr)
    /\ pos' = pos + 1
    /\ UNCHANGED <<threshold, batch, attempt, thr, sends, alerts, settled>>

\* The topic takes a copy of the message about the record at hand.
Send ==
    /\ AtRecord
    /\ Crossed(log[pos], thr)
    /\ alerts' = Append(alerts, [rec |-> pos, threshold |-> thr])

Publish ==
    /\ Send
    /\ pos' = pos + 1
    /\ sends' = 0
    /\ UNCHANGED <<threshold, batch, attempt, thr, settled>>

\* The message is out but its answer is lost, and botocore has a try left.
SendUnanswered ==
    /\ sends + 1 < MaxSends
    /\ Send
    /\ sends' = sends + 1
    /\ UNCHANGED <<threshold, batch, attempt, thr, pos, settled>>

\* Slip: the checkpoint moves by a full batch although fewer came.
SettleFullBatch(verdict) ==
    /\ settled' = settled \o [i \in 1..BatchSize |-> verdict]
    /\ batch' = 0
    /\ attempt' = 0
    /\ thr' = Absent
    /\ pos' = 0
    /\ sends' = 0

\* What the mapping does with a finished batch: move past it.
Settle(verdict) ==
    /\ settled' = settled \o [i \in 1..batch |-> verdict]
    /\ batch' = 0
    /\ attempt' = 0
    /\ thr' = Absent
    /\ pos' = 0
    /\ sends' = 0

\* Slip: the last record of the batch is not looked at.
ReturnEarly ==
    /\ thr # Absent
    /\ pos >= checkpoint + batch
    /\ Settle(thr)
    /\ UNCHANGED <<threshold, alerts>>

Return ==
    /\ thr # Absent
    /\ pos > checkpoint + batch
    /\ Settle(thr)
    /\ UNCHANGED <<threshold, alerts>>

StartOver ==
    /\ thr' = Absent
    /\ pos' = 0
    /\ sends' = 0
    /\ UNCHANGED <<batch, settled>>

\* Slip: one attempt too many.
RetryOnceMore ==
    \/ /\ attempt <= MaxAttempts
       /\ attempt' = attempt + 1
       /\ StartOver
    \/ /\ attempt > MaxAttempts
       /\ Settle(Dropped)

\* Slip: retry_attempts left at its default, which is to retry for ever.
RetryForever == StartOver /\ UNCHANGED attempt

\* The invocation ended in an error: try the batch again, or give it up.
Retry ==
    \/ /\ attempt < MaxAttempts
       /\ attempt' = attempt + 1
       /\ StartOver
    \/ /\ attempt >= MaxAttempts
       /\ Settle(Dropped)

\* Slip: a failed publish is swallowed, as the authorizer does.
FailSwallowed ==
    /\ AtRecord
    /\ pos' = pos + 1
    /\ sends' = 0
    /\ UNCHANGED <<threshold, batch, attempt, thr, alerts, settled>>

\* SSM or SNS raises, or the invocation times out, with nothing more published.
Fail ==
    /\ batch > 0
    /\ Retry
    /\ UNCHANGED <<threshold, alerts>>

\* The message is out but the invocation dies before it can go on.
PublishAndFail ==
    /\ Send
    /\ Retry
    /\ UNCHANGED threshold

ProcessorStep ==
    \/ \E n \in 1..BatchSize : Poll(n)
    \/ ReadThreshold
    \/ Skip
    \/ Publish
    \/ SendUnanswered
    \/ Return
    \/ Fail
    \/ PublishAndFail

ProcessorInit ==
    /\ threshold \in Thresholds
    /\ batch = 0
    /\ attempt = 0
    /\ thr = Absent
    /\ pos = 0
    /\ sends = 0
    /\ alerts = <<>>
    /\ settled = <<>>

ProcessorTypeOK ==
    /\ threshold \in Thresholds
    /\ batch \in 0..BatchSize
    /\ attempt \in 0..MaxAttempts
    /\ thr \in Thresholds \cup {Absent}
    /\ pos \in Nat
    /\ sends \in 0..MaxSends - 1
    /\ alerts \in Seq([rec : Nat, threshold : Thresholds])
    /\ settled \in Seq(Thresholds \cup {Dropped})
=============================================================================
