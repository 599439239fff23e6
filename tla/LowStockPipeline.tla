-------------------------- MODULE LowStockPipeline --------------------------
(***************************************************************************)
(* The real-time inventory pipeline: carts, seeding and the demo reset     *)
(* write stock, the stream carries the changes in order, stream_processor  *)
(* turns crossings of the threshold into alerts, and the threshold itself  *)
(* is changed live through SSM.                                            *)
(***************************************************************************)
EXTENDS Cart, StreamProcessor, FiniteSets

CONSTANTS
    SeedStock,      \* seed_data.py: the stock each product is seeded with
    ResetStock      \* demo.sh reset: the stock the demo product is put to

ASSUME PipelineAssumption ==
    /\ SeedStock \in [Skus -> Int]
    /\ ResetStock \in Int

VARIABLE
    tuned       \* history: was the threshold ever moved, and was it raised?

vars == <<tableVars, cartVars, processorVars, tuned>>

----------------------------------------------------------------------------
(* The operators around the two Lambda functions.                          *)

\* seed_data.py puts the whole item, whatever was there.
Seed(s) ==
    /\ Len(log) < MaxLog
    /\ PutStock(s, SeedStock[s])
    /\ UNCHANGED <<cartVars, processorVars, tuned>>

\* demo.sh reset: an unconditional SET stock.
Reset(s) ==
    /\ Len(log) < MaxLog
    /\ PutStock(s, ResetStock)
    /\ UNCHANGED <<cartVars, processorVars, tuned>>

\* The authorizer counts a request in the same table: one more record in the
\* stream that stream_processor has to step over.
CountRequest ==
    /\ Len(log) < MaxLog
    /\ PutOther(TRUE)
    /\ UNCHANGED <<cartVars, processorVars, tuned>>

\* aws ssm put-parameter --overwrite, at any moment.
TuneThreshold(t) ==
    /\ t # threshold
    /\ threshold' = t
    /\ tuned' = IF t > threshold \/ tuned = "raised" THEN "raised"
                                                     ELSE "lowered"
    /\ UNCHANGED <<tableVars, cartVars, batch, attempt, thr, pos, sends,
                   alerts, settled>>

Shop == CartNext /\ UNCHANGED <<processorVars, tuned>>

Consume == ProcessorStep /\ UNCHANGED <<tableVars, cartVars, tuned>>

Init ==
    /\ CartInit
    /\ ProcessorInit
    /\ tuned = "never"

Next ==
    \/ Shop
    \/ Consume
    \/ \E s \in Skus : Seed(s) \/ Reset(s)
    \/ CountRequest
    \/ \E t \in Thresholds : TuneThreshold(t)

\* Lambda and the mapping keep working; shoppers and operators need not.
Fairness == WF_vars(Consume)

Spec == Init /\ [][Next]_vars /\ Fairness

----------------------------------------------------------------------------
(* Properties.                                                             *)

\* Every variable has its type, the batch in hand is in the stream and a
\* running invocation is in its batch.
InStream ==
    /\ checkpoint + batch <= Len(log)
    /\ thr # Absent => /\ batch > 0
                       /\ pos \in checkpoint + 1 .. checkpoint + batch + 1

TypeOK ==
    /\ TableTypeOK
    /\ CartTypeOK
    /\ ProcessorTypeOK
    /\ InStream
    /\ tuned \in {"never", "lowered", "raised"}

Alerted(i) == \E a \in DOMAIN alerts : alerts[a].rec = i

LostRecords == {i \in 1..checkpoint : settled[i] = Dropped}

Drained == checkpoint = Len(log)

\* The mapping moves past a record that crosses the threshold it was judged
\* with only once its alert is out, or when it gives the whole batch up: no
\* failure, retry or partly published batch makes handler lose a crossing.
NoCrossingSkipped ==
    \A i \in 1..checkpoint :
        settled[i] # Dropped /\ Crossed(log[i], settled[i]) => Alerted(i)

\* What makes NoCrossingSkipped inductive: the crossings that a running
\* invocation has already stepped over are alerted, by itself or by an earlier
\* attempt.
AttemptCoversPrefix ==
    thr # Absent =>
        \A i \in checkpoint + 1 .. pos - 1 :
            Crossed(log[i], thr) => Alerted(i)

\* End to end: once the stream is drained, a product whose stock is below the
\* threshold has an alert that is not out of date: since the record alerted,
\* no write took the product back to where the threshold ever was.  This needs
\* that no batch was given up and that the threshold was never raised (raising
\* it over a stock that is already lower alerts nobody).
LowStockIsReported ==
    Drained /\ LostRecords = {} /\ tuned # "raised" =>
        \A s \in Skus : stock[s] # Absent /\ stock[s] < threshold =>
            \E a \in DOMAIN alerts :
                /\ log[alerts[a].rec].key = s
                /\ \A k \in alerts[a].rec..Len(log) :
                       log[k].key = s => log[k].new < alerts[a].threshold

\* One shortage, one crossing: between two different records of a product
\* that were alerted, the product was restocked to the threshold.  Further
\* sales of a product that is already low stay silent.
OneAlertPerShortage ==
    tuned = "never" =>
        \A a, b \in DOMAIN alerts :
            LET i == alerts[a].rec
                k == alerts[b].rec
            IN  i < k /\ log[i].key = log[k].key =>
                    \E j \in i+1..k-1 : /\ log[j].key = log[i].key
                                        /\ log[j].new >= threshold

\* A batch is tried a bounded number of times, and each try sends a message a
\* bounded number of times: a subscriber never sees the alert of one record
\* more often than the two together allow (15 times as deployed).
AlertsRepeatBounded ==
    \A i \in 1..Len(log) :
        Cardinality({a \in DOMAIN alerts : alerts[a].rec = i})
            <= MaxAttempts * MaxSends

\* Retries publish older records again after newer ones, but the last message
\* about a product is about its newest crossing once the stream is drained,
\* when no batch was given up and the threshold stayed.
LastAlertIsNewest ==
    Drained /\ LostRecords = {} /\ tuned = "never" =>
        \A a, b \in DOMAIN alerts :
            /\ log[alerts[a].rec].key = log[alerts[b].rec].key
            /\ alerts[a].rec > alerts[b].rec
            => \E c \in DOMAIN alerts : /\ c > b
                                        /\ alerts[c].rec = alerts[a].rec

\* Whatever fails, the consumer gets past every record in the end: a bad
\* record or a broken parameter blocks the shard for a bounded number of tries.
EveryRecordSettled ==
    \A i \in 1..MaxLog : Len(log) >= i ~> checkpoint >= i

\* Batches, attempts and cursors hidden, the pipeline does what AlertContract
\* says, under the same names, and it never stops settling records.
Contract == INSTANCE AlertContract
                WITH log <- log, alerts <- alerts, settled <- settled
ImplementsContract == Contract!ContractSafety /\ Contract!ContractProgress

\* handler.py:3-5 as it stands: on every change where stock crosses below the
\* threshold an alert is published.
EveryCrossingAlerted ==
    tuned = "never" =>
        \A i \in 1..checkpoint : Crossed(log[i], threshold) => Alerted(i)
=============================================================================
