--------------------------- MODULE PipelineProofs ---------------------------
(***************************************************************************)
(* Theorems about LowStockPipeline for every set of products, workers,     *)
(* carts and thresholds, and every batch size, number of attempts and of   *)
(* sends per attempt.                                                      *)
(* First the typing of the variables, one lemma per group of actions; then *)
(* NoCrossingSkipped with AttemptCoversPrefix, its inductive strengthening,*)
(* and that the pipeline implements AlertContract.  The rest is about what *)
(* subscribers see: the stream is a history of the table (StreamInv), what *)
(* messages were judged with (JudgeInv), what is low is reported           *)
(* (ReportInv), in order (LastInv) and not too often (RepeatInv).          *)
(***************************************************************************)
EXTENDS LowStockPipeline, CartProofs, FiniteSetTheorems

----------------------------------------------------------------------------
(* The consumer.                                                           *)

\* Moving past the batch in hand, with any verdict.
LEMMA SettleType ==
    ASSUME ProcessorTypeOK, batch > 0, NEW v \in Thresholds \cup {Dropped},
           Settle(v)
    PROVE  /\ batch' \in 0..BatchSize
           /\ attempt' \in 0..MaxAttempts
           /\ thr' = Absent
           /\ pos' \in Nat
           /\ sends' = 0
           /\ settled' \in Seq(Thresholds \cup {Dropped})
           /\ Len(settled') = Len(settled) + batch
           /\ \A i \in 1..Len(settled) : settled'[i] = settled[i]
           /\ \A i \in Len(settled)+1..Len(settled') : settled'[i] = v
           /\ batch' = 0
<1> DEFINE tail == [i \in 1..batch |-> v]
<1>1. batch \in Nat
  BY ProcessorAssumption DEF ProcessorTypeOK
<1>2. tail \in Seq(Thresholds \cup {Dropped}) /\ Len(tail) = batch
  BY <1>1
<1>3. settled' = settled \o tail
  BY DEF Settle
<1>4. settled \in Seq(Thresholds \cup {Dropped})
  BY DEF ProcessorTypeOK
<1>5. /\ settled' \in Seq(Thresholds \cup {Dropped})
      /\ Len(settled') = Len(settled) + batch
      /\ \A i \in 1..Len(settled) + batch :
             settled'[i] = IF i <= Len(settled) THEN settled[i]
                                                ELSE tail[i - Len(settled)]
  BY <1>2, <1>3, <1>4, ConcatProperties
<1>6. \A i \in Len(settled)+1..Len(settled') : settled'[i] = v
  BY <1>1, <1>4, <1>5
<1>7. \A i \in 1..Len(settled) : settled'[i] = settled[i]
  BY <1>1, <1>4, <1>5
<1>8. /\ batch' = 0 /\ attempt' = 0 /\ thr' = Absent /\ pos' = 0
      /\ sends' = 0
      /\ 0 \in 0..BatchSize /\ 0 \in 0..MaxAttempts /\ 0 \in Nat
  BY ProcessorAssumption DEF Settle
<1> HIDE DEF tail
<1> QED
  BY <1>5, <1>6, <1>7, <1>8

\* A failed attempt either leaves the batch to the next one or drops it.
LEMMA RetryType ==
    ASSUME ProcessorTypeOK, batch > 0, checkpoint + batch <= Len(log), Retry
    PROVE  /\ batch' \in 0..BatchSize
           /\ attempt' \in 0..MaxAttempts
           /\ thr' = Absent
           /\ pos' \in Nat
           /\ sends' = 0
           /\ settled' \in Seq(Thresholds \cup {Dropped})
           /\ checkpoint' + batch' <= Len(log)
           /\ checkpoint <= checkpoint'
           /\ \A i \in 1..checkpoint : settled'[i] = settled[i]
           /\ \A i \in checkpoint+1..checkpoint' : settled'[i] = Dropped
<1>1. CASE attempt < MaxAttempts /\ attempt' = attempt + 1 /\ StartOver
  BY <1>1, ProcessorAssumption DEF ProcessorTypeOK, StartOver, checkpoint
<1>2. CASE attempt >= MaxAttempts /\ Settle(Dropped)
  <2>1. Dropped \in Thresholds \cup {Dropped}
    OBVIOUS
  <2>2. /\ batch' \in 0..BatchSize
        /\ attempt' \in 0..MaxAttempts
        /\ thr' = Absent
        /\ pos' \in Nat
        /\ sends' = 0
        /\ settled' \in Seq(Thresholds \cup {Dropped})
        /\ Len(settled') = Len(settled) + batch
        /\ \A i \in 1..Len(settled) : settled'[i] = settled[i]
        /\ \A i \in Len(settled)+1..Len(settled') : settled'[i] = Dropped
        /\ batch' = 0
    BY <1>2, <2>1, SettleType
  <2>3. batch \in Nat /\ Len(settled) \in Nat
    BY ProcessorAssumption DEF ProcessorTypeOK
  <2> QED
    BY <2>2, <2>3 DEF checkpoint
<1> QED
  BY <1>1, <1>2 DEF Retry

\* Every message is about the record at hand.
LEMMA AlertsType ==
    ASSUME ProcessorTypeOK, AtRecord,
           alerts' = Append(alerts, [rec |-> pos, threshold |-> thr])
    PROVE  /\ alerts' \in Seq([rec : Nat, threshold : Thresholds])
           /\ \A i : Alerted(i) \/ i = pos => Alerted(i)'
<1> DEFINE m == [rec |-> pos, threshold |-> thr]
<1>1. m \in [rec : Nat, threshold : Thresholds]
  BY DEF ProcessorTypeOK, AtRecord
<1>2. /\ alerts' \in Seq([rec : Nat, threshold : Thresholds])
      /\ Len(alerts') = Len(alerts) + 1
      /\ \A a \in 1..Len(alerts) : alerts'[a] = alerts[a]
      /\ alerts'[Len(alerts) + 1] = m
  BY <1>1, AppendProperties DEF ProcessorTypeOK
<1>3. /\ DOMAIN alerts = 1..Len(alerts) /\ Len(alerts) \in Nat
      /\ DOMAIN alerts' = 1..Len(alerts) + 1
  BY <1>2 DEF ProcessorTypeOK
<1>4. Len(alerts) + 1 \in DOMAIN alerts' /\ m.rec = pos
  BY <1>3
<1>5. ASSUME NEW i, i = pos PROVE Alerted(i)'
  BY <1>2, <1>4, <1>5 DEF Alerted
<1>6. ASSUME NEW i, Alerted(i) PROVE Alerted(i)'
  <2>1. PICK a \in DOMAIN alerts : alerts[a].rec = i
    BY <1>6 DEF Alerted
  <2>2. a \in DOMAIN alerts' /\ alerts'[a].rec = i
    BY <2>1, <1>2, <1>3
  <2> QED
    BY <2>2 DEF Alerted
<1> QED
  BY <1>2, <1>5, <1>6

\* The consumer's variables keep their types, and the batch in hand stays
\* within the stream.
LEMMA ProcessorStepType ==
    ASSUME TableTypeOK, ProcessorTypeOK, InStream, ProcessorStep, UNCHANGED log
    PROVE  ProcessorTypeOK' /\ InStream'
<1>0. /\ batch \in Nat /\ batch <= BatchSize /\ attempt \in Nat /\ pos \in Nat
      /\ checkpoint \in Nat /\ Len(log) \in Nat /\ 1 \in 0..MaxAttempts
      /\ batch \in 0..BatchSize /\ BatchSize \in Nat
      /\ 0 \in 0..MaxSends - 1 /\ MaxSends \in Nat
  BY ProcessorAssumption DEF ProcessorTypeOK, TableTypeOK, checkpoint
<1>1. ASSUME NEW n \in 1..BatchSize, Poll(n)
      PROVE  ProcessorTypeOK' /\ InStream'
  <2>1. thr = Absent
    BY <1>0, <1>1 DEF Poll, InStream
  <2> QED
    BY <1>0, <1>1, <2>1 DEF Poll, ProcessorTypeOK, checkpoint, InStream
<1>2. CASE ReadThreshold
  BY <1>0, <1>2 DEF ReadThreshold, ProcessorTypeOK, checkpoint, InStream
<1>3. CASE Skip
  BY <1>0, <1>3 DEF Skip, AtRecord, ProcessorTypeOK, checkpoint, InStream
<1>4. CASE Publish
  <2>1. alerts' \in Seq([rec : Nat, threshold : Thresholds])
    BY <1>4, AlertsType DEF Publish, Send
  <2> QED
    BY <1>0, <1>4, <2>1
    DEF Publish, Send, AtRecord, ProcessorTypeOK, checkpoint, InStream
<1>5. CASE Return
  <2>1. thr \in Thresholds \cup {Dropped} /\ Settle(thr) /\ batch > 0
    BY <1>5 DEF Return, ProcessorTypeOK, InStream
  <2>2. /\ batch' = 0 /\ attempt' \in 0..MaxAttempts /\ thr' = Absent
        /\ pos' \in Nat /\ settled' \in Seq(Thresholds \cup {Dropped})
        /\ sends' = 0 /\ Len(settled') = Len(settled) + batch
    BY <2>1, SettleType
  <2> QED
    BY <1>0, <1>5, <2>2 DEF Return, ProcessorTypeOK, checkpoint, InStream
<1>6. CASE Fail
  <2>1. Retry /\ batch > 0 /\ checkpoint + batch <= Len(log)
    BY <1>6 DEF Fail, InStream
  <2> QED
    BY <1>0, <1>6, <2>1, RetryType DEF Fail, ProcessorTypeOK, InStream
<1>7. CASE PublishAndFail
  <2>1. Retry /\ batch > 0 /\ checkpoint + batch <= Len(log)
    BY <1>7 DEF PublishAndFail, Send, AtRecord, InStream
  <2>2. alerts' \in Seq([rec : Nat, threshold : Thresholds])
    BY <1>7, AlertsType DEF PublishAndFail, Send
  <2> QED
    BY <1>0, <1>7, <2>1, <2>2, RetryType
    DEF PublishAndFail, ProcessorTypeOK, InStream
<1>8. CASE SendUnanswered
  <2>1. alerts' \in Seq([rec : Nat, threshold : Thresholds])
    BY <1>8, AlertsType DEF SendUnanswered, Send
  <2>2. sends' \in 0..MaxSends - 1
    BY <1>0, <1>8 DEF SendUnanswered, ProcessorTypeOK
  <2> QED
    BY <1>0, <1>8, <2>1, <2>2
    DEF SendUnanswered, Send, AtRecord, ProcessorTypeOK, checkpoint, InStream
<1> QED
  BY <1>1, <1>2, <1>3, <1>4, <1>5, <1>6, <1>7, <1>8 DEF ProcessorStep

----------------------------------------------------------------------------
(* The whole pipeline.                                                     *)

\* Every step of the pipeline keeps the types, and the stream only grows.
LEMMA StepType ==
    ASSUME TypeOK, Next
    PROVE  TypeOK' /\ LogExtended
<1> USE DEF TypeOK
<1>1. checkpoint \in Nat /\ batch \in Nat /\ Len(log) \in Nat
  BY ProcessorAssumption DEF ProcessorTypeOK, TableTypeOK, checkpoint
<1>2. ASSUME UNCHANGED processorVars, LogExtended
      PROVE  ProcessorTypeOK' /\ InStream'
  <2>1. Len(log') \in Nat /\ Len(log') >= Len(log)
    BY <1>2, ExtendedLog
  <2> QED
    BY <1>1, <1>2, <2>1
    DEF processorVars, InStream, ProcessorTypeOK, checkpoint
<1>3. CASE Shop
  <2>1. TableTypeOK' /\ CartTypeOK' /\ LogExtended
    BY <1>3, CartNextType DEF Shop
  <2> QED
    BY <1>2, <1>3, <2>1 DEF Shop, TableTypeOK
<1>4. CASE Consume
  <2>1. LogExtended /\ TableTypeOK' /\ CartTypeOK'
    BY <1>1, <1>4
    DEF Consume, tableVars, cartVars, LogExtended, TableTypeOK, CartTypeOK
  <2> QED
    BY <1>4, <2>1, ProcessorStepType DEF Consume, tableVars
<1>5. ASSUME NEW s \in Skus, Seed(s) \/ Reset(s)
      PROVE  TypeOK' /\ LogExtended
  <2>1. PICK n \in Int : PutStock(s, n)
    BY <1>5, PipelineAssumption DEF Seed, Reset
  <2>2. TableTypeOK' /\ LogExtended
    BY <2>1, PutStockType
  <2>3. CartTypeOK'
    BY <1>5 DEF Seed, Reset, cartVars, CartTypeOK
  <2> QED
    BY <1>2, <1>5, <2>2, <2>3 DEF Seed, Reset, TableTypeOK
<1>6. CASE CountRequest
  <2>1. TableTypeOK' /\ LogExtended
    BY <1>6, PutOtherType DEF CountRequest
  <2>2. CartTypeOK'
    BY <1>6 DEF CountRequest, cartVars, CartTypeOK
  <2> QED
    BY <1>2, <1>6, <2>1, <2>2 DEF CountRequest, TableTypeOK
<1>7. ASSUME NEW t \in Thresholds, TuneThreshold(t)
      PROVE  TypeOK' /\ LogExtended
  BY <1>1, <1>7
  DEF TuneThreshold, tableVars, cartVars, TableTypeOK, CartTypeOK,
      ProcessorTypeOK, InStream, checkpoint, LogExtended
<1> QED
  BY <1>3, <1>4, <1>5, <1>6, <1>7 DEF Next

\* Type correctness of the pipeline: the batch in hand is always a stretch of
\* the stream just behind the checkpoint, and an invocation never leaves it.
THEOREM TypeCorrect == Spec => []TypeOK
<1>1. Init => TypeOK
  <2> SUFFICES ASSUME Init PROVE TypeOK
    OBVIOUS
  <2>1. TableTypeOK
    BY DEF Init, CartInit, TableInit, TableTypeOK, Level
  <2>2. CartTypeOK
    BY DEF Init, CartInit, CartTypeOK
  <2>3. ProcessorTypeOK
    BY ProcessorAssumption DEF Init, ProcessorInit, ProcessorTypeOK
  <2>4. InStream
    BY DEF Init, CartInit, TableInit, ProcessorInit, InStream, checkpoint
  <2> QED
    BY <2>1, <2>2, <2>3, <2>4 DEF Init, TypeOK
<1>2. TypeOK /\ [Next]_vars => TypeOK'
  <2>1. ASSUME TypeOK, UNCHANGED vars PROVE TypeOK'
    BY <2>1
    DEF vars, tableVars, cartVars, processorVars, TypeOK, TableTypeOK,
        CartTypeOK, ProcessorTypeOK, InStream, checkpoint
  <2> QED
    BY <2>1, StepType
<1> QED
  BY <1>1, <1>2, PTL DEF Spec

----------------------------------------------------------------------------
(* No crossing is skipped.                                                 *)

CoverInv == AttemptCoversPrefix /\ NoCrossingSkipped

\* Steps of the others add records behind everything CoverInv talks about.
LEMMA OthersKeepCover ==
    ASSUME TypeOK, CoverInv, LogExtended,
           UNCHANGED <<thr, pos, alerts, settled>>
    PROVE  CoverInv'
<1>1. /\ checkpoint \in Nat /\ batch \in Nat /\ Len(log) \in Nat
      /\ checkpoint + batch <= Len(log) /\ checkpoint' = checkpoint
      /\ thr # Absent => pos \in Nat /\ pos <= checkpoint + batch + 1
  BY ProcessorAssumption
  DEF TypeOK, ProcessorTypeOK, TableTypeOK, InStream, checkpoint
<1>2. \A i : Alerted(i)' = Alerted(i)
  BY DEF Alerted
<1>3. \A i \in 1..checkpoint + batch : log'[i] = log[i]
  BY <1>1, ExtendedLog DEF TypeOK
<1>4. AttemptCoversPrefix'
  BY <1>1, <1>2, <1>3 DEF CoverInv, AttemptCoversPrefix
<1>5. NoCrossingSkipped'
  BY <1>1, <1>2, <1>3 DEF CoverInv, NoCrossingSkipped
<1> QED
  BY <1>4, <1>5 DEF CoverInv

\* A failed attempt keeps it: the next attempt has stepped over nothing yet,
\* and what a dropped batch adds behind the checkpoint is marked as dropped.
LEMMA RetryKeepsCover ==
    ASSUME TypeOK, CoverInv, Retry, batch > 0, UNCHANGED log,
           \A i : Alerted(i) => Alerted(i)'
    PROVE  CoverInv'
<1>1. /\ thr' = Absent
      /\ checkpoint <= checkpoint'
      /\ \A i \in 1..checkpoint : settled'[i] = settled[i]
      /\ \A i \in checkpoint+1..checkpoint' : settled'[i] = Dropped
      /\ settled' \in Seq(Thresholds \cup {Dropped})
  BY RetryType DEF TypeOK, InStream
<1>2. checkpoint \in Nat /\ checkpoint' \in Nat
  BY <1>1 DEF TypeOK, ProcessorTypeOK, checkpoint
<1>3. NoCrossingSkipped'
  <2> SUFFICES ASSUME NEW i \in 1..checkpoint', settled'[i] # Dropped,
                      Crossed(log[i], settled'[i])
               PROVE  Alerted(i)'
    BY DEF NoCrossingSkipped
  <2>1. i \in 1..checkpoint
    BY <1>1, <1>2
  <2> QED
    BY <1>1, <2>1 DEF CoverInv, NoCrossingSkipped
<1> QED
  BY <1>1, <1>3 DEF CoverInv, AttemptCoversPrefix

\* The consumer's own steps, one by one.
LEMMA ConsumeKeepsCover ==
    ASSUME TypeOK, CoverInv, ProcessorStep, UNCHANGED log
    PROVE  CoverInv'
<1>0. /\ checkpoint \in Nat /\ batch \in Nat /\ pos \in Nat
      /\ thr # Absent => pos \in checkpoint + 1 .. checkpoint + batch + 1
  BY ProcessorAssumption DEF TypeOK, ProcessorTypeOK, InStream, checkpoint
<1>1. ASSUME NEW n \in 1..BatchSize, Poll(n)
      PROVE  CoverInv'
  BY <1>1 DEF Poll, CoverInv, AttemptCoversPrefix, NoCrossingSkipped,
              Alerted, checkpoint
<1>2. CASE ReadThreshold
  BY <1>0, <1>2
  DEF ReadThreshold, CoverInv, AttemptCoversPrefix, NoCrossingSkipped,
      Alerted, checkpoint
<1>3. CASE Skip
  <2>1. /\ thr' = thr /\ pos' = pos + 1 /\ checkpoint' = checkpoint
        /\ \A i : Alerted(i)' = Alerted(i)
        /\ thr # Absent /\ ~Crossed(log[pos], thr) /\ settled' = settled
    BY <1>3 DEF Skip, AtRecord, Alerted, checkpoint
  <2>2. \A i \in checkpoint + 1 .. pos' - 1 :
            i \in checkpoint + 1 .. pos - 1 \/ i = pos
    BY <1>0, <2>1
  <2>3. AttemptCoversPrefix'
    BY <2>1, <2>2 DEF CoverInv, AttemptCoversPrefix
  <2>4. NoCrossingSkipped'
    BY <2>1 DEF CoverInv, NoCrossingSkipped
  <2> QED
    BY <2>3, <2>4 DEF CoverInv
<1>4. CASE Publish
  <2>1. /\ thr' = thr /\ pos' = pos + 1 /\ checkpoint' = checkpoint
        /\ thr # Absent /\ settled' = settled
    BY <1>4 DEF Publish, Send, AtRecord, checkpoint
  <2>2. \A i : Alerted(i) \/ i = pos => Alerted(i)'
    BY <1>4, AlertsType DEF Publish, Send, TypeOK
  <2>3. \A i \in checkpoint + 1 .. pos' - 1 :
            i \in checkpoint + 1 .. pos - 1 \/ i = pos
    BY <1>0, <2>1
  <2>4. AttemptCoversPrefix'
    BY <2>1, <2>2, <2>3 DEF CoverInv, AttemptCoversPrefix
  <2>5. NoCrossingSkipped'
    BY <2>1, <2>2 DEF CoverInv, NoCrossingSkipped
  <2> QED
    BY <2>4, <2>5 DEF CoverInv
<1>5. CASE Return
  <2>1. /\ thr \in Thresholds \cup {Dropped} /\ Settle(thr) /\ batch > 0
        /\ pos - 1 = checkpoint + batch /\ thr # Absent
    BY <1>0, <1>5 DEF Return, TypeOK, ProcessorTypeOK, InStream
  <2>2. /\ thr' = Absent
        /\ Len(settled') = Len(settled) + batch
        /\ \A i \in 1..Len(settled) : settled'[i] = settled[i]
        /\ \A i \in Len(settled)+1..Len(settled') : settled'[i] = thr
    BY <2>1, SettleType DEF TypeOK
  <2>3. \A i : Alerted(i)' = Alerted(i)
    BY <1>5 DEF Return, Alerted
  <2>4. NoCrossingSkipped'
    <3> SUFFICES ASSUME NEW i \in 1..checkpoint', settled'[i] # Dropped,
                        Crossed(log[i], settled'[i])
                 PROVE  Alerted(i)
      BY <2>3 DEF NoCrossingSkipped
    <3>1. CASE i \in 1..checkpoint
      BY <2>2, <3>1 DEF CoverInv, NoCrossingSkipped, checkpoint
    <3>2. CASE i \in checkpoint + 1 .. pos - 1
      BY <2>1, <2>2, <3>2 DEF CoverInv, AttemptCoversPrefix, checkpoint
    <3> QED
      BY <1>0, <2>1, <2>2, <3>1, <3>2 DEF checkpoint
  <2> QED
    BY <2>2, <2>4 DEF CoverInv, AttemptCoversPrefix
<1>6. CASE Fail
  <2>1. \A i : Alerted(i) => Alerted(i)'
    BY <1>6 DEF Fail, Alerted
  <2> QED
    BY <1>6, <2>1, RetryKeepsCover DEF Fail
<1>7. CASE PublishAndFail
  <2>1. \A i : Alerted(i) => Alerted(i)'
    BY <1>7, AlertsType DEF PublishAndFail, Send, TypeOK
  <2>2. batch > 0
    BY <1>7 DEF PublishAndFail, Send, AtRecord, TypeOK, InStream
  <2> QED
    BY <1>7, <2>1, <2>2, RetryKeepsCover DEF PublishAndFail
<1>8. CASE SendUnanswered
  <2>1. \A i : Alerted(i) => Alerted(i)'
    BY <1>8, AlertsType DEF SendUnanswered, Send, TypeOK
  <2>2. UNCHANGED <<thr, pos, settled>> /\ checkpoint' = checkpoint
    BY <1>8 DEF SendUnanswered, checkpoint
  <2> QED
    BY <2>1, <2>2 DEF CoverInv, AttemptCoversPrefix, NoCrossingSkipped
<1> QED
  BY <1>1, <1>2, <1>3, <1>4, <1>5, <1>6, <1>7, <1>8 DEF ProcessorStep

\* CoverInv is an invariant.
LEMMA CoverHolds == Spec => []CoverInv
<1>1. Init => CoverInv
  BY DEF Init, ProcessorInit, CoverInv, AttemptCoversPrefix,
         NoCrossingSkipped, checkpoint
<1>2. TypeOK /\ CoverInv /\ [Next]_vars => CoverInv'
  <2> SUFFICES ASSUME TypeOK, CoverInv, [Next]_vars PROVE CoverInv'
    OBVIOUS
  <2>1. CASE Consume
    BY <2>1, ConsumeKeepsCover DEF Consume, tableVars
  <2>2. CASE Shop \/ (\E s \in Skus : Seed(s) \/ Reset(s)) \/ CountRequest
             \/ (\E t \in Thresholds : TuneThreshold(t))
    <3>1. UNCHANGED <<thr, pos, alerts, settled>>
      BY <2>2 DEF Shop, Seed, Reset, CountRequest, TuneThreshold,
                  processorVars
    <3>2. LogExtended
      BY <2>2, StepType DEF Next
    <3> QED
      BY <3>1, <3>2, OthersKeepCover
  <2>3. CASE UNCHANGED vars
    BY <2>3 DEF vars, tableVars, processorVars, CoverInv, checkpoint,
                AttemptCoversPrefix, NoCrossingSkipped, Alerted
  <2> QED
    BY <2>1, <2>2, <2>3 DEF Next
<1> QED
  BY <1>1, <1>2, TypeCorrect, PTL DEF Spec

\* Whatever fails and however the threshold moves, the mapping is never past a
\* crossing whose alert is not out, unless it gave the batch up.
THEOREM CrossingsNotSkipped == Spec => []NoCrossingSkipped
<1>1. CoverInv => NoCrossingSkipped
  BY DEF CoverInv
<1> QED
  BY <1>1, CoverHolds, PTL

----------------------------------------------------------------------------
(* The pipeline implements AlertContract.                                  *)

\* The handler's test on the two images is the contract's notion of a
\* shortage, on every record the stream can hold.
LEMMA CrossedIsShortage ==
    ASSUME NEW r \in Record, NEW t \in Thresholds
    PROVE  Crossed(r, t) <=> Contract!Shortage(r, t)
<1>1. CASE r = OtherRecord
  BY <1>1 DEF OtherRecord, Crossed, Contract!Shortage, Contract!Short
<1>2. CASE r \in [key : Skus, old : Level, new : Level]
  BY <1>2, ProcessorAssumption, TableAssumption
  DEF Level, Crossed, Contract!Shortage, Contract!Short
<1> QED
  BY <1>1, <1>2 DEF Record

\* A write to the table is one change of the contract, or none.
LEMMA WriteIsChange ==
    ASSUME TypeOK, LogExtended, UNCHANGED <<alerts, settled>>
    PROVE  [Contract!ContractNext]_Contract!contractVars
<1>1. CASE log' = log
  BY <1>1 DEF Contract!contractVars
<1>2. ASSUME NEW r \in Record, log' = Append(log, r)
      PROVE  Contract!Change
  <2>1. /\ log' \in Seq(Record) /\ Len(log') = Len(log) + 1
        /\ \A i \in 1..Len(log) : log'[i] = log[i]
        /\ log \in Seq(Record) /\ Len(log) \in Nat
    BY <1>2, AppendProperties DEF TypeOK, TableTypeOK
  <2>2. SubSeq(log', 1, Len(log)) = log
    BY <2>1
  <2>3. Contract!Record = Record
    BY DEF Contract!Record, Contract!OtherRecord, Contract!Level,
           Record, OtherRecord, Level
  <2> QED
    BY <2>1, <2>2, <2>3 DEF Contract!Change
<1> QED
  BY <1>1, <1>2 DEF LogExtended, Contract!ContractNext

\* The record at hand is within the contract's look-ahead.
LEMMA AtRecordAhead ==
    ASSUME TypeOK, AtRecord, Crossed(log[pos], thr),
           alerts' = Append(alerts, [rec |-> pos, threshold |-> thr])
    PROVE  /\ batch \in 1..BatchSize
           /\ Len(settled) + batch <= Len(log)
           /\ Contract!Message(batch, alerts')
<1>1. /\ batch \in 1..BatchSize /\ Len(settled) + batch <= Len(log)
      /\ pos \in Len(settled) + 1 .. Len(settled) + batch
      /\ thr \in Thresholds /\ Len(settled) \in Nat /\ Len(log) \in Nat
  BY ProcessorAssumption
  DEF AtRecord, TypeOK, InStream, ProcessorTypeOK, TableTypeOK, checkpoint
<1>2. log[pos] \in Record
  BY <1>1 DEF TypeOK, TableTypeOK
<1>3. Contract!Shortage(log[pos], thr)
  BY <1>1, <1>2, CrossedIsShortage
<1> QED
  BY <1>1, <1>3 DEF Contract!Message, Contract!Ahead

\* A failed attempt after at most one more message is silent or a GiveUp.
LEMMA FailureStep ==
    ASSUME TypeOK, batch > 0, Retry, UNCHANGED log,
           \/ UNCHANGED alerts
           \/ Contract!Message(batch, alerts')
    PROVE  [Contract!ContractNext]_Contract!contractVars
<1>1. /\ batch \in 1..BatchSize /\ Len(settled) + batch <= Len(log)
  BY ProcessorAssumption
  DEF TypeOK, InStream, ProcessorTypeOK, TableTypeOK, checkpoint
<1>2. CASE settled' = settled
  BY <1>1, <1>2 DEF Contract!ContractNext, Contract!contractVars,
                    Contract!Announce
<1>3. CASE settled' = settled \o [i \in 1..batch |-> Dropped]
  BY <1>1, <1>3 DEF Contract!ContractNext, Contract!GiveUp
<1> QED
  BY <1>2, <1>3 DEF Retry, StartOver, Settle

\* Each step of the consumer is a step of the contract or hidden in it.
LEMMA ConsumeStep ==
    ASSUME TypeOK, CoverInv, ProcessorStep, UNCHANGED log
    PROVE  [Contract!ContractNext]_Contract!contractVars
<1>1. CASE (\E n \in 1..BatchSize : Poll(n)) \/ ReadThreshold \/ Skip
  BY <1>1 DEF Poll, ReadThreshold, Skip, Contract!contractVars
<1>2. CASE Publish \/ SendUnanswered
  <2>1. /\ batch \in 1..BatchSize /\ Len(settled) + batch <= Len(log)
        /\ Contract!Message(batch, alerts')
    BY <1>2, AtRecordAhead DEF Publish, SendUnanswered, Send
  <2> QED
    BY <1>2, <2>1 DEF Publish, SendUnanswered, Contract!Announce,
                      Contract!ContractNext
<1>3. CASE Return
  <2>1. /\ batch \in 1..BatchSize /\ Len(settled) + batch <= Len(log)
        /\ thr \in Thresholds /\ thr # Absent
        /\ Len(settled) \in Nat /\ Len(log) \in Nat
        /\ pos - 1 = Len(settled) + batch
    BY <1>3, ProcessorAssumption
    DEF Return, TypeOK, InStream, ProcessorTypeOK, TableTypeOK, checkpoint
  <2>2. ASSUME NEW i \in Contract!Ahead(batch),
               Contract!Shortage(log[i], thr)
        PROVE  Contract!Announced(i)
    <3>1. i \in Len(settled) + 1 .. pos - 1 /\ log[i] \in Record
      BY <2>1 DEF Contract!Ahead, TypeOK, TableTypeOK
    <3>2. Crossed(log[i], thr)
      BY <2>1, <2>2, <3>1, CrossedIsShortage
    <3> QED
      BY <2>1, <3>1, <3>2
      DEF CoverInv, AttemptCoversPrefix, checkpoint, Alerted,
          Contract!Announced
  <2>3. settled' = settled \o [i \in 1..batch |-> thr]
    BY <1>3 DEF Return, Settle
  <2>4. Contract!SettleShortages
    BY <1>3, <2>1, <2>2, <2>3 DEF Return, Contract!SettleShortages
  <2> QED
    BY <2>4 DEF Contract!ContractNext
<1>4. CASE Fail
  BY <1>4, FailureStep DEF Fail
<1>5. CASE PublishAndFail
  <2>1. batch > 0 /\ Contract!Message(batch, alerts')
    BY <1>5, AtRecordAhead DEF PublishAndFail, Send
  <2> QED
    BY <1>5, <2>1, FailureStep DEF PublishAndFail
<1> QED
  BY <1>1, <1>2, <1>3, <1>4, <1>5 DEF ProcessorStep

\* Batches, attempts, cached thresholds and partial publishes hidden, every
\* behaviour of the pipeline is one AlertContract allows.
THEOREM PipelineImplementsContract == Spec => Contract!ContractSafety
<1>1. Init => Contract!ContractInit
  BY DEF Init, CartInit, TableInit, ProcessorInit, Contract!ContractInit
<1>2. TypeOK /\ CoverInv /\ [Next]_vars
        => [Contract!ContractNext]_Contract!contractVars
  <2> SUFFICES ASSUME TypeOK, CoverInv, [Next]_vars
               PROVE  [Contract!ContractNext]_Contract!contractVars
    OBVIOUS
  <2>1. CASE Consume
    BY <2>1, ConsumeStep DEF Consume, tableVars
  <2>2. CASE Shop \/ (\E s \in Skus : Seed(s) \/ Reset(s)) \/ CountRequest
             \/ (\E t \in Thresholds : TuneThreshold(t))
    <3>1. UNCHANGED <<alerts, settled>>
      BY <2>2 DEF Shop, Seed, Reset, CountRequest, TuneThreshold,
                  processorVars
    <3>2. LogExtended
      BY <2>2, StepType DEF Next
    <3> QED
      BY <3>1, <3>2, WriteIsChange
  <2>3. CASE UNCHANGED vars
    BY <2>3 DEF vars, tableVars, processorVars, Contract!contractVars
  <2> QED
    BY <2>1, <2>2, <2>3 DEF Next
<1> QED
  BY <1>1, <1>2, TypeCorrect, CoverHolds, PTL
  DEF Spec, Contract!ContractSafety
----------------------------------------------------------------------------
(* What the remaining invariants have in common: where the variables are,  *)
(* what a message adds and what the end of an attempt does.                *)

\* TypeOK in the terms the steps below use.
LEMMA Bounds ==
    ASSUME TypeOK
    PROVE  /\ checkpoint \in Nat /\ batch \in Nat /\ attempt \in Nat
           /\ pos \in Nat /\ Len(log) \in Nat /\ Len(alerts) \in Nat
           /\ DOMAIN alerts = 1..Len(alerts)
           /\ checkpoint + batch <= Len(log)
           /\ threshold \in Int
           /\ thr # Absent => /\ thr \in Thresholds /\ thr \in Int /\ batch > 0
                              /\ pos \in checkpoint + 1 .. checkpoint + batch + 1
           /\ \A a \in DOMAIN alerts : /\ alerts[a].rec \in Nat
                                       /\ alerts[a].threshold \in Thresholds
                                       /\ alerts[a].threshold \in Int
           /\ \A i \in 1..checkpoint : settled[i] \in Thresholds \cup {Dropped}
           /\ Thresholds \subseteq Int /\ Dropped \notin Int
<1>1. /\ checkpoint \in Nat /\ batch \in Nat /\ attempt \in Nat
      /\ pos \in Nat /\ Len(log) \in Nat /\ Len(alerts) \in Nat
      /\ DOMAIN alerts = 1..Len(alerts)
      /\ checkpoint + batch <= Len(log)
      /\ threshold \in Int
      /\ Thresholds \subseteq Int /\ Dropped \notin Int
  BY ProcessorAssumption
  DEF TypeOK, ProcessorTypeOK, TableTypeOK, InStream, checkpoint
<1>2. thr # Absent => /\ thr \in Thresholds /\ thr \in Int /\ batch > 0
                      /\ pos \in checkpoint + 1 .. checkpoint + batch + 1
  BY ProcessorAssumption DEF TypeOK, ProcessorTypeOK, InStream
<1>3. \A a \in DOMAIN alerts : /\ alerts[a].rec \in Nat
                               /\ alerts[a].threshold \in Thresholds
                               /\ alerts[a].threshold \in Int
  <2> SUFFICES ASSUME NEW a \in DOMAIN alerts
               PROVE  /\ alerts[a].rec \in Nat
                      /\ alerts[a].threshold \in Thresholds
    BY <1>1
  <2>1. a \in 1..Len(alerts) /\ alerts \in Seq([rec : Nat, threshold : Thresholds])
    BY <1>1 DEF TypeOK, ProcessorTypeOK
  <2>2. alerts[a] \in [rec : Nat, threshold : Thresholds]
    BY <2>1, ElementOfSeq
  <2> QED
    BY <2>2
<1>4. \A i \in 1..checkpoint : settled[i] \in Thresholds \cup {Dropped}
  BY DEF TypeOK, ProcessorTypeOK, checkpoint
<1> QED
  BY <1>1, <1>2, <1>3, <1>4

\* A message about the record at hand comes after all others, which stay as they are.
LEMMA Appended ==
    ASSUME TypeOK, Send
    PROVE  /\ DOMAIN alerts' = 1..Len(alerts) + 1
           /\ \A a \in DOMAIN alerts : /\ a \in DOMAIN alerts'
                                       /\ alerts'[a] = alerts[a]
           /\ \A a \in DOMAIN alerts' : a \in DOMAIN alerts \/ a = Len(alerts) + 1
           /\ Len(alerts) + 1 \in DOMAIN alerts'
           /\ alerts'[Len(alerts) + 1].rec = pos
           /\ alerts'[Len(alerts) + 1].threshold = thr
<1> DEFINE m == [rec |-> pos, threshold |-> thr]
<1>1. m \in [rec : Nat, threshold : Thresholds]
  BY DEF TypeOK, ProcessorTypeOK, Send, AtRecord
<1>2. /\ alerts' \in Seq([rec : Nat, threshold : Thresholds])
      /\ Len(alerts') = Len(alerts) + 1
      /\ \A a \in 1..Len(alerts) : alerts'[a] = alerts[a]
      /\ alerts'[Len(alerts) + 1] = m
  BY <1>1, AppendProperties DEF TypeOK, ProcessorTypeOK, Send
<1>3. DOMAIN alerts = 1..Len(alerts) /\ Len(alerts) \in Nat
  BY Bounds
<1>4. DOMAIN alerts' = 1..Len(alerts) + 1
  BY <1>2
<1>5. m.rec = pos /\ m.threshold = thr
  OBVIOUS
<1> HIDE DEF m
<1> QED
  BY <1>2, <1>3, <1>4, <1>5

\* The mapping moves past the batch with a verdict.
Moved(v) ==
    /\ checkpoint' = checkpoint + batch
    /\ batch' = 0 /\ thr' = Absent /\ sends' = 0
    /\ \A i \in 1..checkpoint : settled'[i] = settled[i]
    /\ \A i \in checkpoint+1..checkpoint' : settled'[i] = v

\* Settle, in those terms.
LEMMA SettleMoves ==
    ASSUME TypeOK, batch > 0, NEW v \in Thresholds \cup {Dropped}, Settle(v)
    PROVE  Moved(v)
  BY SettleType DEF TypeOK, Moved, checkpoint

\* A whole walk over the batch ends with the threshold it was made with.
LEMMA ReturnMoves ==
    ASSUME TypeOK, Return
    PROVE  /\ Moved(thr)
           /\ thr # Absent /\ pos = checkpoint + batch + 1
           /\ UNCHANGED <<threshold, alerts>>
<1>1. /\ thr # Absent /\ thr \in Thresholds \cup {Dropped} /\ batch > 0
      /\ pos = checkpoint + batch + 1
  <2>1. thr # Absent /\ pos > checkpoint + batch
    BY DEF Return
  <2>2. /\ thr \in Thresholds /\ batch > 0
        /\ pos \in checkpoint + 1 .. checkpoint + batch + 1
        /\ pos \in Nat /\ checkpoint \in Nat /\ batch \in Nat
    BY <2>1, Bounds
  <2> QED
    BY <2>1, <2>2
<1> QED
  BY <1>1, SettleMoves DEF Return

\* A failed attempt leaves the batch to the next one or gives it up, after at
\* most one more message.
TriedAgain ==
    /\ attempt < MaxAttempts /\ attempt' = attempt + 1
    /\ thr' = Absent /\ sends' = 0
    /\ UNCHANGED <<batch, settled>>

\* Fail and PublishAndFail, in those terms.
LEMMA Failures ==
    ASSUME TypeOK, Fail \/ PublishAndFail
    PROVE  /\ batch > 0
           /\ UNCHANGED threshold
           /\ UNCHANGED alerts \/ Send
           /\ TriedAgain \/ Moved(Dropped)
<1>1. batch > 0 /\ Retry /\ UNCHANGED threshold /\ (UNCHANGED alerts \/ Send)
  BY Bounds DEF Fail, PublishAndFail, Send, AtRecord
<1>2. TriedAgain \/ Moved(Dropped)
  BY <1>1, SettleMoves DEF Retry, StartOver, TriedAgain
<1> QED
  BY <1>1, <1>2

\* What the others do to the consumer: nothing, or move the threshold.
LEMMA OthersStep ==
    ASSUME TypeOK,
           \/ Shop
           \/ \E s \in Skus : Seed(s) \/ Reset(s)
           \/ CountRequest
           \/ \E t \in Thresholds : TuneThreshold(t)
           \/ UNCHANGED vars
    PROVE  /\ UNCHANGED <<batch, attempt, thr, pos, sends, alerts, settled>>
           /\ checkpoint' = checkpoint
           /\ Len(log') >= Len(log) /\ Len(log') \in Nat
           /\ \A i \in 1..Len(log) : log'[i] = log[i]
           /\ \/ UNCHANGED <<threshold, tuned>>
              \/ /\ threshold' \in Int
                 /\ tuned' = IF threshold' > threshold \/ tuned = "raised"
                               THEN "raised" ELSE "lowered"
<1>1. UNCHANGED <<batch, attempt, thr, pos, sends, alerts, settled>>
  BY DEF Shop, Seed, Reset, CountRequest, TuneThreshold, processorVars, vars
<1>2. CASE UNCHANGED vars
  BY <1>1, <1>2, Bounds DEF vars, tableVars, processorVars, checkpoint
<1>3. CASE Next
  <2>1. LogExtended
    BY <1>3, StepType
  <2>2. /\ Len(log') >= Len(log) /\ Len(log') \in Nat
        /\ \A i \in 1..Len(log) : log'[i] = log[i]
    BY <2>1, ExtendedLog DEF TypeOK
  <2>3. CASE UNCHANGED <<threshold, tuned>>
    BY <1>1, <2>2, <2>3 DEF checkpoint
  <2>4. ASSUME NEW t \in Thresholds, TuneThreshold(t)
        PROVE  /\ threshold' \in Int
               /\ tuned' = IF threshold' > threshold \/ tuned = "raised"
                             THEN "raised" ELSE "lowered"
    BY <2>4, ProcessorAssumption DEF TuneThreshold
  <2>5. \/ UNCHANGED <<threshold, tuned>>
        \/ \E t \in Thresholds : TuneThreshold(t)
        \/ UNCHANGED vars
    BY DEF Shop, Seed, Reset, CountRequest, processorVars
  <2> QED
    BY <1>1, <1>2, <2>2, <2>3, <2>4, <2>5 DEF checkpoint
<1> QED
  BY <1>2, <1>3 DEF Next

----------------------------------------------------------------------------
(* The stream is a history of the table.                                   *)

\* After the first n records of stream l the stock of product s is v.
LevelIn(l, s, n, v) ==
    \/ v = Absent /\ \A m \in 1..n : l[m].key # s
    \/ \E j \in 1..n : /\ l[j].key = s
                       /\ l[j].new = v
                       /\ \A m \in j+1..n : l[m].key # s

\* The table is what the stream says it is, and every record's old image is
\* what the records before it left.
StreamInv ==
    /\ \A s \in Skus : LevelIn(log, s, Len(log), stock[s])
    /\ \A k \in 1..Len(log) :
           log[k].key # Other =>
               /\ log[k].new \in Int
               /\ LevelIn(log, log[k].key, k - 1, log[k].old)

\* The stream is longer, but what it said of its first n records it still says.
LEMMA LevelKept ==
    ASSUME NEW l, NEW l2, NEW n \in Nat, \A i \in 1..n : l2[i] = l[i],
           NEW s, NEW v, LevelIn(l, s, n, v)
    PROVE  LevelIn(l2, s, n, v)
<1>1. CASE v = Absent /\ \A m \in 1..n : l[m].key # s
  BY <1>1 DEF LevelIn
<1>2. ASSUME NEW j \in 1..n, l[j].key = s, l[j].new = v,
             \A m \in j+1..n : l[m].key # s
      PROVE  LevelIn(l2, s, n, v)
  <2>1. l2[j].key = s /\ l2[j].new = v
    BY <1>2
  <2>2. \A m \in j+1..n : m \in 1..n
    OBVIOUS
  <2>3. \A m \in j+1..n : l2[m].key # s
    BY <1>2, <2>2
  <2> QED
    BY <2>1, <2>3 DEF LevelIn
<1> QED
  BY <1>1, <1>2 DEF LevelIn

\* A record of another item says nothing about product s, a record of s what
\* its new image holds.
LEMMA LevelNext ==
    ASSUME NEW l, NEW n \in Nat, NEW s, NEW v,
           \/ l[n + 1].key # s /\ LevelIn(l, s, n, v)
           \/ l[n + 1].key = s /\ l[n + 1].new = v
    PROVE  LevelIn(l, s, n + 1, v)
<1>1. CASE l[n + 1].key = s /\ l[n + 1].new = v
  <2>1. n + 1 \in 1..n + 1 /\ \A m \in (n + 1) + 1 .. n + 1 : FALSE
    OBVIOUS
  <2> QED
    BY <1>1, <2>1 DEF LevelIn
<1>2. CASE l[n + 1].key # s /\ LevelIn(l, s, n, v)
  <2>1. CASE v = Absent /\ \A m \in 1..n : l[m].key # s
    <3>1. \A m \in 1..n + 1 : m \in 1..n \/ m = n + 1
      OBVIOUS
    <3> QED
      BY <1>2, <2>1, <3>1 DEF LevelIn
  <2>2. ASSUME NEW j \in 1..n, l[j].key = s, l[j].new = v,
               \A m \in j+1..n : l[m].key # s
        PROVE  LevelIn(l, s, n + 1, v)
    <3>1. j \in 1..n + 1 /\ \A m \in j+1..n + 1 : m \in j+1..n \/ m = n + 1
      OBVIOUS
    <3>2. \A m \in j+1..n + 1 : l[m].key # s
      BY <1>2, <2>2, <3>1
    <3> QED
      BY <2>2, <3>1, <3>2 DEF LevelIn
  <2> QED
    BY <1>2, <2>1, <2>2 DEF LevelIn
<1> QED
  BY <1>1, <1>2

\* Whoever writes, a step writes one product, one other item, or nothing.
LEMMA Writes ==
    ASSUME TypeOK, Next
    PROVE  \/ UNCHANGED tableVars
           \/ PutOther(TRUE)
           \/ \E s \in Skus, n \in Int : PutStock(s, n)
<1>1. CASE Shop
  <2>1. PICK w \in Workers :
          \/ \E l \in Line, q \in Qtys : AddLine(w, l, q)
          \/ Decrement(w)
          \/ Abandon(w)
    BY <1>1 DEF Shop, CartNext
  <2>2. ASSUME NEW l \in Line, NEW q \in Qtys, AddLine(w, l, q)
        PROVE  UNCHANGED tableVars \/ PutOther(TRUE)
    BY <2>2 DEF AddLine, PutOther, tableVars
  <2>3. ASSUME Decrement(w) PROVE \E s \in Skus, n \in Int : PutStock(s, n)
    <3> DEFINE s == pending[w].line[2]
               n == Decremented(stock[s], pending[w].qty)
    <3>1. pending[w] \in Request
      BY <2>3 DEF Decrement, TypeOK, CartTypeOK
    <3>2. s \in Skus /\ pending[w].qty \in Int
      BY <3>1, CartAssumption DEF Request, Line
    <3>3. n \in Int
      BY <3>2 DEF TypeOK, TableTypeOK, Level, Decremented, Units
    <3>4. PutStock(s, n)
      BY <2>3 DEF Decrement
    <3> HIDE DEF s, n
    <3> QED
      BY <3>2, <3>3, <3>4
  <2> QED
    BY <2>1, <2>2, <2>3 DEF Abandon
<1>2. CASE \E s \in Skus : Seed(s) \/ Reset(s)
  BY <1>2, PipelineAssumption DEF Seed, Reset
<1> QED
  BY <1>1, <1>2 DEF Next, Consume, CountRequest, TuneThreshold

\* The old image of a product's record is the new one of the record before.
LEMMA StreamStep ==
    ASSUME TypeOK, StreamInv, Next
    PROVE  StreamInv'
<1>0. Len(log) \in Nat /\ log \in Seq(Record) /\ stock \in [Skus -> Level]
  BY DEF TypeOK, TableTypeOK
<1>1. CASE UNCHANGED tableVars
  BY <1>1 DEF tableVars, StreamInv
<1>2. ASSUME NEW r, log' = Append(log, r), r \in Record,
             \A s \in Skus : IF r.key = s THEN stock'[s] = r.new
                                          ELSE stock'[s] = stock[s],
             r.key # Other => /\ r.key \in Skus /\ r.new \in Int
                              /\ r.old = stock[r.key]
      PROVE  StreamInv'
  <2>1. /\ Len(log') = Len(log) + 1 /\ log'[Len(log) + 1] = r
        /\ \A i \in 1..Len(log) : log'[i] = log[i]
    BY <1>0, <1>2, AppendProperties
  <2>2. ASSUME NEW s \in Skus PROVE LevelIn(log', s, Len(log) + 1, stock'[s])
    <3>1. LevelIn(log, s, Len(log), stock[s])
      BY DEF StreamInv
    <3>2. LevelIn(log', s, Len(log), stock[s])
      BY <1>0, <2>1, <3>1, LevelKept
    <3>3. \/ log'[Len(log) + 1].key # s /\ LevelIn(log', s, Len(log), stock'[s])
          \/ log'[Len(log) + 1].key = s /\ log'[Len(log) + 1].new = stock'[s]
      BY <1>2, <2>1, <3>2
    <3> QED
      BY <1>0, <3>3, LevelNext
  <2>3. ASSUME NEW k \in 1..Len(log'), log'[k].key # Other
        PROVE  /\ log'[k].new \in Int
               /\ LevelIn(log', log'[k].key, k - 1, log'[k].old)
    <3>1. CASE k \in 1..Len(log)
      <4>1. log'[k] = log[k] /\ k - 1 \in Nat
        BY <2>1, <3>1
      <4>2. /\ log[k].new \in Int
            /\ LevelIn(log, log[k].key, k - 1, log[k].old)
        BY <2>3, <3>1, <4>1 DEF StreamInv
      <4>3. \A i \in 1..k - 1 : log'[i] = log[i]
        BY <2>1, <3>1
      <4> QED
        BY <4>1, <4>2, <4>3, LevelKept
    <3>2. CASE k = Len(log) + 1
      <4>1. r.key \in Skus /\ r.new \in Int /\ r.old = stock[r.key]
        BY <1>2, <2>1, <2>3, <3>2
      <4>2. LevelIn(log, r.key, Len(log), r.old)
        BY <4>1 DEF StreamInv
      <4>3. LevelIn(log', r.key, Len(log), r.old)
        BY <1>0, <2>1, <4>2, LevelKept
      <4>4. k - 1 = Len(log)
        BY <1>0, <3>2
      <4> QED
        BY <2>1, <3>2, <4>1, <4>3, <4>4
    <3> QED
      BY <1>0, <2>1, <3>1, <3>2
  <2> QED
    BY <2>1, <2>2, <2>3 DEF StreamInv
<1>3. CASE PutOther(TRUE)
  <2>1. /\ log' = Append(log, OtherRecord) /\ OtherRecord \in Record
        /\ stock' = stock /\ OtherRecord.key = Other
    BY <1>3 DEF PutOther, Record, OtherRecord
  <2> QED
    BY <2>1, <1>2, TableAssumption
<1>4. ASSUME NEW s \in Skus, NEW n \in Int, PutStock(s, n)
      PROVE  StreamInv'
  <2> DEFINE r == [key |-> s, old |-> stock[s], new |-> n]
  <2>1. CASE n = stock[s]
    <3>1. stock' = stock /\ log' = log
      BY <1>0, <1>4, <2>1 DEF PutStock
    <3> QED
      BY <1>1, <3>1 DEF tableVars
  <2>2. CASE n # stock[s]
    <3>1. log' = Append(log, r) /\ stock' = [stock EXCEPT ![s] = n]
      BY <1>4, <2>2 DEF PutStock
    <3>2. /\ r \in Record
          /\ r.key = s /\ r.new = n /\ r.old = stock[s]
      BY <1>0 DEF Record, Level
    <3>3. \A u \in Skus : IF r.key = u THEN stock'[u] = r.new
                                       ELSE stock'[u] = stock[u]
      BY <1>0, <3>1, <3>2
    <3> HIDE DEF r
    <3> QED
      BY <1>2, <3>1, <3>2, <3>3
  <2> QED
    BY <2>1, <2>2
<1> QED
  BY <1>1, <1>3, <1>4, Writes

\* StreamInv is an invariant.
LEMMA StreamHolds == Spec => []StreamInv
<1>1. Init => StreamInv
  <2> SUFFICES ASSUME Init PROVE StreamInv
    OBVIOUS
  <2>1. Len(log) = 0 /\ stock = [s \in Skus |-> Absent]
    BY DEF Init, CartInit, TableInit
  <2> QED
    BY <2>1 DEF StreamInv, LevelIn
<1>2. TypeOK /\ StreamInv /\ [Next]_vars => StreamInv'
  <2>1. ASSUME StreamInv, UNCHANGED vars PROVE StreamInv'
    BY <2>1 DEF vars, tableVars, StreamInv
  <2> QED
    BY <2>1, StreamStep
<1> QED
  BY <1>1, <1>2, TypeCorrect, PTL DEF Spec

----------------------------------------------------------------------------
(* One alert per shortage.                                                 *)

\* A message is about a crossing within the batches handed out.
JudgedInv ==
    \A a \in DOMAIN alerts :
        /\ alerts[a].rec \in 1..checkpoint + batch
        /\ Crossed(log[alerts[a].rec], alerts[a].threshold)

\* As long as nobody tunes the threshold there is only the one.
SteadyInv ==
    tuned = "never" =>
        /\ \A a \in DOMAIN alerts : alerts[a].threshold = threshold
        /\ thr \in {threshold, Absent}
        /\ \A i \in 1..checkpoint : settled[i] \in {threshold, Dropped}

\* As long as it only falls, whatever was judged was judged with at least
\* what applies now, and with at least what the running invocation read.
FallingInv ==
    tuned # "raised" =>
        /\ thr # Absent => thr >= threshold
        /\ \A a \in DOMAIN alerts :
               /\ alerts[a].threshold >= threshold
               /\ thr # Absent => alerts[a].threshold >= thr
        /\ \A i \in 1..checkpoint : settled[i] # Dropped =>
               /\ settled[i] >= threshold
               /\ thr # Absent => settled[i] >= thr

JudgeInv == JudgedInv /\ SteadyInv /\ FallingInv

\* A message joins the others: it is about the record at hand, judged with
\* what the invocation read.
LEMMA SaysJudged ==
    ASSUME TypeOK, JudgeInv, UNCHANGED <<log, threshold, tuned>>,
           UNCHANGED alerts \/ Send,
           checkpoint' + batch' = checkpoint + batch
    PROVE  /\ JudgedInv'
           /\ tuned = "never" =>
                  \A a \in DOMAIN alerts' : alerts'[a].threshold = threshold
           /\ tuned # "raised" =>
                  \A a \in DOMAIN alerts' :
                      /\ alerts'[a].threshold >= threshold
                      /\ thr # Absent => alerts'[a].threshold >= thr
<1>1. CASE UNCHANGED alerts
  BY <1>1 DEF JudgeInv, JudgedInv, SteadyInv, FallingInv
<1>2. CASE Send
  <2>1. /\ pos \in 1..checkpoint + batch /\ Crossed(log[pos], thr)
        /\ thr # Absent /\ thr \in Int
    <3>1. /\ thr # Absent /\ pos <= checkpoint + batch
          /\ Crossed(log[pos], thr)
      BY <1>2 DEF Send, AtRecord
    <3> QED
      BY <3>1, Bounds
  <2>2. \A a \in DOMAIN alerts' :
            \/ a \in DOMAIN alerts /\ alerts'[a] = alerts[a]
            \/ alerts'[a].rec = pos /\ alerts'[a].threshold = thr
    BY <1>2, Appended
  <2>3. JudgedInv'
    BY <2>1, <2>2 DEF JudgeInv, JudgedInv
  <2>4. tuned = "never" =>
            \A a \in DOMAIN alerts' : alerts'[a].threshold = threshold
    BY <2>1, <2>2 DEF JudgeInv, SteadyInv
  <2>5. tuned # "raised" =>
            \A a \in DOMAIN alerts' :
                /\ alerts'[a].threshold >= threshold
                /\ thr # Absent => alerts'[a].threshold >= thr
    BY <2>1, <2>2 DEF JudgeInv, FallingInv
  <2> QED
    BY <2>3, <2>4, <2>5
<1> QED
  BY <1>1, <1>2

\* The batch is done with: its records were judged with what the invocation
\* read, or dropped.
LEMMA MovedJudged ==
    ASSUME TypeOK, JudgeInv, UNCHANGED <<log, threshold, tuned>>,
           UNCHANGED alerts \/ Send,
           Moved(Dropped) \/ (thr # Absent /\ Moved(thr))
    PROVE  JudgeInv'
<1>1. checkpoint' + batch' = checkpoint + batch /\ thr' = Absent
  BY Bounds DEF Moved
<1>2. \A i \in 1..checkpoint' :
          \/ i \in 1..checkpoint /\ settled'[i] = settled[i]
          \/ settled'[i] = Dropped
          \/ thr # Absent /\ settled'[i] = thr
  BY Bounds DEF Moved
<1>3. SteadyInv'
  BY <1>1, <1>2, SaysJudged DEF JudgeInv, SteadyInv
<1>4. FallingInv'
  BY <1>1, <1>2, SaysJudged DEF JudgeInv, FallingInv
<1> QED
  BY <1>1, <1>3, <1>4, SaysJudged DEF JudgeInv

\* The consumer's steps keep JudgeInv.
LEMMA ConsumeJudged ==
    ASSUME TypeOK, JudgeInv, Consume
    PROVE  JudgeInv'
<1>0. UNCHANGED <<log, tuned>> /\ ProcessorStep
  BY DEF Consume, tableVars
<1>1. ASSUME NEW n \in 1..BatchSize, Poll(n)
      PROVE  JudgeInv'
  <2>1. /\ UNCHANGED <<threshold, thr, pos, alerts, settled>>
        /\ checkpoint' = checkpoint /\ batch = 0 /\ batch' \in Nat
    BY <1>1, ProcessorAssumption DEF Poll, checkpoint
  <2>2. \A i : i \in 1..checkpoint + batch => i \in 1..checkpoint' + batch'
    BY <2>1, Bounds
  <2>3. JudgedInv'
    BY <1>0, <2>1, <2>2 DEF JudgeInv, JudgedInv
  <2> QED
    BY <1>0, <2>1, <2>3 DEF JudgeInv, SteadyInv, FallingInv
<1>2. CASE ReadThreshold
  <2>1. /\ UNCHANGED <<threshold, batch, alerts, settled>>
        /\ checkpoint' = checkpoint /\ thr = Absent /\ thr' = threshold
    BY <1>2 DEF ReadThreshold, checkpoint
  <2>2. JudgedInv' /\ SteadyInv'
    BY <1>0, <2>1 DEF JudgeInv, JudgedInv, SteadyInv
  <2>3. FallingInv'
    BY <1>0, <2>1, Bounds DEF JudgeInv, FallingInv
  <2> QED
    BY <2>2, <2>3 DEF JudgeInv
<1>3. CASE Skip \/ Publish
  <2>1. /\ UNCHANGED <<threshold, batch, thr, settled>>
        /\ UNCHANGED alerts \/ Send
        /\ checkpoint' = checkpoint
    BY <1>3 DEF Skip, Publish, Send, checkpoint
  <2>2. SteadyInv' /\ FallingInv'
    BY <1>0, <2>1, SaysJudged DEF JudgeInv, SteadyInv, FallingInv
  <2> QED
    BY <1>0, <2>1, <2>2, SaysJudged DEF JudgeInv
<1>6. CASE SendUnanswered
  <2>1. /\ UNCHANGED <<threshold, batch, thr, settled>> /\ Send
        /\ checkpoint' = checkpoint
    BY <1>6 DEF SendUnanswered, checkpoint
  <2>2. SteadyInv' /\ FallingInv'
    BY <1>0, <2>1, SaysJudged DEF JudgeInv, SteadyInv, FallingInv
  <2> QED
    BY <1>0, <2>1, <2>2, SaysJudged DEF JudgeInv
<1>4. CASE Return
  BY <1>0, <1>4, ReturnMoves, MovedJudged
<1>5. CASE Fail \/ PublishAndFail
  <2>1. CASE TriedAgain
    <3>1. /\ UNCHANGED <<threshold, batch, settled>>
          /\ UNCHANGED alerts \/ Send
          /\ checkpoint' = checkpoint /\ thr' = Absent
      BY <1>5, <2>1, Failures DEF TriedAgain, checkpoint
    <3>2. SteadyInv' /\ FallingInv'
      BY <1>0, <3>1, SaysJudged DEF JudgeInv, SteadyInv, FallingInv
    <3> QED
      BY <1>0, <3>1, <3>2, SaysJudged DEF JudgeInv
  <2> QED
    BY <1>0, <1>5, <2>1, Failures, MovedJudged
<1> QED
  BY <1>0, <1>1, <1>2, <1>3, <1>4, <1>5, <1>6 DEF ProcessorStep

\* So do writes to the table and moves of the threshold.
LEMMA OthersJudged ==
    ASSUME TypeOK, JudgeInv,
           UNCHANGED <<batch, thr, alerts, settled>>,
           checkpoint' = checkpoint,
           \A i \in 1..Len(log) : log'[i] = log[i],
           \/ UNCHANGED <<threshold, tuned>>
           \/ /\ threshold' \in Int
              /\ tuned' = IF threshold' > threshold \/ tuned = "raised"
                            THEN "raised" ELSE "lowered"
    PROVE  JudgeInv'
<1>1. JudgedInv'
  <2>1. \A i : i \in 1..checkpoint + batch => i \in 1..Len(log)
    BY Bounds
  <2> QED
    BY <2>1 DEF JudgeInv, JudgedInv
<1>2. SteadyInv'
  BY DEF JudgeInv, SteadyInv
<1>3. FallingInv'
  <2>1. CASE UNCHANGED <<threshold, tuned>>
    BY <2>1 DEF JudgeInv, FallingInv
  <2>2. CASE /\ threshold' \in Int /\ tuned' # "raised"
             /\ tuned # "raised" /\ threshold' <= threshold
    <3>1. \A i \in 1..checkpoint : settled[i] # Dropped => settled[i] \in Int
      BY Bounds
    <3> QED
      BY <2>2, <3>1, Bounds DEF JudgeInv, FallingInv
  <2>3. CASE tuned' = "raised"
    BY <2>3 DEF FallingInv
  <2> QED
    BY <2>1, <2>2, <2>3, Bounds
<1> QED
  BY <1>1, <1>2, <1>3 DEF JudgeInv

\* A step of anybody but the consumer, or none.
Others == \/ Shop
          \/ \E s \in Skus : Seed(s) \/ Reset(s)
          \/ CountRequest
          \/ \E t \in Thresholds : TuneThreshold(t)
          \/ UNCHANGED vars

\* JudgeInv is an invariant.
LEMMA JudgeHolds == Spec => []JudgeInv
<1>1. Init => JudgeInv
  <2> SUFFICES ASSUME Init PROVE JudgeInv
    OBVIOUS
  <2>1. /\ DOMAIN alerts = {} /\ thr = Absent /\ 1..checkpoint = {}
    BY DEF Init, ProcessorInit, checkpoint
  <2> QED
    BY <2>1 DEF JudgeInv, JudgedInv, SteadyInv, FallingInv
<1>2. TypeOK /\ JudgeInv /\ [Next]_vars => JudgeInv'
  <2> SUFFICES ASSUME TypeOK, JudgeInv, [Next]_vars PROVE JudgeInv'
    OBVIOUS
  <2>1. CASE Consume
    BY <2>1, ConsumeJudged
  <2>2. CASE Others
    BY <2>2, OthersStep, OthersJudged DEF Others
  <2> QED
    BY <2>1, <2>2 DEF Next, Others
<1> QED
  BY <1>1, <1>2, TypeCorrect, PTL DEF Spec

\* Between two alerted records of one product there is a restocking to the
\* threshold, whatever was retried, repeated or given up, as long as the
\* threshold stayed.
THEOREM ShortagesAlertedOnce == Spec => []OneAlertPerShortage
<1>1. TypeOK /\ StreamInv /\ JudgeInv => OneAlertPerShortage
  <2> SUFFICES ASSUME TypeOK, StreamInv, JudgeInv, tuned = "never",
                      NEW a \in DOMAIN alerts, NEW b \in DOMAIN alerts,
                      NEW i, NEW k, i = alerts[a].rec, k = alerts[b].rec,
                      i < k, log[i].key = log[k].key
               PROVE  \E j \in i+1..k-1 : /\ log[j].key = log[i].key
                                          /\ log[j].new >= threshold
    BY DEF OneAlertPerShortage
  <2>1. /\ i \in 1..Len(log) /\ k \in 1..Len(log)
        /\ Crossed(log[i], threshold) /\ Crossed(log[k], threshold)
    BY Bounds DEF JudgeInv, JudgedInv, SteadyInv
  <2>2. LevelIn(log, log[k].key, k - 1, log[k].old)
    BY <2>1 DEF StreamInv, Crossed
  <2>3. i \in 1..k - 1
    BY <2>1
  <2>4. PICK j \in 1..k - 1 : /\ log[j].key = log[k].key
                              /\ log[j].new = log[k].old
                              /\ \A m \in j+1..k - 1 : log[m].key # log[k].key
    BY <2>2, <2>3 DEF LevelIn
  <2>5. j >= i
    BY <2>1, <2>3, <2>4
  <2>6. log[j].new \in Int /\ log[j].new >= threshold
    <3>1. log[j].key # Other /\ j \in 1..Len(log)
      BY <2>1, <2>4 DEF Crossed
    <3>2. log[j].new \in Int
      BY <3>1 DEF StreamInv
    <3> QED
      BY <2>1, <2>4, <3>2, TableAssumption DEF Crossed
  <2>7. log[i].new \in Int /\ log[i].new < threshold
    BY <2>1 DEF Crossed, StreamInv
  <2>8. j # i
    BY <2>6, <2>7, Bounds
  <2>9. j \in i+1..k-1
    BY <2>1, <2>4, <2>5, <2>8
  <2> QED
    BY <2>4, <2>6, <2>9
<1> QED
  BY <1>1, TypeCorrect, StreamHolds, JudgeHolds, PTL

----------------------------------------------------------------------------
(* Low stock is reported.                                                  *)

\* Record k left its product below t.
Low(k, t) == log[k].key # Other /\ log[k].new < t

\* The product of record k has a message that no record up to k outdated.
Reported(k) ==
    \E a \in DOMAIN alerts :
        /\ alerts[a].rec <= k
        /\ log[alerts[a].rec].key = log[k].key
        /\ \A m \in alerts[a].rec..k :
               log[m].key = log[k].key => log[m].new < alerts[a].threshold

\* Every low record that was settled, or stepped over by the running
\* invocation, is reported: by its own message, or, when it took a product that
\* was low already lower, by the one that reports the record before it.
ReportInv ==
    LostRecords = {} /\ tuned # "raised" =>
        /\ \A k \in 1..checkpoint : Low(k, settled[k]) => Reported(k)
        /\ thr # Absent =>
               \A k \in checkpoint+1..pos-1 : Low(k, thr) => Reported(k)

\* A message about a product keeps reporting it for as long as its new levels
\* stay below what the message was judged with.
LEMMA ReportedFurther ==
    ASSUME TypeOK, JudgeInv, NEW j \in 1..Len(log), Reported(j),
           NEW k \in j..Len(log),
           \A m \in j+1..k : log[m].key = log[j].key =>
               \A a \in DOMAIN alerts : log[m].new < alerts[a].threshold,
           log[k].key = log[j].key
    PROVE  Reported(k)
<1>1. PICK a \in DOMAIN alerts :
        /\ alerts[a].rec <= j
        /\ log[alerts[a].rec].key = log[j].key
        /\ \A m \in alerts[a].rec..j :
               log[m].key = log[j].key => log[m].new < alerts[a].threshold
  BY DEF Reported
<1>2. alerts[a].rec \in Nat /\ j \in Nat /\ k \in Nat /\ alerts[a].rec <= k
  BY <1>1, Bounds
<1>3. \A m \in alerts[a].rec..k : m \in alerts[a].rec..j \/ m \in j+1..k
  BY <1>2
<1>4. \A m \in alerts[a].rec..k :
          log[m].key = log[k].key => log[m].new < alerts[a].threshold
  BY <1>1, <1>3
<1> QED
  BY <1>1, <1>2, <1>4 DEF Reported

\* Messages stay, so what they report stays reported.
LEMMA ReportedKept ==
    ASSUME TypeOK, UNCHANGED alerts \/ Send,
           \A i \in 1..Len(log) : log'[i] = log[i],
           JudgeInv,
           NEW k \in 1..Len(log), Reported(k)
    PROVE  Reported(k)'
<1>1. PICK a \in DOMAIN alerts :
        /\ alerts[a].rec <= k
        /\ log[alerts[a].rec].key = log[k].key
        /\ \A m \in alerts[a].rec..k :
               log[m].key = log[k].key => log[m].new < alerts[a].threshold
  BY DEF Reported
<1>2. a \in DOMAIN alerts' /\ alerts'[a] = alerts[a]
  BY Appended
<1>3. alerts[a].rec \in 1..Len(log)
  <2>1. alerts[a].rec \in 1..checkpoint + batch
    BY DEF JudgeInv, JudgedInv
  <2> QED
    BY <2>1, Bounds
<1>4. \A m \in alerts[a].rec..k : m \in 1..Len(log)
  BY <1>3, Bounds
<1>5. /\ alerts'[a].rec <= k
      /\ log'[alerts'[a].rec].key = log'[k].key
      /\ \A m \in alerts'[a].rec..k :
             log'[m].key = log'[k].key => log'[m].new < alerts'[a].threshold
  BY <1>1, <1>2, <1>3, <1>4
<1> QED
  BY <1>2, <1>5 DEF Reported

\* The record at hand is low and was stepped over: either its message is out,
\* or the product was already low and reported.
LEMMA AtHandReported ==
    ASSUME TypeOK, StreamInv, JudgeInv, ReportInv,
           LostRecords = {}, tuned # "raised",
           AtRecord, Low(pos, thr), ~Crossed(log[pos], thr)
    PROVE  Reported(pos)
<1>1. /\ thr # Absent /\ thr \in Int /\ pos \in checkpoint + 1..Len(log)
      /\ pos \in 1..Len(log) /\ checkpoint \in Nat /\ pos \in Nat
  BY Bounds DEF AtRecord
<1>2. /\ log[pos].key # Other /\ log[pos].new < thr /\ log[pos].new \in Int
      /\ LevelIn(log, log[pos].key, pos - 1, log[pos].old)
  BY <1>1 DEF StreamInv, Low
<1>3. log[pos].old # Absent /\ ~(log[pos].old >= thr)
  BY <1>2, TableAssumption DEF Crossed
<1>4. PICK j \in 1..pos - 1 : /\ log[j].key = log[pos].key
                              /\ log[j].new = log[pos].old
                              /\ \A m \in j+1..pos - 1 :
                                     log[m].key # log[pos].key
  BY <1>2, <1>3 DEF LevelIn
<1>5. j \in 1..Len(log) /\ log[j].new \in Int /\ log[j].new < thr
  <2>1. j \in 1..Len(log)
    BY <1>1
  <2>2. log[j].new \in Int
    BY <1>2, <1>4, <2>1 DEF StreamInv
  <2> QED
    BY <1>1, <1>3, <1>4, <2>1, <2>2
<1>6. Reported(j)
  <2>1. CASE j \in 1..checkpoint
    <3>1. settled[j] # Dropped
      BY <2>1 DEF LostRecords
    <3>2. settled[j] \in Int /\ settled[j] >= thr
      BY <1>1, <2>1, <3>1, Bounds DEF JudgeInv, FallingInv
    <3>3. Low(j, settled[j])
      BY <1>1, <1>2, <1>4, <1>5, <3>2 DEF Low
    <3> QED
      BY <2>1, <3>3 DEF ReportInv
  <2>2. CASE j \in checkpoint + 1..pos - 1
    BY <1>1, <1>2, <1>4, <1>5, <2>2 DEF ReportInv, Low
  <2> QED
    BY <1>1, <2>1, <2>2
<1>7. \A a \in DOMAIN alerts : log[pos].new < alerts[a].threshold
  BY <1>1, <1>2, Bounds DEF JudgeInv, FallingInv
<1>8. \A m \in j+1..pos : m = pos \/ m \in j+1..pos - 1
  BY <1>1
<1>9. pos \in j..Len(log)
  BY <1>1
<1> QED
  BY <1>4, <1>5, <1>6, <1>7, <1>8, <1>9, ReportedFurther

\* A message reports the record it is about.
LEMMA SaidReported ==
    ASSUME TypeOK, Send, UNCHANGED log, NEW p, p = pos
    PROVE  Reported(p)'
<1> DEFINE c == Len(alerts) + 1
<1>1. /\ c \in DOMAIN alerts' /\ alerts'[c].rec = pos
      /\ alerts'[c].threshold = thr
  BY Appended
<1>2. log[pos].new < thr /\ pos \in Nat
  BY Bounds DEF Send, Crossed
<1> HIDE DEF c
<1>3. \A m \in alerts'[c].rec..pos : m = pos
  BY <1>1, <1>2
<1> QED
  BY <1>1, <1>2, <1>3 DEF Reported

\* What a step settles or steps over, while nothing is lost, was reported
\* already or is reported by its own message.
LEMMA ReportStep ==
    ASSUME TypeOK, StreamInv, JudgeInv, ReportInv,
           UNCHANGED alerts \/ Send,
           \A i \in 1..Len(log) : log'[i] = log[i],
           LostRecords = {}, tuned # "raised",
           NEW k \in 1..Len(log), NEW t, Low(k, t)',
           \/ k \in 1..checkpoint /\ t = settled[k]
           \/ thr # Absent /\ t = thr /\ k \in checkpoint+1..pos-1
    PROVE  Reported(k)'
<1>1. Low(k, t)
  BY DEF Low
<1>2. Reported(k)
  BY <1>1 DEF ReportInv
<1> QED
  BY <1>2, ReportedKept

\* The consumer's steps keep ReportInv; one that drops a batch makes it void.
LEMMA ConsumeReports ==
    ASSUME TypeOK, StreamInv, JudgeInv, ReportInv, Consume
    PROVE  ReportInv'
<1> SUFFICES ASSUME LostRecords' = {}, tuned' # "raised"
             PROVE  /\ \A k \in 1..checkpoint' :
                           Low(k, settled[k])' => Reported(k)'
                    /\ thr' # Absent =>
                           \A k \in checkpoint'+1..pos'-1 :
                               Low(k, thr)' => Reported(k)'
  BY DEF ReportInv
<1>0. UNCHANGED <<log, tuned>> /\ ProcessorStep
  BY DEF Consume, tableVars
<1>1. ASSUME \/ Moved(Dropped)
             \/ /\ checkpoint' = checkpoint
                /\ \A i \in 1..checkpoint : settled'[i] = settled[i]
             \/ thr # Absent /\ Moved(thr)
      PROVE  /\ LostRecords = {} /\ tuned # "raised"
             /\ \A i \in 1..checkpoint : i \in 1..checkpoint' /\ settled'[i] = settled[i]
  <2>1. \A i \in 1..checkpoint : i \in 1..checkpoint' /\ settled'[i] = settled[i]
    BY <1>1, Bounds DEF Moved
  <2> QED
    BY <1>0, <2>1 DEF LostRecords
<1>2. ASSUME ~Moved(Dropped), UNCHANGED alerts \/ Send,
             LostRecords = {}, tuned # "raised",
             \/ /\ checkpoint' = checkpoint
                /\ \A i \in 1..checkpoint : settled'[i] = settled[i]
             \/ thr # Absent /\ Moved(thr) /\ pos = checkpoint + batch + 1,
             NEW k \in 1..checkpoint', Low(k, settled[k])'
      PROVE  Reported(k)'
  <2>1. k \in 1..Len(log)
    BY <1>2, Bounds DEF Moved
  <2>2. PICK t : t = settled'[k]
    OBVIOUS
  <2>3. Low(k, t)'
    BY <1>2, <2>2 DEF Low
  <2>4. \/ k \in 1..checkpoint /\ t = settled[k]
        \/ thr # Absent /\ t = thr /\ k \in checkpoint+1..pos-1
    BY <1>2, <2>2, Bounds DEF Moved
  <2> QED
    BY <1>0, <1>2, <2>1, <2>3, <2>4, ReportStep
<1>3. Moved(Dropped) /\ batch > 0 => FALSE
  <2> SUFFICES ASSUME Moved(Dropped), batch > 0 PROVE FALSE
    OBVIOUS
  <2>1. checkpoint' \in 1..checkpoint' /\ checkpoint' \in checkpoint+1..checkpoint'
    BY Bounds DEF Moved
  <2>2. settled'[checkpoint'] = Dropped
    BY <2>1 DEF Moved
  <2> QED
    BY <2>1, <2>2 DEF LostRecords
<1>4. CASE (\E n \in 1..BatchSize : Poll(n)) \/ ReadThreshold
  <2>1. /\ UNCHANGED <<alerts, settled>> /\ checkpoint' = checkpoint
        /\ (thr' # Absent => pos' = checkpoint + 1)
        /\ batch = 0 \/ batch' = batch
    BY <1>4, Bounds DEF Poll, ReadThreshold, checkpoint
  <2>2. thr' # Absent => \A k \in checkpoint'+1..pos'-1 : FALSE
    BY <2>1, Bounds
  <2>3. \A k \in 1..checkpoint' : Low(k, settled[k])' => Reported(k)'
    <3> SUFFICES ASSUME NEW k \in 1..checkpoint', Low(k, settled[k])'
                 PROVE  Reported(k)'
      OBVIOUS
    <3>1. k \in 1..checkpoint /\ Low(k, settled[k])
      BY <1>0, <2>1 DEF Low
    <3>2. Reported(k)
      BY <1>1, <2>1, <3>1 DEF ReportInv
    <3> QED
      BY <1>0, <2>1, <3>2 DEF Reported
  <2> QED
    BY <2>2, <2>3
<1>5. CASE Skip \/ Publish
  <2>1. /\ UNCHANGED <<batch, thr, settled>> /\ pos' = pos + 1
        /\ checkpoint' = checkpoint
        /\ (Skip /\ UNCHANGED alerts) \/ Send
        /\ LostRecords = {} /\ tuned # "raised"
        /\ AtRecord /\ batch > 0 /\ thr # Absent
    BY <1>1, <1>5, Bounds DEF Skip, Publish, Send, AtRecord, checkpoint
  <2>2. \A k \in 1..checkpoint' : Low(k, settled[k])' => Reported(k)'
    BY <1>2, <1>3, <2>1
  <2>3. ASSUME NEW k \in checkpoint'+1..pos'-1, Low(k, thr)'
        PROVE  Reported(k)'
    <3>1. /\ k \in checkpoint+1..pos-1 \/ k = pos
          /\ k \in 1..Len(log)
      BY <2>1, Bounds DEF AtRecord
    <3>2. Low(k, thr)
      BY <1>0, <2>1, <2>3 DEF Low
    <3>3. CASE k \in checkpoint+1..pos-1
      <4>1. Reported(k)
        BY <2>1, <3>2, <3>3 DEF ReportInv
      <4> QED
        BY <1>0, <2>1, <3>1, <4>1, ReportedKept
    <3>4. CASE k = pos /\ Send
      BY <1>0, <3>4, SaidReported
    <3>5. CASE k = pos /\ Skip
      <4>1. Reported(pos)
        BY <2>1, <3>2, <3>5, AtHandReported DEF Skip
      <4> QED
        BY <1>0, <2>1, <3>1, <3>5, <4>1, ReportedKept
    <3> QED
      BY <2>1, <3>1, <3>3, <3>4, <3>5
  <2> QED
    BY <2>2, <2>3
<1>6. CASE Return
  <2>1. /\ Moved(thr) /\ thr # Absent /\ pos = checkpoint + batch + 1
        /\ UNCHANGED alerts /\ batch > 0 /\ thr' = Absent
        /\ LostRecords = {} /\ tuned # "raised"
    BY <1>1, <1>6, ReturnMoves, Bounds DEF Moved
  <2> QED
    BY <1>2, <1>3, <2>1
<1>7. CASE Fail \/ PublishAndFail
  <2>1. /\ TriedAgain /\ ~Moved(Dropped) /\ (UNCHANGED alerts \/ Send)
        /\ thr' = Absent
    BY <1>3, <1>7, Failures DEF TriedAgain
  <2>2. checkpoint' = checkpoint /\ settled' = settled
    BY <2>1 DEF TriedAgain, checkpoint
  <2> QED
    BY <1>1, <1>2, <2>1, <2>2
<1>8. CASE SendUnanswered
  <2>1. /\ UNCHANGED <<thr, pos, settled>> /\ checkpoint' = checkpoint
        /\ Send /\ thr # Absent /\ ~Moved(Dropped)
        /\ LostRecords = {} /\ tuned # "raised"
    BY <1>1, <1>3, <1>8, Bounds DEF SendUnanswered, Send, AtRecord, checkpoint
  <2>2. \A k \in 1..checkpoint' : Low(k, settled[k])' => Reported(k)'
    BY <1>2, <2>1
  <2>3. ASSUME NEW k \in checkpoint'+1..pos'-1, Low(k, thr)'
        PROVE  Reported(k)'
    <3>1. k \in checkpoint+1..pos-1 /\ k \in 1..Len(log)
      BY <2>1, Bounds
    <3>2. Low(k, thr)
      BY <1>0, <2>1, <2>3 DEF Low
    <3>3. Reported(k)
      BY <2>1, <3>1, <3>2 DEF ReportInv
    <3> QED
      BY <1>0, <2>1, <3>1, <3>3, ReportedKept
  <2> QED
    BY <2>2, <2>3
<1> QED
  BY <1>0, <1>4, <1>5, <1>6, <1>7, <1>8 DEF ProcessorStep

\* So do the steps of the others.
LEMMA OthersReport ==
    ASSUME TypeOK, StreamInv, JudgeInv, ReportInv, Others
    PROVE  ReportInv'
<1>1. /\ UNCHANGED <<thr, pos, alerts, settled>> /\ checkpoint' = checkpoint
      /\ \A i \in 1..Len(log) : log'[i] = log[i]
      /\ tuned' # "raised" => tuned # "raised"
  BY OthersStep DEF Others
<1>2. LostRecords' = LostRecords
  BY <1>1 DEF LostRecords
<1> SUFFICES ASSUME LostRecords = {}, tuned # "raised"
             PROVE  /\ \A k \in 1..checkpoint' :
                           Low(k, settled[k])' => Reported(k)'
                    /\ thr' # Absent =>
                           \A k \in checkpoint'+1..pos'-1 :
                               Low(k, thr)' => Reported(k)'
  BY <1>1, <1>2 DEF ReportInv
<1>3. ASSUME NEW k \in 1..Len(log), Reported(k) PROVE Reported(k)'
  BY <1>1, <1>3, ReportedKept
<1>4. ASSUME NEW k \in 1..checkpoint', Low(k, settled[k])'
      PROVE  Reported(k)'
  <2>1. k \in 1..checkpoint /\ k \in 1..Len(log)
    BY <1>1, Bounds
  <2>2. Low(k, settled[k])
    BY <1>1, <1>4, <2>1 DEF Low
  <2> QED
    BY <1>3, <2>1, <2>2 DEF ReportInv
<1>5. ASSUME thr' # Absent, NEW k \in checkpoint'+1..pos'-1, Low(k, thr)'
      PROVE  Reported(k)'
  <2>1. thr # Absent /\ k \in checkpoint+1..pos-1 /\ k \in 1..Len(log)
    BY <1>1, <1>5, Bounds
  <2>2. Low(k, thr)
    BY <1>1, <1>5, <2>1 DEF Low
  <2> QED
    BY <1>3, <2>1, <2>2 DEF ReportInv
<1> QED
  BY <1>4, <1>5

\* ReportInv is an invariant.
LEMMA ReportHolds == Spec => []ReportInv
<1>1. Init => ReportInv
  <2> SUFFICES ASSUME Init PROVE ReportInv
    OBVIOUS
  <2>1. thr = Absent /\ 1..checkpoint = {}
    BY DEF Init, ProcessorInit, checkpoint
  <2> QED
    BY <2>1 DEF ReportInv
<1>2. TypeOK /\ StreamInv /\ JudgeInv /\ ReportInv /\ [Next]_vars => ReportInv'
  BY ConsumeReports, OthersReport DEF Next, Others
<1> QED
  BY <1>1, <1>2, TypeCorrect, StreamHolds, JudgeHolds, PTL DEF Spec

\* Once the stream is drained, every product that is low has a message that
\* nothing after it outdated, when no batch was given up and the threshold was
\* never raised.
THEOREM LowStockReported == Spec => []LowStockIsReported
<1>1. TypeOK /\ StreamInv /\ JudgeInv /\ ReportInv => LowStockIsReported
  <2> SUFFICES ASSUME TypeOK, StreamInv, JudgeInv, ReportInv,
                      checkpoint = Len(log), LostRecords = {},
                      tuned # "raised", NEW s \in Skus,
                      stock[s] # Absent, stock[s] < threshold
               PROVE  \E a \in DOMAIN alerts :
                          /\ log[alerts[a].rec].key = s
                          /\ \A k \in alerts[a].rec..Len(log) :
                                 log[k].key = s =>
                                     log[k].new < alerts[a].threshold
    BY DEF LowStockIsReported, Drained
  <2>1. PICK j \in 1..Len(log) : /\ log[j].key = s
                                 /\ log[j].new = stock[s]
                                 /\ \A m \in j+1..Len(log) : log[m].key # s
    BY DEF StreamInv, LevelIn
  <2>2. /\ s # Other /\ settled[j] \in Int /\ settled[j] >= threshold
        /\ stock[s] \in Int
    <3>1. settled[j] # Dropped
      BY DEF LostRecords
    <3>2. stock[s] \in Int
      BY DEF TypeOK, TableTypeOK, Level
    <3> QED
      BY <3>1, <3>2, Bounds, TableAssumption DEF JudgeInv, FallingInv
  <2>3. Low(j, settled[j])
    BY <2>1, <2>2, Bounds DEF Low
  <2>4. PICK a \in DOMAIN alerts :
          /\ alerts[a].rec <= j
          /\ log[alerts[a].rec].key = log[j].key
          /\ \A m \in alerts[a].rec..j :
                 log[m].key = log[j].key => log[m].new < alerts[a].threshold
    BY <2>3 DEF ReportInv, Reported
  <2>5. \A k \in alerts[a].rec..Len(log) :
            k \in alerts[a].rec..j \/ k \in j+1..Len(log)
    BY <2>1, Bounds
  <2> QED
    BY <2>1, <2>4, <2>5
<1> QED
  BY <1>1, TypeCorrect, StreamHolds, JudgeHolds, ReportHolds, PTL

----------------------------------------------------------------------------
(* The last message is about the newest crossing.                          *)

\* After the message about record i there is none about it or an older one.
LastWord(i) ==
    \E c \in DOMAIN alerts :
        /\ alerts[c].rec = i
        /\ \A b \in DOMAIN alerts : b > c => alerts[b].rec > i

\* Each crossing had the last word when its batch, or the running invocation,
\* was done with it.
LastInv ==
    /\ \A i \in 1..checkpoint :
           settled[i] # Dropped /\ Crossed(log[i], settled[i]) => LastWord(i)
    /\ thr # Absent =>
           \A i \in checkpoint+1..pos-1 :
               Crossed(log[i], thr) => LastWord(i)

\* A further message is about the record at hand: it does not take the last
\* word from a record before that.
LEMMA LastWordKept ==
    ASSUME TypeOK, UNCHANGED alerts \/ Send, NEW i \in Nat, LastWord(i),
           Send => i < pos
    PROVE  LastWord(i)'
<1>1. CASE UNCHANGED alerts
  BY <1>1 DEF LastWord
<1>2. CASE Send
  <2>1. PICK c \in DOMAIN alerts :
          /\ alerts[c].rec = i
          /\ \A b \in DOMAIN alerts : b > c => alerts[b].rec > i
    BY DEF LastWord
  <2>2. c \in DOMAIN alerts' /\ alerts'[c].rec = i
    BY <1>2, <2>1, Appended
  <2>3. ASSUME NEW b \in DOMAIN alerts', b > c PROVE alerts'[b].rec > i
    <3>1. CASE b \in DOMAIN alerts
      BY <1>2, <2>1, <2>3, <3>1, Appended
    <3>2. CASE b = Len(alerts) + 1
      BY <1>2, <3>2, Appended, Bounds
    <3> QED
      BY <1>2, <3>1, <3>2, Appended
  <2> QED
    BY <2>2, <2>3 DEF LastWord
<1> QED
  BY <1>1, <1>2

\* A new message has the last word on its record.
LEMMA SaidLast ==
    ASSUME TypeOK, Send, NEW p, p = pos
    PROVE  LastWord(p)'
<1> DEFINE c == Len(alerts) + 1
<1>1. c \in DOMAIN alerts' /\ alerts'[c].rec = pos
  BY Appended
<1>2. \A b \in DOMAIN alerts' : ~(b > c)
  BY Appended, Bounds
<1> HIDE DEF c
<1> QED
  BY <1>1, <1>2 DEF LastWord

\* Every step of the consumer but a Skip or Publish leaves nothing new behind
\* it that crosses.
LEMMA ConsumeLast ==
    ASSUME TypeOK, LastInv, Consume
    PROVE  LastInv'
<1>0. UNCHANGED log /\ ProcessorStep
  BY DEF Consume, tableVars
<1>1. ASSUME UNCHANGED alerts \/ Send, NEW i \in Nat, LastWord(i),
             i <= checkpoint \/ (thr # Absent /\ i < pos)
      PROVE  LastWord(i)'
  <2>1. ASSUME Send PROVE i < pos
    <3>1. thr # Absent
      BY <2>1 DEF Send, AtRecord
    <3>2. pos >= checkpoint + 1 /\ pos \in Nat /\ checkpoint \in Nat
      BY <3>1, Bounds
    <3> QED
      BY <1>1, <3>2
  <2> QED
    BY <1>1, <2>1, LastWordKept
<1>2. CASE (\E n \in 1..BatchSize : Poll(n)) \/ ReadThreshold
  <2>1. /\ UNCHANGED <<alerts, settled>> /\ checkpoint' = checkpoint
        /\ (thr' # Absent => pos' = checkpoint + 1)
    BY <1>2, Bounds DEF Poll, ReadThreshold, checkpoint
  <2>2. thr' # Absent => \A k \in checkpoint'+1..pos'-1 : FALSE
    BY <2>1, Bounds
  <2> QED
    BY <1>0, <2>1, <2>2 DEF LastInv, LastWord
<1>3. CASE Skip \/ Publish
  <2>1. /\ UNCHANGED <<thr, settled>> /\ pos' = pos + 1
        /\ checkpoint' = checkpoint /\ thr # Absent
        /\ (Skip /\ ~Crossed(log[pos], thr) /\ UNCHANGED alerts) \/ Send
    BY <1>3 DEF Skip, Publish, Send, AtRecord, checkpoint
  <2>2. ASSUME NEW i \in 1..checkpoint, settled[i] # Dropped,
               Crossed(log[i], settled[i])
        PROVE  LastWord(i)'
    BY <1>1, <2>1, <2>2 DEF LastInv
  <2>3. ASSUME NEW i \in checkpoint+1..pos'-1, Crossed(log[i], thr)
        PROVE  LastWord(i)'
    <3>1. i \in checkpoint+1..pos-1 \/ i = pos
      BY <2>1, Bounds
    <3>2. CASE i \in checkpoint+1..pos-1
      <4>1. LastWord(i) /\ i \in Nat /\ i < pos
        BY <2>1, <2>3, <3>2, Bounds DEF LastInv
      <4> QED
        BY <1>1, <2>1, <4>1
    <3>3. CASE i = pos
      BY <2>1, <2>3, <3>3, SaidLast
    <3> QED
      BY <3>1, <3>2, <3>3
  <2> QED
    BY <1>0, <2>1, <2>2, <2>3 DEF LastInv
<1>4. CASE Return
  <2>1. /\ Moved(thr) /\ thr # Absent /\ pos = checkpoint + batch + 1
        /\ UNCHANGED alerts /\ thr' = Absent
    BY <1>4, ReturnMoves DEF Moved
  <2>2. ASSUME NEW i \in 1..checkpoint', settled'[i] # Dropped,
               Crossed(log[i], settled'[i])
        PROVE  LastWord(i)
    <3>1. \/ i \in 1..checkpoint /\ settled'[i] = settled[i]
          \/ i \in checkpoint+1..pos-1 /\ settled'[i] = thr
      BY <2>1, Bounds DEF Moved
    <3> QED
      BY <2>1, <2>2, <3>1 DEF LastInv
  <2>3. \A i \in 1..checkpoint' : LastWord(i) => LastWord(i)'
    BY <2>1 DEF LastWord
  <2> QED
    BY <1>0, <2>1, <2>2, <2>3 DEF LastInv
<1>5. CASE Fail \/ PublishAndFail
  <2>1. /\ (TriedAgain \/ Moved(Dropped)) /\ (UNCHANGED alerts \/ Send)
        /\ thr' = Absent
    BY <1>5, Failures DEF TriedAgain, Moved
  <2>2. ASSUME NEW i \in 1..checkpoint', settled'[i] # Dropped,
               Crossed(log[i], settled'[i])
        PROVE  LastWord(i)'
    <3>1. i \in 1..checkpoint /\ settled'[i] = settled[i]
      BY <2>1, <2>2, Bounds DEF Moved, TriedAgain, checkpoint
    <3>2. LastWord(i)
      BY <2>2, <3>1 DEF LastInv
    <3> QED
      BY <1>1, <2>1, <3>1, <3>2
  <2> QED
    BY <1>0, <2>1, <2>2 DEF LastInv
<1>6. CASE SendUnanswered
  <2>1. /\ UNCHANGED <<thr, pos, settled>> /\ checkpoint' = checkpoint
        /\ Send /\ thr # Absent
    BY <1>6 DEF SendUnanswered, Send, AtRecord, checkpoint
  <2>2. ASSUME NEW i \in 1..checkpoint, settled[i] # Dropped,
               Crossed(log[i], settled[i])
        PROVE  LastWord(i)'
    BY <1>1, <2>1, <2>2 DEF LastInv
  <2>3. ASSUME NEW i \in checkpoint+1..pos-1, Crossed(log[i], thr)
        PROVE  LastWord(i)'
    <3>1. LastWord(i) /\ i \in Nat /\ i < pos
      BY <2>1, <2>3, Bounds DEF LastInv
    <3> QED
      BY <1>1, <2>1, <3>1
  <2> QED
    BY <1>0, <2>1, <2>2, <2>3 DEF LastInv
<1> QED
  BY <1>0, <1>2, <1>3, <1>4, <1>5, <1>6 DEF ProcessorStep

\* The others publish nothing.
LEMMA OthersLast ==
    ASSUME TypeOK, LastInv, Others
    PROVE  LastInv'
<1>1. /\ UNCHANGED <<thr, pos, alerts, settled>> /\ checkpoint' = checkpoint
      /\ \A i \in 1..Len(log) : log'[i] = log[i]
  BY OthersStep DEF Others
<1>2. \A i : LastWord(i)' = LastWord(i)
  BY <1>1 DEF LastWord
<1>3. /\ \A i \in 1..checkpoint : i \in 1..Len(log)
      /\ thr # Absent => \A i \in checkpoint+1..pos-1 : i \in 1..Len(log)
  BY Bounds
<1> QED
  BY <1>1, <1>2, <1>3 DEF LastInv

\* LastInv is an invariant.
LEMMA LastHolds == Spec => []LastInv
<1>1. Init => LastInv
  <2> SUFFICES ASSUME Init PROVE LastInv
    OBVIOUS
  <2>1. thr = Absent /\ 1..checkpoint = {}
    BY DEF Init, ProcessorInit, checkpoint
  <2> QED
    BY <2>1 DEF LastInv
<1>2. TypeOK /\ LastInv /\ [Next]_vars => LastInv'
  BY ConsumeLast, OthersLast DEF Next, Others
<1> QED
  BY <1>1, <1>2, TypeCorrect, PTL DEF Spec

\* When the stream is drained, nothing was lost and the threshold stayed, no
\* message about an older record of a product comes after the last one about
\* a newer: what retries publish again, they publish again in order.
THEOREM NewestAlertLast == Spec => []LastAlertIsNewest
<1>1. TypeOK /\ JudgeInv /\ LastInv => LastAlertIsNewest
  <2> SUFFICES ASSUME TypeOK, JudgeInv, LastInv,
                      checkpoint = Len(log), LostRecords = {},
                      tuned = "never",
                      NEW a \in DOMAIN alerts, NEW b \in DOMAIN alerts,
                      alerts[a].rec > alerts[b].rec
               PROVE  \E c \in DOMAIN alerts :
                          c > b /\ alerts[c].rec = alerts[a].rec
    BY DEF LastAlertIsNewest, Drained
  <2>1. PICK i : i = alerts[a].rec
    OBVIOUS
  <2>2. i \in 1..checkpoint /\ Crossed(log[i], threshold)
    BY <2>1, Bounds DEF JudgeInv, JudgedInv, SteadyInv
  <2>3. settled[i] = threshold /\ settled[i] # Dropped
    BY <2>2 DEF JudgeInv, SteadyInv, LostRecords
  <2>4. LastWord(i)
    BY <2>2, <2>3 DEF LastInv
  <2>5. PICK c \in DOMAIN alerts :
          /\ alerts[c].rec = i
          /\ \A d \in DOMAIN alerts : d > c => alerts[d].rec > i
    BY <2>4 DEF LastWord
  <2>6. ~(b > c) /\ b # c
    BY <2>1, <2>5, Bounds
  <2>7. c > b
    BY <2>6, Bounds
  <2> QED
    BY <2>1, <2>5, <2>7
<1> QED
  BY <1>1, TypeCorrect, JudgeHolds, LastHolds, PTL

----------------------------------------------------------------------------
(* An alert is repeated at most MaxSends times per attempt.                *)

Messages(i) == {a \in DOMAIN alerts : alerts[a].rec = i}

\* What n whole attempts say about one record at most.
Most(n) == n * MaxSends

\* What was said at most about a record in the batch in hand: all that the
\* earlier attempts could say, and as much again once this attempt is past the
\* record; while it is at the record, the copies it sent without an answer.
SaidAtMost(i) ==
    IF thr # Absent /\ i < pos
      THEN Most(attempt)
      ELSE Most(attempt - 1) + (IF i = pos THEN sends ELSE 0)

RepeatInv ==
    /\ batch > 0 => attempt >= 1
    /\ thr = Absent => sends = 0
    /\ \A i \in 1..checkpoint : Cardinality(Messages(i)) <= Most(MaxAttempts)
    /\ \A i \in checkpoint+1..checkpoint+batch :
           Cardinality(Messages(i)) <= SaidAtMost(i)

\* One more attempt says MaxSends more, and attempts only add up.
LEMMA MostOf ==
    ASSUME NEW n \in Nat, NEW m \in Nat, n <= m
    PROVE  /\ Most(n) \in Nat
           /\ Most(n + 1) = Most(n) + MaxSends
           /\ Most(n) <= Most(m)
<1>1. MaxSends \in Nat
  BY ProcessorAssumption
<1>2. n * MaxSends \in Nat /\ (n + 1) * MaxSends = n * MaxSends + MaxSends
  BY <1>1
<1>3. PICK d \in Nat : m = n + d
  <2>1. m - n \in Nat /\ m = n + (m - n)
    OBVIOUS
  <2> QED
    BY <2>1
<1>4. (n + d) * MaxSends = n * MaxSends + d * MaxSends /\ d * MaxSends \in Nat
  BY <1>1
<1>5. n * MaxSends <= m * MaxSends
  BY <1>1, <1>2, <1>3, <1>4
<1> QED
  BY <1>2, <1>5 DEF Most

\* TypeOK and RepeatInv in numbers.
LEMMA Repeats ==
    ASSUME TypeOK, RepeatInv
    PROVE  /\ attempt \in Nat /\ MaxAttempts \in Nat /\ attempt <= MaxAttempts
           /\ MaxSends \in Nat /\ sends \in Nat /\ sends + 1 <= MaxSends
           /\ Most(MaxAttempts) \in Nat
           /\ batch > 0 => /\ attempt >= 1
                           /\ Most(attempt - 1) \in Nat /\ Most(attempt) \in Nat
                           /\ Most(attempt) = Most(attempt - 1) + MaxSends
                           /\ Most(attempt) <= Most(MaxAttempts)
<1>1. /\ attempt \in Nat /\ MaxAttempts \in Nat /\ attempt <= MaxAttempts
      /\ MaxSends \in Nat /\ sends \in Nat /\ sends + 1 <= MaxSends
  BY ProcessorAssumption DEF TypeOK, ProcessorTypeOK
<1>2. Most(MaxAttempts) \in Nat
  BY <1>1, MostOf
<1>3. ASSUME batch > 0
      PROVE  /\ attempt >= 1
             /\ Most(attempt - 1) \in Nat /\ Most(attempt) \in Nat
             /\ Most(attempt) = Most(attempt - 1) + MaxSends
             /\ Most(attempt) <= Most(MaxAttempts)
  <2>1. attempt >= 1
    BY <1>3 DEF RepeatInv
  <2>2. PICK n \in Nat : n = attempt - 1
    BY <1>1, <2>1
  <2>3. n <= n /\ attempt = n + 1
    BY <1>1, <2>2
  <2>4. Most(n) \in Nat /\ Most(n + 1) = Most(n) + MaxSends
    BY <2>3, MostOf
  <2>5. Most(attempt) \in Nat /\ Most(attempt) <= Most(MaxAttempts)
    BY <1>1, MostOf
  <2> QED
    BY <2>1, <2>2, <2>3, <2>4, <2>5
<1> QED
  BY <1>1, <1>2, <1>3

\* A message adds one to what was said about the record at hand.
LEMMA MessagesSaid ==
    ASSUME TypeOK, NEW i \in Nat, UNCHANGED alerts \/ Send
    PROVE  /\ Cardinality(Messages(i)) \in Nat
           /\ Cardinality(Messages(i)') \in Nat
           /\ i # pos \/ UNCHANGED alerts
                => Cardinality(Messages(i)') = Cardinality(Messages(i))
           /\ Cardinality(Messages(i)') <= Cardinality(Messages(i)) + 1
<1> DEFINE c == Len(alerts) + 1
<1>1. IsFiniteSet(Messages(i)) /\ Cardinality(Messages(i)) \in Nat
  <2>1. IsFiniteSet(1..Len(alerts)) /\ Messages(i) \subseteq 1..Len(alerts)
    BY Bounds, FS_Interval DEF Messages
  <2> QED
    BY <2>1, FS_Subset, FS_CardinalityType
<1>2. \/ Messages(i)' = Messages(i)
      \/ i = pos /\ Send /\ Messages(i)' = Messages(i) \cup {c}
  <2>1. CASE UNCHANGED alerts
    BY <2>1 DEF Messages
  <2>2. CASE Send
    <3>1. /\ DOMAIN alerts' = DOMAIN alerts \cup {c}
          /\ \A a \in DOMAIN alerts : alerts'[a] = alerts[a]
          /\ alerts'[c].rec = pos
      BY <2>2, Appended
    <3>2. CASE i = pos
      BY <2>2, <3>1, <3>2 DEF Messages
    <3>3. CASE i # pos
      BY <3>1, <3>3 DEF Messages
    <3> QED
      BY <3>2, <3>3
  <2> QED
    BY <2>1, <2>2
<1>3. ~(c \in Messages(i))
  BY Bounds DEF Messages
<1>4. /\ IsFiniteSet(Messages(i) \cup {c})
      /\ Cardinality(Messages(i) \cup {c}) = Cardinality(Messages(i)) + 1
  BY <1>1, <1>3, FS_AddElement
<1>5. UNCHANGED alerts => Messages(i)' = Messages(i)
  BY DEF Messages
<1> HIDE DEF c
<1> QED
  BY <1>1, <1>2, <1>4, <1>5

\* The consumer's steps keep RepeatInv.
LEMMA ConsumeRepeats ==
    ASSUME TypeOK, JudgeInv, RepeatInv, Consume
    PROVE  RepeatInv'
<1>0. ProcessorStep
  BY DEF Consume, tableVars
<1>1. ASSUME NEW n \in 1..BatchSize, Poll(n)
      PROVE  RepeatInv'
  <2>1. /\ UNCHANGED <<thr, pos, sends, alerts, settled>>
        /\ checkpoint' = checkpoint
        /\ batch = 0 /\ attempt' = 1 /\ thr = Absent /\ sends = 0
    BY <1>1, Bounds DEF Poll, checkpoint, InStream, TypeOK, RepeatInv
  <2>2. \A i : Messages(i)' = Messages(i)
    BY <2>1 DEF Messages
  <2>3. ASSUME NEW i \in checkpoint'+1..checkpoint'+batch'
        PROVE  Cardinality(Messages(i)) = 0
    <3>1. \A a \in DOMAIN alerts : alerts[a].rec # i
      BY <2>1, Bounds DEF JudgeInv, JudgedInv
    <3>2. Messages(i) = {}
      BY <3>1 DEF Messages
    <3> QED
      BY <3>2, FS_EmptySet
  <2>4. \A i : SaidAtMost(i)' = 0
    <3>1. Most(0) = 0
      BY ProcessorAssumption DEF Most
    <3> QED
      BY <2>1, <3>1 DEF SaidAtMost, Most
  <2>5. Most(MaxAttempts)' = Most(MaxAttempts)
    BY DEF Most
  <2>6. \A i \in 1..checkpoint' : Cardinality(Messages(i)') <= Most(MaxAttempts)
    BY <2>1, <2>2 DEF RepeatInv
  <2>7. \A i \in checkpoint'+1..checkpoint'+batch' :
            Cardinality(Messages(i)') <= SaidAtMost(i)'
    BY <2>2, <2>3, <2>4
  <2> QED
    BY <2>1, <2>5, <2>6, <2>7 DEF RepeatInv
<1>2. CASE ReadThreshold
  <2>1. /\ UNCHANGED <<batch, attempt, sends, alerts, settled>>
        /\ checkpoint' = checkpoint /\ thr = Absent /\ pos' = checkpoint + 1
        /\ sends = 0
    BY <1>2 DEF ReadThreshold, checkpoint, RepeatInv
  <2>2. \A i : Messages(i)' = Messages(i)
    BY <2>1 DEF Messages
  <2>3. \A i \in checkpoint+1..checkpoint+batch : ~(i < pos')
    BY <2>1, Bounds
  <2>4. \A i \in checkpoint+1..checkpoint+batch : SaidAtMost(i)' = SaidAtMost(i)
    BY <2>1, <2>3 DEF SaidAtMost, Most
  <2> QED
    BY <2>1, <2>2, <2>4 DEF RepeatInv, Most
<1>3. CASE Skip \/ Publish \/ SendUnanswered
  <2>1. /\ UNCHANGED <<batch, attempt, thr, settled>>
        /\ checkpoint' = checkpoint /\ thr # Absent /\ batch > 0
        /\ UNCHANGED alerts \/ Send
        /\ pos \in checkpoint+1..checkpoint+batch
    BY <1>3, Bounds DEF Skip, Publish, SendUnanswered, Send, AtRecord, checkpoint
  <2>2. \/ pos' = pos + 1
        \/ pos' = pos /\ sends' = sends + 1
    BY <1>3 DEF Skip, Publish, SendUnanswered
  <2>3. ASSUME NEW i \in 1..checkpoint
        PROVE  Cardinality(Messages(i)') <= Most(MaxAttempts)
    <3>1. i \in Nat /\ i # pos
      BY <2>1, Bounds
    <3>2. Cardinality(Messages(i)') = Cardinality(Messages(i))
      BY <2>1, <3>1, MessagesSaid
    <3> QED
      BY <3>2 DEF RepeatInv
  <2>4. ASSUME NEW i \in checkpoint+1..checkpoint+batch
        PROVE  Cardinality(Messages(i)') <= SaidAtMost(i)'
    <3>1. /\ i \in Nat /\ Cardinality(Messages(i)) \in Nat /\ Cardinality(Messages(i)') \in Nat
          /\ i # pos => Cardinality(Messages(i)') = Cardinality(Messages(i))
          /\ Cardinality(Messages(i)') <= Cardinality(Messages(i)) + 1
          /\ Cardinality(Messages(i)) <= SaidAtMost(i)
      <4>1. i \in Nat
        BY Bounds
      <4>2. Cardinality(Messages(i)) <= SaidAtMost(i)
        BY <2>1 DEF RepeatInv
      <4> QED
        BY <2>1, <4>1, <4>2, MessagesSaid
    <3>2. CASE i < pos
      <4>1. i < pos' /\ SaidAtMost(i)' = Most(attempt) /\ SaidAtMost(i) = Most(attempt)
        BY <2>1, <2>2, <3>2, Bounds DEF SaidAtMost, Most
      <4> QED
        BY <3>1, <3>2, <4>1, Bounds
    <3>3. CASE i > pos
      <4>0. ~(i < pos) /\ i # pos
        BY <3>1, <3>3, Bounds
      <4>1. SaidAtMost(i) = Most(attempt - 1) + 0
        BY <4>0 DEF SaidAtMost
      <4>2. ~(i < pos')
        BY <2>1, <2>2, <3>3, Bounds
      <4>3. sends' \in Nat
        BY <1>3, Repeats DEF Skip, Publish, SendUnanswered
      <4>4. \/ SaidAtMost(i)' = Most(attempt - 1) + 0
            \/ SaidAtMost(i)' = Most(attempt - 1) + sends'
        BY <2>1, <4>2 DEF SaidAtMost, Most
      <4>5. Most(attempt - 1) \in Nat
        BY <2>1, Repeats
      <4>6. Cardinality(Messages(i)') = Cardinality(Messages(i))
        BY <3>1, <4>0
      <4>7. Cardinality(Messages(i)) <= Most(attempt - 1)
        BY <3>1, <4>1, <4>5
      <4> QED
        BY <3>1, <4>3, <4>4, <4>5, <4>6, <4>7
    <3>4. CASE i = pos
      <4>1. SaidAtMost(i) = Most(attempt - 1) + sends
        BY <2>1, <3>4, Bounds DEF SaidAtMost
      <4>2. \/ SaidAtMost(i)' = Most(attempt)
            \/ SaidAtMost(i)' = Most(attempt - 1) + (sends + 1)
        BY <2>1, <2>2, <3>4, Bounds DEF SaidAtMost, Most
      <4> QED
        BY <2>1, <3>1, <4>1, <4>2, Repeats
    <3> QED
      BY <2>1, <3>1, <3>2, <3>3, <3>4, Bounds
  <2> QED
    BY <2>1, <2>3, <2>4 DEF RepeatInv, Most
<1>4. ASSUME UNCHANGED alerts \/ Send, batch > 0, NEW i \in 1..checkpoint + batch
      PROVE  /\ i \in 1..checkpoint => Cardinality(Messages(i)') <= Most(MaxAttempts)
             /\ i \in checkpoint+1..checkpoint + batch =>
                    Cardinality(Messages(i)') <= Most(attempt)
  <2>1. /\ i \in Nat /\ Cardinality(Messages(i)) \in Nat /\ Cardinality(Messages(i)') \in Nat
        /\ i # pos \/ UNCHANGED alerts => Cardinality(Messages(i)') = Cardinality(Messages(i))
        /\ Cardinality(Messages(i)') <= Cardinality(Messages(i)) + 1
    BY <1>4, MessagesSaid
  <2>2. CASE i \in 1..checkpoint
    <3>1. i # pos \/ UNCHANGED alerts
      BY <1>4, <2>2, Bounds DEF Send, AtRecord
    <3> QED
      BY <1>4, <2>1, <2>2, <3>1, Bounds DEF RepeatInv
  <2>3. CASE i \in checkpoint+1..checkpoint + batch
    <3>1. Cardinality(Messages(i)) <= SaidAtMost(i)
      BY <2>3 DEF RepeatInv
    <3>2. \/ i < pos /\ SaidAtMost(i) = Most(attempt)
          \/ SaidAtMost(i) = Most(attempt - 1) + sends
          \/ i # pos /\ SaidAtMost(i) = Most(attempt - 1) + 0
      BY DEF SaidAtMost
    <3>3. i < pos => i # pos
      BY <2>1, Bounds
    <3>4. /\ Most(attempt - 1) \in Nat /\ Most(attempt) \in Nat
          /\ Most(attempt) = Most(attempt - 1) + MaxSends
          /\ MaxSends \in Nat /\ sends \in Nat /\ sends + 1 <= MaxSends
      BY <1>4, Repeats
    <3>5. ASSUME i # pos PROVE Cardinality(Messages(i)') <= Most(attempt)
      BY <2>1, <3>1, <3>2, <3>4, <3>5
    <3>6. ASSUME i = pos PROVE Cardinality(Messages(i)') <= Most(attempt)
      BY <2>1, <3>1, <3>2, <3>3, <3>4, <3>6
    <3>7. ~(i \in 1..checkpoint)
      BY <2>3, Bounds
    <3> QED
      BY <3>5, <3>6, <3>7
  <2> QED
    BY <1>4, <2>2, <2>3, Bounds
<1>5. ASSUME batch > 0, UNCHANGED alerts \/ Send, NEW v, Moved(v)
      PROVE  RepeatInv'
  <2>1. /\ batch' = 0 /\ checkpoint' = checkpoint + batch /\ sends' = 0
        /\ checkpoint'+1..checkpoint'+batch' = {}
    BY <1>5, Bounds DEF Moved
  <2>2. ASSUME NEW i \in 1..checkpoint'
        PROVE  Cardinality(Messages(i)') <= Most(MaxAttempts)
    <3>1. i \in 1..checkpoint + batch /\ (i \in 1..checkpoint \/ i \in checkpoint+1..checkpoint + batch)
      BY <2>1, Bounds
    <3>2. Cardinality(Messages(i)') \in Nat
      BY <1>5, <3>1, MessagesSaid, Bounds
    <3> QED
      BY <1>4, <1>5, <3>1, <3>2, Repeats
  <2> QED
    BY <2>1, <2>2 DEF RepeatInv, Most
<1>6. CASE Return
  BY <1>5, <1>6, ReturnMoves, Bounds
<1>7. CASE Fail \/ PublishAndFail
  <2>1. batch > 0 /\ (UNCHANGED alerts \/ Send) /\ (TriedAgain \/ Moved(Dropped))
    BY <1>7, Failures
  <2>2. CASE TriedAgain
    <3>1. /\ checkpoint' = checkpoint /\ batch' = batch /\ thr' = Absent
          /\ attempt' = attempt + 1 /\ attempt' - 1 = attempt /\ sends' = 0
      BY <2>2, Bounds DEF TriedAgain, checkpoint
    <3>2. ASSUME NEW i \in checkpoint+1..checkpoint+batch
          PROVE  Cardinality(Messages(i)') <= SaidAtMost(i)'
      <4>1. i \in 1..checkpoint + batch
        BY Bounds
      <4>2. Cardinality(Messages(i)') <= Most(attempt)
        BY <1>4, <2>1, <4>1
      <4>3. SaidAtMost(i)' = Most(attempt) + 0
        BY <3>1 DEF SaidAtMost, Most
      <4> QED
        BY <2>1, <4>2, <4>3, Repeats
    <3>3. ASSUME NEW i \in 1..checkpoint
          PROVE  Cardinality(Messages(i)') <= Most(MaxAttempts)
      <4>1. i \in 1..checkpoint + batch
        BY Bounds
      <4> QED
        BY <1>4, <2>1, <4>1
    <3>4. attempt' >= 1
      BY <3>1, Bounds
    <3> QED
      BY <3>1, <3>2, <3>3, <3>4 DEF RepeatInv, Most
  <2> QED
    BY <1>5, <2>1, <2>2
<1> QED
  BY <1>0, <1>1, <1>2, <1>3, <1>6, <1>7 DEF ProcessorStep

\* However batches fail and however often answers of the topic get lost, a
\* subscriber sees the alert of one record at most as often as a batch is
\* tried times the requests botocore sends for one publish.
THEOREM RepeatsBounded == Spec => []AlertsRepeatBounded
<1>1. Init => RepeatInv
  <2> SUFFICES ASSUME Init PROVE RepeatInv
    OBVIOUS
  <2>1. /\ batch = 0 /\ 1..checkpoint = {} /\ sends = 0
        /\ checkpoint+1..checkpoint+batch = {}
    BY DEF Init, ProcessorInit, checkpoint
  <2> QED
    BY <2>1 DEF RepeatInv
<1>2. TypeOK /\ JudgeInv /\ RepeatInv /\ [Next]_vars => RepeatInv'
  <2>1. ASSUME TypeOK, RepeatInv, Others PROVE RepeatInv'
    <3>1. /\ UNCHANGED <<batch, attempt, thr, pos, sends, alerts>>
          /\ checkpoint' = checkpoint
      BY <2>1, OthersStep DEF Others
    <3> QED
      BY <2>1, <3>1 DEF RepeatInv, Messages, SaidAtMost, Most
  <2> QED
    BY <2>1, ConsumeRepeats DEF Next, Others
<1>3. TypeOK /\ JudgeInv /\ RepeatInv => AlertsRepeatBounded
  <2> SUFFICES ASSUME TypeOK, JudgeInv, RepeatInv, NEW i \in 1..Len(log)
               PROVE  Cardinality(Messages(i)) <= Most(MaxAttempts)
    BY DEF AlertsRepeatBounded, Messages, Most
  <2>1. Most(MaxAttempts) \in Nat
    BY Repeats
  <2>2. CASE i \in 1..checkpoint
    BY <2>2 DEF RepeatInv
  <2>3. CASE i \in checkpoint+1..checkpoint+batch
    <3>1. batch > 0 /\ Cardinality(Messages(i)) <= SaidAtMost(i)
      BY <2>3, Bounds DEF RepeatInv
    <3>2. Messages(i) \subseteq 1..Len(alerts) /\ Len(alerts) \in Nat
      BY Bounds DEF Messages
    <3>3. Cardinality(Messages(i)) \in Nat
      <4>1. IsFiniteSet(1..Len(alerts))
        BY <3>2, FS_Interval
      <4>2. IsFiniteSet(Messages(i))
        BY <3>2, <4>1, FS_Subset
      <4> QED
        BY <4>2, FS_CardinalityType
    <3>4. \/ SaidAtMost(i) = Most(attempt)
          \/ SaidAtMost(i) = Most(attempt - 1) + sends
          \/ SaidAtMost(i) = Most(attempt - 1) + 0
      BY DEF SaidAtMost
    <3> QED
      BY <3>1, <3>3, <3>4, Repeats
  <2>4. CASE i > checkpoint + batch
    <3>1. \A a \in DOMAIN alerts : alerts[a].rec # i
      BY <2>4, Bounds DEF JudgeInv, JudgedInv
    <3>2. Messages(i) = {}
      BY <3>1 DEF Messages
    <3> QED
      BY <2>1, <3>2, FS_EmptySet
  <2> QED
    BY <2>2, <2>3, <2>4, Bounds
<1> QED
  BY <1>1, <1>2, <1>3, TypeCorrect, JudgeHolds, PTL DEF Spec
=============================================================================
