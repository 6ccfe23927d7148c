------------------------ MODULE IngestStream_proofs -------------------------
(***************************************************************************)
(* The composed system implements Ingestion: its pipeline is one of the    *)
(* consumers Ingestion allows.  What Ingestion_proofs proves of Ingestion  *)
(* therefore holds of the process that runs both.                          *)
(***************************************************************************)
EXTENDS IngestStream, Ingestion_proofs

(* An event leaves a topic only while the server is up; no other step of a  *)
(* consumer touches the topics.                                             *)
LEMMA ConsumerOnlyMakesRoom ==
  ASSUME NEW t \in Tenants, Pipe!Consumer(t) \/ Pipe!SuppressionExpires(t)
  PROVE  \/ phase = "up" /\ topic[t] > 0 /\ topic' = [topic EXCEPT ![t] = @ - 1]
         \/ UNCHANGED topic
<1>1. CASE \E h \in Hours : \/ Pipe!Receive(t, h) \/ Pipe!ReceiveDenied(t, h)
                            \/ Pipe!ReceiveBurst(t, h)
  BY <1>1 DEF Pipe!Receive, Pipe!ReceiveDenied, Pipe!ReceiveBurst, Pipe!TakeEvent,
              Pipe!MoveConsumer
<1>2. CASE \/ Pipe!Subscribe(t) \/ Pipe!StoreAlert(t) \/ Pipe!Score(t) \/ Pipe!Flush(t)
           \/ Pipe!ConsumerRaises(t) \/ Pipe!SuppressionExpires(t)
  BY <1>2 DEF Pipe!Subscribe, Pipe!StoreAlert, Pipe!Score, Pipe!Flush,
              Pipe!ConsumerRaises, Pipe!SuppressionExpires
<1>3. QED
  BY <1>1, <1>2 DEF Pipe!Consumer

(* Every step of the process is a step of Ingestion or leaves it alone: the *)
(* pipeline task by task, and the shutdown, crash and restart they share.   *)
THEOREM SystemImplementsIngestion == SystemSpec => ImplementsIngestion
<1>1. SystemInit => Init
  BY DEF SystemInit
<1>2. [SystemNext]_systemVars => [Next]_vars
  <2> SUFFICES ASSUME [SystemNext]_systemVars PROVE Next \/ UNCHANGED vars
    OBVIOUS
  <2>1. CASE UNCHANGED systemVars
    BY <2>1 DEF systemVars
  <2>2. CASE \E j \in Jobs : Submit(j) \/ Answer(j)
    BY <2>2 DEF Next
  <2>3. CASE \E w \in Workers : Worker(w)
    BY <2>3 DEF Next
  <2>4. ASSUME NEW t \in Tenants,
               \/ PipelineStep(Pipe!Consumer(t))
               \/ PipelineStep(Pipe!SuppressionExpires(t))
        PROVE  Next \/ UNCHANGED vars
    <3>1. Pipe!Consumer(t) \/ Pipe!SuppressionExpires(t)
      BY <2>4 DEF PipelineStep
    <3>2. UNCHANGED <<procVars, queueVars, workerVars, req, rowVars, published>>
      BY <2>4 DEF PipelineStep
    <3>3. CASE UNCHANGED topic
      BY <3>2, <3>3 DEF vars, procVars, queueVars, workerVars, rowVars, busVars
    <3>4. CASE phase = "up" /\ topic[t] > 0 /\ topic' = [topic EXCEPT ![t] = @ - 1]
      BY <3>2, <3>4 DEF Next, ConsumeEvent, procVars, queueVars, workerVars, rowVars
    <3>5. QED
      BY <3>1, <3>3, <3>4, ConsumerOnlyMakesRoom
  <2>5. CASE BeginStop \/ PutStop \/ EndStop \/ Crash \/ Restart
    BY <2>5 DEF Next
  <2>6. QED
    BY <2>1, <2>2, <2>3, <2>4, <2>5 DEF SystemNext
<1>3. QED
  BY <1>1, <1>2, PTL DEF SystemSpec, ImplementsIngestion, Spec

(* So the promise JobLifecycle makes is kept by the whole process, and its  *)
(* shutdown always has enough stop items.                                   *)
COROLLARY SystemImplementsLifecycle ==
  SystemSpec => ImplementsLifecycle /\ []EnoughStopItems
  BY SystemImplementsIngestion, LifecycleImplemented, StopItemsSuffice DEF ImplementsIngestion

-----------------------------------------------------------------------------
(* What a step of the process does to the pipeline: nothing, one task's     *)
(* step, the shutdown, or a crash or restart.                               *)
LEMMA SystemCases ==
  ASSUME [SystemNext]_systemVars
  PROVE  \/ /\ UNCHANGED <<pipeVars, restarts>>
            /\ phase' = phase \/ (phase = "stopping" /\ phase' = "stopped")
         \/ \E t \in Tenants :
               /\ Pipe!Consumer(t) \/ Pipe!SuppressionExpires(t)
               /\ UNCHANGED <<phase, restarts>>
         \/ /\ Pipe!StopPipeline
            /\ phase' = "stopping"
            /\ UNCHANGED restarts
         \/ Pipe!Reset /\ phase' = "down" /\ UNCHANGED restarts
         \/ Pipe!Reset /\ restarts' = restarts + 1
<1>1. CASE UNCHANGED systemVars
  BY <1>1 DEF systemVars, vars, procVars
<1>2. ASSUME NEW j \in Jobs, Submit(j) \/ Answer(j) PROVE UNCHANGED procVars
  BY <1>2 DEF Submit, Answer, Enqueue, EnqueueWaits, EnqueueTimesOut, Refuse,
              RefuseRaises
<1>3. ASSUME NEW w \in Workers, Worker(w) PROVE UNCHANGED procVars
  BY <1>3 DEF Worker, Proceed, GetJob, GetStop, BeginJob, StreamLinesRaise, PublishEvent,
              CommitWork, CompleteJob, ProcessorRaises, RecordFailure,
              RecordFailureRaises
<1>4. ASSUME NEW t \in Tenants,
             \/ PipelineStep(Pipe!Consumer(t))
             \/ PipelineStep(Pipe!SuppressionExpires(t))
      PROVE  /\ Pipe!Consumer(t) \/ Pipe!SuppressionExpires(t)
             /\ UNCHANGED procVars
  BY <1>4 DEF PipelineStep
<1>5. CASE (PutStop \/ EndStop) /\ UNCHANGED pipeVars
  BY <1>5 DEF PutStop, EndStop, procVars
<1>6. CASE BeginStop /\ Pipe!StopPipeline
  BY <1>6 DEF BeginStop
<1>7. CASE (Crash \/ Restart) /\ Pipe!Reset
  BY <1>7 DEF Crash, Restart
<1>8. QED
  BY <1>1, <1>2, <1>3, <1>4, <1>5, <1>6, <1>7 DEF SystemNext, procVars

(* What receiving an event changes. *)
LEMMA ReceiveEffect ==
  ASSUME NEW t \in Tenants, NEW h \in Hours,
         Pipe!Receive(t, h) \/ Pipe!ReceiveDenied(t, h) \/ Pipe!ReceiveBurst(t, h)
  PROVE  /\ consumer[t] = "waiting"
         /\ \/ /\ consumer' = [consumer EXCEPT ![t] = "scoring"]
               /\ suppressed' = suppressed
            \/ /\ consumer' = [consumer EXCEPT ![t] = "alerting"]
               /\ suppressed' = [suppressed EXCEPT ![t] = TRUE]
         /\ hour' = [hour EXCEPT ![t] = h]
         /\ requests' = [requests EXCEPT ![t][h] = @ + 1]
         /\ \/ failures' = failures
            \/ failures' = [failures EXCEPT ![t] = Pipe!CountFailure(@, h)]
         /\ UNCHANGED <<alerts, rows>>
<1>1. CASE Pipe!Receive(t, h)
  BY <1>1 DEF Pipe!Receive, Pipe!TakeEvent, Pipe!MoveConsumer, Pipe!stored
<1>2. CASE Pipe!ReceiveDenied(t, h)
  BY <1>2 DEF Pipe!ReceiveDenied, Pipe!TakeEvent, Pipe!MoveConsumer, Pipe!stored
<1>3. CASE Pipe!ReceiveBurst(t, h)
  BY <1>3 DEF Pipe!ReceiveBurst, Pipe!TakeEvent, Pipe!MoveConsumer, Pipe!stored
<1>4. QED
  BY <1>1, <1>2, <1>3

(* What a step of a consumer that receives nothing and flushes nothing      *)
(* changes.                                                                 *)
QuietStep(t) ==
    \/ Pipe!Subscribe(t) \/ Pipe!StoreAlert(t) \/ Pipe!Score(t)
    \/ Pipe!ConsumerRaises(t) \/ Pipe!SuppressionExpires(t)

LEMMA QuietEffect ==
  ASSUME NEW t \in Tenants, QuietStep(t)
  PROVE  /\ UNCHANGED <<hour, requests, failures, rows>>
         /\ \/ /\ phase = "up"
               /\ consumer[t] = "none"
               /\ consumer' = [consumer EXCEPT ![t] = "waiting"]
               /\ UNCHANGED <<alerts, suppressed>>
            \/ /\ consumer[t] = "alerting"
               /\ consumer' = [consumer EXCEPT ![t] = "scoring"]
               /\ alerts' = [alerts EXCEPT ![t] = @ + 1]
               /\ UNCHANGED suppressed
            \/ /\ consumer[t] = "scoring"
               /\ consumer' = [consumer EXCEPT ![t] = Pipe!AfterScoring(t)]
               /\ UNCHANGED <<alerts, suppressed>>
            \/ /\ consumer' = [consumer EXCEPT ![t] = "dead"]
               /\ UNCHANGED <<alerts, suppressed>>
            \/ /\ suppressed' = [suppressed EXCEPT ![t] = FALSE]
               /\ UNCHANGED <<consumer, alerts>>
<1>1. CASE Pipe!Subscribe(t)
  BY <1>1 DEF Pipe!Subscribe, Pipe!MoveConsumer, Pipe!stored
<1>2. CASE Pipe!StoreAlert(t)
  BY <1>2 DEF Pipe!StoreAlert, Pipe!MoveConsumer
<1>3. CASE Pipe!Score(t)
  BY <1>3 DEF Pipe!Score, Pipe!MoveConsumer, Pipe!stored
<1>4. CASE Pipe!ConsumerRaises(t)
  BY <1>4 DEF Pipe!ConsumerRaises, Pipe!stored
<1>5. CASE Pipe!SuppressionExpires(t)
  BY <1>5 DEF Pipe!SuppressionExpires, Pipe!stored
<1>6. QED
  BY <1>1, <1>2, <1>3, <1>4, <1>5 DEF QuietStep

(* The next-state relation as seen by the pipeline, one disjunct per kind   *)
(* of step.                                                                 *)
LEMMA PipelineCases ==
  ASSUME NEW t \in Tenants, Pipe!Consumer(t) \/ Pipe!SuppressionExpires(t)
  PROVE  \/ \E h \in Hours :
               Pipe!Receive(t, h) \/ Pipe!ReceiveDenied(t, h) \/ Pipe!ReceiveBurst(t, h)
         \/ QuietStep(t)
         \/ Pipe!Flush(t)
  BY DEF Pipe!Consumer, QuietStep

(* The pipeline's own variables keep their types. *)
LEMMA PipeTypeStep ==
  TypeOK /\ TypeOK' /\ Pipe!TypeOK /\ [SystemNext]_systemVars => Pipe!TypeOK'
<1> SUFFICES ASSUME TypeOK', Pipe!TypeOK, [SystemNext]_systemVars
             PROVE  Pipe!TypeOK'
  OBVIOUS
<1>0. topic' \in [Tenants -> Nat] /\ (phase = "up")' \in BOOLEAN
  BY DEF TypeOK
<1>t. /\ consumer \in [Tenants -> Pipe!ConsumerStates]
      /\ hour \in [Tenants -> Hours]
      /\ requests \in [Tenants -> [Hours -> Nat]]
      /\ failures \in [Tenants -> [Hours -> Nat]]
      /\ suppressed \in [Tenants -> BOOLEAN]
      /\ alerts \in [Tenants -> Nat]
      /\ rows \in [Tenants -> [Hours -> Seq(Nat)]]
  BY DEF Pipe!TypeOK
<1>1. CASE UNCHANGED pipeVars
  BY <1>0, <1>t, <1>1 DEF pipeVars, Pipe!TypeOK
<1>2. ASSUME NEW t \in Tenants, NEW h \in Hours,
             Pipe!Receive(t, h) \/ Pipe!ReceiveDenied(t, h) \/ Pipe!ReceiveBurst(t, h)
      PROVE  Pipe!TypeOK'
  <2>1. Pipe!CountFailure(failures[t], h) \in [Hours -> Nat]
    <3>1. SUFFICES ASSUME NEW k \in Hours
                   PROVE  (IF k < h THEN 0
                           ELSE failures[t][k] + (IF k = h THEN 1 ELSE 0)) \in Nat
      BY DEF Pipe!CountFailure
    <3>2. failures[t][k] \in Nat
      BY <1>t
    <3>3. QED
      BY <3>2
  <2>2. failures' \in [Tenants -> [Hours -> Nat]]
    <3>1. \/ failures' = failures
          \/ failures' = [failures EXCEPT ![t] = Pipe!CountFailure(@, h)]
      BY <1>2, ReceiveEffect
    <3>2. QED
      BY <1>t, <2>1, <3>1
  <2>3. requests' \in [Tenants -> [Hours -> Nat]]
    <3>1. requests' = [requests EXCEPT ![t][h] = @ + 1]
      BY <1>2, ReceiveEffect
    <3>2. QED
      BY <1>t, <3>1
  <2>4. consumer' \in [Tenants -> Pipe!ConsumerStates]
    BY <1>t, <1>2, ReceiveEffect DEF Pipe!ConsumerStates
  <2>5. suppressed' \in [Tenants -> BOOLEAN]
    BY <1>t, <1>2, ReceiveEffect
  <2>6. hour' \in [Tenants -> Hours] /\ UNCHANGED <<alerts, rows>>
    <3>1. hour' = [hour EXCEPT ![t] = h] /\ UNCHANGED <<alerts, rows>>
      BY <1>2, ReceiveEffect
    <3>2. QED
      BY <1>t, <3>1
  <2>7. QED
    BY <1>0, <1>t, <2>2, <2>3, <2>4, <2>5, <2>6 DEF Pipe!TypeOK
<1>3. ASSUME NEW t \in Tenants, QuietStep(t) PROVE Pipe!TypeOK'
  <2>1. Pipe!AfterScoring(t) \in Pipe!ConsumerStates
    BY DEF Pipe!AfterScoring, Pipe!ConsumerStates
  <2>2. consumer' \in [Tenants -> Pipe!ConsumerStates]
    BY <1>t, <1>3, <2>1, QuietEffect DEF Pipe!ConsumerStates
  <2>3. alerts' \in [Tenants -> Nat]
    <3>1. alerts' = alerts \/ alerts' = [alerts EXCEPT ![t] = @ + 1]
      BY <1>3, QuietEffect
    <3>2. alerts \in [Tenants -> Nat]
      BY <1>t
    <3>3. QED
      BY <3>1, <3>2
  <2>4. suppressed' \in [Tenants -> BOOLEAN]
    BY <1>t, <1>3, QuietEffect
  <2>5. UNCHANGED <<hour, requests, failures, rows>>
    BY <1>3, QuietEffect
  <2>6. QED
    BY <1>0, <1>t, <2>2, <2>3, <2>4, <2>5 DEF Pipe!TypeOK
<1>4. ASSUME NEW t \in Tenants, Pipe!Flush(t) PROVE Pipe!TypeOK'
  <2>1. /\ consumer' = [consumer EXCEPT ![t] = "waiting"]
        /\ rows' = [rows EXCEPT ![t][hour[t]] = Append(@, requests[t][hour[t]])]
        /\ UNCHANGED <<hour, requests, failures, suppressed, alerts>>
    BY <1>4 DEF Pipe!Flush, Pipe!MoveConsumer
  <2>2. /\ hour[t] \in Hours /\ requests[t][hour[t]] \in Nat
        /\ rows[t][hour[t]] \in Seq(Nat)
    BY <1>t
  <2>3. Append(rows[t][hour[t]], requests[t][hour[t]]) \in Seq(Nat)
    BY <2>2
  <2>4. rows' \in [Tenants -> [Hours -> Seq(Nat)]]
    BY <1>t, <2>1, <2>3
  <2>5. consumer' \in [Tenants -> Pipe!ConsumerStates]
    BY <1>t, <2>1 DEF Pipe!ConsumerStates
  <2>6. QED
    BY <1>0, <1>t, <2>1, <2>4, <2>5 DEF Pipe!TypeOK
<1>5. CASE Pipe!StopPipeline
  BY <1>0, <1>t, <1>5
     DEF Pipe!StopPipeline, Pipe!NoTasks, Pipe!stored, Pipe!TypeOK, Pipe!ConsumerStates
<1>6. CASE Pipe!Reset
  BY <1>0, <1>t, <1>6, HoursAssumption
     DEF Pipe!Reset, Pipe!NoTasks, Pipe!AnyHour, Pipe!NoCounts, Pipe!NoAlertYet,
         Pipe!stored, Pipe!TypeOK, Pipe!ConsumerStates
<1>7. QED
  BY <1>1, <1>2, <1>3, <1>4, <1>5, <1>6, SystemCases, PipelineCases

(* Every variable of the composed system keeps its type. *)
THEOREM SystemTypeCorrect == SystemSpec => []SystemTypeOK
<1>1. SystemInit => Pipe!TypeOK
  BY HoursAssumption
     DEF SystemInit, Init, TypeOK, Pipe!TypeOK, Pipe!Init, Pipe!ConsumerStates,
         Pipe!NoTasks, Pipe!AnyHour, Pipe!NoCounts, Pipe!NoAlertYet
<1>2. SystemSpec => []TypeOK
  BY SystemImplementsIngestion, TypeCorrect DEF ImplementsIngestion
<1>3. QED
  BY <1>1, <1>2, PipeTypeStep, PTL DEF SystemSpec, SystemTypeOK

(* The strengthening NoPhantomSuppression needs: a tenant nobody has        *)
(* subscribed yet is not suppressed, so that a new consumer starts clean.   *)
StartsClean ==
    \A t \in Tenants : phase = "up" /\ consumer[t] = "none" => ~suppressed[t]

LEMMA SuppressionStep ==
  SystemTypeOK /\ StartsClean /\ NoPhantomSuppression /\ [SystemNext]_systemVars
    => StartsClean' /\ NoPhantomSuppression'
<1> SUFFICES ASSUME SystemTypeOK, StartsClean, NoPhantomSuppression,
                    [SystemNext]_systemVars
             PROVE  StartsClean' /\ NoPhantomSuppression'
  OBVIOUS
<1> USE DEF StartsClean, NoPhantomSuppression, Pipe!NoPhantomSuppression
<1>0. /\ consumer \in [Tenants -> Pipe!ConsumerStates]
      /\ suppressed \in [Tenants -> BOOLEAN]
      /\ alerts \in [Tenants -> Nat]
  BY DEF SystemTypeOK, Pipe!TypeOK
<1>1. ASSUME UNCHANGED pipeVars, phase' = phase \/ phase' = "stopped"
      PROVE  StartsClean' /\ NoPhantomSuppression'
  BY <1>1 DEF pipeVars
<1>2. ASSUME NEW t \in Tenants, NEW h \in Hours, UNCHANGED phase,
             Pipe!Receive(t, h) \/ Pipe!ReceiveDenied(t, h) \/ Pipe!ReceiveBurst(t, h)
      PROVE  StartsClean' /\ NoPhantomSuppression'
  BY <1>0, <1>2, ReceiveEffect
<1>3. ASSUME NEW t \in Tenants, UNCHANGED phase, QuietStep(t)
      PROVE  StartsClean' /\ NoPhantomSuppression'
  <2>1. Pipe!AfterScoring(t) \in {"waiting", "flushing"}
    BY DEF Pipe!AfterScoring
  <2>2. QED
    BY <1>0, <1>3, <2>1, QuietEffect
<1>4. ASSUME NEW t \in Tenants, UNCHANGED phase, Pipe!Flush(t)
      PROVE  StartsClean' /\ NoPhantomSuppression'
  BY <1>0, <1>4 DEF Pipe!Flush, Pipe!MoveConsumer
<1>5. CASE Pipe!StopPipeline /\ phase' = "stopping"
  BY <1>5 DEF Pipe!StopPipeline, Pipe!NoTasks
<1>6. CASE Pipe!Reset
  BY <1>6 DEF Pipe!Reset, Pipe!NoTasks, Pipe!NoAlertYet
<1>7. QED
  BY <1>1, <1>2, <1>3, <1>4, <1>5, <1>6, SystemCases, PipelineCases

(* While a consumer is at work, an alert is suppressed only because an      *)
(* earlier one of the tenant was committed: a consumer whose commit fails   *)
(* ends, and neither a subscription nor a restart brings its flag back.     *)
THEOREM SuppressionIsEarned == SystemSpec => []NoPhantomSuppression
<1>1. SystemInit => StartsClean /\ NoPhantomSuppression
  BY DEF SystemInit, Pipe!Init, Pipe!NoTasks, Pipe!NoAlertYet, StartsClean,
         NoPhantomSuppression, Pipe!NoPhantomSuppression
<1>2. QED
  BY <1>1, SystemTypeCorrect, SuppressionStep, PTL DEF SystemSpec

-----------------------------------------------------------------------------
(* The modulus of the flush, one period on. *)
LEMMA Multiples ==
  ASSUME NEW n \in Int, NEW k \in Int, NEW f \in Nat \ {0}, n = f * k
  PROVE  n % f = 0
  BY SMTT(30)

LEMMA NextMultiple ==
  ASSUME NEW n \in Nat, NEW f \in Nat \ {0}, n % f = 0
  PROVE  (n + f) % f = 0
<1>1. PICK k \in Int : n = f * k
  BY n = f * (n \div f) + (n % f) /\ (n \div f) \in Int
<1>2. n + f = f * (k + 1)
  BY <1>1
<1>3. QED
  BY <1>2, Multiples

LEMMA LastRowType ==
  ASSUME SystemTypeOK, NEW t \in Tenants, NEW h \in Hours
  PROVE  LastRow(t, h) \in Nat
<1>1. rows[t][h] \in Seq(Nat)
  BY DEF SystemTypeOK, Pipe!TypeOK
<1>2. QED
  BY <1>1 DEF LastRow

(* The rows of an hour, and what FlushLag needs: at each point of a         *)
(* consumer, how far the row of the hour in hand may lag.                   *)
RowsOK(t, h) == \A i \in 1..Len(rows[t][h]) : rows[t][h][i] = FlushEvery * i

LagOK(t, h) ==
    IF consumer[t] \in {"alerting", "scoring", "flushing"} /\ h = hour[t]
    THEN /\ Lag(t, h) \in 1..FlushEvery
         /\ consumer[t] = "flushing" => requests[t][h] % FlushEvery = 0
    ELSE /\ Lag(t, h) \in 0..FlushEvery
         /\ phase = "up" /\ consumer[t] # "dead" => Lag(t, h) < FlushEvery

LagInv ==
    /\ phase # "up" => \A t \in Tenants : consumer[t] = "none"
    /\ restarts = 0 => \A t \in Tenants, h \in Hours : RowsOK(t, h)
    /\ restarts = 0 /\ phase # "down" => \A t \in Tenants, h \in Hours : LagOK(t, h)

LEMMA LastRowMultiple ==
  ASSUME SystemTypeOK, NEW t \in Tenants, NEW h \in Hours, RowsOK(t, h)
  PROVE  /\ LastRow(t, h) = FlushEvery * Len(rows[t][h])
         /\ LastRow(t, h) % FlushEvery = 0
<1>1. rows[t][h] \in Seq(Nat) /\ FlushEvery \in Nat \ {0}
  BY ThresholdsAssumption DEF SystemTypeOK, Pipe!TypeOK
<1>2. LastRow(t, h) = FlushEvery * Len(rows[t][h])
  <2>1. CASE rows[t][h] = <<>>
    BY <1>1, <2>1 DEF LastRow
  <2>2. CASE rows[t][h] # <<>>
    <3>1. Len(rows[t][h]) \in 1..Len(rows[t][h])
      BY <1>1, <2>2
    <3>2. QED
      BY <2>2, <3>1 DEF LastRow, RowsOK
  <2>3. QED
    BY <2>1, <2>2
<1>3. LastRow(t, h) \in Int /\ Len(rows[t][h]) \in Int
  BY <1>1, LastRowType
<1>4. LastRow(t, h) % FlushEvery = 0
  BY <1>1, <1>2, <1>3, Multiples
<1>5. QED
  BY <1>2, <1>4

(* A count that is not a multiple of FlushEvery is not FlushEvery more than *)
(* a row, so that skipping the flush keeps the row close.                   *)
LEMMA NoFlushDue ==
  ASSUME NEW n \in Nat, NEW last \in Nat, last % FlushEvery = 0,
         n - last \in 1..FlushEvery, n % FlushEvery # 0
  PROVE  n - last \in 0..(FlushEvery - 1)
<1>1. FlushEvery \in Nat \ {0}
  BY ThresholdsAssumption
<1>2. n # last + FlushEvery
  BY <1>1, NextMultiple
<1>3. QED
  BY <1>1, <1>2

(* A count that is a multiple of FlushEvery and less than a period ahead of *)
(* a row, or just one, is exactly one period ahead.                         *)
LEMMA FlushDue ==
  ASSUME NEW n \in Nat, NEW last \in Nat, last % FlushEvery = 0,
         n - last \in 1..FlushEvery, n % FlushEvery = 0
  PROVE  n = last + FlushEvery
<1>1. FlushEvery \in Nat \ {0}
  BY ThresholdsAssumption
<1>2. PICK p \in Int : n = FlushEvery * p
  BY <1>1, n = FlushEvery * (n \div FlushEvery) + (n % FlushEvery) /\ (n \div FlushEvery) \in Int
<1>3. PICK q \in Int : last = FlushEvery * q
  BY <1>1, last = FlushEvery * (last \div FlushEvery) + (last % FlushEvery)
           /\ (last \div FlushEvery) \in Int
<1>4. n - last = FlushEvery * (p - q)
  BY <1>1, <1>2, <1>3
<1>5. p - q >= 1
  <2>1. p - q <= 0 => FlushEvery * (p - q) <= 0
    BY <1>1, <1>2, <1>3
  <2>2. QED
    BY <1>1, <1>2, <1>3, <1>4, <2>1
<1>6. p - q <= 1
  <2>1. p - q >= 2 => FlushEvery * (p - q) >= FlushEvery * 2
    BY <1>1, <1>2, <1>3
  <2>2. QED
    BY <1>1, <1>2, <1>3, <1>4, <2>1
<1>7. p - q = 1
  BY <1>2, <1>3, <1>5, <1>6
<1>8. QED
  BY <1>1, <1>4, <1>7

LEMMA AppendedRow ==
  ASSUME NEW s \in Seq(Nat), NEW n \in Nat
  PROVE  /\ Append(s, n) # <<>>
         /\ Len(Append(s, n)) = Len(s) + 1
         /\ Append(s, n)[Len(s) + 1] = n
  OBVIOUS

LEMMA LagStep == SystemTypeOK /\ LagInv /\ [SystemNext]_systemVars => LagInv'
<1> SUFFICES ASSUME SystemTypeOK, LagInv, [SystemNext]_systemVars PROVE LagInv'
  OBVIOUS
<1>t. /\ consumer \in [Tenants -> Pipe!ConsumerStates]
      /\ hour \in [Tenants -> Hours]
      /\ requests \in [Tenants -> [Hours -> Nat]]
      /\ rows \in [Tenants -> [Hours -> Seq(Nat)]]
      /\ restarts \in Nat
  BY DEF SystemTypeOK, Pipe!TypeOK, TypeOK
<1>f. FlushEvery \in Nat \ {0}
  BY ThresholdsAssumption
<1>1. ASSUME UNCHANGED <<pipeVars, restarts>>,
             phase' = phase \/ (phase = "stopping" /\ phase' = "stopped")
      PROVE  LagInv'
  <2>1. \A t \in Tenants, h \in Hours : LagOK(t, h) => LagOK(t, h)'
    BY <1>1 DEF LagOK, Lag, LastRow, pipeVars
  <2>2. \A t \in Tenants, h \in Hours : RowsOK(t, h) => RowsOK(t, h)'
    BY <1>1 DEF RowsOK, pipeVars
  <2>3. QED
    BY <1>1, <2>1, <2>2 DEF LagInv, pipeVars
<1>2. ASSUME NEW t \in Tenants, Pipe!Consumer(t) \/ Pipe!SuppressionExpires(t),
             UNCHANGED <<phase, restarts>>
      PROVE  LagInv'
  <2>1. phase = "up"
    BY <1>2 DEF Pipe!Consumer, Pipe!SuppressionExpires, Pipe!Subscribe, Pipe!Receive,
                Pipe!ReceiveDenied, Pipe!ReceiveBurst, Pipe!StoreAlert, Pipe!Score,
                Pipe!Flush, Pipe!ConsumerRaises, Pipe!MoveConsumer
  <2>2. SUFFICES ASSUME restarts = 0, NEW u \in Tenants, NEW k \in Hours
                 PROVE  RowsOK(u, k)' /\ LagOK(u, k)'
    BY <1>2, <2>1 DEF LagInv
  <2>3. RowsOK(u, k) /\ LagOK(u, k) /\ phase' = "up"
    BY <1>2, <2>1, <2>2 DEF LagInv
  <2>4. /\ requests[u][k] \in Nat /\ LastRow(u, k) \in Nat
        /\ rows[u][k] \in Seq(Nat)
        /\ LastRow(u, k) % FlushEvery = 0
    BY <1>t, <2>3, LastRowType, LastRowMultiple
  <2>5. ASSUME UNCHANGED <<hour, requests, rows>>,
               UNCHANGED consumer \/ u # t \/ consumer'[t] = "dead",
               \A v \in Tenants : v # t => consumer'[v] = consumer[v]
        PROVE  LagOK(u, k)'
    <3>1. Lag(u, k)' = Lag(u, k)
      BY <2>5 DEF Lag, LastRow
    <3>2. CASE consumer'[u] = consumer[u]
      BY <2>1, <2>3, <2>5, <3>1, <3>2 DEF LagOK
    <3>3. CASE consumer'[u] = "dead"
      <4>1. Lag(u, k) \in 0..FlushEvery
        BY <1>f, <2>3 DEF LagOK
      <4>2. QED
        BY <3>1, <3>3, <4>1 DEF LagOK
    <3>4. QED
      BY <2>5, <3>2, <3>3
  <2>6. ASSUME NEW h \in Hours,
               \/ Pipe!Receive(t, h) \/ Pipe!ReceiveDenied(t, h)
               \/ Pipe!ReceiveBurst(t, h)
        PROVE  RowsOK(u, k)' /\ LagOK(u, k)'
    <3>1. /\ consumer[t] = "waiting"
          /\ \/ consumer' = [consumer EXCEPT ![t] = "scoring"]
             \/ consumer' = [consumer EXCEPT ![t] = "alerting"]
          /\ hour' = [hour EXCEPT ![t] = h]
          /\ requests' = [requests EXCEPT ![t][h] = @ + 1]
          /\ rows' = rows
      BY <2>6, ReceiveEffect
    <3>2. LastRow(u, k)' = LastRow(u, k) /\ RowsOK(u, k)'
      BY <2>3, <3>1 DEF LastRow, RowsOK
    <3>3. CASE u # t
      <4>1. /\ consumer'[u] = consumer[u] /\ hour'[u] = hour[u]
            /\ requests'[u] = requests[u]
        BY <1>t, <3>1, <3>3
      <4>2. Lag(u, k)' = Lag(u, k)
        BY <3>2, <4>1 DEF Lag
      <4>3. QED
        BY <2>3, <2>1, <3>2, <4>1, <4>2 DEF LagOK
    <3>4. CASE u = t /\ k # h
      <4>1. /\ consumer'[u] \in {"scoring", "alerting"} /\ hour'[u] = h
            /\ requests'[u][k] = requests[u][k]
        BY <1>t, <3>1, <3>4
      <4>2. Lag(u, k)' = Lag(u, k)
        BY <3>2, <4>1 DEF Lag
      <4>3. Lag(u, k) \in 0..FlushEvery /\ Lag(u, k) < FlushEvery
        BY <2>1, <2>3, <3>1, <3>4 DEF LagOK
      <4>4. QED
        BY <3>2, <3>4, <4>1, <4>2, <4>3 DEF LagOK
    <3>5. CASE u = t /\ k = h
      <4>1. requests'[u][k] = requests[u][k] + 1
        BY <1>t, <3>1, <3>5
      <4>2. Lag(u, k) \in 0..FlushEvery /\ Lag(u, k) < FlushEvery
        BY <2>1, <2>3, <3>1, <3>5 DEF LagOK
      <4>3. Lag(u, k)' = Lag(u, k) + 1
        BY <2>4, <3>2, <4>1 DEF Lag
      <4>4. Lag(u, k)' \in 1..FlushEvery
        BY <1>f, <4>2, <4>3
      <4>5. consumer'[u] \in {"scoring", "alerting"} /\ hour'[u] = k
        BY <1>t, <3>1, <3>5
      <4>6. QED
        BY <3>2, <4>4, <4>5 DEF LagOK
    <3>6. QED
      BY <3>3, <3>4, <3>5
  <2>7. ASSUME QuietStep(t) PROVE RowsOK(u, k)' /\ LagOK(u, k)'
    <3>1. UNCHANGED <<hour, requests, rows>>
      BY <2>7, QuietEffect
    <3>2. \/ UNCHANGED consumer
          \/ \E c \in Pipe!ConsumerStates :
                /\ consumer' = [consumer EXCEPT ![t] = c]
                /\ \/ consumer[t] = "none" /\ c = "waiting"
                   \/ consumer[t] = "alerting" /\ c = "scoring"
                   \/ consumer[t] = "scoring" /\ c = Pipe!AfterScoring(t)
                   \/ c = "dead"
      <4>1. Pipe!AfterScoring(t) \in Pipe!ConsumerStates
        BY DEF Pipe!AfterScoring, Pipe!ConsumerStates
      <4>2. {"waiting", "scoring", "dead"} \subseteq Pipe!ConsumerStates
        BY DEF Pipe!ConsumerStates
      <4>3. QED
        BY <2>7, <4>1, <4>2, QuietEffect
    <3>3. /\ RowsOK(u, k)' /\ LastRow(u, k)' = LastRow(u, k)
          /\ Lag(u, k)' = Lag(u, k)
      BY <2>3, <3>1 DEF RowsOK, LastRow, Lag
    <3>4. CASE UNCHANGED consumer
      BY <2>5, <3>1, <3>3, <3>4
    <3>5. ASSUME NEW c \in Pipe!ConsumerStates,
                 consumer' = [consumer EXCEPT ![t] = c],
                 \/ consumer[t] = "none" /\ c = "waiting"
                 \/ consumer[t] = "alerting" /\ c = "scoring"
                 \/ consumer[t] = "scoring" /\ c = Pipe!AfterScoring(t)
                 \/ c = "dead"
          PROVE  LagOK(u, k)'
      <4>1. consumer'[t] = c /\ \A v \in Tenants : v # t => consumer'[v] = consumer[v]
        BY <1>t, <3>5
      <4>2. CASE u # t \/ c = "dead"
        BY <2>5, <3>1, <4>1, <4>2
      <4>3. CASE u = t /\ consumer[t] = "none" /\ c = "waiting"
        <5>1. Lag(u, k) \in 0..FlushEvery /\ Lag(u, k) < FlushEvery
          BY <2>1, <2>3, <4>3 DEF LagOK
        <5>2. QED
          BY <3>3, <4>1, <4>3, <5>1 DEF LagOK
      <4>4. CASE u = t /\ consumer[t] = "alerting" /\ c = "scoring"
        <5>1. consumer'[u] = "scoring" /\ hour' = hour
          BY <3>1, <4>1, <4>4
        <5>2. IF k = hour[u] THEN Lag(u, k) \in 1..FlushEvery
                             ELSE Lag(u, k) \in 0..FlushEvery /\ Lag(u, k) < FlushEvery
          BY <2>1, <2>3, <4>4 DEF LagOK
        <5>3. QED
          BY <3>3, <5>1, <5>2 DEF LagOK
      <4>5. CASE u = t /\ consumer[t] = "scoring" /\ c = Pipe!AfterScoring(t)
        <5>1. hour' = hour /\ requests' = requests
          BY <3>1
        <5>2. IF k = hour[u] THEN Lag(u, k) \in 1..FlushEvery
                             ELSE Lag(u, k) \in 0..FlushEvery /\ Lag(u, k) < FlushEvery
          BY <2>1, <2>3, <4>5 DEF LagOK
        <5>3. CASE requests[t][hour[t]] % FlushEvery = 0
          <6>1. consumer'[u] = "flushing"
            BY <4>1, <4>5, <5>3 DEF Pipe!AfterScoring
          <6>2. k = hour[u] => requests'[u][k] % FlushEvery = 0
            BY <4>5, <5>1, <5>3
          <6>3. QED
            BY <3>3, <5>1, <5>2, <6>1, <6>2 DEF LagOK
        <5>4. CASE requests[t][hour[t]] % FlushEvery # 0
          <6>1. consumer'[u] = "waiting"
            BY <4>1, <4>5, <5>4 DEF Pipe!AfterScoring
          <6>2. Lag(u, k) \in 0..FlushEvery /\ Lag(u, k) < FlushEvery
            <7>1. CASE k # hour[u]
              BY <5>2, <7>1
            <7>2. CASE k = hour[u]
              <8>1. requests[u][k] - LastRow(u, k) \in 1..FlushEvery
                BY <5>2, <7>2 DEF Lag
              <8>2. requests[u][k] % FlushEvery # 0
                BY <4>5, <5>4, <7>2
              <8>3. requests[u][k] - LastRow(u, k) \in 0..(FlushEvery - 1)
                BY <2>4, <8>1, <8>2, NoFlushDue
              <8>4. QED
                BY <1>f, <8>3 DEF Lag
            <7>3. QED
              BY <7>1, <7>2
          <6>3. QED
            BY <3>3, <6>1, <6>2 DEF LagOK
        <5>5. QED
          BY <5>3, <5>4
      <4>6. QED
        BY <3>5, <4>2, <4>3, <4>4, <4>5
    <3>6. QED
      BY <3>2, <3>3, <3>4, <3>5
  <2>8. ASSUME Pipe!Flush(t) PROVE RowsOK(u, k)' /\ LagOK(u, k)'
    <3>1. /\ consumer[t] = "flushing"
          /\ consumer' = [consumer EXCEPT ![t] = "waiting"]
          /\ rows' = [rows EXCEPT ![t][hour[t]] = Append(@, requests[t][hour[t]])]
          /\ UNCHANGED <<hour, requests>>
      BY <2>8 DEF Pipe!Flush, Pipe!MoveConsumer
    <3>2. CASE u # t
      <4>1. consumer'[u] = consumer[u] /\ rows'[u] = rows[u]
        BY <1>t, <3>1, <3>2
      <4>2. RowsOK(u, k)' /\ Lag(u, k)' = Lag(u, k)
        BY <2>3, <3>1, <4>1 DEF RowsOK, Lag, LastRow
      <4>3. QED
        BY <2>1, <2>3, <3>1, <4>1, <4>2 DEF LagOK
    <3>3. CASE u = t /\ k # hour[t]
      <4>1. consumer'[u] = "waiting" /\ rows'[u][k] = rows[u][k]
        BY <1>t, <3>1, <3>3
      <4>2. RowsOK(u, k)' /\ Lag(u, k)' = Lag(u, k)
        <5>1. RowsOK(u, k)'
          BY <2>3, <4>1 DEF RowsOK
        <5>2. LastRow(u, k)' = LastRow(u, k)
          BY <4>1 DEF LastRow
        <5>3. QED
          BY <3>1, <5>1, <5>2 DEF Lag
      <4>3. Lag(u, k) \in 0..FlushEvery /\ Lag(u, k) < FlushEvery
        BY <2>1, <2>3, <3>1, <3>3 DEF LagOK
      <4>4. QED
        BY <4>1, <4>2, <4>3 DEF LagOK
    <3>4. CASE u = t /\ k = hour[t]
      <4>1. /\ rows'[u][k] = Append(rows[u][k], requests[u][k])
            /\ consumer'[u] = "waiting" /\ requests'[u][k] = requests[u][k]
        BY <1>t, <3>1, <3>4
      <4>2. Lag(u, k)' = 0
        <5>1. /\ rows'[u][k] # <<>>
              /\ Len(rows'[u][k]) = Len(rows[u][k]) + 1
              /\ rows'[u][k][Len(rows[u][k]) + 1] = requests[u][k]
          <6>1. rows[u][k] \in Seq(Nat) /\ requests[u][k] \in Nat
            BY <2>4
          <6>2. QED
            BY <4>1, <6>1, AppendedRow
        <5>2. LastRow(u, k)' = requests[u][k]
          BY <5>1 DEF LastRow
        <5>3. QED
          BY <2>4, <4>1, <5>2 DEF Lag
      <4>3. /\ requests[u][k] % FlushEvery = 0
            /\ requests[u][k] - LastRow(u, k) \in 1..FlushEvery
        BY <2>3, <3>1, <3>4 DEF LagOK, Lag
      <4>4. requests[u][k] = FlushEvery * Len(rows[u][k]) + FlushEvery
        BY <2>3, <2>4, <4>3, FlushDue, LastRowMultiple
      <4>5. requests[u][k] = FlushEvery * (Len(rows[u][k]) + 1)
        <5>1. Len(rows[u][k]) \in Nat
          BY <2>4
        <5>2. \A m \in Nat : FlushEvery * m + FlushEvery = FlushEvery * (m + 1)
          BY <1>f
        <5>3. QED
          BY <4>4, <5>1, <5>2
      <4>6. RowsOK(u, k)'
        <5>1. SUFFICES ASSUME NEW i \in 1..Len(rows'[u][k])
                       PROVE  rows'[u][k][i] = FlushEvery * i
          BY DEF RowsOK
        <5>2. CASE i = Len(rows[u][k]) + 1
          BY <2>4, <4>1, <4>5, <5>2
        <5>3. CASE i # Len(rows[u][k]) + 1
          <6>1. i \in 1..Len(rows[u][k]) /\ rows'[u][k][i] = rows[u][k][i]
            BY <2>4, <4>1, <5>1, <5>3
          <6>2. QED
            BY <2>3, <6>1 DEF RowsOK
        <5>4. QED
          BY <5>2, <5>3
      <4>7. QED
        BY <1>f, <4>1, <4>2, <4>6 DEF LagOK
    <3>5. QED
      BY <3>2, <3>3, <3>4
  <2>9. QED
    BY <1>2, <2>6, <2>7, <2>8, PipelineCases
<1>3. CASE Pipe!StopPipeline /\ phase' = "stopping" /\ UNCHANGED restarts
  <2>1. /\ UNCHANGED <<hour, requests, rows>> /\ consumer' = [t \in Tenants |-> "none"]
        /\ phase = "up"
    BY <1>3 DEF Pipe!StopPipeline, Pipe!NoTasks, Pipe!stored
  <2>2. ASSUME NEW t \in Tenants, NEW h \in Hours, LagOK(t, h) PROVE LagOK(t, h)'
    <3>1. Lag(t, h)' = Lag(t, h)
      BY <2>1 DEF Lag, LastRow
    <3>2. Lag(t, h) \in 0..FlushEvery
      BY <1>f, <2>2 DEF LagOK
    <3>3. QED
      BY <1>3, <2>1, <3>1, <3>2 DEF LagOK
  <2>3. \A t \in Tenants, h \in Hours : RowsOK(t, h) => RowsOK(t, h)'
    BY <2>1 DEF RowsOK
  <2>4. QED
    BY <1>3, <2>1, <2>2, <2>3 DEF LagInv
<1>4. CASE Pipe!Reset /\ phase' = "down" /\ UNCHANGED restarts
  <2>1. \A t \in Tenants, h \in Hours : RowsOK(t, h) => RowsOK(t, h)'
    BY <1>4 DEF RowsOK, Pipe!Reset, Pipe!stored
  <2>2. QED
    BY <1>4, <2>1 DEF LagInv, Pipe!Reset, Pipe!NoTasks
<1>5. CASE Pipe!Reset /\ restarts' = restarts + 1
  <2>1. restarts' # 0
    BY <1>t, <1>5
  <2>2. QED
    BY <1>5, <2>1 DEF LagInv, Pipe!Reset, Pipe!NoTasks
<1>6. QED
  BY <1>1, <1>2, <1>3, <1>4, <1>5, SystemCases

LEMMA LagInvariance == SystemSpec => []LagInv
<1>1. SystemInit => LagInv
  <2> SUFFICES ASSUME SystemInit, NEW t \in Tenants, NEW h \in Hours
               PROVE  consumer[t] = "none" /\ RowsOK(t, h) /\ LagOK(t, h)
    BY DEF LagInv, SystemInit, Init
  <2>1. consumer[t] = "none" /\ requests[t][h] = 0 /\ rows[t][h] = <<>>
    BY DEF SystemInit, Pipe!Init, Pipe!NoTasks, Pipe!NoCounts
  <2>2. Lag(t, h) = 0 /\ FlushEvery \in Nat \ {0}
    BY <2>1, ThresholdsAssumption DEF Lag, LastRow
  <2>3. RowsOK(t, h)
    BY <2>1 DEF RowsOK
  <2>4. QED
    BY <2>1, <2>2, <2>3 DEF LagOK
<1>2. QED
  BY <1>1, SystemTypeCorrect, LagStep, PTL DEF SystemSpec

(* In the first process, for any FlushEvery: the latest hourly row of a     *)
(* live consumer lags behind the requests counted by less than FlushEvery;  *)
(* a consumer that died, or that a shutdown or a crash cuts off at any      *)
(* step, has at most FlushEvery requests of an hour in no row.              *)
THEOREM RowsLagLittle == SystemSpec => []FlushLag
<1>1. LagInv => FlushLag
  <2> SUFFICES ASSUME LagInv, restarts = 0, phase # "down",
                      NEW t \in Tenants, NEW h \in Hours
               PROVE  /\ Lag(t, h) \in 0..FlushEvery
                      /\ consumer[t] = "waiting" => Lag(t, h) < FlushEvery
    BY DEF FlushLag
  <2>1. LagOK(t, h) /\ (phase = "up" \/ consumer[t] = "none")
    BY DEF LagInv
  <2>2. FlushEvery \in Nat \ {0}
    BY ThresholdsAssumption
  <2>3. QED
    BY <2>1, <2>2 DEF LagOK
<1>2. QED
  BY <1>1, LagInvariance, PTL

(* The rows one process stores for an hour are a running total with no gap  *)
(* and no repetition: the i-th holds exactly i times FlushEvery.            *)
THEOREM RowsAreARunningTotal == SystemSpec => []RowsAreMultiples
<1>1. LagInv => RowsAreMultiples
  BY DEF LagInv, RowsOK, RowsAreMultiples
<1>2. QED
  BY <1>1, LagInvariance, PTL

-----------------------------------------------------------------------------
(* Conservation of events.  What a step does to the topics, to what batches *)
(* have published and to the counters: at most one event moves.             *)
LEMMA EventCases ==
  ASSUME [SystemNext]_systemVars, restarts' = 0, phase' # "down", restarts \in Nat
  PROVE  /\ restarts = 0 /\ phase # "down"
         /\ \/ UNCHANGED <<topic, published, requests>>
            \/ (\E w \in Workers : PublishEvent(w)) /\ UNCHANGED requests
            \/ /\ UNCHANGED published
               /\ \E t \in Tenants, h \in Hours :
                     /\ topic[t] > 0
                     /\ topic' = [topic EXCEPT ![t] = @ - 1]
                     /\ requests' = [requests EXCEPT ![t][h] = @ + 1]
<1> USE DEF busVars
<1>1. restarts = 0 /\ phase # "down"
  <2>1. Pipe!StopPipeline => phase = "up"
    BY DEF Pipe!StopPipeline
  <2>2. restarts' # restarts + 1
    OBVIOUS
  <2>3. /\ phase' = phase \/ phase = "stopping" \/ phase = "up"
        /\ restarts' = restarts
    BY <2>1, <2>2, SystemCases
  <2>4. QED
    BY <2>3
<1>2. CASE UNCHANGED systemVars
  BY <1>1, <1>2 DEF systemVars, vars, pipeVars
<1>3. ASSUME NEW j \in Jobs, Submit(j) \/ Answer(j), UNCHANGED pipeVars
      PROVE  UNCHANGED <<topic, published, requests>>
  BY <1>3 DEF Submit, Answer, Enqueue, EnqueueWaits, EnqueueTimesOut, Refuse,
              RefuseRaises, pipeVars
<1>4. ASSUME NEW w \in Workers, Worker(w), UNCHANGED pipeVars
      PROVE  \/ UNCHANGED <<topic, published, requests>>
             \/ PublishEvent(w) /\ UNCHANGED requests
  BY <1>4 DEF Worker, Proceed, GetJob, GetStop, BeginJob, StreamLinesRaise, CommitWork,
              CompleteJob, ProcessorRaises, RecordFailure, RecordFailureRaises, pipeVars
<1>5. ASSUME NEW t \in Tenants,
             \/ PipelineStep(Pipe!Consumer(t))
             \/ PipelineStep(Pipe!SuppressionExpires(t))
      PROVE  /\ UNCHANGED published
             /\ \/ UNCHANGED <<topic, requests>>
                \/ \E h \in Hours : /\ topic[t] > 0
                                    /\ topic' = [topic EXCEPT ![t] = @ - 1]
                                    /\ requests' = [requests EXCEPT ![t][h] = @ + 1]
  <2>1. UNCHANGED published /\ (Pipe!Consumer(t) \/ Pipe!SuppressionExpires(t))
    BY <1>5 DEF PipelineStep
  <2>2. ASSUME NEW h \in Hours,
               Pipe!Receive(t, h) \/ Pipe!ReceiveDenied(t, h) \/ Pipe!ReceiveBurst(t, h)
        PROVE  /\ topic[t] > 0
               /\ topic' = [topic EXCEPT ![t] = @ - 1]
               /\ requests' = [requests EXCEPT ![t][h] = @ + 1]
    BY <2>2 DEF Pipe!Receive, Pipe!ReceiveDenied, Pipe!ReceiveBurst, Pipe!TakeEvent
  <2>3. QuietStep(t) \/ Pipe!Flush(t) => UNCHANGED <<topic, requests>>
    BY DEF QuietStep, Pipe!Subscribe, Pipe!StoreAlert, Pipe!Score, Pipe!ConsumerRaises,
           Pipe!SuppressionExpires, Pipe!Flush
  <2>4. QED
    BY <2>1, <2>2, <2>3, PipelineCases
<1>6. CASE BeginStop /\ Pipe!StopPipeline
  BY <1>6 DEF BeginStop, Pipe!StopPipeline
<1>7. CASE (PutStop \/ EndStop) /\ UNCHANGED pipeVars
  BY <1>1, <1>7 DEF PutStop, EndStop, pipeVars
<1>8. ~Crash /\ ~Restart
  BY DEF Crash, Restart
<1>9. QED
  BY <1>1, <1>2, <1>3, <1>4, <1>5, <1>6, <1>7, <1>8 DEF SystemNext

(* Counting one more event adds one pair; publishing one more does too.     *)
LEMMA CountingAddsOne ==
  ASSUME Pipe!TypeOK, NEW t \in Tenants, NEW h \in Hours, NEW u \in Tenants,
         requests' = [requests EXCEPT ![t][h] = @ + 1], IsFiniteSet(CountedEvents(u))
  PROVE  /\ IsFiniteSet(CountedEvents(u)')
         /\ Handled(u)' = Handled(u) + (IF u = t THEN 1 ELSE 0)
<1>0. requests \in [Tenants -> [Hours -> Nat]] /\ HoursAssumption
  BY HoursAssumption DEF Pipe!TypeOK, HoursAssumption
<1> DEFINE n == requests[t][h]
           e == <<h, n + 1>>
<1>1. n \in Nat /\ Handled(u) \in Nat
  BY <1>0, FS_CardinalityType DEF Handled
<1>2. CASE u = t
  <2>1. /\ requests'[t][h] = n + 1
        /\ \A k \in Hours : k # h => requests'[t][k] = requests[t][k]
    BY <1>0
  <2>2. 1..(n + 1) = (1..n) \cup {n + 1}
    BY <1>1
  <2>3. CountedEvents(t)' = CountedEvents(t) \cup {e}
    <3>1. \A k, i : <<k, i>> \in CountedEvents(t)'
                      <=> k \in Hours /\ i \in 1..requests'[t][k]
      BY DEF CountedEvents
    <3>2. \A k, i : <<k, i>> \in CountedEvents(t)
                      <=> k \in Hours /\ i \in 1..requests[t][k]
      BY DEF CountedEvents
    <3>e. \A k, i : <<k, i>> = e <=> k = h /\ i = n + 1
      OBVIOUS
    <3>3. \A k, i : <<k, i>> \in CountedEvents(t)' <=> <<k, i>> \in CountedEvents(t) \cup {e}
      <4>1. \A k \in Hours : \A i :
                i \in 1..requests'[t][k] <=> i \in 1..requests[t][k] \/ (k = h /\ i = n + 1)
        BY <2>1, <2>2
      <4>2. \A x : x \in CountedEvents(t) \cup {e} <=> x \in CountedEvents(t) \/ x = e
        OBVIOUS
      <4> HIDE DEF e
      <4>3. QED
        BY <3>1, <3>2, <3>e, <4>1, <4>2
    <3>4. \A x \in CountedEvents(t) \cup {e} : \E k, i : x = <<k, i>>
      BY DEF CountedEvents
    <3>5. \A x \in CountedEvents(t)' : \E k, i : x = <<k, i>>
      BY DEF CountedEvents
    <3>6. QED
      BY <3>3, <3>4, <3>5
  <2>4. e \notin CountedEvents(t)
    <3>1. ~(n + 1 \in 1..n)
      BY <1>1
    <3>2. QED
      BY <3>1 DEF CountedEvents
  <2>5. /\ IsFiniteSet(CountedEvents(t) \cup {e})
        /\ Cardinality(CountedEvents(t) \cup {e}) = Cardinality(CountedEvents(t)) + 1
    <3> HIDE DEF e
    <3>1. QED
      BY <1>2, <2>4, FS_AddElement
  <2>6. QED
    BY <1>2, <2>3, <2>5 DEF Handled
<1>3. CASE u # t
  <2>1. requests'[u] = requests[u]
    BY <1>0, <1>3
  <2>2. CountedEvents(u)' = CountedEvents(u)
    BY <2>1 DEF CountedEvents
  <2>3. QED
    BY <1>1, <1>3, <2>2 DEF Handled
<1>4. QED
  BY <1>2, <1>3

LEMMA PublishingAddsOne ==
  ASSUME TypeOK, NEW w \in Workers, PublishEvent(w), NEW u \in Tenants,
         IsFiniteSet(PublishedEvents(u))
  PROVE  /\ IsFiniteSet(PublishedEvents(u)')
         /\ Published(u)' = Published(u) + (topic'[u] - topic[u])
         /\ topic[u] \in Nat /\ topic'[u] \in Nat
<1> DEFINE j == item[w]
           n == published[j]
           e == <<j, n + 1>>
<1>0. /\ j \in BatchJobs
      /\ published' = [published EXCEPT ![j] = @ + 1]
      /\ topic' = [topic EXCEPT ![Owner[j]] = @ + 1]
      /\ published \in [Jobs -> 0..BatchSize] /\ topic \in [Tenants -> 0..TopicMax]
      /\ BatchJobs \subseteq Jobs
  BY DEF PublishEvent, TypeOK, Jobs
<1>1. n \in Nat /\ Published(u) \in Nat /\ topic[u] \in Nat
  BY <1>0, FS_CardinalityType, BoundsAssumption DEF Published
<1>2. /\ published'[j] = n + 1
      /\ \A k \in BatchJobs : k # j => published'[k] = published[k]
  BY <1>0
<1>3. CASE Owner[j] = u
  <2>1. 1..(n + 1) = (1..n) \cup {n + 1}
    BY <1>1
  <2>2. PublishedEvents(u)' = PublishedEvents(u) \cup {e}
    <3>1. \A k, i : <<k, i>> \in PublishedEvents(u)'
                      <=> k \in EventsOf(u) /\ i \in 1..published'[k]
      BY DEF PublishedEvents, EventsOf
    <3>2. \A k, i : <<k, i>> \in PublishedEvents(u)
                      <=> k \in EventsOf(u) /\ i \in 1..published[k]
      BY DEF PublishedEvents
    <3>3. j \in EventsOf(u) /\ \A k \in EventsOf(u) : k # j => published'[k] = published[k]
      BY <1>0, <1>2, <1>3 DEF EventsOf
    <3>e. \A k, i : <<k, i>> = e <=> k = j /\ i = n + 1
      OBVIOUS
    <3>4. \A k, i : <<k, i>> \in PublishedEvents(u)'
                      <=> <<k, i>> \in PublishedEvents(u) \cup {e}
      <4>1. \A k \in EventsOf(u) : \A i :
                i \in 1..published'[k] <=> i \in 1..published[k] \/ (k = j /\ i = n + 1)
        BY <1>2, <2>1, <3>3
      <4>2. \A x : x \in PublishedEvents(u) \cup {e} <=> x \in PublishedEvents(u) \/ x = e
        OBVIOUS
      <4>3. QED
        BY <3>1, <3>2, <3>3, <3>e, <4>1, <4>2
    <3>5. \A x \in PublishedEvents(u) \cup {e} : \E k, i : x = <<k, i>>
      BY DEF PublishedEvents
    <3>6. \A x \in PublishedEvents(u)' : \E k, i : x = <<k, i>>
      BY DEF PublishedEvents, EventsOf
    <3>7. QED
      BY <3>4, <3>5, <3>6
  <2>3. e \notin PublishedEvents(u)
    <3>1. ~(n + 1 \in 1..n)
      BY <1>1
    <3>2. QED
      BY <3>1 DEF PublishedEvents
  <2>4. topic'[u] = topic[u] + 1
    BY <1>0, <1>3
  <2>5. IsFiniteSet(PublishedEvents(u)') /\ Published(u)' = Published(u) + 1
    BY <2>2, <2>3, FS_AddElement DEF Published
  <2>6. QED
    BY <1>1, <2>4, <2>5
<1>4. CASE Owner[j] # u
  <2>1. \A k \in EventsOf(u) : published'[k] = published[k]
    BY <1>2, <1>4 DEF EventsOf
  <2>2. PublishedEvents(u)' = PublishedEvents(u)
    BY <2>1 DEF PublishedEvents, EventsOf
  <2>3. topic'[u] = topic[u]
    BY <1>0, <1>4
  <2>4. Published(u)' = Published(u)
    BY <2>2 DEF Published
  <2>5. QED
    BY <1>1, <2>2, <2>3, <2>4
<1>5. QED
  BY <1>3, <1>4

(* The sum EventsConserved states, with the finiteness its counting needs.  *)
Balanced(u) ==
    /\ IsFiniteSet(CountedEvents(u)) /\ IsFiniteSet(PublishedEvents(u))
    /\ topic[u] + Handled(u) = Published(u)

ConservedInv == restarts = 0 /\ phase # "down" => \A u \in Tenants : Balanced(u)

LEMMA ConservedStep ==
  SystemTypeOK /\ ConservedInv /\ [SystemNext]_systemVars => ConservedInv'
<1> SUFFICES ASSUME SystemTypeOK, ConservedInv, [SystemNext]_systemVars,
                    restarts' = 0, phase' # "down", NEW u \in Tenants
             PROVE  Balanced(u)'
  BY DEF ConservedInv
<1>0. TypeOK /\ Pipe!TypeOK
  BY DEF SystemTypeOK
<1>1. restarts \in Nat /\ topic \in [Tenants -> 0..TopicMax] /\ TopicMax \in Nat
  BY <1>0, BoundsAssumption DEF TypeOK
<1>2. /\ restarts = 0 /\ phase # "down"
      /\ \/ UNCHANGED <<topic, published, requests>>
         \/ (\E w \in Workers : PublishEvent(w)) /\ UNCHANGED requests
         \/ /\ UNCHANGED published
            /\ \E t \in Tenants, h \in Hours :
                  /\ topic[t] > 0
                  /\ topic' = [topic EXCEPT ![t] = @ - 1]
                  /\ requests' = [requests EXCEPT ![t][h] = @ + 1]
  BY <1>1, EventCases
<1>3. Balanced(u)
  BY <1>2 DEF ConservedInv
<1>4. topic[u] \in Nat /\ Handled(u) \in Nat /\ Published(u) \in Nat
  BY <1>1, <1>3, FS_CardinalityType DEF Balanced, Handled, Published
<1>5. ASSUME UNCHANGED requests
      PROVE  CountedEvents(u)' = CountedEvents(u) /\ Handled(u)' = Handled(u)
  BY <1>5 DEF CountedEvents, Handled
<1>6. ASSUME UNCHANGED published
      PROVE  PublishedEvents(u)' = PublishedEvents(u) /\ Published(u)' = Published(u)
  BY <1>6 DEF PublishedEvents, Published, EventsOf
<1>7. CASE UNCHANGED <<topic, published, requests>>
  BY <1>3, <1>5, <1>6, <1>7 DEF Balanced
<1>8. ASSUME NEW w \in Workers, PublishEvent(w), UNCHANGED requests
      PROVE  Balanced(u)'
  <2>1. /\ IsFiniteSet(PublishedEvents(u)')
        /\ Published(u)' = Published(u) + (topic'[u] - topic[u])
        /\ topic'[u] \in Nat
    BY <1>0, <1>3, <1>8, PublishingAddsOne DEF Balanced
  <2>2. topic'[u] + Handled(u)' = Published(u)'
    BY <1>3, <1>4, <1>5, <1>8, <2>1 DEF Balanced
  <2>3. QED
    BY <1>3, <1>5, <1>8, <2>1, <2>2 DEF Balanced
<1>9. ASSUME NEW t \in Tenants, NEW h \in Hours, UNCHANGED published,
             topic[t] > 0, topic' = [topic EXCEPT ![t] = @ - 1],
             requests' = [requests EXCEPT ![t][h] = @ + 1]
      PROVE  Balanced(u)'
  <2>1. /\ IsFiniteSet(CountedEvents(u)')
        /\ Handled(u)' = Handled(u) + (IF u = t THEN 1 ELSE 0)
    BY <1>0, <1>3, <1>9, CountingAddsOne DEF Balanced
  <2>2. topic'[u] = topic[u] - (IF u = t THEN 1 ELSE 0)
    BY <1>1, <1>9
  <2>3. topic'[u] + Handled(u)' = Published(u)'
    BY <1>3, <1>4, <1>6, <1>9, <2>1, <2>2 DEF Balanced
  <2>4. QED
    BY <1>3, <1>6, <1>9, <2>1, <2>3 DEF Balanced
<1>10. QED
  BY <1>2, <1>7, <1>8, <1>9

LEMMA ConservedInvariance == SystemSpec => []ConservedInv
<1>1. SystemInit => ConservedInv
  <2> SUFFICES ASSUME SystemInit, NEW u \in Tenants PROVE Balanced(u)
    BY DEF ConservedInv
  <2>1. CountedEvents(u) = {}
    BY DEF SystemInit, Pipe!Init, Pipe!NoCounts, CountedEvents
  <2>2. PublishedEvents(u) = {}
    BY DEF SystemInit, Init, PublishedEvents, EventsOf, Jobs
  <2>3. topic[u] = 0
    BY DEF SystemInit, Init
  <2>4. QED
    BY <2>1, <2>2, <2>3, FS_EmptySet DEF Balanced, Handled, Published
<1>2. QED
  BY <1>1, SystemTypeCorrect, ConservedStep, PTL DEF SystemSpec

(* Within one process no event is lost, invented or counted for another     *)
(* tenant between process_event_batch and the hourly counters, whatever     *)
(* batches fail and whichever consumers die.                                *)
THEOREM EventsAreConserved == SystemSpec => []EventsConserved
<1>1. ConservedInv => EventsConserved
  BY DEF ConservedInv, Balanced, EventsConserved
<1>2. QED
  BY <1>1, ConservedInvariance, PTL

(* So a COMPLETED batch is whole in the statistics, but for what still      *)
(* waits on its tenant's topic.                                             *)
THEOREM CompletedBatchesAreCounted == SystemSpec => []CompletedBatchesCount
<1>1. IInv /\ AppliedBatchIsPublished /\ ConservedInv => CompletedBatchesCount
  <2> SUFFICES ASSUME IInv, AppliedBatchIsPublished, ConservedInv,
                      restarts = 0, phase # "down", NEW t \in Tenants
               PROVE  Cardinality(CompletedEvents(t)) <= topic[t] + Handled(t)
    BY DEF CompletedBatchesCount
  <2>1. Balanced(t)
    BY DEF ConservedInv
  <2>2. ASSUME NEW j \in EventsOf(t), job[j] = "COMPLETED" PROVE published[j] = BatchSize
    <3>1. j \in BatchJobs /\ j \in Jobs
      BY DEF EventsOf, Jobs
    <3>2. work[j] = 1
      BY <2>2, <3>1 DEF IInv, FinalRowOK
    <3>3. QED
      BY <3>1, <3>2 DEF AppliedBatchIsPublished
  <2>3. CompletedEvents(t) \subseteq PublishedEvents(t)
    BY <2>2 DEF CompletedEvents, PublishedEvents
  <2>4. Cardinality(CompletedEvents(t)) <= Published(t)
    BY <2>1, <2>3, FS_Subset DEF Balanced, Published
  <2>5. QED
    BY <2>1, <2>4 DEF Balanced
<1>2. SystemSpec => [](IInv /\ AppliedBatchIsPublished)
  BY SystemImplementsIngestion, Invariance, StoredIsAnnounced, PTL DEF ImplementsIngestion
<1>3. QED
  BY <1>1, <1>2, ConservedInvariance, PTL
=============================================================================
