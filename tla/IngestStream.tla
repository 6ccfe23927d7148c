---------------------------- MODULE IngestStream ----------------------------
(***************************************************************************)
(* The ingestion subsystem and the stream pipeline in one process: the     *)
(* workers of Ingestion publish on the topics that StreamPipeline's        *)
(* consumers read, and block while a topic is full.  api/main.py starts    *)
(* both, and stops the pipeline just before the ingestion queue.           *)
(***************************************************************************)
EXTENDS Ingestion

CONSTANTS Hours, AlertAt, FlushEvery, Failing   \* as in StreamPipeline

ASSUME HoursAssumption == Hours \subseteq Nat /\ Hours # {}
ASSUME ThresholdsAssumption == AlertAt \in Nat /\ FlushEvery \in Nat \ {0}
ASSUME FailingAssumption == Failing \subseteq Tenants

VARIABLES consumer, hour, requests, failures, suppressed, alerts, rows

(* The pipeline runs exactly while the server is up. *)
Pipe == INSTANCE StreamPipeline WITH running <- (phase = "up")

pipeVars == <<consumer, hour, requests, failures, suppressed, alerts, rows>>
systemVars == <<vars, pipeVars>>

SystemTypeOK == TypeOK /\ Pipe!TypeOK

SystemInit == Init /\ Pipe!Init

(* A step of the pipeline leaves the ingestion subsystem alone. *)
PipelineStep(A) ==
    /\ UNCHANGED <<procVars, queueVars, workerVars, req, rowVars, published>>
    /\ A

SystemNext ==
    \/ \E j \in Jobs : (Submit(j) \/ Answer(j)) /\ UNCHANGED pipeVars
    \/ \E w \in Workers : Worker(w) /\ UNCHANGED pipeVars
    \/ \E t \in Tenants :
          PipelineStep(Pipe!Consumer(t)) \/ PipelineStep(Pipe!SuppressionExpires(t))
    \/ BeginStop /\ Pipe!StopPipeline
    \/ (PutStop \/ EndStop) /\ UNCHANGED pipeVars
    \/ (Crash \/ Restart) /\ Pipe!Reset

SystemSpec == SystemInit /\ [][SystemNext]_systemVars

(* Tasks of one event loop, as in Ingestion; the consumers are among them,  *)
(* and nothing is assumed of a consumer that has died.                      *)
SystemFairness ==
    /\ \A j \in Jobs : WF_systemVars(Answer(j) /\ UNCHANGED pipeVars)
    /\ \A w \in Workers : WF_systemVars(Proceed(w) /\ UNCHANGED pipeVars)
    /\ \A t \in Tenants : WF_systemVars(PipelineStep(Pipe!Consumer(t)))
    /\ WF_systemVars(PutStop /\ UNCHANGED pipeVars)
    /\ WF_systemVars(EndStop /\ UNCHANGED pipeVars)

FairSystemSpec == SystemSpec /\ SystemFairness

-----------------------------------------------------------------------------
(* The consumers are a correct refinement of the external consumer that     *)
(* Ingestion assumes: taking an event is ConsumeEvent, the rest stutters.   *)
ImplementsIngestion == Spec

(* One pair for each unit of a tenant's hourly counters, and one for each    *)
(* event its batches have put on its topic.                                  *)
CountedEvents(t) == UNION {{h} \X (1..requests[t][h]) : h \in Hours}
EventsOf(t) == {j \in BatchJobs : Owner[j] = t}
PublishedEvents(t) == UNION {{j} \X (1..published[j]) : j \in EventsOf(t)}

Handled(t) == Cardinality(CountedEvents(t))
Published(t) == Cardinality(PublishedEvents(t))

(* Within one process every event a batch publishes is on its tenant's own  *)
(* topic or counted once under that tenant, even when the consumer died.    *)
EventsConserved ==
    restarts = 0 /\ phase # "down" =>
        \A t \in Tenants : topic[t] + Handled(t) = Published(t)

(* So nothing of a COMPLETED batch is missing from the statistics but what  *)
(* still waits on the tenant's topic.                                       *)
CompletedEvents(t) == {j \in EventsOf(t) : job[j] = "COMPLETED"} \X (1..BatchSize)

CompletedBatchesCount ==
    restarts = 0 /\ phase # "down" =>
        \A t \in Tenants : Cardinality(CompletedEvents(t)) <= topic[t] + Handled(t)

LastRow(t, h) == IF rows[t][h] = <<>> THEN 0 ELSE rows[t][h][Len(rows[t][h])]
Lag(t, h) == requests[t][h] - LastRow(t, h)

(* The latest hourly row lags behind the true count by less than FlushEvery *)
(* between two events of a live consumer, and by no more than FlushEvery at *)
(* any time: when the consumer has died, and when stop() has cancelled it   *)
(* without a last flush, which is all a shutdown can lose.                  *)
FlushLag ==
    restarts = 0 /\ phase # "down" =>
        \A t \in Tenants, h \in Hours :
            /\ Lag(t, h) \in 0..FlushEvery
            /\ consumer[t] = "waiting" => Lag(t, h) < FlushEvery

(* The rows of one process are a running total: the i-th row of an hour     *)
(* holds i times FlushEvery, none is skipped and none is written twice.     *)
RowsAreMultiples ==
    restarts = 0 =>
        \A t \in Tenants, h \in Hours : \A i \in 1..Len(rows[t][h]) :
            rows[t][h][i] = FlushEvery * i

(* Liveness holds for as long as no consumer has died.  A database call of  *)
(* a consumer may raise at any time, and with SQLite it does so just when   *)
(* a worker waits on a full topic: the worker's transaction holds the write *)
(* lock from its flush on (processors.py:560), publish comes before the     *)
(* commit, and the consumer's own write waits for that lock until it times  *)
(* out.  Then the consumer is dead and both properties promise nothing      *)
(* more; TenantsDoNotInterfere shows what follows.                          *)
ConsumerDied == \E t \in Tenants : consumer[t] = "dead"

(* Every accepted job ends COMPLETED or FAILED unless the process is        *)
(* stopped or a consumer has died: with live consumers, workers that wait   *)
(* on full topics do not hold up the queue for ever.                        *)
JobsFinishUntilConsumerDies ==
    \A j \in Jobs :
        req[j] = "queued" ~>
            (job[j] \in Lifecycle!Final \/ phase # "up" \/ ConsumerDied)

(* Every published event is taken from its topic in the end, while the      *)
(* server stays up and the tenant's own consumer lives: other tenants'      *)
(* consumers may die.                                                       *)
EventsAreConsumed ==
    \A t \in Tenants :
        topic[t] > 0 ~> (topic[t] = 0 \/ phase # "up" \/ consumer[t] = "dead")

(* A consumer at work never suppresses an alert on behalf of one whose      *)
(* commit failed (_last_alert is set before the commit).                    *)
NoPhantomSuppression == Pipe!NoPhantomSuppression

(* "Every tenant is a hard namespace boundary": trouble in one tenant's     *)
(* consumer never keeps another tenant's accepted job from finishing.       *)
TenantsDoNotInterfere ==
    \A j \in Jobs : Owner[j] \notin Failing =>
        (req[j] = "queued" ~> (job[j] \in Lifecycle!Final \/ phase # "up"))
=============================================================================
