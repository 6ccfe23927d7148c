--------------------------- MODULE StreamPipeline ---------------------------
(***************************************************************************)
(* The in-process stream pipeline (modules/streaming/pipeline.py): one     *)
(* monitor that subscribes to every tenant's enriched topic, and one       *)
(* consumer task per topic that counts events, raises an alert on a burst  *)
(* of authentication failures, scores the event with the ML models and     *)
(* flushes the hourly metrics.  The topics are the in-memory event bus's;  *)
(* IngestStream composes the pipeline with their only publisher.           *)
(*                                                                         *)
(* An event is what its timestamp and response code make of it: the hour   *)
(* it falls in, and whether it was denied (401 or 403).  A tenant has one  *)
(* endpoint, and each hour contributes one sliding window.  Whether the    *)
(* failures of a window come from enough distinct actors is left open.     *)
(***************************************************************************)
EXTENDS Naturals, Sequences

CONSTANTS
    Tenants,     \* accounts; each has one topic
    Hours,       \* hours an event can fall in
    AlertAt,     \* settings.STREAM_AUTH_FAILURE_THRESHOLD
    FlushEvery,  \* 50, the modulus in _handle_event
    Failing      \* the tenants whose database calls may raise

VARIABLES
    topic,       \* events waiting on each tenant's topic
    running,     \* StreamPipeline._running
    consumer,    \* where the consumer task of each topic is
    hour,        \* the hour of the event in hand
    requests,    \* _metrics_cache[...]["count"] per hour
    failures,    \* _failure_counter, the count of the hour's window
    suppressed,  \* now - _last_alert < STREAM_ALERT_SUPPRESS_SECONDS
    alerts,      \* Alert rows stored
    rows         \* request_count of the EndpointMetricHourly rows, oldest first

memory == <<consumer, hour, requests, failures, suppressed>>
stored == <<alerts, rows>>

ConsumerStates == {"none", "waiting", "alerting", "scoring", "flushing", "dead"}

TypeOK ==
    /\ running \in BOOLEAN
    /\ topic \in [Tenants -> Nat]
    /\ consumer \in [Tenants -> ConsumerStates]
    /\ hour \in [Tenants -> Hours]
    /\ requests \in [Tenants -> [Hours -> Nat]]
    /\ failures \in [Tenants -> [Hours -> Nat]]
    /\ suppressed \in [Tenants -> BOOLEAN]
    /\ alerts \in [Tenants -> Nat]
    /\ rows \in [Tenants -> [Hours -> Seq(Nat)]]

(* What a new StreamPipeline has in memory. *)
NoTasks == [t \in Tenants |-> "none"]
AnyHour == [t \in Tenants |-> CHOOSE h \in Hours : TRUE]
NoCounts == [t \in Tenants |-> [h \in Hours |-> 0]]
NoAlertYet == [t \in Tenants |-> FALSE]

Init ==
    /\ consumer = NoTasks
    /\ hour = AnyHour
    /\ requests = NoCounts
    /\ failures = NoCounts
    /\ suppressed = NoAlertYet
    /\ alerts = [t \in Tenants |-> 0]
    /\ rows = [t \in Tenants |-> [h \in Hours |-> <<>>]]

-----------------------------------------------------------------------------
(* Mutant: a consumer does not look whether the pipeline still runs. *)
MoveConsumerAnyway(t, from, to) ==
    /\ consumer[t] = from
    /\ consumer' = [consumer EXCEPT ![t] = to]

MoveConsumer(t, from, to) ==
    /\ running
    /\ consumer[t] = from
    /\ consumer' = [consumer EXCEPT ![t] = to]

(* Mutant: the monitor starts one consumer and looks no further. *)
SubscribeFirst(t) ==
    /\ topic[t] > 0
    /\ \A u \in Tenants : consumer[u] = "none"
    /\ MoveConsumer(t, "none", "waiting")
    /\ UNCHANGED <<topic, running, hour, requests, failures, suppressed, stored>>

(* Mutant: the monitor looks once, at startup, when no topic exists yet. *)
SubscribeOnce(t) ==
    /\ topic[t] > 0
    /\ requests[t] # NoCounts[t]
    /\ MoveConsumer(t, "none", "waiting")
    /\ UNCHANGED <<topic, running, hour, requests, failures, suppressed, stored>>

(* _monitor_topics: a topic exists from its first event on.  A task that    *)
(* has ended is still in _tasks, so its topic is never subscribed again.    *)
Subscribe(t) ==
    /\ topic[t] > 0
    /\ MoveConsumer(t, "none", "waiting")
    /\ UNCHANGED <<topic, running, hour, requests, failures, suppressed, stored>>

(* The event leaves the topic and is counted under its hour. *)
TakeEvent(t, h) ==
    /\ topic[t] > 0
    /\ topic' = [topic EXCEPT ![t] = @ - 1]
    /\ hour' = [hour EXCEPT ![t] = h]
    /\ requests' = [requests EXCEPT ![t][h] = @ + 1]

Receive(t, h) ==
    /\ TakeEvent(t, h)
    /\ MoveConsumer(t, "waiting", "scoring")
    /\ UNCHANGED <<running, failures, suppressed, stored>>

(* SlidingCounter.add, then cleanup: the windows of earlier hours go. *)
CountFailure(counts, h) ==
    [k \in Hours |-> IF k < h THEN 0 ELSE counts[k] + (IF k = h THEN 1 ELSE 0)]

(* A denied event, below a threshold or within the suppression period. *)
ReceiveDenied(t, h) ==
    /\ TakeEvent(t, h)
    /\ failures' = [failures EXCEPT ![t] = CountFailure(@, h)]
    /\ MoveConsumer(t, "waiting", "scoring")
    /\ UNCHANGED <<running, suppressed, stored>>

(* A denied event over both thresholds: _last_alert is set before the       *)
(* alert is stored.                                                         *)
ReceiveBurst(t, h) ==
    /\ ~suppressed[t]
    /\ TakeEvent(t, h)
    /\ failures' = [failures EXCEPT ![t] = CountFailure(@, h)]
    /\ failures'[t][h] >= AlertAt
    /\ suppressed' = [suppressed EXCEPT ![t] = TRUE]
    /\ MoveConsumer(t, "waiting", "alerting")
    /\ UNCHANGED <<running, stored>>

(* Alert, evidence, dispatch and playbooks, one commit. *)
StoreAlert(t) ==
    /\ MoveConsumer(t, "alerting", "scoring")
    /\ alerts' = [alerts EXCEPT ![t] = @ + 1]
    /\ UNCHANGED <<topic, running, hour, requests, failures, suppressed, rows>>

(* Mutant: the flush is due one event late. *)
AfterScoringLate(t) ==
    IF requests[t][hour[t]] % (FlushEvery + 1) = 0 THEN "flushing" ELSE "waiting"

AfterScoring(t) ==
    IF requests[t][hour[t]] % FlushEvery = 0 THEN "flushing" ELSE "waiting"

(* ML shadow evaluation; every FlushEvery-th event of the hour then flushes. *)
Score(t) ==
    /\ MoveConsumer(t, "scoring", AfterScoring(t))
    /\ UNCHANGED <<topic, running, hour, requests, failures, suppressed, stored>>

(* A new row with the count of the hour so far. *)
Flush(t) ==
    /\ MoveConsumer(t, "flushing", "waiting")
    /\ rows' = [rows EXCEPT ![t][hour[t]] = Append(@, requests[t][hour[t]])]
    /\ UNCHANGED <<topic, running, hour, requests, failures, suppressed, alerts>>

(* Mutant: the exception of a failed alert is swallowed and the task lives. *)
ConsumerSwallows(t) ==
    /\ t \in Failing
    /\ running
    /\ consumer[t] \in {"alerting", "scoring", "flushing"}
    /\ consumer' = [consumer EXCEPT ![t] = "waiting"]
    /\ UNCHANGED <<topic, running, hour, requests, failures, suppressed, stored>>

(* A database call raises.  Storing the alert and flushing are outside any  *)
(* try; the handler around the scoring passes error= to the logger of the   *)
(* standard library and raises TypeError.  Each way the task ends.          *)
ConsumerRaises(t) ==
    /\ t \in Failing
    /\ running
    /\ consumer[t] \in {"alerting", "scoring", "flushing"}
    /\ consumer' = [consumer EXCEPT ![t] = "dead"]
    /\ UNCHANGED <<topic, running, hour, requests, failures, suppressed, stored>>

Consumer(t) ==
    \/ Subscribe(t)
    \/ \E h \in Hours : Receive(t, h) \/ ReceiveDenied(t, h) \/ ReceiveBurst(t, h)
    \/ StoreAlert(t) \/ Score(t) \/ Flush(t) \/ ConsumerRaises(t)

(* STREAM_ALERT_SUPPRESS_SECONDS have passed since the last alert. *)
SuppressionExpires(t) ==
    /\ running
    /\ suppressed[t]
    /\ suppressed' = [suppressed EXCEPT ![t] = FALSE]
    /\ UNCHANGED <<topic, running, consumer, hour, requests, failures, stored>>

(* stop() cancels every task; the counters stay as they are, unread. *)
StopPipeline ==
    /\ running
    /\ running' = FALSE
    /\ consumer' = NoTasks
    /\ UNCHANGED <<topic, hour, requests, failures, suppressed, stored>>

(* The process is gone, or a new one starts: only the rows stay. *)
Reset ==
    /\ consumer' = NoTasks
    /\ hour' = AnyHour
    /\ requests' = NoCounts
    /\ failures' = NoCounts
    /\ suppressed' = NoAlertYet
    /\ UNCHANGED stored

-----------------------------------------------------------------------------
(* While a consumer is at work, an alert of its tenant is suppressed only   *)
(* by one that was really stored: the suppression set before the commit in  *)
(* _check_credential_stuffing never outlives a failed commit unnoticed.     *)
NoPhantomSuppression ==
    \A t \in Tenants :
        suppressed[t] /\ consumer[t] \in {"waiting", "scoring", "flushing"} =>
            alerts[t] > 0
=============================================================================
