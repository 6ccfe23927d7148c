# API Sentinel server: a TLA+ model

This directory models the concurrent parts of the API Sentinel server
(`src/API-Sentinel-Team/server`), and of two other programs of the repository:
TLA+ modules, TLC configurations, and TLAPS proofs. Paths below are relative to
`src/API-Sentinel-Team/server` unless they begin with `src/`.

The repository holds many programs (MCP tool servers, a trading log agent, a
WhatsApp sales agent, deployment folders, web sites). They share no state with
each other. The server is by far the largest with long-lived concurrent
components; the two agents are the others with a protocol of their own.

## 1. Inventory

The server is one or several asyncio processes with a SQL database (SQLite by
default, `config.py:23`). `api/main.py` starts the background tasks and stops
them. Sessions do not flush before a query (`modules/persistence/database.py:28`),
so a row that was added is invisible to the lookups of its own transaction.

| component | state | operations | what is hard | what makes it correct |
|---|---|---|---|---|
| ingestion queue and workers (`modules/ingestion/queue.py`) | bounded queue, `_running`, worker tasks | enqueue with timeout, worker loop, start, stop | delivery to several workers, failure at any step, stop against a full queue, crash | one delivery, no job forgotten, one dead letter per failure, workers that survive their jobs and never block each other, stop returns |
| processors (`modules/ingestion/processors.py`) | job status, the job's rows | mark RUNNING, work in one transaction, mark COMPLETED | status and data in separate transactions, publish before commit | status agrees with data |
| request handlers (`api/routers/stream.py`, `ingestion.py`, `threat_detection.py`) | the request's job row | store QUEUED, enqueue, refuse | timeout racing a free slot | every request answered, refusals leave nothing |
| event bus (`modules/streaming/event_bus.py`) | a bounded topic per tenant | publish, subscribe | blocking publish | events neither lost nor crossed |
| stream pipeline (`modules/streaming/pipeline.py`) | consumers, counters, `_last_alert` | monitor, handle event, alert, score, flush, stop | a task that dies, suppression set before commit, flush modulus | counts conserved, rows lag by less than one flush |
| lifecycle sweeper (`modules/api_inventory/lifecycle.py`) | endpoint status, zombie violations | sweep | stale reads, work after the commit | ZOMBIE rows have a violation, silent rows become ZOMBIE, a path's duplicates are bounded |
| recon processor, scheduler, sources, review (`modules/recon/`, `api/routers/recon*.py`) | sources, findings, shadow rows | select due, fetch, ingest, commit; create, switch, delete; review | runs that overlap, one commit for many sources, unique keys | reviews survive runs, due sources run, shadows are reported |
| warm exporter (`modules/storage/warm_exporter.py`) | cursors in memory and in the database | export three tables to ClickHouse | external effect before the commit of the cursor, stamps of a whole second | what is lost or repeated has a known cause |
| cold archiver (`modules/storage/archiver.py`) | archive files, hot rows | archive, purge; by a task and by a route | files before the commit, two runs at once, a retention that changes | nothing is removed that is in no file and within retention |
| retention policy (`modules/privacy/retention.py`) | a row, copies per process | read through a copy, replace, invalidate | clock read before an await, an answer that a batch applies for as long as it runs | a batch that asks after the time to live never gets a replaced policy |
| tenant quota (`modules/quotas/tenant_quota.py`) | counter per account and minute | check | a late request counts in a past minute, clean-up | the limit of a minute holds |
| view cache (`modules/cache/redis_cache.py`) | version key, views | read through, bump | rows read under one version and stored under it later | announced writes are seen |
| alert consumer, playbooks, block list (`modules/streaming/kafka_alert_consumer.py`, `modules/response/`, `api/routers/blocklist.py`) | position, alerts, blocks | deliver, respond, commit; block, unblock | auto-commit before handling, an IP unique over all tenants, errors swallowed within an action | what the log calls a success is blocked; loss and repeats need a failure |
| security scans (`api/routers/tests.py`) | run, results, vulnerabilities | run all tests in a task | a vulnerability committed apart from its result | a completed scan adds up |
| threat actors (`api/routers/threat_actors.py`, ...) | a row per IP | count attacks, block, whitelist | read-modify-write, decisions on a stale status | a decision is not undone by an older request |
| log shipper (`agents/log_shipper.py`) | file position, buffer | tail, post, retry | rotation, posts without an answer | lines leave, repeats have a cause |
| WhatsApp sales agent (`src/watsapp`) | conversations, messages | webhook, AI answer, manual message, pause | four processes, one row per phone and business | a pause stops the AI |
| trading log agent (`src/Trading-Rag`) | circuit breaker | concurrent retrievals | threads share the breaker, the client retries without asking it | requests to a broken Elasticsearch are bounded, retries counted |
| analytics, test scheduler, ML registry, web sockets, authentication, integrations, detection, capture, remaining routes, sensor | see section 5 and `PROJECT.json` | | | |

`PROJECT.json` lists every component with its files and status, and the hazards
of the code with the line where each bites.

## 2. Modules

| module | models |
|---|---|
| `JobLifecycle` | the abstract promise: the life of a job row, the one commit of its data, its dead letter |
| `Ingestion` | handlers, queue, workers, processors, shutdown, crash and restart |
| `StreamPipeline` | the in-process pipeline, over topics it does not own |
| `IngestStream` | `Ingestion` and `StreamPipeline` in one process |
| `EndpointLifecycle` | inventory rows and their violations, written by workers, the sweeper and recon |
| `WarmExport`, `ColdArchive`, `RetentionPolicy`, `TenantQuota`, `ViewCache`, `AlertResponse`, `ScanRun`, `ReconSources`, `ThreatActors`, `LogShipper` | the services beside the ingestion path, one each |
| `SalesChat`, `EvidenceQueries` | the WhatsApp sales agent; the queries of the trading log agent |
| `Services` | the last twelve side by side |
| `*_proofs` | theorems: of `Ingestion`, `IngestStream` and `EndpointLifecycle`; `Storage_proofs` (`WarmExport`, `ColdArchive`), `Caches_proofs` (`RetentionPolicy`, `TenantQuota`, `ViewCache`), `Response_proofs` (`AlertResponse`, `ThreatActors`), `Agents_proofs` (`LogShipper`, `SalesChat`, `EvidenceQueries`), `Services_proofs` (`ScanRun`, `ReconSources`, `Services`) |
| `MC*` | instances for TLC |

### Ingestion

A step is the code between two awaits that another task can observe: one
committed transaction, one put, one get. `job`, `work` and `dead` are database
rows and survive a crash; `queue`, `pc`, `item` and `topic` are memory and do not.

| code | actions |
|---|---|
| handler: row committed QUEUED; `enqueue`; 429; failure of the 429's commit | `Submit`; `Enqueue`, `EnqueueWaits`, `EnqueueTimesOut`; `Refuse`; `RefuseRaises` |
| `_worker_loop` | `GetJob`, `GetStop`, `LoopHead` |
| `_update_job(RUNNING)`, the transaction, `_update_job(COMPLETED)` | `BeginJob`, `PublishEvent`, `CommitWork`, `CompleteJob` |
| `process_stream_lines` | `BeginJob`, then `StreamLinesRaise` |
| an exception; its record; the record's own exception | `ProcessorRaises`; `RecordFailure`; `RecordFailureRaises` |
| `stop` | `BeginStop`, `PutStop`, `EndStop` |
| process death, `lifespan` | `Crash`, `Restart` |

An exception is possible exactly where the constant `Faults` says a database
call may raise; `StreamLinesRaise` needs no fault. `Proceed` is what a worker
does of its own accord and `ProcessorRaises` what the database does to it: only
the first is ever fair. `Waits` says when the first is impossible: the worker has
left, or its get or its publish waits. The consumer of the topics
is one action, `ConsumeEvent`, which `IngestStream` replaces by the real pipeline.
The HTTP server ends its requests before it runs the shutdown, hence the guard
of `BeginStop`. `StopFits` is the condition under which a shutdown must come to its
end: the stop items have room behind the queue, and each topic has room for what
the accepted batches of its tenant have still to publish.

### StreamPipeline and IngestStream

An event is the hour it falls in and whether it was denied. A tenant has one
endpoint. Whether enough distinct actors failed is left open, so an alert over
the count threshold may or may not be raised. A topic that exists and has never
held an event is not distinguished from one that does not exist. `ConsumerRaises`
ends the consumer: the alert and the flush run outside any `try`, and the handler
around the scoring calls `logger.error(..., error=...)` on a standard-library
logger, which raises `TypeError`.

`api/main.py` stops the pipeline two awaits before the queue. `IngestStream`
does both in one step: what a worker does in between changes nothing the
stopped pipeline reads, so it commutes with the rest of the shutdown.
`FlushLag` speaks of dead and cancelled consumers too, since neither flushes
what it has counted. Events the pipeline would reject (schema, quality below 0.5) are never
published: the batch processor has already dropped what is below 0.6.

### EndpointLifecycle

Sessions do not flush before a query (`modules/persistence/database.py:28`), and
commits are serial. A worker reads a row (`TrafficRead`) and decides on what it
read, later (`TrafficCreate`, `TrafficRefresh`, `TrafficRevive`, `TrafficFails`).
`SweepCommit` is a sweep up to `db.commit()`; from its first UPDATE on, the
database lets no other transaction write the same rows. What follows the commit
(`SweepNotify`) is rolled back when the session closes. `Restart` is a new
process: what was read and not committed is gone, a dead task lives again. `ReconCommit` ends a run,
whose items were looked up one by one. `logger.info` with keyword arguments
(`lifecycle.py:225`) raises only where INFO is enabled, which no code of the
server does; a deployment that does is covered by `SweepRaises`.
Nothing makes a path unique, so tasks that look before its first row is committed
each insert one; `DuplicatesAreBounded` counts the rows together with the tasks
that have looked and may still insert. The recon runs of this module are the
scheduler's; a run by hand or a POST is a task more that can be late in the same
way.
The status DEPRECATED is written by nothing in these components and left out.

### The services

`Services` is the sum of its parts and not their product: they share no row, key
or message, so interleaving them would multiply states and show nothing. `part`
says which of them a behaviour shows; the others stay in their initial states.
`ServicesAreTheirParts` proves that a behaviour of `Services` is one of every
part. The one row that two parts do touch, a metric row archived while it waits
for its export, is not modelled: the archiver archives request logs and
evidence, the exporter metrics, and the purge beyond the retention is
`ColdArchive`'s.

| module | code | actions |
|---|---|---|
| `WarmExport` | `_loop`, the three `_export_*`, `_load_cursor`, `insert_json_each_row`; writers of the rows | `EnsureTables`, `BeginExport`, `SelectRows`, `InsertAccepted`, `InsertRefused`, `ExportRaises`, `GoOn`, `CommitCursors`, `RestartExporter`; `NextSecond`, `InsertRow`, `CommitRows` |
| `ColdArchive` | `archive_once`, its batches, the purge; PUT of the retention | `BeginRun`, `ReadRetention`, `SelectBatch`, `WriteFiles`, `DeleteBatch`, `Purge`, `CommitRun`, `RunRaises`, `RestartProcess`; `WriteRow`, `PutRetention`, `NextDay` |
| `RetentionPolicy` | `get_retention_policy`, `invalidate`, PUT; a batch's use of the answer (`processors.py:437-479`) | `ServeCopy`, `CacheMiss`, `FetchRow`, `FillCopy`, `FetchRaises`, `EndBatch`; `PutCommits`, `PutInvalidates` |
| `TenantQuota` | `check_ingest_quota` before and under the lock | `BeginCheck`, `Check` |
| `ViewCache` | the two routes that read through Redis; writers | `FetchVersion`, `ServeCached`, `QueryRows`, `StoreView`, `EndRequest`; `CommitWrite`, `BumpVersion`; expiries |
| `AlertResponse` | the consumer's loop, playbooks, block list routes, Kafka's auto-commit | `DeliverAlert`, `RunPlaybooks`, `CommitAlert`, `ConsumerRaises`, `RestartConsumer`, `AutoCommit`; `BlockByHand`, `AutoBlock`, `UnblockIp` |
| `ScanRun` | `_run_security_tasks`, the result aggregator | `BeginScan`, `TestFindsNothing`, `TestFindsVulnerability`, `TestRaises`, `SaveVulnerability`, `SaveRaises`, `CompleteScan`, `ScanBreaksOff` |
| `ReconSources` | scheduler, sources, findings, review | `SelectDue`, `RunByHand`, `PostFindings`, `FetchItems`, `FetchFails`, `IngestItem`, `SourceDone`, `CommitSession`, `SessionRaises`; `CreateSource`, `UpdateSource`, `DeleteSource`, `Review`, `InventoryChanges` |
| `ThreatActors` | the routes that count and decide | `BeginReport`, `LookUp`, `AddActor`, `FlushEndpoint`, `RecordReport`, `CommitReport`; `BeginDecision`, `DecideUnchanged`, `DecideChanged`, `DecideNew`, `DecideInBulk`; `ActorCallRaises` |
| `LogShipper` | `_open_log`, `_read_new_lines`, `_ship`, `run`, `stop`; nginx, the server | `OpenLog`, `SeeRotation`, `ReadNewLines`, `TakeBatch`, `TakeAll`, `PostAcknowledged`, `PostFails`, `AnswerUnreadable`, `FinalFlush`, `KillShipper`; `WriteLine`, `RotateLog`, `ServerReceives`, `LoseAck` |
| `SalesChat` | `handle_webhook`, `_process_ai_pipeline`, `manual_send`, pause and resume | `Arrive`, `FindRow`, `ClaimRow`, `ReadAgain`, `AddConversation`, `SaveInbound`, `CheckPaused`, `ReadHistory`, `SendReply`, `SaveOutbound`, `ChatCallEnds`; `Pause`, `Resume` |
| `EvidenceQueries` | `retrieval_node`'s tasks, `CircuitBreaker`, the Elasticsearch client | `Retrieve`, `SendQuery`, `RetryRequest`, `QueryRefused`, `QuerySucceeds`, `QueryFails`, `ResetIsDue`, `RestartAgent` |

A step is again what another task, process or thread can observe: one committed
transaction, one call of Redis, ClickHouse or Kafka, one post. Data that no
property tells apart (payload columns, scores, texts) is left out; an error is
possible at every call that can raise. Some properties speak about the past;
their history variables are marked `history` and guard nothing.

What the models say of the code and a reader may not expect:

- `WarmExport`: `created_at` is a whole second and `id` a random uuid, so a row
  that is inserted into the cursor's own second after the export may sort before
  the cursor and is never exported. `LostOnlyInItsSecond` says that nothing else
  is lost.
- `ColdArchive`: the purge deletes what is older than the tenant's retention
  whether or not it was archived; a crash leaves files of rows that are still
  hot, and the next run appends them again.
- `RetentionPolicy`: two concurrent PUTs can merge their columns, because each
  writes only what differs from what it read; the model's PUTs replace the
  policy one at a time. A call returns the row it has read however long the read
  took, and a batch applies the one answer it got to all its events, across a
  `publish` that may wait for ever. Nothing bounds the age of the policy applied,
  so `BatchesSeeReplacement` is about when a batch asked, not about when it ends.
- `TenantQuota`: the Redis counter is used only once its key exists, and nothing
  creates it, so the memory counters of each process decide.
- `AlertResponse`: `blocked_ips.ip` is unique over all tenants, but a playbook
  looks only for its own tenant's blocks. The insert then fails at the commit,
  and the alert is rolled back and passed over, or stops the consumer. An error
  within an action, the lookup of `_block_ips` included, is caught and logged
  FAILED (`playbook_executor.py:223-225`): the alert is stored without its block,
  and nothing tries again. `SuccessMeansBlocked` is what the log can be trusted for.
- `ScanRun`: an interrupted scan stays RUNNING; nothing resumes it. A
  vulnerability is stored without `account_id` and `run_id`, so it gets the
  default account 1000000.
- `ReconSources`: two items that normalise to one key violate the unique key at
  the commit: the whole run is rolled back, and the scheduler's handler raises
  too, which ends it. A source deleted during its run makes the commit raise
  `StaleDataError`. A shadow endpoint that an earlier item of the session has
  flushed is found like a committed one, and confirms the finding.
- `ThreatActors`: reports that overlap lose attacks, as `event_count` is read,
  incremented in Python and written back. `source_ip` is unique over all tenants,
  so a route that looks only at its own tenant answers 500 for another's IP.
- `LogShipper`: after a rotation `run()` keeps the handle that
  `_read_new_lines` has closed; every later read raises and is logged, and the
  agent ships nothing until it is restarted. `ReadLinesLeave` excludes it.
- `SalesChat`: two processes that race on a customer's first message: the loser's
  insert raises, and the webhook answers 200 and drops the message
  (`webhook.py:211`). Once two businesses own a row of one phone, the
  `UPDATE ... WHERE phone_number` that takes a conversation over always violates
  `UNIQUE(user_id, phone_number)`. Nothing deduplicates a message id.
  `total_messages` and `lead_score` can lose updates and are left out.
- `EvidenceQueries`: with a confidence below 0.6 three tasks run at once, and
  the structured one may be the correlation, which queries two indexes. The
  baseline coroutine starts only when it is awaited, after the evidence. The client
  is built with `max_retries=2` and `retry_on_timeout=True`
  (`elasticsearch.py:32-33`, `config.py:11-12`): a query that the breaker admitted
  is up to three requests, the breaker is not asked again, and `record_failure`
  hears of the last one only. `BreakerBoundsRequests` counts them all.

## 3. Runs

Counts are distinct states.

| run | instance | question | result |
|---|---|---|---|
| `ingestion_safety` | one job of each kind, 2 workers (symmetric), queue 1, topic 1, batch of 2, all faults, 1 restart; 93,605 | safety of jobs and rows, refinement of `JobLifecycle` | holds |
| `ingestion_liveness` | a stream job and two batches, 2 workers, queue 3, topic 1, faults of the processors; 24,439 | accepted jobs finish, stop returns when it fits, no job is forgotten | holds |
| `stream_safety` | 2 batches of 2 of one tenant, 1 worker, 2 hours, threshold 2, flush every 2, a failing consumer, 1 restart; 165,807 | rows, suppression; refinement of `Ingestion` | holds |
| `stream_liveness` | 2 tenants, a batch of 2 each, 2 workers, queue 1, topic 1, processors and consumers that may raise; 121,527 | each tenant's events stay its own and none is lost; until a consumer dies the pipeline keeps the workers moving; requests are answered whatever dies | holds |
| `inventory_lifecycle` | 2 paths, 2 rows, 1 writer; 71,922 | zombies, shadows, duplicates, revival | holds |
| `services_safety` | every part with the bounds below; 1,179,479 | the safety of the twelve services | holds |
| `services_liveness` | the five parts with a background task; 26,348 | rows are exported and archived, alerts get their turn, due sources run, read lines leave | holds |
| `shutdown_hangs` | queue 2, no fault | `StopReturns` | violated: `stop()` waits for ever |
| `restart_strands` | queue 4, topic 4, no fault, 1 restart | `AcceptedJobSurvivesRestart` | violated: nothing resumes the rows |
| `tenant_interference` | 2 tenants, 1 worker, a failing consumer of the first | `TenantsDoNotInterfere` | violated: the shared worker blocks |
| `zombie_violation_stays` | 1 path, 2 rows, 1 writer | `ViolationResolves` | violated: the update is rolled back |
| `oldest_messages` | the chat alone, history of 2 | `AISeesLatestMessages` | violated: `ORDER BY ... ASC LIMIT` gives the AI the first messages, not the last (`src/watsapp/app/services/database.py:345`, `ai_engine.py:91`) |

Some properties need no run of their own, because a theorem states them for every
value of the constants. TLC found no counterexample to them on the instances
above before they were proved: `IInv`, `TypeOK`, `EnoughStopItems`, `WorkersStay`,
`OutcomeIsFinal`, `AppliedBatchIsPublished`, `NeverWedged`, `StopFitsStays` and
`ShutdownMoves` of `Ingestion`; `RowsAreMultiples` and `CompletedBatchesCount` of
`IngestStream`; `TypeOK`, `NoNewDuplicates` and `ChangesHaveACause` of
`EndpointLifecycle`; `ServicesTypeOK` of `Services`; `LinesAreKept` of `LogShipper` and
`SelectedSourcesAreRun` of `ReconSources`.

### Bounds of the ingestion path

A queue of one makes every put wait and time out while another is served; two
workers are enough for a double delivery and for one to be blocked while the
other leaves its loop; a batch of two against a topic of one blocks the publisher
in the middle of its transaction; a queue of three lets two stop items fit behind
a job that waits, so that `StopReturnsWhenItFits` has work to finish; a flush every two events with batches of two
crosses the modulus in and out of an hour; two tenants with a batch each let one's
events reach the other's topic, and one's dead consumer hold up the other; two rows let a change of one row
disturb the other, and one path with two rows is a duplicate, the most that a
worker and the scheduler can make. `MaxRestarts`
bounds the restarts, `Ids` the rows that can ever exist. Two writers on two paths
have more than 700,000 states; the theorems cover any number. Deadlock is not
checked: a server that was stopped or has no more requests stops moving.

### Bounds of the services

- `WarmExport`: two tables, one of two rows, in one or two seconds, with batches
  of one: a row is left behind in its second, a table is finished while another
  goes on, and a refusal or a restart falls between cursor and commit.
- `ColdArchive`: two rows of the first table and one of the second, batches of
  one, a task and a route at once, a retention shorter than the default, 4 days,
  one restart. `services_liveness` has the task alone and no restart.
- `RetentionPolicy`: two processes, two replacements, a time to live of 2, one
  batch at a time in each: a copy is filled after its invalidation.
- `TenantQuota`: two requests of cost 1 or 2 against a limit of 2, minutes of two
  seconds and one of grace, one counter kept: a late request counts in a minute
  that is over, and the clean-up drops one.
- `ViewCache`: two writers, two readers, one expiry of the version key.
- `AlertResponse`: four messages: two tenants after one IP, one without an
  account, one whose IP two actions name; one restart, one unblock.
- `ScanRun`: three tests. `ReconSources`: two sources, the scheduler and one call,
  one key that both report and a user reviews.
- `ThreatActors`: two IPs, two calls, one tenant beside the owner of another
  tenant's rows, two attacks. `LogShipper`: three lines, batches of two, two
  attempts, one rotation, one lost answer, one kill.
- `SalesChat`: two businesses, two calls, two messages: both webhooks race on the
  first message, and a business takes a row over while the other holds it.
- `EvidenceQueries`: two questions with two evidence tasks each, threshold 2,
  one retry. The bound of `BreakerBoundsRequests`, 10, is reached exactly.

`Max...`, `Last...` and the sets marked `bound` in the modules are bounds and no
part of the code. Deadlock is not checked: a part whose bounded history is used
up stops.

### Fairness

Weak fairness on each task of the event loop: a task whose await can return is
resumed. It covers requests already made, workers, consumers, and `stop()`; it
does not oblige anyone to send a request, stop or crash the process, and it is on
`Proceed` alone, so that no database call has to raise to let a worker go on. A dead
consumer has no enabled step, so nothing is assumed of it. asyncio serves the waiters
of a queue in order, so weak fairness is less than the code gives. The sweeper's
loop returns every interval, hence fairness of `SweepCommit` and `SweepNotify`;
every property about it excludes a sweeper that has died.

Consumers do die, and in `stream_liveness` each may raise at any database call.
With SQLite it happens just when the topics are full: the worker holds the write
lock from its flush on (`processors.py:560`), `publish` waits before the commit
(`processors.py:577`), and the consumer's own write waits for the lock until it
times out. So `JobsFinishUntilConsumerDies` promises nothing once any consumer is
dead, and `EventsAreConsumed` nothing of a topic whose own consumer is: they say
that no deadlock comes before that, not that it cannot come. What follows it is
the run `tenant_interference`. `RequestIsAnswered` has no such condition: the
timeout of the put answers, whatever waits behind it.

In `Services` the fair steps are `ExportStep`, `RunStep(ArchiveTask)`,
`ConsumerStep`, `SchedulerStep` and `ShipperStep`: each is a loop that sleeps and
returns, or a process of its own. Errors, restarts, clocks, writers and users are
not fair, so each liveness property either holds whatever they do or names the
condition under which it holds.

## 4. Proofs

`tlapm` checks them for every value of the constants that meets the named
assumptions (finite, non-empty worker set, disjoint job kinds, positive bounds,
distinct marker values). Each theorem is about its component's specification.

- `Ingestion_proofs`. The safety invariants are not inductive: that a job of a
  worker at `finish` has its rows committed, or that a queued job is untouched,
  is not said by them. `IInv` adds it: `HeldRowOK` is what the database says of
  a held job at each point of its worker, `UntouchedRowOK` what it says of a job
  in the queue or in a handler, `FinalRowOK` what it says at the end, and
  `ProcessOK` what a stopping or stopped process can no longer have. Each
  action is one step of the proof, each conjunct it can disturb one below it.
  Then `TypeOK`, `NoDoubleDelivery`, `EffectMatchesStatus`,
  `FailureIsRecordedOnce` and `NoSilentLoss` follow.
  `EnoughStopItems` counts stop items in a sequence against workers still
  looping; its proof rests on lemmas about appending to and taking from the queue.
  `LifecycleImplemented` maps each step to a step of `JobLifecycle` or a
  stutter, with `IInv` supplying the guards (a commit happens once because the
  worker at `work` has `work = 0`). `OutcomesStay` reads off the same steps that
  no final status and no committed row is ever taken back, a restart included.
  `NeverAllBlocked`: an unfinished accepted job is in the queue or held
  (`NoSilentLoss`); a holder that cannot move waits on a full topic, and while no
  one has left its loop (`WorkersSurvive`) a queue with an item wakes every get.
  The liveness of the shutdown has its safety half proved: a state of `StopFits`
  leads only to another one or to the end (`FitIsStable`: the room an event takes
  on a topic is the room it no longer needs, an equality of cardinalities), and
  in each of them somebody can move (`ShutdownNeverStuck`: there are enough stop
  items, and no topic with an unpublished event behind it is full).
- `IngestStream_proofs`. Each step of the composition is a step of `Ingestion`
  or leaves it unchanged: taking an event is `ConsumeEvent`, everything else the
  pipeline does stutters. The theorems of `Ingestion` carry over.
  `SystemTypeCorrect` adds the types of the pipeline's own variables.
  `SuppressionIsEarned` (`NoPhantomSuppression`) needs to know that a tenant
  nobody has subscribed yet is not suppressed (`StartsClean`); a consumer whose
  commit failed is dead and never subscribed again. `RowsLagLittle` (`FlushLag`)
  needs `LagInv`: how far the row of the hour in hand may lag at each point of the
  consumer, and that rows hold multiples of `FlushEvery`. Its arithmetic is one
  lemma: a multiple of `FlushEvery` plus `FlushEvery` is one again, so a count that
  skips the flush cannot be a full period ahead. `RowsAreARunningTotal` is the
  other half of it: the i-th row of an hour is `i * FlushEvery`.
  `EventsAreConserved` (`EventsConserved`) is a sum over batches and hours; it is
  stated with one pair for each published or counted event, so that it is about
  the sizes of two sets and not about folds. Each step adds one pair to one of
  them and moves the topic by one (`PublishingAddsOne`, `CountingAddsOne`), or
  touches none.
- `EndpointLifecycle_proofs`. `ZombiesAreTracked` and `ShadowIsReported` are
  inductive relative to `TypeOK`. The argument of the first: a row becomes
  ZOMBIE only in a sweep, the sweep's candidates contain every such row within
  the limit, and a violation is resolved only together with the row's own revival.
  `DuplicatesBounded` and `DuplicatesStop` rest on `MayHaveStep`: a task that
  inserts is counted as a late one before and as its row after, a task that looks
  once there is a row is never late, and before there is one the late tasks are
  at most all tasks. `ChangesExplained` looks at every writer of a row's status.
- `Storage_proofs`
  - `WarmExport`: `WarmInv` says what the cursors, in memory and stored, have
    passed: every visible row up to a cursor is exported or shares its second with
    an exported one, rows become visible in the order of their stamps, and a batch
    in hand lies beyond the cursor. `LostOnlyInItsSecond` and `CopiesHaveACause`
    follow; the second counts copies against refusals and restarts.
  - `ColdArchive`: a run's retention has been in force, what it has deleted by age
    is in a file, and its clock is not ahead (`ColdInv`). `GoneMeansArchived` is
    an action property: each step that removes rows is looked at under it.
- `Caches_proofs`
  - `RetentionPolicy`: a copy expires within the time to live of the clock
    reading before the row was selected (`PolicyInv`), and a batch takes a copy's
    version only while it has not expired, so `ReplacementIsSeen` follows for
    batches that read and for batches that are served alike.
  - `TenantQuota`: until a minute's counter may be dropped it is at least what
    was admitted in that minute (`MinuteOK`), because a late request finds it
    unexpired and the clean-up drops only what is past the grace.
  - `ViewCache`: a write is announced only by a new version, so rows that were
    read for a version while it was current hold every write announced before;
    `ViewsSettled` says that of every stored view and `ReaderOK` of every request
    that may still store or be given one.
- `Response_proofs`
  - `AlertResponse`: the committed offset is never ahead of the position
    (`AlertInv`); an action that succeeded has found its tenant's block or adds one,
    so a logged success is blocked or was unblocked (`SuccessBlocks`); and `GivenUp`, the messages passed over, is a finite set whose size
    the failures bound.
  - `ThreatActors`: the count a report has read lacks only what was committed
    since or had been lost before (`ReportOK`); a decision under way has read the
    status, or one was decided since it began (`DecisionOK`).
- `Agents_proofs`
  - `LogShipper`: the lines in memory are different lines in the order of the log
    (`MemoryOK`), and were received only in posts whose acknowledgement was lost
    (`ReceivedOK`). With the same invariant `LinesKept` shows that a line leaves the
    memory only received or given up, the safety half of `ReadLinesLeave`.
  - `SalesChat`: answers since a pause plus the webhooks that may still answer
    (`MayStillAnswer`) are no more than were under way at the pause. Webhooks must
    be finite in number.
  - `EvidenceQueries`: since the breaker last forgot its failures each query it
    let through has failed or is in flight (`BreakerInv`), and at most as many are in flight as
    seats, one for each question and evidence task, by an injection
    (`FlightsFit`). The requests made and the retries that queries in flight still
    have (`Owed`) add up to what these queries may cost, so a retry changes nothing
    in the sum (`RetryInv`).
- `Services_proofs`
  - `ScanRun`: rows are those of the tests done, one each (`RowsFit`), and
    `total + errors + vulnerable rows = tests + vulnerable` at every test
    (`CountsFit`).
  - `ReconSources`: `ReviewSurvivesRuns` needs only the types: a run writes NEW
    only for keys it has flushed, its commit is refused when such a key has a row
    by then, and the only other status it writes is CONFIRMED. `PassesAreComplete` is
    the safety half of `DueSourcesRun`: the scheduler commits with nothing left to
    run (`PassOK`), so a source leaves a pass only run, or with a dead task.
  - `Services`: a step of the composition is a step of one part and leaves the
    others alone (`ServicesAreTheirParts`). `ServicesTypesHold` and
    `ServicesKeepTheirPromises` carry the types and safety properties of the
    twelve parts over to it.

Every safety invariant and action property that a passing run checks is stated by
a theorem. Only model-checked: the liveness properties, because fairness and
`ENABLED` are out of the prover's reach. That nothing is forgotten, or that
somebody can always move, is proved for `AcceptedJobFinishes` (`NothingForgotten`,
`NeverAllBlocked`), `StopReturnsWhenItFits` (`FitIsStable`, `ShutdownNeverStuck`),
`ReadLinesLeave` (`LinesKept`) and `DueSourcesRun` (`PassesAreComplete`).

## 5. What is not modelled

The contents of payloads, detection rules, scores, latencies and redaction;
authentication, which refuses before any state changes; the audit row after an
enqueue; evidence rows. SQLite's write lock is a lock only in `ThreatActors`;
elsewhere what it causes, a database call that raises (a consumer's too, see
Fairness), is in the model. Parts
left out, with the reason:

- Analytics: the task ends on its first pass, before it reads or writes
  (`func.case(..., else_=)` raises, and so does the handler's log call).
  `aggregator.py:138` would expect one hourly row per endpoint, while the
  pipeline writes one per flush (`pipeline.py:233`).
- Test scheduler: the router's scheduler is never started, and the one that is
  started gets no jobs.
- `process_stream_lines` in the processors names `BlockedIP`, which is not
  imported there (`processors.py:240`); a stream job that reaches the line raises
  `NameError` and fails. `StreamLinesRaise` models it.
- ML registry, web sockets, integrations, detection engines, capture, the
  remaining routes: single requests or data, see `PROJECT.json`.
- Kafka bus and Flink job: the bus forwards to the broker. The job's functions
  take a collector `out` that PyFlink does not pass, so the first element raises.
- The eBPF sensor (Rust) is a program of its own whose requests are the handlers'
  inputs. Its DNS cache can lock a shard it already holds (`dns.rs:154-195`,
  against "Non-blocking resolve" at `dns.rs:133`), and its sender is never
  dropped (`main.rs:382`), so its receiver does not end; neither reaches the
  server's state.
- The MCP tool servers with a lifespan cannot start: `FastMCP` passes the server
  to a lifespan function that takes no argument.
- Of the trading agent: its caches, router, language model loop and evaluation.
  They send no query through the breaker. An answer found under the router's key
  is stored again with a new time to live, so its age has no bound; with the
  default scores the loop never reaches its gate and always runs to its limit.
- The other programs and folders (dashboards, deployment, samples) have no
  protocol between components.

## 6. Order of the work

Built in this order: the ingestion path and its proofs; the pipeline and the
composition; the inventory; the services that hold data across a failure
(exporter, archiver, alerts); caches and quotas; recon, scans, actors, shipper;
the two agents; the proofs of the services and of their composition; last, the
action properties of the ingestion path and the inventory, the conservation of
events, and the safety halves of liveness properties.
