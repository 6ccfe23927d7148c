----------------------------- MODULE Ingestion ------------------------------
(***************************************************************************)
(* The ingestion subsystem of the API Sentinel server: the three request   *)
(* handlers that accept work (api/routers/stream.py, ingestion.py and      *)
(* threat_detection.py), the bounded in-memory IngestionQueue with its     *)
(* worker tasks (modules/ingestion/queue.py), the three processors         *)
(* (modules/ingestion/processors.py), the shutdown of the queue from       *)
(* api/main.py, and a crash and restart of the process.                    *)
(*                                                                         *)
(* A step is the code between two awaits that another task can observe:    *)
(* one committed transaction, one put, one get.  One request creates one   *)
(* job, so a job also names its request.  Payloads are abstract: a job has *)
(* a kind, an owner (the tenant) and, for a batch, a number of api_traffic *)
(* events, each published on the owner's topic.                            *)
(***************************************************************************)
EXTENDS Naturals, Sequences, FiniteSets

CONSTANTS
    StreamJobs,   \* jobs of kind "stream_lines"
    HttpJobs,     \* jobs of kind "http_traffic"
    BatchJobs,    \* jobs of kind "event_batch"
    Tenants,      \* accounts
    Owner,        \* Owner[j]: the account of job j
    Workers,      \* the worker tasks (settings.INGESTION_WORKERS of them)
    QueueMax,     \* settings.INGESTION_QUEUE_MAX_SIZE
    TopicMax,     \* maxsize of one in-memory topic
    BatchSize,    \* api_traffic events in one batch
    Faults,       \* the steps whose database call may raise
    MaxRestarts,  \* bound: how often the process stops or dies and comes back
    Stop,         \* the queue item IngestionJobItem("stop", ...)
    NoJob         \* a worker holds no item

Jobs == StreamJobs \cup HttpJobs \cup BatchJobs

FaultPoints == {"begin", "process", "complete", "record", "refuse"}

ASSUME KindsAssumption ==
    /\ StreamJobs \cap HttpJobs = {}
    /\ StreamJobs \cap BatchJobs = {}
    /\ HttpJobs \cap BatchJobs = {}
ASSUME OwnerAssumption == Owner \in [Jobs -> Tenants]
ASSUME WorkersAssumption == IsFiniteSet(Workers) /\ Workers # {}
ASSUME BoundsAssumption ==
    /\ QueueMax \in Nat \ {0}
    /\ TopicMax \in Nat \ {0}
    /\ BatchSize \in Nat
    /\ MaxRestarts \in Nat
ASSUME FaultsAssumption == Faults \subseteq FaultPoints
ASSUME ItemsAssumption == Stop \notin Jobs /\ NoJob \notin Jobs /\ Stop # NoJob

VARIABLES
    phase,      \* the process: "up", "stopping", "stopped" or "down"
    restarts,   \* restarts so far
    queue,      \* IngestionQueue._queue
    toPut,      \* stop items IngestionQueue.stop has still to put
    pc,         \* where each worker task is
    item,       \* the job each worker holds
    req,        \* where the request that creates each job is
    job,        \* IngestionJob.status in the database, "NONE" when no row
    work,       \* commits of the rows the job produces
    dead,       \* IngestionDeadLetter rows with the job's whole payload
    published,  \* events of the batch put on the owner's topic
    topic       \* events waiting on each tenant's enriched topic

procVars == <<phase, restarts>>
queueVars == <<queue, toPut>>
workerVars == <<pc, item>>
rowVars == <<job, work, dead>>
busVars == <<published, topic>>
vars == <<procVars, queueVars, workerVars, req, rowVars, busVars>>

Phases == {"up", "stopping", "stopped", "down"}
WorkerStates == {"waiting", "begin", "work", "finish", "failing", "exited"}
RequestStates == {"new", "stored", "putting", "full",
                  "queued", "refused", "error", "lost"}
JobStates == {"NONE", "QUEUED", "RUNNING", "COMPLETED", "FAILED"}

InFlight == {"stored", "putting", "full"}
Holding == {"begin", "work", "finish", "failing"}

TypeOK ==
    /\ phase \in Phases
    /\ restarts \in 0..MaxRestarts
    /\ queue \in Seq(Jobs \cup {Stop})
    /\ Len(queue) <= QueueMax
    /\ toPut \in 0..Cardinality(Workers)
    /\ pc \in [Workers -> WorkerStates]
    /\ item \in [Workers -> Jobs \cup {NoJob}]
    /\ req \in [Jobs -> RequestStates]
    /\ job \in [Jobs -> JobStates]
    /\ work \in [Jobs -> Nat]
    /\ dead \in [Jobs -> Nat]
    /\ published \in [Jobs -> 0..BatchSize]
    /\ topic \in [Tenants -> 0..TopicMax]

Init ==
    /\ phase = "up"
    /\ restarts = 0
    /\ queue = <<>>
    /\ toPut = 0
    /\ pc = [w \in Workers |-> "waiting"]
    /\ item = [w \in Workers |-> NoJob]
    /\ req = [j \in Jobs |-> "new"]
    /\ job = [j \in Jobs |-> "NONE"]
    /\ work = [j \in Jobs |-> 0]
    /\ dead = [j \in Jobs |-> 0]
    /\ published = [j \in Jobs |-> 0]
    /\ topic = [t \in Tenants |-> 0]

-----------------------------------------------------------------------------
(* The request handlers.  A refused quota, an oversized or an empty request *)
(* returns before any row exists and changes nothing here.                  *)

HasRoom == Len(queue) < QueueMax

MoveRequest(j, from, to) ==
    /\ req[j] = from
    /\ req' = [req EXCEPT ![j] = to]

(* The row is committed as QUEUED before the item is offered to the queue. *)
Submit(j) ==
    /\ phase = "up"
    /\ MoveRequest(j, "new", "stored")
    /\ job' = [job EXCEPT ![j] = "QUEUED"]
    /\ UNCHANGED <<procVars, queueVars, workerVars, work, dead, busVars>>

(* IngestionQueue.enqueue: the put goes through, at once or after a wait. *)
Enqueue(j) ==
    /\ req[j] \in {"stored", "putting"}
    /\ HasRoom
    /\ req' = [req EXCEPT ![j] = "queued"]
    /\ queue' = Append(queue, j)
    /\ UNCHANGED <<procVars, toPut, workerVars, rowVars, busVars>>

EnqueueWaits(j) ==
    /\ ~HasRoom
    /\ MoveRequest(j, "stored", "putting")
    /\ UNCHANGED <<procVars, queueVars, workerVars, rowVars, busVars>>

(* Mutant: the timed-out put is not cancelled and still lands in the queue. *)
EnqueueTimesOutLate(j) ==
    /\ MoveRequest(j, "putting", "full")
    /\ queue' = IF HasRoom THEN Append(queue, j) ELSE queue
    /\ UNCHANGED <<procVars, toPut, workerVars, rowVars, busVars>>

(* Mutant: the timeout ends the handler without an answer. *)
EnqueueDrops(j) ==
    /\ MoveRequest(j, "putting", "new")
    /\ UNCHANGED <<procVars, queueVars, workerVars, rowVars, busVars>>

(* The 0.1 s deadline of wait_for fires; room may have appeared meanwhile. *)
EnqueueTimesOut(j) ==
    /\ MoveRequest(j, "putting", "full")
    /\ UNCHANGED <<procVars, queueVars, workerVars, rowVars, busVars>>

(* "Queue full": the handler marks its own row and answers 429. *)
Refuse(j) ==
    /\ MoveRequest(j, "full", "refused")
    /\ job' = [job EXCEPT ![j] = "FAILED"]
    /\ UNCHANGED <<procVars, queueVars, workerVars, work, dead, busVars>>

(* The commit of that mark raises: the client sees a 500, the row stays. *)
RefuseRaises(j) ==
    /\ "refuse" \in Faults
    /\ MoveRequest(j, "full", "error")
    /\ UNCHANGED <<procVars, queueVars, workerVars, rowVars, busVars>>

Answer(j) ==
    Enqueue(j) \/ EnqueueWaits(j) \/ EnqueueTimesOut(j) \/ Refuse(j) \/ RefuseRaises(j)

-----------------------------------------------------------------------------
(* The worker tasks. *)

(* `while self._running`: what a worker does once it has dealt with an item. *)
LoopHead == IF phase = "up" THEN "waiting" ELSE "exited"

MoveWorker(w, from, to) ==
    /\ pc[w] = from
    /\ pc' = [pc EXCEPT ![w] = to]

Release(w, from) ==
    /\ MoveWorker(w, from, LoopHead)
    /\ item' = [item EXCEPT ![w] = NoJob]

(* Mutant: the worker looks at the head and leaves it in the queue. *)
GetJobPeeks(w) ==
    /\ queue # <<>>
    /\ Head(queue) # Stop
    /\ MoveWorker(w, "waiting", "begin")
    /\ item' = [item EXCEPT ![w] = Head(queue)]
    /\ UNCHANGED <<procVars, queueVars, req, rowVars, busVars>>

GetJob(w) ==
    /\ queue # <<>>
    /\ Head(queue) # Stop
    /\ MoveWorker(w, "waiting", "begin")
    /\ item' = [item EXCEPT ![w] = Head(queue)]
    /\ queue' = Tail(queue)
    /\ UNCHANGED <<procVars, toPut, req, rowVars, busVars>>

GetStop(w) ==
    /\ queue # <<>>
    /\ Head(queue) = Stop
    /\ MoveWorker(w, "waiting", "exited")
    /\ queue' = Tail(queue)
    /\ UNCHANGED <<procVars, toPut, item, req, rowVars, busVars>>

(* Every processor first commits RUNNING in a session of its own. *)
BeginJob(w) ==
    /\ MoveWorker(w, "begin", "work")
    /\ job' = [job EXCEPT ![item[w]] = "RUNNING"]
    /\ UNCHANGED <<procVars, queueVars, item, req, work, dead, busVars>>

(* process_stream_lines evaluates BlockedIP, a name the module never binds: *)
(* NameError, whatever the lines are.                                       *)
StreamLinesRaise(w) ==
    /\ item[w] \in StreamJobs
    /\ MoveWorker(w, "work", "failing")
    /\ UNCHANGED <<procVars, queueVars, item, req, rowVars, busVars>>

(* Mutant: put_nowait on a topic without maxsize. *)
PublishUnbounded(w) ==
    LET j == item[w] IN
    /\ pc[w] = "work"
    /\ j \in BatchJobs
    /\ published[j] < BatchSize
    /\ published' = [published EXCEPT ![j] = @ + 1]
    /\ topic' = [topic EXCEPT ![Owner[j]] = @ + 1]
    /\ UNCHANGED <<procVars, queueVars, workerVars, req, rowVars>>

(* Mutant: the topic's name does not name the account. *)
PublishOnOneTopic(w) ==
    LET j == item[w]
        t == CHOOSE u \in Tenants : TRUE IN
    /\ pc[w] = "work"
    /\ j \in BatchJobs
    /\ published[j] < BatchSize
    /\ topic[t] < TopicMax
    /\ published' = [published EXCEPT ![j] = @ + 1]
    /\ topic' = [topic EXCEPT ![t] = @ + 1]
    /\ UNCHANGED <<procVars, queueVars, workerVars, req, rowVars>>

(* process_event_batch awaits bus.publish inside its open transaction; the  *)
(* put blocks while the tenant's topic is full.                             *)
PublishEvent(w) ==
    LET j == item[w] IN
    /\ pc[w] = "work"
    /\ j \in BatchJobs
    /\ published[j] < BatchSize
    /\ topic[Owner[j]] < TopicMax
    /\ published' = [published EXCEPT ![j] = @ + 1]
    /\ topic' = [topic EXCEPT ![Owner[j]] = @ + 1]
    /\ UNCHANGED <<procVars, queueVars, workerVars, req, rowVars>>

(* One transaction holds everything the job writes. *)
CommitWork(w) ==
    LET j == item[w] IN
    /\ j \in HttpJobs \cup BatchJobs
    /\ j \in BatchJobs => published[j] = BatchSize
    /\ MoveWorker(w, "work", "finish")
    /\ work' = [work EXCEPT ![j] = @ + 1]
    /\ UNCHANGED <<procVars, queueVars, item, req, job, dead, busVars>>

(* Mutant: the commit of COMPLETED is forgotten. *)
CompleteJobForgets(w) ==
    /\ Release(w, "finish")
    /\ UNCHANGED <<procVars, queueVars, req, rowVars, busVars>>

(* COMPLETED is a second transaction, after the cache version is bumped. *)
CompleteJob(w) ==
    /\ Release(w, "finish")
    /\ job' = [job EXCEPT ![item[w]] = "COMPLETED"]
    /\ UNCHANGED <<procVars, queueVars, req, work, dead, busVars>>

(* Mutant: a processor that raised is run again from its start. *)
ProcessorRetries(w) ==
    /\ \/ "begin" \in Faults /\ pc[w] = "begin"
       \/ "process" \in Faults /\ pc[w] = "work" /\ item[w] \notin StreamJobs
       \/ "complete" \in Faults /\ pc[w] = "finish"
    /\ pc' = [pc EXCEPT ![w] = "begin"]
    /\ UNCHANGED <<procVars, queueVars, item, req, rowVars, busVars>>

(* A database call of the processor raises and its session rolls back. *)
ProcessorRaises(w) ==
    /\ \/ "begin" \in Faults /\ pc[w] = "begin"
       \/ "process" \in Faults /\ pc[w] = "work" /\ item[w] \notin StreamJobs
       \/ "complete" \in Faults /\ pc[w] = "finish"
    /\ pc' = [pc EXCEPT ![w] = "failing"]
    /\ UNCHANGED <<procVars, queueVars, item, req, rowVars, busVars>>

(* Mutant: FAILED is committed and the dead letter is lost. *)
RecordFailureWithoutLetter(w) ==
    /\ Release(w, "failing")
    /\ job' = [job EXCEPT ![item[w]] = "FAILED"]
    /\ UNCHANGED <<procVars, queueVars, req, work, dead, busVars>>

(* Mutant: no try around the dispatch, the worker task ends with the job. *)
RecordFailureAndExit(w) ==
    /\ MoveWorker(w, "failing", "exited")
    /\ item' = [item EXCEPT ![w] = NoJob]
    /\ job' = [job EXCEPT ![item[w]] = "FAILED"]
    /\ dead' = [dead EXCEPT ![item[w]] = @ + 1]
    /\ UNCHANGED <<procVars, queueVars, req, work, busVars>>

(* `except Exception`: FAILED and the dead letter in one transaction. *)
RecordFailure(w) ==
    /\ Release(w, "failing")
    /\ job' = [job EXCEPT ![item[w]] = "FAILED"]
    /\ dead' = [dead EXCEPT ![item[w]] = @ + 1]
    /\ UNCHANGED <<procVars, queueVars, req, work, busVars>>

(* ... whose own exception is swallowed by `except Exception: pass`. *)
RecordFailureRaises(w) ==
    /\ "record" \in Faults
    /\ Release(w, "failing")
    /\ UNCHANGED <<procVars, queueVars, req, rowVars, busVars>>

(* What a worker does of its own accord, when nothing goes wrong in the     *)
(* database under it.                                                       *)
Proceed(w) ==
    \/ GetJob(w) \/ GetStop(w) \/ BeginJob(w) \/ StreamLinesRaise(w)
    \/ PublishEvent(w) \/ CommitWork(w) \/ CompleteJob(w)
    \/ RecordFailure(w) \/ RecordFailureRaises(w)

Worker(w) == Proceed(w) \/ ProcessorRaises(w)

-----------------------------------------------------------------------------
(* The consumer of the enriched topics is StreamPipeline, which api/main.py *)
(* stops before the ingestion queue.  Here it only makes room.              *)
ConsumeEvent(t) ==
    /\ phase = "up"
    /\ topic[t] > 0
    /\ topic' = [topic EXCEPT ![t] = @ - 1]
    /\ UNCHANGED <<procVars, queueVars, workerVars, req, rowVars, published>>

-----------------------------------------------------------------------------
(* The process. *)

(* Mutant: one stop item, whatever the number of workers. *)
BeginStopWithOneItem ==
    /\ phase = "up"
    /\ \A j \in Jobs : req[j] \notin InFlight
    /\ phase' = "stopping"
    /\ toPut' = 1
    /\ UNCHANGED <<restarts, queue, workerVars, req, rowVars, busVars>>

(* IngestionQueue.stop begins: _running is False before the first put.  The *)
(* HTTP server runs the shutdown after its requests have been answered.     *)
BeginStop ==
    /\ phase = "up"
    /\ \A j \in Jobs : req[j] \notin InFlight
    /\ phase' = "stopping"
    /\ toPut' = Cardinality(Workers)
    /\ UNCHANGED <<restarts, queue, workerVars, req, rowVars, busVars>>

PutStop ==
    /\ phase = "stopping"
    /\ toPut > 0
    /\ HasRoom
    /\ queue' = Append(queue, Stop)
    /\ toPut' = toPut - 1
    /\ UNCHANGED <<procVars, workerVars, req, rowVars, busVars>>

(* Every worker task has been awaited: stop returns, the engine is disposed *)
(* and the process ends.                                                    *)
EndStop ==
    /\ phase = "stopping"
    /\ toPut = 0
    /\ \A w \in Workers : pc[w] = "exited"
    /\ phase' = "stopped"
    /\ UNCHANGED <<restarts, queueVars, workerVars, req, rowVars, busVars>>

(* The process dies: the database keeps what was committed, the rest is gone. *)
Crash ==
    /\ phase \in {"up", "stopping"}
    /\ restarts < MaxRestarts
    /\ phase' = "down"
    /\ queue' = <<>>
    /\ toPut' = 0
    /\ pc' = [w \in Workers |-> "exited"]
    /\ item' = [w \in Workers |-> NoJob]
    /\ req' = [j \in Jobs |-> IF req[j] \in InFlight THEN "lost" ELSE req[j]]
    /\ topic' = [t \in Tenants |-> 0]
    /\ UNCHANGED <<restarts, rowVars, published>>

(* A new process: create_all, an empty IngestionQueue, start().  Nothing    *)
(* reads the IngestionJob rows an earlier process left behind.              *)
Restart ==
    /\ phase \in {"stopped", "down"}
    /\ restarts < MaxRestarts
    /\ phase' = "up"
    /\ restarts' = restarts + 1
    /\ queue' = <<>>
    /\ pc' = [w \in Workers |-> "waiting"]
    /\ topic' = [t \in Tenants |-> 0]
    /\ UNCHANGED <<toPut, item, req, rowVars, published>>

Next ==
    \/ \E j \in Jobs : Submit(j) \/ Answer(j)
    \/ \E w \in Workers : Worker(w)
    \/ \E t \in Tenants : ConsumeEvent(t)
    \/ BeginStop \/ PutStop \/ EndStop \/ Crash \/ Restart

Spec == Init /\ [][Next]_vars

(* Tasks of one event loop: a task whose await can return is resumed in the *)
(* end.  Nobody has to send requests, stop the process or crash it.         *)
Fairness ==
    /\ \A j \in Jobs : WF_vars(Answer(j))
    /\ \A w \in Workers : WF_vars(Proceed(w))
    /\ \A t \in Tenants : WF_vars(ConsumeEvent(t))
    /\ WF_vars(PutStop)
    /\ WF_vars(EndStop)

FairSpec == Spec /\ Fairness

-----------------------------------------------------------------------------
(* Safety. *)

InQueue(j) == \E i \in 1..Len(queue) : queue[i] = j
Held(j) == \E w \in Workers : item[w] = j

(* A job is delivered to at most one worker, at most once: it is in the     *)
(* queue once, or with one worker, or nowhere, and only after its request   *)
(* was answered with a job id.  (asyncio.Queue get/put in _worker_loop.)    *)
NoDoubleDelivery ==
    /\ \A i, k \in 1..Len(queue) : queue[i] = queue[k] /\ queue[i] # Stop => i = k
    /\ \A w \in Workers, i \in 1..Len(queue) : item[w] # queue[i]
    /\ \A v, w \in Workers : item[v] = item[w] /\ item[v] # NoJob => v = w
    /\ \A i \in 1..Len(queue) : queue[i] # Stop => req[queue[i]] = "queued"
    /\ \A w \in Workers : item[w] # NoJob => req[item[w]] = "queued"

(* The row's status agrees with the data it describes: rows are committed   *)
(* at most once, never while the job waits, and always before COMPLETED.    *)
EffectMatchesStatus ==
    \A j \in Jobs :
        /\ work[j] <= 1
        /\ job[j] \in {"NONE", "QUEUED"} => work[j] = 0
        /\ job[j] = "COMPLETED" => work[j] = 1 /\ dead[j] = 0

(* A FAILED job is either a refusal, of which nothing was ever done, or has *)
(* exactly one dead letter; and dead letters are kept for FAILED jobs only. *)
FailureIsRecordedOnce ==
    \A j \in Jobs :
        /\ dead[j] <= 1
        /\ dead[j] = 1 => job[j] = "FAILED"
        /\ job[j] = "FAILED" => (dead[j] = 1 <=> req[j] = "queued")
        /\ req[j] \in {"full", "refused", "error"} =>
              work[j] = 0 /\ dead[j] = 0 /\ published[j] = 0

(* stop() supplies a stop item for every worker that may still be waiting:  *)
(* the items in the queue and those to come are never fewer than the        *)
(* workers that have not left their loop.                                   *)
StopItems(q) == {i \in 1..Len(q) : q[i] = Stop}
Looping == {w \in Workers : pc[w] # "exited"}

EnoughStopItems ==
    phase = "stopping" =>
        Cardinality(Looping) <= toPut + Cardinality(StopItems(queue))

(* Whatever its jobs raise, a worker leaves its loop only in a shutdown, and *)
(* only a shutdown puts stop items in the queue.                            *)
WorkersStay ==
    phase = "up" =>
        /\ \A w \in Workers : pc[w] # "exited"
        /\ \A i \in 1..Len(queue) : queue[i] # Stop

(* The life of the rows is the one JobLifecycle promises. *)
Lifecycle == INSTANCE JobLifecycle
    WITH status <- job, applied <- work, deadLetters <- dead
ImplementsLifecycle == Lifecycle!Spec

(* Without a crash, a restart or a lost failure record, no accepted job is  *)
(* forgotten: while the process is up an unfinished job is in the queue or  *)
(* with a worker.  (The `except` and `finally` branches of _worker_loop.)   *)
NoSilentLoss ==
    (phase = "up" /\ restarts = 0 /\ "record" \notin Faults) =>
        \A j \in Jobs :
            req[j] = "queued" /\ job[j] \notin Lifecycle!Final =>
                InQueue(j) \/ Held(j)

(* What a job came to is never revised, not even by a later process: its    *)
(* final status stays, and neither its rows nor its dead letter go away.    *)
OutcomeIsFinal ==
    [][\A j \in Jobs :
          /\ job[j] \in Lifecycle!Final => job'[j] = job[j]
          /\ work'[j] >= work[j] /\ dead'[j] >= dead[j]]_vars

(* The rows of a batch are committed only once all its events are published: *)
(* none is stored that the stream pipeline will not hear of.                *)
AppliedBatchIsPublished ==
    \A j \in BatchJobs : work[j] >= 1 => published[j] = BatchSize

(* Why a worker does not move: it has left its loop, its get waits for an   *)
(* item, or its publish waits for room on the topic.                        *)
Waits(w) ==
    \/ pc[w] = "exited"
    \/ pc[w] = "waiting" /\ queue = <<>>
    \/ /\ pc[w] = "work"
       /\ item[w] \in BatchJobs
       /\ published[item[w]] < BatchSize
       /\ topic[Owner[item[w]]] = TopicMax

(* While the process is up and an accepted job is unfinished, some worker   *)
(* can move or a full topic waits for its consumer: the workers never wait  *)
(* for one another.                                                         *)
NeverWedged ==
    (phase = "up" /\ restarts = 0 /\ "record" \notin Faults) =>
        \A j \in Jobs :
            req[j] = "queued" /\ job[j] \notin Lifecycle!Final =>
                \/ \E w \in Workers : ~Waits(w)
                \/ \E t \in Tenants : topic[t] = TopicMax

-----------------------------------------------------------------------------
(* The inductive invariant behind the theorems of Ingestion_proofs.         *)

(* What the database says of a job a worker holds, at each of its steps. *)
HeldRowOK ==
    \A w \in Workers :
        /\ item[w] # NoJob <=> pc[w] \in Holding
        /\ item[w] # NoJob => dead[item[w]] = 0
        /\ pc[w] = "begin" => job[item[w]] = "QUEUED" /\ work[item[w]] = 0
        /\ pc[w] = "work" => job[item[w]] = "RUNNING" /\ work[item[w]] = 0
        /\ pc[w] = "finish" => job[item[w]] = "RUNNING" /\ work[item[w]] = 1
        /\ pc[w] = "failing" =>
              \/ job[item[w]] = "QUEUED" /\ work[item[w]] = 0
              \/ job[item[w]] = "RUNNING" /\ work[item[w]] <= 1

(* What it says of a job no worker has seen yet. *)
UntouchedRowOK ==
    /\ \A i \in 1..Len(queue) : queue[i] # Stop =>
          job[queue[i]] = "QUEUED" /\ work[queue[i]] = 0 /\ dead[queue[i]] = 0
    /\ \A j \in Jobs :
          /\ req[j] = "new" <=> job[j] = "NONE"
          /\ req[j] \in InFlight \cup {"error", "lost"} => job[j] = "QUEUED"
          /\ req[j] = "refused" => job[j] = "FAILED"
          /\ req[j] # "queued" => work[j] = 0 /\ dead[j] = 0 /\ published[j] = 0

FinalRowOK ==
    \A j \in Jobs :
        /\ work[j] <= 1 /\ dead[j] <= 1
        /\ job[j] = "QUEUED" => work[j] = 0
        /\ job[j] = "COMPLETED" => work[j] = 1 /\ dead[j] = 0
        /\ dead[j] = 1 => job[j] = "FAILED"
        /\ job[j] = "FAILED" /\ req[j] = "queued" => dead[j] = 1

ProcessOK ==
    /\ phase # "up" => \A j \in Jobs : req[j] \notin InFlight
    /\ phase = "stopped" => \A w \in Workers : pc[w] = "exited"
    /\ phase = "down" => queue = <<>> /\ \A w \in Workers : pc[w] = "exited"
    /\ phase # "stopping" => toPut = 0

IInv == TypeOK /\ NoDoubleDelivery /\ HeldRowOK /\ UntouchedRowOK /\ FinalRowOK /\ ProcessOK

-----------------------------------------------------------------------------
(* Liveness, under FairSpec. *)

(* Every accepted job ends COMPLETED or FAILED, unless the process is       *)
(* stopped or dies first.                                                   *)
AcceptedJobFinishes ==
    \A j \in Jobs :
        req[j] = "queued" ~> (job[j] \in Lifecycle!Final \/ phase # "up")

(* The handlers never wait for ever on a full queue: each request that      *)
(* stored its row is answered, by a job id, a 429 or a 500.                 *)
RequestIsAnswered ==
    \A j \in Jobs :
        req[j] \in InFlight ~> req[j] \in {"queued", "refused", "error", "lost"}

(* stop() returns whenever its stop items fit behind the backlog and every  *)
(* topic, no longer consumed, has room for what the accepted batches of its *)
(* tenant have still to publish.                                            *)
Backlog(t) == {j \in BatchJobs : Owner[j] = t /\ (InQueue(j) \/ Held(j))}
Unpublished(t) == UNION {{j} \X ((published[j] + 1)..BatchSize) : j \in Backlog(t)}

StopFits ==
    /\ phase = "stopping"
    /\ Len(queue) + toPut <= QueueMax
    /\ \A t \in Tenants : topic[t] + Cardinality(Unpublished(t)) <= TopicMax

(* A shutdown that fits goes on fitting, and is never stuck half-way: stop() *)
(* can put its next item, or a worker can move, or all of them have left.   *)
StopFitsStays == [][StopFits => StopFits' \/ phase' \in {"stopped", "down"}]_vars

ShutdownMoves ==
    StopFits =>
        \/ toPut > 0 /\ HasRoom
        \/ \E w \in Workers : ~Waits(w)
        \/ toPut = 0 /\ \A w \in Workers : pc[w] = "exited"

StopReturnsWhenItFits == StopFits ~> phase \in {"stopped", "down"}

(* api/main.py logs "Shutdown complete." after `await ingestion_queue.stop()`: *)
(* the shutdown always gets there.                                          *)
StopReturns == phase = "stopping" ~> phase \in {"stopped", "down"}

(* Every accepted job is processed in the end, across restarts.             *)
AcceptedJobSurvivesRestart ==
    \A j \in Jobs : req[j] = "queued" ~> job[j] \in Lifecycle!Final
=============================================================================
