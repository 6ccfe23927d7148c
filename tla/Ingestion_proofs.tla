-------------------------- MODULE Ingestion_proofs --------------------------
(***************************************************************************)
(* Theorems about Ingestion, for every set of jobs, tenants and workers,   *)
(* every bound and every set of fault points.  The argument is the usual   *)
(* one: TypeOK alone is inductive; IInv adds, for each place a job can be  *)
(* in (its request, the queue, a worker at a given step), what the         *)
(* database says of it there, and is inductive with it.                    *)
(***************************************************************************)
EXTENDS Ingestion, FunctionTheorems, FiniteSetTheorems, TLAPS

USE DEF Phases, WorkerStates, RequestStates, JobStates, InFlight, Holding,
        procVars, queueVars, workerVars, rowVars, busVars

LEMMA WorkersCount == Cardinality(Workers) \in Nat
  BY WorkersAssumption, FS_CardinalityType

(* The next-state relation, one disjunct per action, for the case splits. *)
LEMMA NextCases ==
  ASSUME Next
  PROVE  \/ \E j \in Jobs : \/ Submit(j) \/ Enqueue(j) \/ EnqueueWaits(j)
                            \/ EnqueueTimesOut(j) \/ Refuse(j) \/ RefuseRaises(j)
         \/ \E w \in Workers : \/ GetJob(w) \/ GetStop(w) \/ BeginJob(w)
                               \/ StreamLinesRaise(w) \/ PublishEvent(w)
                               \/ CommitWork(w) \/ CompleteJob(w)
                               \/ ProcessorRaises(w) \/ RecordFailure(w)
                               \/ RecordFailureRaises(w)
         \/ \E t \in Tenants : ConsumeEvent(t)
         \/ BeginStop \/ PutStop \/ EndStop \/ Crash \/ Restart
  BY DEF Next, Answer, Worker, Proceed

-----------------------------------------------------------------------------
(* Types are preserved by every step on their own. *)
LEMMA TypeStep == TypeOK /\ [Next]_vars => TypeOK'
<1> USE WorkersCount, BoundsAssumption, OwnerAssumption
<1> SUFFICES ASSUME TypeOK, [Next]_vars PROVE TypeOK'
  OBVIOUS
<1> USE DEF TypeOK
<1>1. CASE UNCHANGED vars
  BY <1>1 DEF vars
<1>2. ASSUME NEW j \in Jobs, Submit(j) PROVE TypeOK'
  BY <1>2 DEF Submit, MoveRequest
<1>3. ASSUME NEW j \in Jobs, Enqueue(j) PROVE TypeOK'
  BY <1>3, SMTT(30) DEF Enqueue, HasRoom
<1>4. ASSUME NEW j \in Jobs, EnqueueWaits(j) PROVE TypeOK'
  BY <1>4 DEF EnqueueWaits, MoveRequest
<1>5. ASSUME NEW j \in Jobs, EnqueueTimesOut(j) PROVE TypeOK'
  BY <1>5 DEF EnqueueTimesOut, MoveRequest
<1>6. ASSUME NEW j \in Jobs, Refuse(j) PROVE TypeOK'
  BY <1>6 DEF Refuse, MoveRequest
<1>7. ASSUME NEW j \in Jobs, RefuseRaises(j) PROVE TypeOK'
  BY <1>7 DEF RefuseRaises, MoveRequest
<1>8. ASSUME NEW w \in Workers, GetJob(w) PROVE TypeOK'
  <2>1. Head(queue) \in Jobs /\ Tail(queue) \in Seq(Jobs \cup {Stop})
        /\ Len(Tail(queue)) <= QueueMax
    BY <1>8 DEF GetJob
  <2>2. QED
    BY <1>8, <2>1 DEF GetJob, MoveWorker
<1>9. ASSUME NEW w \in Workers, GetStop(w) PROVE TypeOK'
  <2>1. Tail(queue) \in Seq(Jobs \cup {Stop}) /\ Len(Tail(queue)) <= QueueMax
    BY <1>9 DEF GetStop
  <2>2. QED
    BY <1>9, <2>1 DEF GetStop, MoveWorker
<1>10. ASSUME NEW w \in Workers, BeginJob(w) PROVE TypeOK'
  BY <1>10 DEF BeginJob, MoveWorker
<1>11. ASSUME NEW w \in Workers, StreamLinesRaise(w) PROVE TypeOK'
  BY <1>11 DEF StreamLinesRaise, MoveWorker
<1>12. ASSUME NEW w \in Workers, PublishEvent(w) PROVE TypeOK'
  BY <1>12, SMTT(30) DEF PublishEvent, Jobs
<1>13. ASSUME NEW w \in Workers, CommitWork(w) PROVE TypeOK'
  BY <1>13, SMTT(30) DEF CommitWork, MoveWorker, Jobs
<1>14. ASSUME NEW w \in Workers, CompleteJob(w) PROVE TypeOK'
  BY <1>14 DEF CompleteJob, Release, MoveWorker, LoopHead
<1>15. ASSUME NEW w \in Workers, ProcessorRaises(w) PROVE TypeOK'
  BY <1>15 DEF ProcessorRaises
<1>16. ASSUME NEW w \in Workers, RecordFailure(w) PROVE TypeOK'
  <2>1. CASE item[w] \in Jobs
    BY <1>16, <2>1, SMTT(30) DEF RecordFailure, Release, MoveWorker, LoopHead
  <2>2. CASE item[w] = NoJob
    <3>1. dead' = dead /\ job' = job
      BY <1>16, <2>2, ItemsAssumption DEF RecordFailure
    <3>2. QED
      BY <1>16, <3>1 DEF RecordFailure, Release, MoveWorker, LoopHead
  <2>3. QED
    BY <2>1, <2>2
<1>17. ASSUME NEW w \in Workers, RecordFailureRaises(w) PROVE TypeOK'
  BY <1>17 DEF RecordFailureRaises, Release, MoveWorker, LoopHead
<1>18. ASSUME NEW t \in Tenants, ConsumeEvent(t) PROVE TypeOK'
  BY <1>18 DEF ConsumeEvent
<1>19. CASE BeginStop
  BY <1>19 DEF BeginStop
<1>20. CASE PutStop
  BY <1>20 DEF PutStop, HasRoom
<1>21. CASE EndStop
  BY <1>21 DEF EndStop
<1>22. CASE Crash
  BY <1>22 DEF Crash
<1>23. CASE Restart
  BY <1>23 DEF Restart
<1>24. QED
  BY <1>1, <1>2, <1>3, <1>4, <1>5, <1>6, <1>7, <1>8, <1>9, <1>10, <1>11, <1>12,
     <1>13, <1>14, <1>15, <1>16, <1>17, <1>18, <1>19, <1>20, <1>21, <1>22, <1>23,
     NextCases

(* Every variable keeps its type; in particular the queue and the topics    *)
(* never outgrow their bounds (asyncio.Queue(maxsize=...)).                 *)
THEOREM TypeCorrect == Spec => []TypeOK
<1>1. Init => TypeOK
  BY WorkersCount, BoundsAssumption DEF Init, TypeOK
<1>2. QED
  BY <1>1, TypeStep, PTL DEF Spec

-----------------------------------------------------------------------------
(* Taking the head moves every other item one place forward. *)
LEMMA TailPositions ==
  ASSUME NEW S, NEW q \in Seq(S), q # <<>>
  PROVE  /\ 1 \in 1..Len(q) /\ Head(q) = q[1]
         /\ \A i \in 1..Len(Tail(q)) :
               i + 1 \in 1..Len(q) /\ i + 1 # 1 /\ Tail(q)[i] = q[i + 1]
         /\ \A i, k \in 1..Len(Tail(q)) : i + 1 = k + 1 => i = k
  OBVIOUS

(* IInv is inductive. *)
LEMMA InductiveStep == IInv /\ [Next]_vars => IInv'
<1> SUFFICES ASSUME IInv, [Next]_vars PROVE IInv'
  OBVIOUS
<1> USE ItemsAssumption
<1>0. TypeOK /\ TypeOK'
  BY TypeStep DEF IInv
<1>1. CASE UNCHANGED vars
  BY <1>0, <1>1
  DEF IInv, vars, NoDoubleDelivery, HeldRowOK, UntouchedRowOK, FinalRowOK, ProcessOK
<1>2. ASSUME NEW j \in Jobs, Submit(j) PROVE IInv'
  <2>1. NoDoubleDelivery' /\ ProcessOK'
    BY <1>2 DEF IInv, NoDoubleDelivery, ProcessOK, Submit, MoveRequest
  <2>2. HeldRowOK'
    BY <1>2 DEF IInv, NoDoubleDelivery, HeldRowOK, Submit, MoveRequest
  <2>3. UntouchedRowOK'
    BY <1>0, <1>2 DEF IInv, TypeOK, UntouchedRowOK, Submit, MoveRequest
  <2>4. FinalRowOK'
    BY <1>2 DEF IInv, UntouchedRowOK, FinalRowOK, Submit, MoveRequest
  <2>5. QED
    BY <1>0, <2>1, <2>2, <2>3, <2>4 DEF IInv
<1>3. ASSUME NEW j \in Jobs, Enqueue(j) PROVE IInv'
  <2>1. HeldRowOK' /\ UntouchedRowOK' /\ ProcessOK'
    BY <1>3 DEF IInv, HeldRowOK, UntouchedRowOK, ProcessOK, Enqueue
  <2>2. NoDoubleDelivery'
    BY <1>0, <1>3, SMTT(30) DEF IInv, TypeOK, NoDoubleDelivery, HeldRowOK, Enqueue
  <2>3. FinalRowOK'
    BY <1>3 DEF IInv, UntouchedRowOK, FinalRowOK, Enqueue
  <2>4. QED
    BY <1>0, <2>1, <2>2, <2>3 DEF IInv
<1>4. ASSUME NEW j \in Jobs, EnqueueWaits(j) PROVE IInv'
  <2>1. /\ NoDoubleDelivery' /\ HeldRowOK' /\ UntouchedRowOK'
       /\ FinalRowOK' /\ ProcessOK'
    BY <1>4
    DEF IInv, NoDoubleDelivery, HeldRowOK, UntouchedRowOK, FinalRowOK, ProcessOK,
        EnqueueWaits, MoveRequest
  <2>2. QED
    BY <1>0, <2>1 DEF IInv
<1>5. ASSUME NEW j \in Jobs, EnqueueTimesOut(j) PROVE IInv'
  <2>1. /\ NoDoubleDelivery' /\ HeldRowOK' /\ UntouchedRowOK'
       /\ FinalRowOK' /\ ProcessOK'
    BY <1>5
    DEF IInv, NoDoubleDelivery, HeldRowOK, UntouchedRowOK, FinalRowOK, ProcessOK,
        EnqueueTimesOut, MoveRequest
  <2>2. QED
    BY <1>0, <2>1 DEF IInv
<1>6. ASSUME NEW j \in Jobs, Refuse(j) PROVE IInv'
  <2>1. NoDoubleDelivery' /\ FinalRowOK' /\ ProcessOK'
    BY <1>6 DEF IInv, NoDoubleDelivery, FinalRowOK, ProcessOK, Refuse, MoveRequest
  <2>2. HeldRowOK'
    BY <1>6 DEF IInv, NoDoubleDelivery, HeldRowOK, Refuse, MoveRequest
  <2>3. UntouchedRowOK'
    BY <1>0, <1>6
    DEF IInv, TypeOK, NoDoubleDelivery, UntouchedRowOK, Refuse, MoveRequest
  <2>4. QED
    BY <1>0, <2>1, <2>2, <2>3 DEF IInv
<1>7. ASSUME NEW j \in Jobs, RefuseRaises(j) PROVE IInv'
  <2>1. /\ NoDoubleDelivery' /\ HeldRowOK' /\ UntouchedRowOK'
       /\ FinalRowOK' /\ ProcessOK'
    BY <1>7
    DEF IInv, NoDoubleDelivery, HeldRowOK, UntouchedRowOK, FinalRowOK, ProcessOK,
        RefuseRaises, MoveRequest
  <2>2. QED
    BY <1>0, <2>1 DEF IInv
<1>8. ASSUME NEW w \in Workers, GetJob(w) PROVE IInv'
  <2>1. NoDoubleDelivery'
    <3>1. /\ 1 \in 1..Len(queue)
          /\ \A i \in 1..Len(queue') :
                i + 1 \in 1..Len(queue) /\ i + 1 # 1 /\ queue'[i] = queue[i + 1]
          /\ \A i, k \in 1..Len(queue') : i + 1 = k + 1 => i = k
      BY <1>0, <1>8, TailPositions DEF TypeOK, GetJob
    <3>2. /\ queue[1] # Stop /\ item'[w] = queue[1] /\ req' = req
          /\ \A v \in Workers : v # w => item'[v] = item[v]
      BY <1>0, <1>8, TailPositions DEF TypeOK, GetJob
    <3>3. QED
      BY <3>1, <3>2, SMTT(30) DEF IInv, NoDoubleDelivery
  <2>2. HeldRowOK'
    BY <1>0, <1>8 DEF IInv, TypeOK, HeldRowOK, UntouchedRowOK, GetJob, MoveWorker
  <2>3. UntouchedRowOK'
    BY <1>8 DEF IInv, UntouchedRowOK, GetJob
  <2>4. FinalRowOK'
    BY <1>8 DEF IInv, FinalRowOK, GetJob
  <2>5. ProcessOK'
    BY <1>8 DEF IInv, ProcessOK, GetJob, MoveWorker
  <2>6. QED
    BY <1>0, <2>1, <2>2, <2>3, <2>4, <2>5 DEF IInv
<1>9. ASSUME NEW w \in Workers, GetStop(w) PROVE IInv'
  <2>1. NoDoubleDelivery'
    <3>1. /\ 1 \in 1..Len(queue)
          /\ \A i \in 1..Len(queue') :
                i + 1 \in 1..Len(queue) /\ i + 1 # 1 /\ queue'[i] = queue[i + 1]
          /\ \A i, k \in 1..Len(queue') : i + 1 = k + 1 => i = k
      BY <1>0, <1>9, TailPositions DEF TypeOK, GetStop
    <3>2. item' = item /\ req' = req
      BY <1>9 DEF GetStop
    <3>3. QED
      BY <3>1, <3>2, SMTT(30) DEF IInv, NoDoubleDelivery
  <2>2. HeldRowOK' /\ FinalRowOK' /\ ProcessOK'
    BY <1>9 DEF IInv, HeldRowOK, FinalRowOK, ProcessOK, GetStop, MoveWorker
  <2>3. UntouchedRowOK'
    BY <1>9 DEF IInv, UntouchedRowOK, GetStop
  <2>4. QED
    BY <1>0, <2>1, <2>2, <2>3 DEF IInv
<1>10. ASSUME NEW w \in Workers, BeginJob(w) PROVE IInv'
  <2>1. NoDoubleDelivery' /\ ProcessOK'
    BY <1>10 DEF IInv, NoDoubleDelivery, ProcessOK, BeginJob, MoveWorker
  <2>2. HeldRowOK'
    BY <1>0, <1>10
    DEF IInv, TypeOK, NoDoubleDelivery, HeldRowOK, BeginJob, MoveWorker
  <2>3. UntouchedRowOK'
    BY <1>10 DEF IInv, NoDoubleDelivery, HeldRowOK, UntouchedRowOK, BeginJob
  <2>4. FinalRowOK'
    BY <1>10 DEF IInv, HeldRowOK, FinalRowOK, BeginJob
  <2>5. QED
    BY <1>0, <2>1, <2>2, <2>3, <2>4 DEF IInv
<1>11. ASSUME NEW w \in Workers, StreamLinesRaise(w) PROVE IInv'
  <2>1. /\ NoDoubleDelivery' /\ HeldRowOK' /\ UntouchedRowOK'
       /\ FinalRowOK' /\ ProcessOK'
    BY <1>11
    DEF IInv, NoDoubleDelivery, HeldRowOK, UntouchedRowOK, FinalRowOK, ProcessOK,
        StreamLinesRaise, MoveWorker
  <2>2. QED
    BY <1>0, <2>1 DEF IInv
<1>12. ASSUME NEW w \in Workers, PublishEvent(w) PROVE IInv'
  <2>1. NoDoubleDelivery' /\ HeldRowOK' /\ FinalRowOK' /\ ProcessOK'
    BY <1>12
    DEF IInv, NoDoubleDelivery, HeldRowOK, FinalRowOK, ProcessOK, PublishEvent
  <2>2. UntouchedRowOK'
    BY <1>12 DEF IInv, NoDoubleDelivery, UntouchedRowOK, PublishEvent
  <2>3. QED
    BY <1>0, <2>1, <2>2 DEF IInv
<1>13. ASSUME NEW w \in Workers, CommitWork(w) PROVE IInv'
  <2>1. NoDoubleDelivery' /\ ProcessOK'
    BY <1>13 DEF IInv, NoDoubleDelivery, ProcessOK, CommitWork, MoveWorker
  <2>2. HeldRowOK'
    BY <1>0, <1>13
    DEF IInv, TypeOK, NoDoubleDelivery, HeldRowOK, CommitWork, MoveWorker
  <2>3. UntouchedRowOK'
    BY <1>13 DEF IInv, NoDoubleDelivery, UntouchedRowOK, CommitWork
  <2>4. FinalRowOK'
    BY <1>13 DEF IInv, HeldRowOK, FinalRowOK, CommitWork, MoveWorker
  <2>5. QED
    BY <1>0, <2>1, <2>2, <2>3, <2>4 DEF IInv
<1>14. ASSUME NEW w \in Workers, CompleteJob(w) PROVE IInv'
  <2>1. ProcessOK'
    BY <1>14 DEF IInv, ProcessOK, CompleteJob, Release, MoveWorker
  <2>2. NoDoubleDelivery'
    BY <1>0, <1>14
    DEF IInv, TypeOK, NoDoubleDelivery, CompleteJob, Release, MoveWorker
  <2>3. HeldRowOK'
    BY <1>0, <1>14
    DEF IInv, TypeOK, NoDoubleDelivery, HeldRowOK, CompleteJob, Release, MoveWorker,
        LoopHead
  <2>4. UntouchedRowOK'
    BY <1>14 DEF IInv, NoDoubleDelivery, UntouchedRowOK, CompleteJob
  <2>5. FinalRowOK'
    BY <1>14 DEF IInv, HeldRowOK, FinalRowOK, CompleteJob, Release, MoveWorker
  <2>6. QED
    BY <1>0, <2>1, <2>2, <2>3, <2>4, <2>5 DEF IInv
<1>15. ASSUME NEW w \in Workers, ProcessorRaises(w) PROVE IInv'
  <2>1. /\ NoDoubleDelivery' /\ HeldRowOK' /\ UntouchedRowOK'
       /\ FinalRowOK' /\ ProcessOK'
    BY <1>15
    DEF IInv, NoDoubleDelivery, HeldRowOK, UntouchedRowOK, FinalRowOK, ProcessOK,
        ProcessorRaises
  <2>2. QED
    BY <1>0, <2>1 DEF IInv
<1>16. ASSUME NEW w \in Workers, RecordFailure(w) PROVE IInv'
  <2>1. ProcessOK'
    BY <1>16 DEF IInv, ProcessOK, RecordFailure, Release, MoveWorker
  <2>2. NoDoubleDelivery'
    <3>1. \A v \in Workers : item'[v] = item[v] \/ item'[v] = NoJob
      BY <1>0, <1>16 DEF TypeOK, RecordFailure, Release
    <3>2. queue' = queue /\ req' = req /\ \A i \in 1..Len(queue) : queue[i] # NoJob
      BY <1>0, <1>16 DEF TypeOK, RecordFailure
    <3>3. QED
      BY <3>1, <3>2 DEF IInv, NoDoubleDelivery
  <2>3. HeldRowOK'
    BY <1>0, <1>16
    DEF IInv, TypeOK, NoDoubleDelivery, HeldRowOK, RecordFailure, Release,
        MoveWorker, LoopHead
  <2>4. UntouchedRowOK'
    BY <1>16 DEF IInv, NoDoubleDelivery, HeldRowOK, UntouchedRowOK, RecordFailure
  <2>5. FinalRowOK'
    BY <1>0, <1>16 DEF IInv, TypeOK, HeldRowOK, FinalRowOK, RecordFailure
  <2>6. QED
    BY <1>0, <2>1, <2>2, <2>3, <2>4, <2>5 DEF IInv
<1>17. ASSUME NEW w \in Workers, RecordFailureRaises(w) PROVE IInv'
  <2>1. UntouchedRowOK' /\ FinalRowOK' /\ ProcessOK'
    BY <1>17
    DEF IInv, UntouchedRowOK, FinalRowOK, ProcessOK, RecordFailureRaises, Release,
        MoveWorker
  <2>2. NoDoubleDelivery'
    BY <1>0, <1>17 DEF IInv, TypeOK, NoDoubleDelivery, RecordFailureRaises, Release
  <2>3. HeldRowOK'
    BY <1>0, <1>17
    DEF IInv, TypeOK, HeldRowOK, RecordFailureRaises, Release, MoveWorker, LoopHead
  <2>4. QED
    BY <1>0, <2>1, <2>2, <2>3 DEF IInv
<1>18. ASSUME NEW t \in Tenants, ConsumeEvent(t) PROVE IInv'
  <2>1. /\ NoDoubleDelivery' /\ HeldRowOK' /\ UntouchedRowOK'
       /\ FinalRowOK' /\ ProcessOK'
    BY <1>18
    DEF IInv, NoDoubleDelivery, HeldRowOK, UntouchedRowOK, FinalRowOK, ProcessOK,
        ConsumeEvent
  <2>2. QED
    BY <1>0, <2>1 DEF IInv
<1>19. CASE BeginStop
  <2>1. /\ NoDoubleDelivery' /\ HeldRowOK' /\ UntouchedRowOK'
       /\ FinalRowOK' /\ ProcessOK'
    BY <1>19
    DEF IInv, NoDoubleDelivery, HeldRowOK, UntouchedRowOK, FinalRowOK, ProcessOK,
        BeginStop
  <2>2. QED
    BY <1>0, <2>1 DEF IInv
<1>20. CASE PutStop
  <2>1. NoDoubleDelivery'
    <3>1. \A i \in 1..Len(queue') :
              queue'[i] = Stop \/ (i \in 1..Len(queue) /\ queue'[i] = queue[i])
      BY <1>0, <1>20 DEF TypeOK, PutStop
    <3>2. \A w \in Workers : item[w] # Stop
      BY <1>0 DEF TypeOK
    <3>3. item' = item /\ req' = req
      BY <1>20 DEF PutStop
    <3>4. QED
      BY <3>1, <3>2, <3>3 DEF IInv, NoDoubleDelivery
  <2>2. HeldRowOK'
    BY <1>20 DEF IInv, HeldRowOK, PutStop
  <2>3. UntouchedRowOK'
    BY <1>20 DEF IInv, UntouchedRowOK, PutStop
  <2>4. FinalRowOK'
    BY <1>20 DEF IInv, FinalRowOK, PutStop
  <2>5. ProcessOK'
    BY <1>20 DEF IInv, ProcessOK, PutStop
  <2>6. QED
    BY <1>0, <2>1, <2>2, <2>3, <2>4, <2>5 DEF IInv
<1>21. CASE EndStop
  <2>1. /\ NoDoubleDelivery' /\ HeldRowOK' /\ UntouchedRowOK'
       /\ FinalRowOK' /\ ProcessOK'
    BY <1>21
    DEF IInv, NoDoubleDelivery, HeldRowOK, UntouchedRowOK, FinalRowOK, ProcessOK,
        EndStop
  <2>2. QED
    BY <1>0, <2>1 DEF IInv
<1>22. CASE Crash
  <2>1. /\ NoDoubleDelivery' /\ HeldRowOK' /\ UntouchedRowOK'
       /\ FinalRowOK' /\ ProcessOK'
    BY <1>22
    DEF IInv, NoDoubleDelivery, HeldRowOK, UntouchedRowOK, FinalRowOK, ProcessOK,
        Crash
  <2>2. QED
    BY <1>0, <2>1 DEF IInv
<1>23. CASE Restart
  <2>1. NoDoubleDelivery' /\ UntouchedRowOK' /\ FinalRowOK' /\ ProcessOK'
    BY <1>23
    DEF IInv, NoDoubleDelivery, UntouchedRowOK, FinalRowOK, ProcessOK, Restart
  <2>2. HeldRowOK'
    BY <1>23 DEF IInv, HeldRowOK, FinalRowOK, ProcessOK, Restart
  <2>3. QED
    BY <1>0, <2>1, <2>2 DEF IInv
<1>24. QED
  BY <1>1, <1>2, <1>3, <1>4, <1>5, <1>6, <1>7, <1>8, <1>9, <1>10, <1>11, <1>12,
     <1>13, <1>14, <1>15, <1>16, <1>17, <1>18, <1>19, <1>20, <1>21, <1>22, <1>23,
     NextCases

(* The inductive invariant holds in every reachable state. *)
THEOREM Invariance == Spec => []IInv
<1>1. Init => IInv
  <2> SUFFICES ASSUME Init PROVE IInv
    OBVIOUS
  <2>1. TypeOK
    BY WorkersCount, BoundsAssumption DEF Init, TypeOK
  <2>2. QED
    BY <2>1, ItemsAssumption
    DEF Init, IInv, NoDoubleDelivery, HeldRowOK, UntouchedRowOK, FinalRowOK, ProcessOK
<1>2. QED
  BY <1>1, InductiveStep, PTL DEF Spec

-----------------------------------------------------------------------------
(* A job reaches at most one worker, at most once, and only after its       *)
(* client was given the job id: what get, put and the restart of            *)
(* IngestionQueue amount to.                                                *)
THEOREM DeliveredAtMostOnce == Spec => []NoDoubleDelivery
  BY Invariance, PTL DEF IInv

(* The rows of a job are committed at most once, never while it waits, and  *)
(* before its status becomes COMPLETED, whatever database call raises and   *)
(* wherever the process dies.                                               *)
THEOREM StatusIsTruthful == Spec => []EffectMatchesStatus
<1>1. IInv => EffectMatchesStatus
  BY DEF IInv, TypeOK, UntouchedRowOK, FinalRowOK, EffectMatchesStatus
<1>2. QED
  BY <1>1, Invariance, PTL

(* FAILED means a refusal that left no trace, or one dead letter. *)
THEOREM FailuresAreAccounted == Spec => []FailureIsRecordedOnce
<1>1. IInv => FailureIsRecordedOnce
  BY DEF IInv, TypeOK, UntouchedRowOK, FinalRowOK, FailureIsRecordedOnce
<1>2. QED
  BY <1>1, Invariance, PTL

-----------------------------------------------------------------------------
(* No accepted job is forgotten by a process that has not restarted, as     *)
(* long as failures can be recorded: each action that takes a job out of    *)
(* the queue hands it to a worker, and each that takes it from the worker   *)
(* makes its row final.                                                     *)
THEOREM NothingForgotten == Spec => []NoSilentLoss
<1>1. Init => NoSilentLoss
  BY DEF Init, NoSilentLoss
<1>2. IInv /\ NoSilentLoss /\ [Next]_vars => NoSilentLoss'
  <2> SUFFICES ASSUME IInv, NoSilentLoss, [Next]_vars,
                      (phase = "up" /\ restarts = 0 /\ "record" \notin Faults)',
                      NEW k \in Jobs,
                      (req[k] = "queued" /\ job[k] \notin Lifecycle!Final)'
               PROVE  (InQueue(k) \/ Held(k))'
    BY DEF NoSilentLoss
  <2> USE DEF InQueue, Held, Lifecycle!Final
  <2>0. TypeOK
    BY DEF IInv
  <2>1. phase = "up" /\ restarts = 0
    BY <2>0, NextCases, BoundsAssumption
    DEF TypeOK, vars, Submit, Enqueue, EnqueueWaits, EnqueueTimesOut, Refuse,
        RefuseRaises, GetJob, GetStop, BeginJob, StreamLinesRaise, PublishEvent,
        CommitWork, CompleteJob, ProcessorRaises, RecordFailure, RecordFailureRaises,
        ConsumeEvent, BeginStop, PutStop, EndStop, Crash, Restart
  <2>2. req[k] = "queued" /\ job[k] \notin Lifecycle!Final => InQueue(k) \/ Held(k)
    BY <2>1 DEF NoSilentLoss
  <2>3. CASE UNCHANGED vars
    BY <2>2, <2>3 DEF vars
  <2>4. ASSUME NEW j \in Jobs, Submit(j) PROVE (InQueue(k) \/ Held(k))'
    BY <2>0, <2>2, <2>4 DEF TypeOK, Submit, MoveRequest
  <2>5. ASSUME NEW j \in Jobs, Enqueue(j) PROVE (InQueue(k) \/ Held(k))'
    <3>1. queue'[Len(queue')] = j /\ Len(queue') \in 1..Len(queue')
      BY <2>0, <2>5 DEF TypeOK, Enqueue
    <3>2. CASE k = j
      BY <3>1, <3>2
    <3>3. CASE k # j
      BY <2>0, <2>2, <2>5, <3>3 DEF TypeOK, Enqueue
    <3>4. QED
      BY <3>2, <3>3
  <2>6. ASSUME NEW j \in Jobs,
               EnqueueWaits(j) \/ EnqueueTimesOut(j) \/ Refuse(j) \/ RefuseRaises(j)
        PROVE  (InQueue(k) \/ Held(k))'
    BY <2>0, <2>2, <2>6
    DEF TypeOK, EnqueueWaits, EnqueueTimesOut, Refuse, RefuseRaises, MoveRequest
  <2>7. ASSUME NEW w \in Workers, GetJob(w) PROVE (InQueue(k) \/ Held(k))'
    <3>1. \A i \in 1..Len(queue) : i = 1 \/ (i - 1 \in 1..Len(queue') /\ queue'[i-1] = queue[i])
      BY <2>0, <2>7 DEF TypeOK, GetJob
    <3>2. Head(queue) = queue[1] /\ item'[w] = Head(queue)
      BY <2>0, <2>7 DEF TypeOK, GetJob
    <3>3. \A v \in Workers : item[v] # NoJob => item'[v] = item[v]
      BY <2>0, <2>7 DEF TypeOK, IInv, HeldRowOK, GetJob, MoveWorker
    <3>4. QED
      BY <2>2, <2>7, <3>1, <3>2, <3>3, ItemsAssumption DEF GetJob
  <2>8. ASSUME NEW w \in Workers, GetStop(w) PROVE (InQueue(k) \/ Held(k))'
    <3>1. \A i \in 1..Len(queue) : i = 1 \/ (i - 1 \in 1..Len(queue') /\ queue'[i-1] = queue[i])
      BY <2>0, <2>8 DEF TypeOK, GetStop
    <3>2. queue[1] # k
      BY <2>0, <2>8, ItemsAssumption DEF TypeOK, GetStop
    <3>3. QED
      BY <2>2, <2>8, <3>1, <3>2 DEF GetStop
  <2>9. ASSUME NEW w \in Workers,
               \/ BeginJob(w) \/ StreamLinesRaise(w) \/ PublishEvent(w)
               \/ CommitWork(w) \/ ProcessorRaises(w)
        PROVE  (InQueue(k) \/ Held(k))'
    BY <2>0, <2>2, <2>9
    DEF TypeOK, BeginJob, StreamLinesRaise, PublishEvent, CommitWork, ProcessorRaises
  <2>10. ASSUME NEW w \in Workers, CompleteJob(w) \/ RecordFailure(w)
         PROVE  (InQueue(k) \/ Held(k))'
    BY <2>0, <2>2, <2>10 DEF TypeOK, CompleteJob, RecordFailure, Release
  <2>11. ASSUME NEW w \in Workers, RecordFailureRaises(w)
         PROVE  (InQueue(k) \/ Held(k))'
    BY <2>11 DEF RecordFailureRaises
  <2>12. ASSUME NEW t \in Tenants, ConsumeEvent(t) PROVE (InQueue(k) \/ Held(k))'
    BY <2>2, <2>12 DEF ConsumeEvent
  <2>13. CASE BeginStop \/ PutStop \/ EndStop \/ Crash \/ Restart
    BY <2>0, <2>1, <2>13, BoundsAssumption
    DEF TypeOK, BeginStop, PutStop, EndStop, Crash, Restart
  <2>14. QED
    BY <2>3, <2>4, <2>5, <2>6, <2>7, <2>8, <2>9, <2>10, <2>11, <2>12, <2>13, NextCases
<1>3. QED
  BY <1>1, <1>2, Invariance, PTL DEF Spec

-----------------------------------------------------------------------------
(* Counting stop items: what Append and Tail do to StopItems. *)
LEMMA StopItemsFinite ==
  ASSUME NEW q \in Seq(Jobs \cup {Stop})
  PROVE  IsFiniteSet(StopItems(q)) /\ Cardinality(StopItems(q)) \in Nat
<1>1. IsFiniteSet(1..Len(q))
  BY FS_Interval
<1>2. StopItems(q) \subseteq 1..Len(q)
  BY DEF StopItems
<1>3. QED
  BY <1>1, <1>2, FS_Subset, FS_CardinalityType

LEMMA StopItemsAppend ==
  ASSUME NEW q \in Seq(Jobs \cup {Stop}), NEW x \in Jobs \cup {Stop}
  PROVE  Cardinality(StopItems(Append(q, x))) =
            Cardinality(StopItems(q)) + (IF x = Stop THEN 1 ELSE 0)
<1>1. CASE x = Stop
  <2>1. StopItems(Append(q, x)) = StopItems(q) \cup {Len(q) + 1}
    BY <1>1 DEF StopItems
  <2>2. Len(q) + 1 \notin StopItems(q)
    BY DEF StopItems
  <2>3. QED
    BY <1>1, <2>1, <2>2, StopItemsFinite, FS_AddElement
<1>2. CASE x # Stop
  <2>1. StopItems(Append(q, x)) = StopItems(q)
    BY <1>2 DEF StopItems
  <2>2. QED
    BY <1>2, <2>1, StopItemsFinite
<1>3. QED
  BY <1>1, <1>2

LEMMA StopItemsTail ==
  ASSUME NEW q \in Seq(Jobs \cup {Stop}), q # <<>>
  PROVE  Cardinality(StopItems(q)) =
            Cardinality(StopItems(Tail(q))) + (IF Head(q) = Stop THEN 1 ELSE 0)
<1> DEFINE T == StopItems(Tail(q))
           S == StopItems(q) \ {1}
           f == [i \in T |-> i + 1]
<1>0. Tail(q) \in Seq(Jobs \cup {Stop}) /\ Len(Tail(q)) = Len(q) - 1
      /\ \A i \in 1..Len(q) - 1 : Tail(q)[i] = q[i + 1]
      /\ Len(q) \in Nat \ {0} /\ Head(q) = q[1]
  OBVIOUS
<1>1. IsFiniteSet(T) /\ IsFiniteSet(StopItems(q))
  BY <1>0, StopItemsFinite
<1>2. \A i \in T : i \in 1..Len(q) - 1 /\ q[i + 1] = Stop
  BY <1>0 DEF StopItems
<1>3. \A i \in T : f[i] \in S
  BY <1>0, <1>2 DEF StopItems
<1>4. \A s \in S : s - 1 \in T /\ f[s - 1] = s
  BY <1>0 DEF StopItems
<1>5. f \in Bijection(T, S)
  <2>1. f \in [T -> S]
    BY <1>3
  <2>2. \A a, b \in T : f[a] = f[b] => a = b
    BY <1>2
  <2>3. QED
    BY <2>1, <2>2, <1>4, Fun_IsBij
<1>6. Cardinality(S) = Cardinality(T)
  BY <1>1, <1>5, FS_Bijection DEF ExistsBijection
<1>7. 1 \in StopItems(q) <=> Head(q) = Stop
  BY <1>0 DEF StopItems
<1>8. Cardinality(S) = IF Head(q) = Stop THEN Cardinality(StopItems(q)) - 1
                                         ELSE Cardinality(StopItems(q))
  BY <1>1, <1>7, FS_RemoveElement
<1>9. QED
  BY <1>6, <1>8, StopItemsFinite

LEMMA LoopingFinite == IsFiniteSet(Looping) /\ Cardinality(Looping) \in Nat
                       /\ Cardinality(Looping) <= Cardinality(Workers)
<1>1. Looping \subseteq Workers
  BY DEF Looping
<1>2. QED
  BY <1>1, WorkersAssumption, FS_Subset, FS_CardinalityType

(* A worker that leaves its loop makes Looping smaller by exactly itself.   *)
LEMMA LoopingShrinks ==
  ASSUME NEW w \in Workers, pc \in [Workers -> WorkerStates],
         pc' = [pc EXCEPT ![w] = "exited"], pc[w] # "exited"
  PROVE  Cardinality(Looping') = Cardinality(Looping) - 1
<1>1. w \in Looping /\ Looping' = Looping \ {w}
  BY DEF Looping
<1>2. QED
  BY <1>1, LoopingFinite, FS_RemoveElement

(* stop() supplies enough stop items for the workers still in their loop,   *)
(* however the puts, the gets and the running jobs interleave.              *)
THEOREM StopItemsSuffice == Spec => []EnoughStopItems
<1>1. Init => EnoughStopItems
  BY DEF Init, EnoughStopItems
<1>2. IInv /\ EnoughStopItems /\ [Next]_vars => EnoughStopItems'
  <2> SUFFICES ASSUME IInv, EnoughStopItems, [Next]_vars, phase' = "stopping"
               PROVE  Cardinality(Looping') <= toPut' + Cardinality(StopItems(queue'))
    BY DEF EnoughStopItems, StopItems
  <2>0. TypeOK /\ TypeOK'
    BY TypeStep DEF IInv
  <2>1. /\ Cardinality(StopItems(queue)) \in Nat
        /\ Cardinality(StopItems(queue')) \in Nat
        /\ toPut \in Nat /\ toPut' \in Nat
        /\ Cardinality(Looping) \in Nat
    BY <2>0, StopItemsFinite, LoopingFinite, WorkersCount DEF TypeOK
  <2>2. CASE BeginStop
    <3>1. Looping' = Looping /\ toPut' = Cardinality(Workers)
      BY <2>2 DEF BeginStop, Looping
    <3>2. QED
      BY <2>1, <3>1, LoopingFinite, WorkersCount
  <2> SUFFICES ASSUME ~BeginStop
               PROVE  Cardinality(Looping') <= toPut' + Cardinality(StopItems(queue'))
    BY <2>2
  <2>3. phase = "stopping"
    BY <2>0, NextCases
    DEF TypeOK, vars, Submit, Enqueue, EnqueueWaits, EnqueueTimesOut, Refuse,
        RefuseRaises, GetJob, GetStop, BeginJob, StreamLinesRaise, PublishEvent,
        CommitWork, CompleteJob, ProcessorRaises, RecordFailure, RecordFailureRaises,
        ConsumeEvent, PutStop, EndStop, Crash, Restart
  <2>4. Cardinality(Looping) <= toPut + Cardinality(StopItems(queue))
    BY <2>3 DEF EnoughStopItems
  <2>5. CASE UNCHANGED <<pc, queue, toPut>>
    <3>1. Looping' = Looping
      BY <2>5 DEF Looping
    <3>2. QED
      BY <2>4, <2>5, <3>1
  <2>6. ASSUME NEW j \in Jobs, Enqueue(j)
        PROVE  Cardinality(Looping') <= toPut' + Cardinality(StopItems(queue'))
    BY <2>3, <2>6 DEF IInv, ProcessOK, Enqueue
  <2>7. ASSUME NEW w \in Workers, GetJob(w)
        PROVE  Cardinality(Looping') <= toPut' + Cardinality(StopItems(queue'))
    <3>1. pc' = [pc EXCEPT ![w] = "begin"] /\ pc[w] = "waiting"
          /\ queue' = Tail(queue) /\ queue # <<>> /\ Head(queue) # Stop /\ toPut' = toPut
      BY <2>7 DEF GetJob, MoveWorker
    <3>2. Looping' = Looping
      BY <2>0, <3>1 DEF TypeOK, Looping
    <3>3. Cardinality(StopItems(queue)) = Cardinality(StopItems(queue')) + 0
      BY <2>0, <3>1, StopItemsTail DEF TypeOK
    <3>4. QED
      BY <2>1, <2>4, <3>1, <3>2, <3>3
  <2>8. ASSUME NEW w \in Workers, GetStop(w)
        PROVE  Cardinality(Looping') <= toPut' + Cardinality(StopItems(queue'))
    <3>1. pc' = [pc EXCEPT ![w] = "exited"] /\ pc[w] = "waiting"
          /\ queue' = Tail(queue) /\ queue # <<>> /\ Head(queue) = Stop /\ toPut' = toPut
      BY <2>8 DEF GetStop, MoveWorker
    <3>2. Cardinality(Looping') = Cardinality(Looping) - 1
      BY <2>0, <3>1, LoopingShrinks DEF TypeOK
    <3>3. Cardinality(StopItems(queue)) = Cardinality(StopItems(queue')) + 1
      BY <2>0, <3>1, StopItemsTail DEF TypeOK
    <3>4. QED
      BY <2>1, <2>4, <3>1, <3>2, <3>3
  <2>9. ASSUME NEW w \in Workers,
               \/ BeginJob(w) \/ StreamLinesRaise(w) \/ CommitWork(w)
               \/ ProcessorRaises(w)
        PROVE  Cardinality(Looping') <= toPut' + Cardinality(StopItems(queue'))
    <3>1. pc[w] # "exited" /\ queue' = queue /\ toPut' = toPut
          /\ \E s \in WorkerStates : s # "exited" /\ pc' = [pc EXCEPT ![w] = s]
      BY <2>9 DEF BeginJob, StreamLinesRaise, CommitWork, ProcessorRaises, MoveWorker
    <3>2. Looping' = Looping
      BY <2>0, <3>1 DEF TypeOK, Looping
    <3>3. QED
      BY <2>4, <3>1, <3>2
  <2>10. ASSUME NEW w \in Workers,
                CompleteJob(w) \/ RecordFailure(w) \/ RecordFailureRaises(w)
         PROVE  Cardinality(Looping') <= toPut' + Cardinality(StopItems(queue'))
    <3>1. pc[w] # "exited" /\ queue' = queue /\ toPut' = toPut
          /\ pc' = [pc EXCEPT ![w] = "exited"]
      BY <2>3, <2>10 DEF CompleteJob, RecordFailure, RecordFailureRaises, Release,
                         MoveWorker, LoopHead
    <3>2. Cardinality(Looping') = Cardinality(Looping) - 1
      BY <2>0, <3>1, LoopingShrinks DEF TypeOK
    <3>3. QED
      BY <2>1, <2>4, <3>1, <3>2
  <2>11. CASE PutStop
    <3>1. Looping' = Looping
      BY <2>11 DEF PutStop, Looping
    <3>2. Cardinality(StopItems(queue')) = Cardinality(StopItems(queue)) + 1
      BY <2>0, <2>11, StopItemsAppend DEF TypeOK, PutStop
    <3>3. QED
      BY <2>1, <2>4, <2>11, <3>1, <3>2 DEF PutStop
  <2>12. CASE EndStop \/ Crash \/ Restart
    BY <2>12 DEF EndStop, Crash, Restart
  <2>13. QED
    <3>1. UNCHANGED vars => UNCHANGED <<pc, queue, toPut>>
      BY DEF vars
    <3>2. ASSUME NEW j \in Jobs,
                 \/ Submit(j) \/ EnqueueWaits(j) \/ EnqueueTimesOut(j)
                 \/ Refuse(j) \/ RefuseRaises(j)
          PROVE  UNCHANGED <<pc, queue, toPut>>
      BY <3>2 DEF Submit, EnqueueWaits, EnqueueTimesOut, Refuse, RefuseRaises
    <3>3. ASSUME NEW w \in Workers, PublishEvent(w)
          PROVE  UNCHANGED <<pc, queue, toPut>>
      BY <3>3 DEF PublishEvent
    <3>4. ASSUME NEW t \in Tenants, ConsumeEvent(t)
          PROVE  UNCHANGED <<pc, queue, toPut>>
      BY <3>4 DEF ConsumeEvent
    <3>5. QED
      BY <2>5, <2>6, <2>7, <2>8, <2>9, <2>10, <2>11, <2>12,
         <3>1, <3>2, <3>3, <3>4, NextCases
<1>3. QED
  BY <1>1, <1>2, Invariance, PTL DEF Spec

-----------------------------------------------------------------------------
(* Each step of the system is a step of JobLifecycle on one job, or leaves   *)
(* the rows alone.                                                          *)
LEMMA LifecycleStep == IInv /\ [Next]_vars => [Lifecycle!Next]_(Lifecycle!vars)
<1> SUFFICES ASSUME IInv, [Next]_vars
             PROVE  (\E j \in Jobs : \/ Lifecycle!Accept(j) \/ Lifecycle!Refuse(j)
                                     \/ Lifecycle!Start(j) \/ Lifecycle!Apply(j)
                                     \/ Lifecycle!Complete(j) \/ Lifecycle!Fail(j))
                    \/ UNCHANGED rowVars
  BY DEF Lifecycle!Next, Lifecycle!vars
<1> USE DEF Lifecycle!SetStatus
<1>1. TypeOK /\ HeldRowOK /\ UntouchedRowOK
  BY DEF IInv
<1>2. ASSUME NEW j \in Jobs, Submit(j) PROVE Lifecycle!Accept(j)
  BY <1>1, <1>2 DEF UntouchedRowOK, Submit, MoveRequest, Lifecycle!Accept
<1>3. ASSUME NEW j \in Jobs, Refuse(j) PROVE Lifecycle!Refuse(j)
  BY <1>1, <1>3 DEF UntouchedRowOK, Refuse, MoveRequest, Lifecycle!Refuse
<1>4. ASSUME NEW w \in Workers, item[w] # NoJob PROVE item[w] \in Jobs
  BY <1>1, <1>4 DEF TypeOK
<1>5. ASSUME NEW w \in Workers, BeginJob(w)
      PROVE  item[w] \in Jobs /\ Lifecycle!Start(item[w])
  BY <1>1, <1>4, <1>5 DEF HeldRowOK, BeginJob, MoveWorker, Lifecycle!Start
<1>6. ASSUME NEW w \in Workers, CommitWork(w)
      PROVE  item[w] \in Jobs /\ Lifecycle!Apply(item[w])
  <2>1. item[w] \in Jobs /\ job[item[w]] = "RUNNING" /\ work[item[w]] = 0
    BY <1>1, <1>4, <1>6 DEF HeldRowOK, CommitWork, MoveWorker
  <2>2. work' = [work EXCEPT ![item[w]] = 1]
    BY <2>1, <1>6 DEF CommitWork
  <2>3. QED
    BY <2>1, <2>2, <1>6 DEF CommitWork, Lifecycle!Apply
<1>7. ASSUME NEW w \in Workers, CompleteJob(w)
      PROVE  item[w] \in Jobs /\ Lifecycle!Complete(item[w])
  BY <1>1, <1>4, <1>7
  DEF HeldRowOK, CompleteJob, Release, MoveWorker, Lifecycle!Complete
<1>8. ASSUME NEW w \in Workers, RecordFailure(w)
      PROVE  item[w] \in Jobs /\ Lifecycle!Fail(item[w])
  <2>1. item[w] \in Jobs /\ job[item[w]] \in {"QUEUED", "RUNNING"} /\ dead[item[w]] = 0
    BY <1>1, <1>4, <1>8 DEF HeldRowOK, RecordFailure, Release, MoveWorker
  <2>2. dead' = [dead EXCEPT ![item[w]] = 1]
    BY <2>1, <1>8 DEF RecordFailure
  <2>3. QED
    BY <2>1, <2>2, <1>8 DEF RecordFailure, Lifecycle!Fail
<1>9. ASSUME NEW j \in Jobs,
             \/ Enqueue(j) \/ EnqueueWaits(j) \/ EnqueueTimesOut(j) \/ RefuseRaises(j)
      PROVE  UNCHANGED rowVars
  BY <1>9 DEF Enqueue, EnqueueWaits, EnqueueTimesOut, RefuseRaises
<1>10. ASSUME NEW w \in Workers,
              \/ GetJob(w) \/ GetStop(w) \/ StreamLinesRaise(w) \/ PublishEvent(w)
              \/ ProcessorRaises(w) \/ RecordFailureRaises(w)
       PROVE  UNCHANGED rowVars
  BY <1>10 DEF GetJob, GetStop, StreamLinesRaise, PublishEvent, ProcessorRaises,
               RecordFailureRaises
<1>11. ASSUME NEW t \in Tenants, ConsumeEvent(t) PROVE UNCHANGED rowVars
  BY <1>11 DEF ConsumeEvent
<1>12. CASE BeginStop \/ PutStop \/ EndStop \/ Crash \/ Restart
  BY <1>12 DEF BeginStop, PutStop, EndStop, Crash, Restart
<1>13. CASE UNCHANGED vars
  BY <1>13 DEF vars
<1>14. QED
  BY <1>2, <1>3, <1>5, <1>6, <1>7, <1>8, <1>9, <1>10, <1>11, <1>12, <1>13, NextCases

(* The rows live the life JobLifecycle promises: a job is accepted once,    *)
(* applied at most once while it runs, and finished once.                   *)
THEOREM LifecycleImplemented == Spec => ImplementsLifecycle
<1>1. Init => Lifecycle!Init
  BY DEF Init, Lifecycle!Init
<1>2. QED
  BY <1>1, LifecycleStep, Invariance, PTL DEF Spec, ImplementsLifecycle, Lifecycle!Spec

(* What JobLifecycle promises of one step: a row that is final stays as it  *)
(* is, and nothing that was committed for a job is taken back.              *)
LEMMA LifecycleKeepsOutcomes ==
  TypeOK /\ [Lifecycle!Next]_(Lifecycle!vars) =>
    \A j \in Jobs : /\ job[j] \in Lifecycle!Final => job'[j] = job[j]
                    /\ work'[j] >= work[j] /\ dead'[j] >= dead[j]
<1> SUFFICES ASSUME TypeOK, [Lifecycle!Next]_(Lifecycle!vars), NEW k \in Jobs
             PROVE  /\ job[k] \in Lifecycle!Final => job'[k] = job[k]
                    /\ work'[k] >= work[k] /\ dead'[k] >= dead[k]
  OBVIOUS
<1> USE DEF Lifecycle!SetStatus, Lifecycle!Final
<1>0. /\ job \in [Jobs -> JobStates] /\ work \in [Jobs -> Nat] /\ dead \in [Jobs -> Nat]
      /\ work[k] \in Nat /\ dead[k] \in Nat
  BY DEF TypeOK
<1>1. CASE UNCHANGED Lifecycle!vars
  BY <1>0, <1>1 DEF Lifecycle!vars
<1>2. ASSUME NEW j \in Jobs,
             \/ Lifecycle!Accept(j) \/ Lifecycle!Refuse(j) \/ Lifecycle!Start(j)
             \/ Lifecycle!Complete(j)
      PROVE  /\ job[k] \in Lifecycle!Final => job'[k] = job[k]
             /\ work'[k] = work[k] /\ dead'[k] = dead[k]
  BY <1>0, <1>2
  DEF Lifecycle!Accept, Lifecycle!Refuse, Lifecycle!Start, Lifecycle!Complete
<1>3. ASSUME NEW j \in Jobs, Lifecycle!Apply(j)
      PROVE  job' = job /\ dead' = dead /\ work'[k] >= work[k]
  BY <1>0, <1>3 DEF Lifecycle!Apply
<1>4. ASSUME NEW j \in Jobs, Lifecycle!Fail(j)
      PROVE  /\ job[k] \in Lifecycle!Final => job'[k] = job[k]
             /\ work' = work /\ dead'[k] >= dead[k]
  BY <1>0, <1>4 DEF Lifecycle!Fail
<1>5. QED
  BY <1>0, <1>1, <1>2, <1>3, <1>4 DEF Lifecycle!Next

(* What a job came to is never revised, across crashes, shutdowns and       *)
(* restarts: a final status stays, committed rows and dead letters too.     *)
THEOREM OutcomesStay == Spec => OutcomeIsFinal
<1>1. IInv /\ [Next]_vars =>
        [\A j \in Jobs : /\ job[j] \in Lifecycle!Final => job'[j] = job[j]
                         /\ work'[j] >= work[j] /\ dead'[j] >= dead[j]]_vars
  BY LifecycleStep, LifecycleKeepsOutcomes DEF IInv
<1>2. QED
  BY <1>1, Invariance, PTL DEF Spec, OutcomeIsFinal

(* process_event_batch publishes every event before the commit of its rows, *)
(* so that whatever is stored has been announced on the owner's topic.      *)
THEOREM StoredIsAnnounced == Spec => []AppliedBatchIsPublished
<1>1. Init => AppliedBatchIsPublished
  BY DEF Init, AppliedBatchIsPublished, Jobs
<1>2. TypeOK /\ AppliedBatchIsPublished /\ [Next]_vars => AppliedBatchIsPublished'
  <2> SUFFICES ASSUME TypeOK, AppliedBatchIsPublished, [Next]_vars, NEW k \in BatchJobs,
                      work'[k] >= 1
               PROVE  published'[k] = BatchSize
    BY DEF AppliedBatchIsPublished
  <2>0. /\ work[k] \in Nat /\ published[k] \in 0..BatchSize
        /\ work \in [Jobs -> Nat] /\ published \in [Jobs -> 0..BatchSize]
        /\ k \in Jobs /\ BatchSize \in Nat
        /\ work[k] >= 1 => published[k] = BatchSize
    BY BoundsAssumption DEF TypeOK, Jobs, AppliedBatchIsPublished
  <2>1. ASSUME NEW w \in Workers, PublishEvent(w)
        PROVE  /\ work' = work
               /\ published[k] = BatchSize => published'[k] = published[k]
    BY <2>0, <2>1 DEF PublishEvent
  <2>2. ASSUME NEW w \in Workers, CommitWork(w)
        PROVE  /\ published' = published
               /\ work'[k] = work[k] \/ published[k] = BatchSize
    <3>1. /\ item[w] \in BatchJobs => published[item[w]] = BatchSize
          /\ work' = [work EXCEPT ![item[w]] = @ + 1]
          /\ published' = published
      BY <2>2 DEF CommitWork
    <3>2. CASE item[w] = k
      BY <3>1, <3>2
    <3>3. CASE item[w] # k
      BY <2>0, <3>1, <3>3
    <3>4. QED
      BY <3>2, <3>3
  <2>3. \/ UNCHANGED <<work, published>>
        \/ \E w \in Workers : PublishEvent(w) \/ CommitWork(w)
    BY NextCases
    DEF vars, Submit, Enqueue, EnqueueWaits, EnqueueTimesOut, Refuse, RefuseRaises,
        GetJob, GetStop, BeginJob, StreamLinesRaise, CompleteJob, ProcessorRaises,
        RecordFailure, RecordFailureRaises, ConsumeEvent, BeginStop, PutStop, EndStop,
        Crash, Restart
  <2>4. QED
    BY <2>0, <2>1, <2>2, <2>3
<1>3. QED
  BY <1>1, <1>2, TypeCorrect, PTL DEF Spec

-----------------------------------------------------------------------------
(* Who may leave: the worker loop ends with a stop item or once _running is *)
(* False, and only stop() brings about either.                              *)
LEMMA WorkersStayStep == TypeOK /\ WorkersStay /\ [Next]_vars => WorkersStay'
<1> SUFFICES ASSUME TypeOK, WorkersStay, [Next]_vars, phase' = "up"
             PROVE  /\ \A w \in Workers : pc'[w] # "exited"
                    /\ \A i \in 1..Len(queue') : queue'[i] # Stop
  BY DEF WorkersStay
<1> USE ItemsAssumption
<1>0. pc \in [Workers -> WorkerStates] /\ queue \in Seq(Jobs \cup {Stop})
  BY DEF TypeOK
<1>1. CASE Restart
  BY <1>1 DEF Restart
<1> SUFFICES ASSUME ~Restart
             PROVE  /\ \A w \in Workers : pc'[w] # "exited"
                    /\ \A i \in 1..Len(queue') : queue'[i] # Stop
  BY <1>1
<1>2. phase = "up"
  BY NextCases
  DEF vars, Submit, Enqueue, EnqueueWaits, EnqueueTimesOut, Refuse, RefuseRaises,
      GetJob, GetStop, BeginJob, StreamLinesRaise, PublishEvent, CommitWork,
      CompleteJob, ProcessorRaises, RecordFailure, RecordFailureRaises, ConsumeEvent,
      BeginStop, PutStop, EndStop, Crash
<1>3. /\ \A w \in Workers : pc[w] # "exited"
      /\ \A i \in 1..Len(queue) : queue[i] # Stop
  BY <1>2 DEF WorkersStay
<1>4. CASE UNCHANGED <<pc, queue>>
  BY <1>3, <1>4
<1>5. ASSUME NEW j \in Jobs, Enqueue(j)
      PROVE  UNCHANGED pc /\ \A i \in 1..Len(queue') : queue'[i] # Stop
  BY <1>0, <1>3, <1>5 DEF Enqueue
<1>6. ASSUME NEW w \in Workers, GetJob(w)
      PROVE  /\ pc' = [pc EXCEPT ![w] = "begin"]
             /\ \A i \in 1..Len(queue') : queue'[i] # Stop
  <2>1. queue # <<>> /\ queue' = Tail(queue) /\ pc' = [pc EXCEPT ![w] = "begin"]
    BY <1>6 DEF GetJob, MoveWorker
  <2>2. QED
    BY <1>0, <1>3, <2>1, TailPositions
<1>7. ASSUME NEW w \in Workers PROVE ~GetStop(w)
  BY <1>0, <1>3, TailPositions DEF GetStop
<1>8. ASSUME NEW w \in Workers,
             \/ BeginJob(w) \/ StreamLinesRaise(w) \/ CommitWork(w) \/ CompleteJob(w)
             \/ ProcessorRaises(w) \/ RecordFailure(w) \/ RecordFailureRaises(w)
      PROVE  /\ UNCHANGED queue
             /\ \E s \in WorkerStates \ {"exited"} : pc' = [pc EXCEPT ![w] = s]
  BY <1>2, <1>8
  DEF BeginJob, StreamLinesRaise, CommitWork, CompleteJob, ProcessorRaises,
      RecordFailure, RecordFailureRaises, Release, MoveWorker, LoopHead
<1>9. ASSUME NEW j \in Jobs,
             \/ Submit(j) \/ EnqueueWaits(j) \/ EnqueueTimesOut(j) \/ Refuse(j)
             \/ RefuseRaises(j)
      PROVE  UNCHANGED <<pc, queue>>
  BY <1>9 DEF Submit, EnqueueWaits, EnqueueTimesOut, Refuse, RefuseRaises
<1>10. ASSUME NEW w \in Workers, PublishEvent(w) PROVE UNCHANGED <<pc, queue>>
  BY <1>10 DEF PublishEvent
<1>11. ASSUME NEW t \in Tenants, ConsumeEvent(t) PROVE UNCHANGED <<pc, queue>>
  BY <1>11 DEF ConsumeEvent
<1>12. ~BeginStop /\ ~PutStop /\ ~EndStop /\ ~Crash
  BY <1>2 DEF BeginStop, PutStop, EndStop, Crash
<1>13. UNCHANGED vars => UNCHANGED <<pc, queue>>
  BY DEF vars
<1>14. ASSUME NEW w \in Workers, NEW s \in WorkerStates \ {"exited"},
              pc' = [pc EXCEPT ![w] = s]
       PROVE  \A v \in Workers : pc'[v] # "exited"
  BY <1>0, <1>3, <1>14
<1>15. QED
  BY <1>3, <1>4, <1>5, <1>6, <1>7, <1>8, <1>9, <1>10, <1>11, <1>12, <1>13, <1>14,
     NextCases

(* No failing job, whatever it raises and wherever, costs the queue one of  *)
(* its workers: while the process is up every worker is in its loop.        *)
THEOREM WorkersSurvive == Spec => []WorkersStay
<1>1. Init => WorkersStay
  BY DEF Init, WorkersStay
<1>2. QED
  BY <1>1, WorkersStayStep, TypeCorrect, PTL DEF Spec

(* In the first process, with accepted work unfinished, the workers are     *)
(* never all blocked but by a full topic, whose consumer can make room.     *)
THEOREM NeverAllBlocked == Spec => []NeverWedged
<1>1. TypeOK /\ IInv /\ WorkersStay /\ NoSilentLoss => NeverWedged
  <2> SUFFICES ASSUME TypeOK, HeldRowOK, WorkersStay, NoSilentLoss,
                      phase = "up", restarts = 0, "record" \notin Faults,
                      NEW j \in Jobs, req[j] = "queued", job[j] \notin Lifecycle!Final
               PROVE  \/ \E w \in Workers : ~Waits(w)
                      \/ \E t \in Tenants : topic[t] = TopicMax
    BY DEF NeverWedged, IInv
  <2>1. InQueue(j) \/ Held(j)
    BY DEF NoSilentLoss
  <2>2. \E w \in Workers : pc[w] # "exited" /\ ~(pc[w] = "waiting" /\ queue = <<>>)
    <3>1. CASE InQueue(j)
      <4>1. queue # <<>>
        BY <3>1 DEF InQueue
      <4>2. QED
        BY <4>1, WorkersAssumption DEF WorkersStay
    <3>2. CASE Held(j)
      BY <3>2, ItemsAssumption DEF Held, HeldRowOK
    <3>3. QED
      BY <2>1, <3>1, <3>2
  <2>3. PICK w \in Workers : pc[w] # "exited" /\ ~(pc[w] = "waiting" /\ queue = <<>>)
    BY <2>2
  <2>4. item[w] \in BatchJobs => Owner[item[w]] \in Tenants
    BY OwnerAssumption DEF Jobs
  <2>5. QED
    BY <2>3, <2>4 DEF Waits
<1>2. QED
  BY <1>1, TypeCorrect, Invariance, WorkersSurvive, NothingForgotten, PTL

-----------------------------------------------------------------------------
(* The shutdown.  What the accepted batches have still to publish is        *)
(* finite: they are in the queue or with one of finitely many workers.      *)
LEMMA UnpublishedFinite ==
  ASSUME TypeOK, NEW t \in Tenants
  PROVE  IsFiniteSet(Unpublished(t)) /\ Cardinality(Unpublished(t)) \in Nat
<1> DEFINE Q == {queue[i] : i \in 1..Len(queue)}
           H == {item[w] : w \in Workers}
<1>1. IsFiniteSet(Q)
  <2> DEFINE f == [i \in 1..Len(queue) |-> queue[i]]
  <2>1. f \in Surjection(1..Len(queue), Q)
    BY Fun_IsSurj
  <2>2. Len(queue) \in Nat
    BY DEF TypeOK
  <2>3. QED
    BY <2>1, <2>2, FS_Interval, FS_Surjection
<1>2. IsFiniteSet(H)
  <2> DEFINE f == [w \in Workers |-> item[w]]
  <2>1. f \in Surjection(Workers, H)
    BY Fun_IsSurj
  <2>2. QED
    BY <2>1, WorkersAssumption, FS_Surjection
<1>3. Backlog(t) \subseteq Q \cup H
  BY DEF Backlog, InQueue, Held
<1>4. IsFiniteSet(Backlog(t))
  BY <1>1, <1>2, <1>3, FS_Union, FS_Subset
<1>5. IsFiniteSet(Backlog(t) \X (1..BatchSize))
  <2>1. IsFiniteSet(1..BatchSize)
    BY BoundsAssumption, FS_Interval
  <2>2. QED
    BY <1>4, <2>1, FS_Product
<1>6. Unpublished(t) \subseteq Backlog(t) \X (1..BatchSize)
  <2>1. \A j \in Backlog(t) : published[j] \in Nat
    BY DEF TypeOK, Backlog, Jobs
  <2>2. \A j \in Backlog(t) : (published[j] + 1)..BatchSize \subseteq 1..BatchSize
    BY <2>1, BoundsAssumption
  <2>3. QED
    BY <2>2 DEF Unpublished
<1>7. QED
  BY <1>5, <1>6, FS_Subset, FS_CardinalityType

LEMMA UnpublishedShrinks ==
  ASSUME TypeOK, NEW t \in Tenants,
         Backlog(t)' \subseteq Backlog(t), published' = published
  PROVE  /\ Cardinality(Unpublished(t)') \in Nat
         /\ Cardinality(Unpublished(t)') <= Cardinality(Unpublished(t))
<1>1. Unpublished(t)' \subseteq Unpublished(t)
  BY DEF Unpublished
<1>2. QED
  BY <1>1, UnpublishedFinite, FS_Subset, FS_CardinalityType

(* A step of a worker, or of stop() putting an item, brings no new batch in. *)
LEMMA BacklogShrinks ==
  ASSUME IInv, NEW t \in Tenants,
         \/ UNCHANGED vars
         \/ PutStop
         \/ \E w \in Workers :
               \/ GetJob(w) \/ GetStop(w) \/ BeginJob(w) \/ StreamLinesRaise(w)
               \/ PublishEvent(w) \/ CommitWork(w) \/ CompleteJob(w)
               \/ ProcessorRaises(w) \/ RecordFailure(w) \/ RecordFailureRaises(w)
  PROVE  Backlog(t)' \subseteq Backlog(t)
<1> USE ItemsAssumption
<1>0. queue \in Seq(Jobs \cup {Stop}) /\ item \in [Workers -> Jobs \cup {NoJob}]
  BY DEF IInv, TypeOK
<1>1. SUFFICES ASSUME NEW j \in Jobs, InQueue(j)' \/ Held(j)'
               PROVE  InQueue(j) \/ Held(j)
  BY DEF Backlog, Jobs
<1>2. CASE UNCHANGED vars
  BY <1>1, <1>2 DEF vars, InQueue, Held
<1>3. CASE PutStop
  <2>1. queue' = Append(queue, Stop) /\ item' = item
    BY <1>3 DEF PutStop
  <2>2. QED
    BY <1>0, <1>1, <2>1 DEF InQueue, Held
<1>4. ASSUME NEW w \in Workers, GetJob(w) PROVE InQueue(j) \/ Held(j)
  <2>1. /\ queue # <<>> /\ queue' = Tail(queue)
        /\ item' = [item EXCEPT ![w] = Head(queue)]
    BY <1>4 DEF GetJob
  <2>2. CASE InQueue(j)'
    BY <1>0, <2>1, <2>2, TailPositions DEF InQueue
  <2>3. CASE Held(j)'
    <3>1. Head(queue) = j => InQueue(j)
      BY <1>0, <2>1, TailPositions DEF InQueue
    <3>2. QED
      BY <1>0, <2>1, <2>3, <3>1 DEF Held
  <2>4. QED
    BY <1>1, <2>2, <2>3
<1>5. ASSUME NEW w \in Workers, GetStop(w) PROVE InQueue(j) \/ Held(j)
  <2>1. queue # <<>> /\ queue' = Tail(queue) /\ item' = item
    BY <1>5 DEF GetStop
  <2>2. QED
    BY <1>0, <1>1, <2>1, TailPositions DEF InQueue, Held
<1>6. ASSUME NEW w \in Workers,
             \/ BeginJob(w) \/ StreamLinesRaise(w) \/ PublishEvent(w) \/ CommitWork(w)
             \/ ProcessorRaises(w)
      PROVE  InQueue(j) \/ Held(j)
  <2>1. queue' = queue /\ item' = item
    BY <1>6
    DEF BeginJob, StreamLinesRaise, PublishEvent, CommitWork, ProcessorRaises
  <2>2. QED
    BY <1>1, <2>1 DEF InQueue, Held
<1>7. ASSUME NEW w \in Workers,
             CompleteJob(w) \/ RecordFailure(w) \/ RecordFailureRaises(w)
      PROVE  InQueue(j) \/ Held(j)
  <2>1. queue' = queue /\ item' = [item EXCEPT ![w] = NoJob]
    BY <1>7 DEF CompleteJob, RecordFailure, RecordFailureRaises, Release
  <2>2. QED
    BY <1>0, <1>1, <2>1 DEF InQueue, Held
<1>8. QED
  BY <1>2, <1>3, <1>4, <1>5, <1>6, <1>7

(* What is left of a shutdown's steps once it is under way.                 *)
LEMMA StoppingCases ==
  ASSUME IInv, [Next]_vars, phase = "stopping", phase' \notin {"stopped", "down"}
  PROVE  /\ phase' = "stopping"
         /\ \/ UNCHANGED vars
            \/ PutStop
            \/ \E w \in Workers :
                  \/ GetJob(w) \/ GetStop(w) \/ BeginJob(w) \/ StreamLinesRaise(w)
                  \/ PublishEvent(w) \/ CommitWork(w) \/ CompleteJob(w)
                  \/ ProcessorRaises(w) \/ RecordFailure(w) \/ RecordFailureRaises(w)
<1>1. \A j \in Jobs : ~Submit(j)
  BY DEF Submit
<1>2. \A j \in Jobs : /\ ~Enqueue(j) /\ ~EnqueueWaits(j) /\ ~EnqueueTimesOut(j)
                      /\ ~Refuse(j) /\ ~RefuseRaises(j)
  BY DEF IInv, ProcessOK, Enqueue, EnqueueWaits, EnqueueTimesOut, Refuse, RefuseRaises,
         MoveRequest
<1>3. ~BeginStop /\ ~EndStop /\ ~Crash /\ ~Restart /\ \A t \in Tenants : ~ConsumeEvent(t)
  BY DEF BeginStop, EndStop, Crash, Restart, ConsumeEvent
<1>4. \/ UNCHANGED vars
      \/ PutStop
      \/ \E w \in Workers :
            \/ GetJob(w) \/ GetStop(w) \/ BeginJob(w) \/ StreamLinesRaise(w)
            \/ PublishEvent(w) \/ CommitWork(w) \/ CompleteJob(w)
            \/ ProcessorRaises(w) \/ RecordFailure(w) \/ RecordFailureRaises(w)
  BY <1>1, <1>2, <1>3, NextCases
<1>5. UNCHANGED procVars
  BY <1>4
  DEF vars, PutStop, GetJob, GetStop, BeginJob, StreamLinesRaise, PublishEvent,
      CommitWork, CompleteJob, ProcessorRaises, RecordFailure, RecordFailureRaises
<1>6. QED
  BY <1>4, <1>5

(* A published event leaves the backlog for the topic. *)
LEMMA PublishMovesOne ==
  ASSUME IInv, NEW w \in Workers, PublishEvent(w), NEW t \in Tenants
  PROVE  /\ Cardinality(Unpublished(t)') \in Nat
         /\ topic'[t] + Cardinality(Unpublished(t)') = topic[t] + Cardinality(Unpublished(t))
<1> DEFINE j == item[w]
           e == <<j, published[j] + 1>>
<1>0. TypeOK
  BY DEF IInv
<1>1. /\ j \in BatchJobs /\ published[j] < BatchSize
      /\ published' = [published EXCEPT ![j] = @ + 1]
      /\ topic' = [topic EXCEPT ![Owner[j]] = @ + 1]
      /\ queue' = queue /\ item' = item
  BY DEF PublishEvent
<1>2. Backlog(t)' = Backlog(t)
  BY <1>1 DEF Backlog, InQueue, Held
<1>3. \A k \in Backlog(t) : k \in Jobs /\ published[k] \in Nat
  BY <1>0 DEF TypeOK, Backlog, Jobs
<1>4. published[j] \in Nat /\ BatchSize \in Nat /\ topic \in [Tenants -> 0..TopicMax]
  BY <1>0, <1>1, BoundsAssumption DEF TypeOK, Jobs
<1>5. \A k \in BatchJobs : k # j => published'[k] = published[k]
  BY <1>1
<1>6. published'[j] = published[j] + 1
  BY <1>0, <1>1 DEF TypeOK, Jobs
<1>7. CASE Owner[j] = t
  <2>1. j \in Backlog(t)
    BY <1>1, <1>7 DEF Backlog, Held
  <2>2. e \in Unpublished(t)
    <3>1. published[j] + 1 \in (published[j] + 1)..BatchSize
      BY <1>1, <1>4
    <3>2. QED
      BY <2>1, <3>1 DEF Unpublished
  <2>3. Unpublished(t)' = Unpublished(t) \ {e}
    <3>1. (published'[j] + 1)..BatchSize = ((published[j] + 1)..BatchSize) \ {published[j] + 1}
      BY <1>4, <1>6
    <3>2. \A k, n : <<k, n>> \in Unpublished(t)'
                      <=> k \in Backlog(t) /\ n \in (published'[k] + 1)..BatchSize
      BY <1>2 DEF Unpublished
    <3>3. \A k, n : <<k, n>> \in Unpublished(t)
                      <=> k \in Backlog(t) /\ n \in (published[k] + 1)..BatchSize
      BY DEF Unpublished
    <3>4. \A k \in Backlog(t) : k # j => published'[k] = published[k]
      BY <1>5 DEF Backlog
    <3>5. \A k, n : <<k, n>> \in Unpublished(t)' <=> <<k, n>> \in Unpublished(t) \ {e}
      BY <3>1, <3>2, <3>3, <3>4
    <3>6. \A x \in Unpublished(t) : \E k, n : x = <<k, n>>
      BY DEF Unpublished
    <3>7. \A x \in Unpublished(t)' : \E k, n : x = <<k, n>>
      BY DEF Unpublished
    <3>8. QED
      BY <3>5, <3>6, <3>7
  <2>4. Cardinality(Unpublished(t)') = Cardinality(Unpublished(t)) - 1
        /\ Cardinality(Unpublished(t)') \in Nat
    BY <1>0, <2>2, <2>3, UnpublishedFinite, FS_RemoveElement, FS_CardinalityType
  <2>5. topic'[t] = topic[t] + 1 /\ topic[t] \in Nat
    BY <1>1, <1>4, <1>7
  <2>6. QED
    BY <1>0, <2>4, <2>5, UnpublishedFinite
<1>8. CASE Owner[j] # t
  <2>1. \A k \in Backlog(t) : published'[k] = published[k]
    BY <1>5, <1>8 DEF Backlog
  <2>2. Unpublished(t)' = Unpublished(t)
    BY <1>2, <2>1 DEF Unpublished
  <2>3. topic'[t] = topic[t]
    BY <1>1, <1>4, <1>8
  <2>4. QED
    BY <1>0, <2>2, <2>3, UnpublishedFinite
<1>9. QED
  BY <1>7, <1>8

(* A shutdown that fits goes on fitting until it is over: the puts of stop  *)
(* items, the gets, the publishing and the failures of the remaining jobs   *)
(* never use more room than it counted on.                                  *)
THEOREM FitIsStable == Spec => StopFitsStays
<1>1. IInv /\ [Next]_vars => [StopFits => StopFits' \/ phase' \in {"stopped", "down"}]_vars
  <2> SUFFICES ASSUME IInv, [Next]_vars, StopFits, phase' \notin {"stopped", "down"}
               PROVE  StopFits'
    OBVIOUS
  <2>0. /\ queue \in Seq(Jobs \cup {Stop}) /\ toPut \in Nat
        /\ topic \in [Tenants -> 0..TopicMax]
        /\ QueueMax \in Nat /\ TopicMax \in Nat /\ TypeOK
    BY BoundsAssumption, WorkersCount DEF IInv, TypeOK
  <2>1. /\ phase = "stopping" /\ Len(queue) + toPut <= QueueMax
        /\ \A t \in Tenants : topic[t] + Cardinality(Unpublished(t)) <= TopicMax
    BY DEF StopFits
  <2>2. /\ phase' = "stopping"
        /\ \/ UNCHANGED vars
           \/ PutStop
           \/ \E w \in Workers :
                 \/ GetJob(w) \/ GetStop(w) \/ BeginJob(w) \/ StreamLinesRaise(w)
                 \/ PublishEvent(w) \/ CommitWork(w) \/ CompleteJob(w)
                 \/ ProcessorRaises(w) \/ RecordFailure(w) \/ RecordFailureRaises(w)
    BY <2>1, StoppingCases
  <2>3. Len(queue') + toPut' <= QueueMax
    <3>1. CASE PutStop
      <4>1. queue' = Append(queue, Stop) /\ toPut' = toPut - 1
        BY <3>1 DEF PutStop
      <4>2. QED
        BY <2>0, <2>1, <4>1
    <3>2. ASSUME NEW w \in Workers, GetJob(w) \/ GetStop(w)
          PROVE  Len(queue') + toPut' <= QueueMax
      <4>1. queue # <<>> /\ queue' = Tail(queue) /\ toPut' = toPut
        BY <3>2 DEF GetJob, GetStop
      <4>2. Len(queue') = Len(queue) - 1 /\ Len(queue) \in Nat
        BY <2>0, <4>1
      <4>3. QED
        BY <2>0, <2>1, <4>1, <4>2
    <3>3. ASSUME NEW w \in Workers,
                 \/ BeginJob(w) \/ StreamLinesRaise(w) \/ PublishEvent(w)
                 \/ CommitWork(w) \/ CompleteJob(w) \/ ProcessorRaises(w)
                 \/ RecordFailure(w) \/ RecordFailureRaises(w)
          PROVE  UNCHANGED <<queue, toPut>>
      BY <3>3 DEF BeginJob, StreamLinesRaise, PublishEvent, CommitWork, CompleteJob,
                  ProcessorRaises, RecordFailure, RecordFailureRaises
    <3>4. CASE UNCHANGED vars
      BY <2>1, <3>4 DEF vars
    <3>5. QED
      BY <2>1, <2>2, <3>1, <3>2, <3>3, <3>4
  <2>4. ASSUME NEW t \in Tenants
        PROVE  topic'[t] + Cardinality(Unpublished(t)') <= TopicMax
    <3>1. ASSUME NEW w \in Workers, PublishEvent(w)
          PROVE  topic'[t] + Cardinality(Unpublished(t)') <= TopicMax
      BY <2>1, <3>1, PublishMovesOne
    <3>2. CASE UNCHANGED <<topic, published>>
      <4>1. Backlog(t)' \subseteq Backlog(t)
        BY <2>2, BacklogShrinks
      <4>2. /\ Cardinality(Unpublished(t)') \in Nat
            /\ Cardinality(Unpublished(t)') <= Cardinality(Unpublished(t))
        BY <2>0, <3>2, <4>1, UnpublishedShrinks
      <4>3. topic[t] \in Nat /\ Cardinality(Unpublished(t)) \in Nat
        BY <2>0, UnpublishedFinite
      <4>4. QED
        BY <2>0, <2>1, <3>2, <4>2, <4>3
    <3>3. ASSUME NEW w \in Workers,
                 \/ GetJob(w) \/ GetStop(w) \/ BeginJob(w) \/ StreamLinesRaise(w)
                 \/ CommitWork(w) \/ CompleteJob(w) \/ ProcessorRaises(w)
                 \/ RecordFailure(w) \/ RecordFailureRaises(w)
          PROVE  UNCHANGED <<topic, published>>
      BY <3>3 DEF GetJob, GetStop, BeginJob, StreamLinesRaise, CommitWork, CompleteJob,
                  ProcessorRaises, RecordFailure, RecordFailureRaises
    <3>4. PutStop \/ UNCHANGED vars => UNCHANGED <<topic, published>>
      BY DEF PutStop, vars
    <3>5. QED
      BY <2>2, <3>1, <3>2, <3>3, <3>4
  <2>5. QED
    BY <2>2, <2>3, <2>4 DEF StopFits
<1>2. QED
  BY <1>1, Invariance, PTL DEF Spec, StopFitsStays

(* A shutdown that fits is never stuck: until every worker has left and     *)
(* stop() returns, stop() has room for its next item or a worker can move.  *)
(* With fairness this is why stop() returns.                                *)
THEOREM ShutdownNeverStuck == Spec => []ShutdownMoves
<1>1. IInv /\ EnoughStopItems => ShutdownMoves
  <2> SUFFICES ASSUME IInv, EnoughStopItems, StopFits,
                      ~(toPut > 0 /\ HasRoom), \A w \in Workers : Waits(w)
               PROVE  toPut = 0 /\ \A w \in Workers : pc[w] = "exited"
    BY DEF ShutdownMoves
  <2>0. /\ TypeOK /\ toPut \in Nat /\ QueueMax \in Nat
        /\ queue \in Seq(Jobs \cup {Stop})
    BY BoundsAssumption, WorkersCount DEF IInv, TypeOK
  <2>1. toPut = 0
    BY <2>0 DEF StopFits, HasRoom
  <2>2. Cardinality(Looping) <= Cardinality(StopItems(queue))
    BY <2>0, <2>1, StopItemsFinite DEF EnoughStopItems, StopFits
  <2>3. ASSUME NEW w \in Workers, pc[w] # "exited" PROVE FALSE
    <3>1. Looping # {}
      BY <2>3 DEF Looping
    <3>2. Cardinality(Looping) \in Nat \ {0}
      BY <3>1, LoopingFinite, FS_EmptySet
    <3>3. StopItems(queue) # {}
      BY <2>0, <2>2, <3>2, StopItemsFinite, FS_EmptySet
    <3>4. queue # <<>>
      BY <3>3 DEF StopItems
    <3>5. /\ item[w] \in BatchJobs /\ published[item[w]] < BatchSize
          /\ topic[Owner[item[w]]] = TopicMax
      BY <2>3, <3>4 DEF Waits
    <3> DEFINE j == item[w]
               t == Owner[j]
    <3>6. t \in Tenants /\ published[j] \in Nat
      BY <2>0, <3>5, OwnerAssumption DEF TypeOK, Jobs
    <3>7. <<j, published[j] + 1>> \in Unpublished(t)
      <4>1. j \in Backlog(t)
        BY <3>5 DEF Backlog, Held
      <4>2. published[j] + 1 \in (published[j] + 1)..BatchSize
        BY <3>5, <3>6, BoundsAssumption
      <4>3. QED
        BY <4>1, <4>2 DEF Unpublished
    <3>8. Cardinality(Unpublished(t)) \in Nat \ {0}
      BY <2>0, <3>6, <3>7, UnpublishedFinite, FS_EmptySet
    <3>9. topic[t] + Cardinality(Unpublished(t)) <= TopicMax
      BY <3>6 DEF StopFits
    <3>10. QED
      BY <3>5, <3>8, <3>9, BoundsAssumption
  <2>4. QED
    BY <2>1, <2>3
<1>2. QED
  BY <1>1, Invariance, StopItemsSuffice, PTL
=============================================================================
