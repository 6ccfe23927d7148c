---------------------------- MODULE JobLifecycle ----------------------------
(***************************************************************************)
(* What the ingestion subsystem promises about a job, with no queue, no    *)
(* worker and no process in sight: the life of one IngestionJob row, the   *)
(* commit of the job's own rows (request logs, events), and the dead       *)
(* letters kept for it.                                                    *)
(*                                                                         *)
(* The promise: a job is accepted once, its rows are committed at most     *)
(* once and only while it runs, it completes only after that commit, a     *)
(* failure of a worker leaves exactly one dead letter, a refusal leaves    *)
(* none, and COMPLETED and FAILED are final.  Ingestion implements this.   *)
(***************************************************************************)
EXTENDS Naturals

CONSTANT Jobs

VARIABLES
    status,       \* IngestionJob.status, "NONE" while the row does not exist
    applied,      \* commits of the job's own rows
    deadLetters   \* IngestionDeadLetter rows written when the job failed

vars == <<status, applied, deadLetters>>

Final == {"COMPLETED", "FAILED"}

Init ==
    /\ status = [j \in Jobs |-> "NONE"]
    /\ applied = [j \in Jobs |-> 0]
    /\ deadLetters = [j \in Jobs |-> 0]

SetStatus(j, from, to) ==
    /\ status[j] \in from
    /\ status' = [status EXCEPT ![j] = to]

Accept(j) ==
    /\ SetStatus(j, {"NONE"}, "QUEUED")
    /\ UNCHANGED <<applied, deadLetters>>

(* The queue had no room: the client is told so, nothing is kept. *)
Refuse(j) ==
    /\ SetStatus(j, {"QUEUED"}, "FAILED")
    /\ applied[j] = 0
    /\ deadLetters[j] = 0
    /\ UNCHANGED <<applied, deadLetters>>

Start(j) ==
    /\ SetStatus(j, {"QUEUED"}, "RUNNING")
    /\ UNCHANGED <<applied, deadLetters>>

Apply(j) ==
    /\ status[j] = "RUNNING"
    /\ applied[j] = 0
    /\ applied' = [applied EXCEPT ![j] = 1]
    /\ UNCHANGED <<status, deadLetters>>

Complete(j) ==
    /\ SetStatus(j, {"RUNNING"}, "COMPLETED")
    /\ applied[j] = 1
    /\ UNCHANGED <<applied, deadLetters>>

Fail(j) ==
    /\ SetStatus(j, {"QUEUED", "RUNNING"}, "FAILED")
    /\ deadLetters[j] = 0
    /\ deadLetters' = [deadLetters EXCEPT ![j] = 1]
    /\ UNCHANGED applied

Next ==
    \E j \in Jobs :
        Accept(j) \/ Refuse(j) \/ Start(j) \/ Apply(j) \/ Complete(j) \/ Fail(j)

Spec == Init /\ [][Next]_vars
=============================================================================
