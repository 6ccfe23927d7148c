----------------------------- MODULE ColdArchive -----------------------------
(***************************************************************************)
(* Archiving one tenant's request logs and evidence                        *)
(* (modules/storage/archiver.py): archive_once appends the rows older than *)
(* ARCHIVE_AFTER_DAYS to files, uploads them, deletes them in batches, and *)
(* then deletes whatever is older than the tenant's retention, archived or *)
(* not; one commit ends the run.  The ArchiveProcessor task and POST       *)
(* /storage/archive both run it, possibly at the same time.                *)
(*                                                                         *)
(* Files and uploads are not part of the transaction: a run that fails     *)
(* leaves them behind.  A row is a pair of its table and a name; the two   *)
(* tables are done in the order 1, 2.                                      *)
(***************************************************************************)
EXTENDS Naturals, FiniteSets

CONSTANTS
    Runners,       \* the task and the API calls that run archive_once
    ArchiveTask,   \* the one of them that is ArchiveProcessor
    ColdRows,      \* bound: the rows that can ever be written
    ArchiveAfter,  \* ARCHIVE_AFTER_DAYS
    DefaultKeep,   \* RETENTION_DELETE_AFTER_DAYS
    Retentions,    \* bound: what a PUT can set retention_period_days to
    ArchiveBatch,  \* ARCHIVE_BATCH_SIZE
    MaxDay,        \* bound: the last day
    LastWrite,     \* bound: the last day on which rows are written
    MaxRestarts    \* bound: restarts of the process

ASSUME ColdAssumption ==
    /\ ArchiveTask \in Runners
    /\ ColdRows \subseteq {1, 2} \X STRING
    /\ Retentions \subseteq Nat
    /\ {ArchiveAfter, DefaultKeep, LastWrite, MaxRestarts} \subseteq Nat
    /\ MaxDay \in Nat \ {0}
    /\ ArchiveBatch \in Nat \ {0}

VARIABLES
    day,
    born,      \* the day of created_at
    hot,       \* the rows in the database
    archived,  \* rows in an archive file (and uploaded, with a bucket)
    keepDays,  \* TenantRetentionPolicy.retention_period_days, 0 without a row
    inForce,   \* history: every retention that has been in force
    runner,
    restarts

coldVars == <<day, born, hot, archived, keepDays, inForce, runner, restarts>>

(* pc, table in hand, day the run began, retention it read, rows of the     *)
(* batch, rows deleted by its open transaction.                             *)
Runs == [pc : {"idle", "policy", "select", "write", "delete", "purge", "commit", "dead"},
         table : {1, 2}, start : Nat, keep : Nat,
         batch : SUBSET ColdRows, gone : SUBSET ColdRows]
NoRun == [pc |-> "idle", table |-> 1, start |-> 0, keep |-> 0, batch |-> {}, gone |-> {}]

(* `if policy and policy.retention_period_days`: 0 means the default. *)
Effective(d) == IF d = 0 THEN DefaultKeep ELSE d

ColdTypeOK ==
    /\ day \in 1..MaxDay
    /\ born \in [ColdRows -> 0..MaxDay]
    /\ hot \subseteq ColdRows
    /\ archived \subseteq ColdRows
    /\ keepDays \in Retentions \cup {0}
    /\ inForce \subseteq Nat
    /\ runner \in [Runners -> Runs]
    /\ restarts \in 0..MaxRestarts

ColdInit ==
    /\ day = 1
    /\ born = [r \in ColdRows |-> 0]
    /\ hot = {}
    /\ archived = {}
    /\ keepDays = 0
    /\ inForce = {DefaultKeep}
    /\ runner = [k \in Runners |-> NoRun]
    /\ restarts = 0

-----------------------------------------------------------------------------
(* What goes on around the runs. *)

NextDay ==
    /\ day < MaxDay
    /\ day' = day + 1
    /\ UNCHANGED <<born, hot, archived, keepDays, inForce, runner, restarts>>

(* born = 0 marks a row that was never written. *)
WriteRow(r) ==
    /\ born[r] = 0
    /\ day <= LastWrite
    /\ born' = [born EXCEPT ![r] = day]
    /\ hot' = hot \cup {r}
    /\ UNCHANGED <<day, archived, keepDays, inForce, runner, restarts>>

PutRetention(d) ==
    /\ keepDays # d
    /\ keepDays' = d
    /\ inForce' = inForce \cup {Effective(d)}
    /\ UNCHANGED <<day, born, hot, archived, runner, restarts>>

-----------------------------------------------------------------------------
(* archive_once. *)

MoveRun(k, run) ==
    /\ runner' = [runner EXCEPT ![k] = run]
    /\ UNCHANGED <<day, born, keepDays, inForce, restarts>>

BeginRun(k) ==
    /\ runner[k].pc = "idle"
    /\ MoveRun(k, [NoRun EXCEPT !.pc = "policy", !.start = day])
    /\ UNCHANGED <<hot, archived>>

ReadRetention(k) ==
    /\ runner[k].pc = "policy"
    /\ MoveRun(k, [runner[k] EXCEPT !.pc = "select", !.keep = Effective(keepDays)])
    /\ UNCHANGED <<hot, archived>>

(* created_at < start - days *)
OlderThan(r, run, days) == born[r] + days < run.start
Rows(run) == {r \in hot \ run.gone : r[1] = run.table}

Earliest(B, S) ==
    /\ B \subseteq S
    /\ \A r \in B, q \in S \ B : born[r] <= born[q]
    /\ B = S \/ Cardinality(B) = ArchiveBatch
    /\ Cardinality(B) <= ArchiveBatch

SelectBatch(k) ==
    /\ runner[k].pc = "select"
    /\ LET S == {r \in Rows(runner[k]) : OlderThan(r, runner[k], ArchiveAfter)}
       IN  \E B \in SUBSET S :
              /\ Earliest(B, S)
              /\ MoveRun(k, [runner[k] EXCEPT !.batch = B,
                                !.pc = IF B = {} THEN "purge" ELSE "write"])
    /\ UNCHANGED <<hot, archived>>

(* Append and upload, one file per day. *)
WriteFiles(k) ==
    /\ runner[k].pc = "write"
    /\ archived' = archived \cup runner[k].batch
    /\ MoveRun(k, [runner[k] EXCEPT !.pc = "delete"])
    /\ UNCHANGED hot

(* Mutant: deletes what is old instead of what was read and written. *)
DeleteBatchByAge(k) ==
    /\ runner[k].pc = "delete"
    /\ MoveRun(k, [runner[k] EXCEPT !.pc = "select", !.batch = {},
                      !.gone = @ \cup {r \in Rows(runner[k]) :
                                         OlderThan(r, runner[k], ArchiveAfter)}])
    /\ UNCHANGED <<hot, archived>>

DeleteBatch(k) ==
    /\ runner[k].pc = "delete"
    /\ MoveRun(k, [runner[k] EXCEPT !.pc = "select", !.batch = {},
                      !.gone = @ \cup runner[k].batch])
    /\ UNCHANGED <<hot, archived>>

(* Rows beyond the retention are deleted whether or not they were archived; *)
(* then the next table, or the commit.                                      *)
Purge(k) ==
    /\ runner[k].pc = "purge"
    /\ MoveRun(k, [runner[k] EXCEPT
                      !.gone = @ \cup {r \in Rows(runner[k]) :
                                         OlderThan(r, runner[k], runner[k].keep)},
                      !.pc = IF runner[k].table = 1 THEN "select" ELSE "commit",
                      !.table = 2])
    /\ UNCHANGED <<hot, archived>>

(* Mutant: the run ends without its commit. *)
CommitRunForgets(k) ==
    /\ runner[k].pc = "commit"
    /\ MoveRun(k, NoRun)
    /\ UNCHANGED <<hot, archived>>

CommitRun(k) ==
    /\ runner[k].pc = "commit"
    /\ hot' = hot \ runner[k].gone
    /\ MoveRun(k, NoRun)
    /\ UNCHANGED archived

(* What a run that stops where it is has already put into files: the rows   *)
(* of some of its days.                                                     *)
PartlyWritten(run) ==
    IF run.pc # "write" THEN {{}}
    ELSE {B \in SUBSET run.batch :
            \A r \in B, q \in run.batch : born[r] = born[q] => q \in B}

(* A call to the database, the disk or the bucket raises: the transaction   *)
(* is rolled back, the request ends in a 500, the task dies logging it.     *)
RunRaises(k) ==
    /\ runner[k].pc \notin {"idle", "dead"}
    /\ \E B \in PartlyWritten(runner[k]) : archived' = archived \cup B
    /\ MoveRun(k, [NoRun EXCEPT !.pc = IF k = ArchiveTask THEN "dead" ELSE "idle"])
    /\ UNCHANGED hot

RestartProcess ==
    /\ restarts < MaxRestarts
    /\ restarts' = restarts + 1
    /\ \E k \in Runners, B \in SUBSET ColdRows :
          B \in PartlyWritten(runner[k]) /\ archived' = archived \cup B
    /\ runner' = [k \in Runners |-> NoRun]
    /\ UNCHANGED <<day, born, hot, keepDays, inForce>>

RunStep(k) ==
    \/ BeginRun(k) \/ ReadRetention(k) \/ SelectBatch(k) \/ WriteFiles(k)
    \/ DeleteBatch(k) \/ Purge(k) \/ CommitRun(k)

ColdNext ==
    \/ NextDay
    \/ \E r \in ColdRows : WriteRow(r)
    \/ \E d \in Retentions : PutRetention(d)
    \/ \E k \in Runners : RunStep(k) \/ RunRaises(k)
    \/ RestartProcess

ColdSpec == ColdInit /\ [][ColdNext]_coldVars

(* The task wakes every ARCHIVE interval and the event loop runs it. *)
ColdFairSpec == ColdSpec /\ WF_coldVars(RunStep(ArchiveTask))

-----------------------------------------------------------------------------
(* A row leaves the database only when it is in an archive file, or was     *)
(* older than a retention that has been in force: two runs at once, a run   *)
(* that fails half-way, a crash or a policy changed during a run never cost *)
(* a younger row its archive.                                               *)
GoneMeansArchived ==
    [][\A r \in hot \ hot' :
          r \in archived \/ \E d \in inForce : born[r] + d < day]_coldVars

(* A row old enough to be archived leaves the database, unless the task     *)
(* dies.                                                                    *)
OldRowsLeave ==
    \A r \in ColdRows :
        (r \in hot /\ born[r] + ArchiveAfter < day)
            ~> (r \notin hot \/ runner[ArchiveTask].pc = "dead")
=============================================================================
