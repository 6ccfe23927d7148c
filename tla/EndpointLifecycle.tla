-------------------------- MODULE EndpointLifecycle --------------------------
(***************************************************************************)
(* The API inventory of one account: its endpoint rows, their status, and  *)
(* the policy violations opened for them.  Three kinds of task write it:   *)
(*   - ingestion workers, for every api_traffic event (upsert in           *)
(*     modules/ingestion/processors.py process_event_batch);               *)
(*   - the lifecycle sweeper (modules/api_inventory/lifecycle.py);         *)
(*   - the recon scheduler (modules/recon/scheduler.py, processor.py).     *)
(*                                                                         *)
(* Each reads rows, awaits, and commits later; the sessions do not flush   *)
(* before a query (autoflush=False) and commits are serial.  A path stands *)
(* for an account's (method, host, path_pattern).  Rows imported or added  *)
(* by hand have no path_pattern, so no worker and no recon run finds them, *)
(* and no last_seen either but for the nginx import's; they are left out.  *)
(***************************************************************************)
EXTENDS Naturals, FiniteSets, Functions

CONSTANTS
    Paths,           \* what requests and recon findings can name
    Ids,             \* bound: the endpoint rows that can ever be created
    Writers,         \* ingestion workers with a traffic event in hand
    CandidateLimit,  \* 200, the candidates one sweep looks at
    NoId,            \* endpoint_id NULL
    NoPath           \* an unused row, an idle worker

ASSUME IdsAssumption == IsFiniteSet(Ids) /\ NoId \notin Ids
ASSUME PathsAssumption == NoPath \notin Paths \cup Ids \cup {NoId}
ASSUME WritersAssumption == IsFiniteSet(Writers)
ASSUME LimitAssumption == CandidateLimit \in Nat

VARIABLES
    path,     \* the path of each row, NoPath while it does not exist
    status,   \* APIEndpoint.status
    recent,   \* last_seen is within ZOMBIE_ENDPOINT_DAYS
    zombie,   \* OPEN ZOMBIE_ENDPOINT violations of each row
    shadow,   \* OPEN SHADOW_ENDPOINT violations, by endpoint_id
    txn,      \* what each worker has read for its event
    sweeper,  \* where EndpointLifecycleProcessor is
    recon,    \* where ReconScheduler is
    batch,    \* the items of the recon run in hand, with the row found
    found     \* paths with an ExternalReconFinding row

rowVars == <<path, status, recent>>
violationVars == <<zombie, shadow>>
reconVars == <<recon, batch, found>>
vars == <<rowVars, violationVars, txn, sweeper, reconVars>>

Statuses == {"ACTIVE", "SHADOW", "ZOMBIE"}
Suspect == {"SHADOW", "ZOMBIE"}
IdsOrNull == Ids \cup {NoId}
Txns == [path : Paths \cup {NoPath}, row : IdsOrNull, status : Statuses]
NoTxn == [path |-> NoPath, row |-> NoId, status |-> "ACTIVE"]
NotInBatch == NoPath

TypeOK ==
    /\ path \in [Ids -> Paths \cup {NoPath}]
    /\ status \in [Ids -> Statuses]
    /\ recent \in [Ids -> BOOLEAN]
    /\ zombie \in [Ids -> Nat]
    /\ shadow \in [IdsOrNull -> Nat]
    /\ txn \in [Writers -> Txns]
    /\ sweeper \in {"idle", "notify", "revive", "dead"}
    /\ recon \in {"running", "dead"}
    /\ batch \in [Paths -> IdsOrNull \cup {NotInBatch}]
    /\ found \subseteq Paths

Init ==
    /\ path = [r \in Ids |-> NoPath]
    /\ status = [r \in Ids |-> "ACTIVE"]
    /\ recent = [r \in Ids |-> FALSE]
    /\ zombie = [r \in Ids |-> 0]
    /\ shadow = [r \in IdsOrNull |-> 0]
    /\ txn = [w \in Writers |-> NoTxn]
    /\ sweeper = "idle"
    /\ recon = "running"
    /\ batch = [p \in Paths |-> NotInBatch]
    /\ found = {}

Rows == {r \in Ids : path[r] # NoPath}
RowsOf(p) == {r \in Ids : path[r] = p}
Unused == Ids \ Rows

-----------------------------------------------------------------------------
(* Traffic.  scalar_one_or_none raises when a path has two rows: the event  *)
(* then fails its whole batch and writes nothing here.                      *)

(* Mutant: the lookup misses the rows there are. *)
TrafficReadMisses(w, p) ==
    /\ txn[w] = NoTxn
    /\ txn' = [txn EXCEPT ![w] = [path |-> p, row |-> NoId, status |-> "ACTIVE"]]
    /\ UNCHANGED <<rowVars, violationVars, sweeper, reconVars>>

TrafficRead(w, p) ==
    /\ txn[w] = NoTxn
    /\ \/ /\ RowsOf(p) = {}
          /\ txn' = [txn EXCEPT ![w] = [path |-> p, row |-> NoId, status |-> "ACTIVE"]]
       \/ \E r \in Ids :
             /\ RowsOf(p) = {r}
             /\ txn' = [txn EXCEPT ![w] = [path |-> p, row |-> r, status |-> status[r]]]
    /\ UNCHANGED <<rowVars, violationVars, sweeper, reconVars>>

EndTxn(w) ==
    /\ txn[w] # NoTxn
    /\ txn' = [txn EXCEPT ![w] = NoTxn]

(* No row when it looked: a new one, whatever has been committed since. *)
TrafficCreate(w) ==
    /\ txn[w].row = NoId
    /\ EndTxn(w)
    /\ \E r \in Unused :
          /\ path' = [path EXCEPT ![r] = txn[w].path]
          /\ status' = [status EXCEPT ![r] = "ACTIVE"]
          /\ recent' = [recent EXCEPT ![r] = TRUE]
    /\ UNCHANGED <<violationVars, sweeper, reconVars>>

(* The row was ACTIVE when it looked: only last_seen is written. *)
TrafficRefresh(w) ==
    /\ txn[w].row # NoId
    /\ txn[w].status \notin Suspect
    /\ EndTxn(w)
    /\ recent' = [recent EXCEPT ![txn[w].row] = TRUE]
    /\ UNCHANGED <<path, status, violationVars, sweeper, reconVars>>

(* Mutant: the violations are resolved without the endpoint_id condition. *)
TrafficReviveAll(w) ==
    /\ txn[w].row # NoId
    /\ txn[w].status \in Suspect
    /\ EndTxn(w)
    /\ recent' = [recent EXCEPT ![txn[w].row] = TRUE]
    /\ status' = [status EXCEPT ![txn[w].row] = "ACTIVE"]
    /\ zombie' = [zombie EXCEPT ![txn[w].row] = 0]
    /\ shadow' = [r \in IdsOrNull |-> 0]
    /\ UNCHANGED <<path, sweeper, reconVars>>

(* It was SHADOW or ZOMBIE: ACTIVE again, the row's violations resolved. *)
TrafficRevive(w) ==
    /\ txn[w].row # NoId
    /\ txn[w].status \in Suspect
    /\ EndTxn(w)
    /\ recent' = [recent EXCEPT ![txn[w].row] = TRUE]
    /\ status' = [status EXCEPT ![txn[w].row] = "ACTIVE"]
    /\ zombie' = [zombie EXCEPT ![txn[w].row] = 0]
    /\ shadow' = [shadow EXCEPT ![txn[w].row] = 0]
    /\ UNCHANGED <<path, sweeper, reconVars>>

(* The batch fails after this event's read: nothing is committed. *)
TrafficFails(w) ==
    /\ EndTxn(w)
    /\ UNCHANGED <<rowVars, violationVars, sweeper, reconVars>>

TrafficCommit(w) == TrafficCreate(w) \/ TrafficRefresh(w) \/ TrafficRevive(w)

-----------------------------------------------------------------------------
(* The sweeper. *)

Due == {r \in Rows : ~recent[r] /\ status[r] # "ZOMBIE"}
Back == {r \in Rows : recent[r] /\ status[r] = "ZOMBIE"}
Candidates == {r \in Rows : ~recent[r]}

(* `.limit(200)` with no order: any candidates, as many as there are or as  *)
(* the limit allows.                                                        *)
Limited(S) ==
    /\ Cardinality(S) <= CandidateLimit
    /\ S # Candidates => Cardinality(S) = CandidateLimit

(* The statuses one sweep commits: silent rows are ZOMBIE, rows heard again *)
(* are ACTIVE, in this order and by the last_seen the updates themselves    *)
(* read.                                                                    *)
Swept == [r \in Ids |-> IF r \in Due THEN "ZOMBIE"
                        ELSE IF r \in Back THEN "ACTIVE" ELSE status[r]]

(* Mutant: shadow candidates are never marked. *)
SweepSkipsShadow ==
    /\ sweeper = "idle"
    /\ (Due \cup Back) \ {r \in Ids : status[r] = "SHADOW"} # {}
    /\ status' = [r \in Ids |-> IF status[r] = "SHADOW" THEN "SHADOW" ELSE Swept[r]]
    /\ zombie' = [r \in Ids |->
          IF status'[r] = "ZOMBIE" /\ zombie[r] = 0 THEN 1 ELSE zombie[r]]
    /\ sweeper' = IF Back = {} THEN "notify" ELSE "revive"
    /\ UNCHANGED <<path, recent, shadow, txn, reconVars>>

(* Mutant: the sweep marks zombies and never revives one. *)
SweepNeverRevives ==
    /\ sweeper = "idle"
    /\ Due # {}
    /\ status' = [r \in Ids |-> IF r \in Due THEN "ZOMBIE" ELSE status[r]]
    /\ zombie' = [r \in Ids |->
          IF status'[r] = "ZOMBIE" /\ zombie[r] = 0 THEN 1 ELSE zombie[r]]
    /\ sweeper' = "notify"
    /\ UNCHANGED <<path, recent, shadow, txn, reconVars>>

(* _sweep up to its commit.  When it marks a row it adds a violation to the *)
(* candidates that have none open, old zombies among them.                  *)
SweepCommit ==
    /\ sweeper = "idle"
    /\ Due \cup Back # {}
    /\ status' = Swept
    /\ \E S \in SUBSET Candidates :
          /\ Limited(S)
          /\ zombie' = [r \in Ids |->
                IF Due # {} /\ r \in S /\ zombie[r] = 0 THEN 1 ELSE zombie[r]]
    /\ sweeper' = IF Back = {} THEN "notify" ELSE "revive"
    /\ UNCHANGED <<path, recent, shadow, txn, reconVars>>

(* Mutant: somebody adds the missing commit. *)
SweepNotifyCommits ==
    /\ sweeper \in {"notify", "revive"}
    /\ zombie' = IF sweeper = "revive" THEN [r \in Ids |-> 0] ELSE zombie
    /\ sweeper' = "idle"
    /\ UNCHANGED <<rowVars, shadow, txn, reconVars>>

(* The alerts, the action logs and, after a revival, the resolution of all  *)
(* open ZOMBIE_ENDPOINT violations of the account are added to the session  *)
(* after its commit, and no commit follows: the session closes, they are    *)
(* rolled back.                                                             *)
SweepNotify ==
    /\ sweeper \in {"notify", "revive"}
    /\ sweeper' = "idle"
    /\ UNCHANGED <<rowVars, violationVars, txn, reconVars>>

(* A sweep raises: logger.error(..., error=) raises in the handler, and the *)
(* task ends.                                                               *)
SweepRaises ==
    /\ sweeper # "dead"
    /\ sweeper' = "dead"
    /\ UNCHANGED <<rowVars, violationVars, txn, reconVars>>

-----------------------------------------------------------------------------
(* Recon: items are looked up one by one, and one commit ends the run. *)

InBatch == {p \in Paths : batch[p] # NotInBatch}
NewInBatch == {p \in Paths : batch[p] = NoId}

ReconRead(p) ==
    /\ recon = "running"
    /\ p \notin InBatch
    /\ \/ RowsOf(p) = {} /\ batch' = [batch EXCEPT ![p] = NoId]
       \/ \E r \in RowsOf(p) : batch' = [batch EXCEPT ![p] = r]
    /\ UNCHANGED <<rowVars, violationVars, txn, sweeper, recon, found>>

(* A row for every item that had none.  The violation is built before the   *)
(* row is flushed, so its endpoint_id is NULL, and so is the endpoint_id of *)
(* the open violation it looks for.  The first source of a run adds one per *)
(* item; its flush lets the next sources of the run find one open.          *)
ReconCommit ==
    /\ recon = "running"
    /\ InBatch # {}
    /\ \E id \in Injection(NewInBatch, Unused) :
          /\ path' = [r \in Ids |-> IF r \in Range(id)
                                    THEN CHOOSE p \in NewInBatch : id[p] = r
                                    ELSE path[r]]
          /\ status' = [r \in Ids |-> IF r \in Range(id) THEN "SHADOW" ELSE status[r]]
          /\ recent' = [r \in Ids |-> r \in Range(id) \/ recent[r]]
    /\ \E n \in 0..Cardinality(NewInBatch) :
          /\ NewInBatch # {} => n > 0
          /\ shadow' = [r \in IdsOrNull |->
                IF r = NoId /\ shadow[NoId] = 0 THEN n
                ELSE IF r # NoId /\ r \in Range(batch) THEN 0 ELSE shadow[r]]
    /\ found' = found \cup InBatch
    /\ batch' = [p \in Paths |-> NotInBatch]
    /\ UNCHANGED <<zombie, txn, sweeper, recon>>

(* Two items of a run with one normalised path and no finding yet: the      *)
(* unique constraint fails the run, and logging the error ends the task.    *)
ReconRepeats(p) ==
    /\ recon = "running"
    /\ p \in InBatch
    /\ p \notin found
    /\ recon' = "dead"
    /\ batch' = [q \in Paths |-> NotInBatch]
    /\ UNCHANGED <<rowVars, violationVars, txn, sweeper, found>>

-----------------------------------------------------------------------------
(* ZOMBIE_ENDPOINT_DAYS without a request.  A sweep fixes its threshold     *)
(* when it begins and no transaction is open for days.                      *)
FallSilent(r) ==
    /\ r \in Rows
    /\ recent[r]
    /\ recent' = [recent EXCEPT ![r] = FALSE]
    /\ UNCHANGED <<path, status, violationVars, txn, sweeper, reconVars>>

(* The process dies or is stopped, and a new one starts its tasks: what was  *)
(* read and not committed is gone, the rows stay.                           *)
Restart ==
    /\ txn' = [w \in Writers |-> NoTxn]
    /\ sweeper' = "idle"
    /\ recon' = "running"
    /\ batch' = [p \in Paths |-> NotInBatch]
    /\ UNCHANGED <<rowVars, violationVars, found>>

Next ==
    \/ \E w \in Writers :
          TrafficCommit(w) \/ TrafficFails(w) \/ \E p \in Paths : TrafficRead(w, p)
    \/ SweepCommit \/ SweepNotify \/ SweepRaises
    \/ ReconCommit
    \/ \E p \in Paths : ReconRead(p) \/ ReconRepeats(p)
    \/ \E r \in Ids : FallSilent(r)
    \/ Restart

Spec == Init /\ [][Next]_vars

(* The loop comes back every interval as long as its task lives. *)
Fairness == WF_vars(SweepCommit) /\ WF_vars(SweepNotify)

FairSpec == Spec /\ Fairness

-----------------------------------------------------------------------------
(* Within the sweep's candidate limit, a row is ZOMBIE only with an open    *)
(* ZOMBIE_ENDPOINT violation to its name, and never has two, whatever       *)
(* stale status the workers hold while the sweep commits.                   *)
ZombiesAreTracked ==
    Cardinality(Ids) <= CandidateLimit =>
        \A r \in Ids :
            /\ zombie[r] <= 1
            /\ status[r] = "ZOMBIE" => zombie[r] = 1

(* While an endpoint is a shadow candidate, a SHADOW_ENDPOINT violation is  *)
(* open, though under no endpoint's id.                                     *)
ShadowIsReported ==
    (\E r \in Rows : status[r] = "SHADOW") => shadow[NoId] > 0

(* A path gets a second row when tasks look before any of them has created  *)
(* the first.  Its rows and the tasks that may still add one are never more *)
(* than the workers and the scheduler: each can be late once per path.      *)
Creators(p) == {w \in Writers : txn[w].path = p /\ txn[w].row = NoId}
MayHave(p) ==
    Cardinality(RowsOf(p)) + Cardinality(Creators(p)) + (IF batch[p] = NoId THEN 1 ELSE 0)

DuplicatesAreBounded == \A p \in Paths : MayHave(p) <= Cardinality(Writers) + 1

(* And once a path has a row, no task starts to be late.                    *)
NoNewDuplicates ==
    [][\A p \in Paths : RowsOf(p) # {} => MayHave(p)' <= MayHave(p)]_vars

(* What the workers, the sweeper and recon do to a row between them: it     *)
(* keeps its path; it becomes ZOMBIE only while silent and stops being one  *)
(* only when heard; it is a shadow candidate only from its creation; and    *)
(* its zombie violation closes only with the row ACTIVE and heard.          *)
ChangesHaveACause ==
    [][\A r \in Ids :
          /\ path[r] # NoPath => path'[r] = path[r]
          /\ status[r] # "ZOMBIE" /\ status'[r] = "ZOMBIE" => r \in Rows /\ ~recent[r]
          /\ status[r] = "ZOMBIE" /\ status'[r] # "ZOMBIE" => recent'[r]
          /\ status[r] # "SHADOW" /\ status'[r] = "SHADOW" => r \notin Rows
          /\ zombie[r] > 0 /\ zombie'[r] = 0 => status'[r] = "ACTIVE" /\ recent'[r]]_vars

(* A row nobody asks for is ZOMBIE in the end, while the sweeper lives.     *)
SilentBecomesZombie ==
    \A r \in Ids :
        (r \in Rows /\ ~recent[r]) ~>
            (status[r] = "ZOMBIE" \/ recent[r] \/ sweeper = "dead")

(* A ZOMBIE row that a worker refreshed on a stale ACTIVE is revived by a   *)
(* later sweep.                                                             *)
ZombieIsRevived ==
    \A r \in Ids :
        (status[r] = "ZOMBIE" /\ recent[r]) ~>
            (status[r] # "ZOMBIE" \/ ~recent[r] \/ sweeper = "dead")

(* "Resolves zombie violations on revive" (IMPLEMENTATION_LOG.md): an       *)
(* ACTIVE row's zombie violation is resolved in the end.                    *)
ViolationResolves ==
    \A r \in Ids :
        (status[r] = "ACTIVE" /\ zombie[r] > 0) ~>
            (status[r] # "ACTIVE" \/ zombie[r] = 0 \/ sweeper = "dead")
=============================================================================
