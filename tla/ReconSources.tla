---------------------------- MODULE ReconSources ----------------------------
(***************************************************************************)
(* External recon of one tenant: ReconScheduler runs the due sources       *)
(* (modules/recon/scheduler.py), POST /sources/{id}/run runs one and POST  *)
(* /findings takes items directly (api/routers/recon_sources.py,           *)
(* recon.py); all of them go through ReconProcessor.ingest                 *)
(* (modules/recon/processor.py).  Users review the findings.               *)
(*                                                                         *)
(* A run looks every item up and commits once at its end; the scheduler    *)
(* once for all the sources.  Findings have a unique key, sessions do not  *)
(* flush by themselves, and an object writes only the columns that were    *)
(* changed.  All sources here are of one provider, so they share findings; *)
(* their last_run_at, last_status and last_error are for display and left  *)
(* out.                                                                    *)
(***************************************************************************)
EXTENDS Naturals, FiniteSets

CONSTANTS
    Sources,
    Edited,     \* bound: the sources that users create, switch, run and delete
    ReconTask,  \* the scheduler's session
    ReconCalls, \* bound: API requests under way
    ReconKeys   \* bound: the (method, host, path pattern) that are reported

ASSUME ReconAssumption ==
    /\ ReconTask \notin ReconCalls
    /\ Edited \subseteq Sources

VARIABLES
    source,    \* recon_sources rows
    finding,   \* status of the external_recon_findings rows
    inventory, \* the keys that have a row in api_endpoints
    session    \* the runs

reconVars == <<source, finding, inventory, session>>

Sessions == {ReconTask} \cup ReconCalls

NoSource == [row |-> "none", due |-> TRUE]

(* todo: sources still to run; ran: those that were; items of the answer in *)
(* hand that are left; fresh: new findings of the source in hand, flushed:  *)
(* of the ones before; clash: one was added twice; confirms: findings set   *)
(* to CONFIRMED; shadows: endpoints added; listed: those already flushed.   *)
Closed == [pc |-> "idle", todo |-> {}, ran |-> {}, items |-> {}, fresh |-> {},
           flushed |-> {}, clash |-> FALSE, confirms |-> {}, shadows |-> {},
           listed |-> {}]

ReconTypeOK ==
    /\ source \in [Sources -> [row : {"none", "enabled", "disabled"}, due : BOOLEAN]]
    /\ finding \in [ReconKeys -> {"none", "NEW", "CONFIRMED", "IGNORED"}]
    /\ inventory \subseteq ReconKeys
    /\ session \in [Sessions ->
          [pc : {"idle", "next", "ingest", "commit", "dead"}, todo : SUBSET Sources,
           ran : SUBSET Sources, items : SUBSET ReconKeys, fresh : SUBSET ReconKeys,
           flushed : SUBSET ReconKeys, clash : BOOLEAN,
           confirms : SUBSET ReconKeys, shadows : SUBSET ReconKeys,
           listed : SUBSET ReconKeys]]

ReconInit ==
    /\ source = [s \in Sources |-> IF s \in Edited THEN NoSource
                                   ELSE [row |-> "enabled", due |-> FALSE]]
    /\ finding = [k \in ReconKeys |-> "none"]
    /\ inventory = {}
    /\ session = [r \in Sessions |-> Closed]

-----------------------------------------------------------------------------
(* The routes of the sources, the review, the inventory and the clock. *)

Exists(s) == source[s].row # "none"
Enabled(s) == source[s].row = "enabled"

SetSource(s, row, due) ==
    /\ source' = [source EXCEPT ![s] = [row |-> row, due |-> due]]
    /\ UNCHANGED <<finding, inventory, session>>

(* next_run_at is NULL: due at once.  The id is new: no run knows it. *)
CreateSource(s) ==
    /\ ~Exists(s)
    /\ \A r \in Sessions : s \notin session[r].todo \cup session[r].ran
    /\ \E row \in {"enabled", "disabled"} : SetSource(s, row, TRUE)

UpdateSource(s) ==
    /\ Exists(s)
    /\ SetSource(s, IF Enabled(s) THEN "disabled" ELSE "enabled", source[s].due)

DeleteSource(s) ==
    /\ Exists(s)
    /\ SetSource(s, "none", TRUE)

IntervalPasses(s) ==
    /\ Exists(s)
    /\ ~source[s].due
    /\ SetSource(s, source[s].row, TRUE)

Review(k, decision) ==
    /\ finding[k] \notin {"none", decision}
    /\ finding' = [finding EXCEPT ![k] = decision]
    /\ UNCHANGED <<source, inventory, session>>

(* Traffic, or DELETE of endpoints. *)
InventoryChanges(k) ==
    /\ inventory' = IF k \in inventory THEN inventory \ {k} ELSE inventory \cup {k}
    /\ UNCHANGED <<source, finding, session>>

-----------------------------------------------------------------------------
(* The runs. *)

SetSession(r, s) ==
    /\ session' = [session EXCEPT ![r] = s]
    /\ UNCHANGED <<source, finding, inventory>>

DueSources == {s \in Sources : Enabled(s) /\ source[s].due}

(* _run_due_sources; without any due source it does nothing. *)
SelectDue ==
    /\ session[ReconTask].pc = "idle"
    /\ DueSources # {}
    /\ SetSession(ReconTask, [Closed EXCEPT !.pc = "next", !.todo = DueSources])

RunByHand(r, s) ==
    /\ session[r].pc = "idle"
    /\ Exists(s)
    /\ SetSession(r, [Closed EXCEPT !.pc = "next", !.todo = {s}])

PostFindings(r, items) ==
    /\ session[r].pc = "idle"
    /\ items # {}
    /\ SetSession(r, [Closed EXCEPT !.pc = "ingest", !.items = items])

NextOrCommit(todo) == IF todo = {} THEN "commit" ELSE "next"

(* Mutant: an adapter's error ends the whole pass. *)
FetchFailsAndStops(r, s) ==
    /\ session[r].pc = "next"
    /\ s \in session[r].todo
    /\ SetSession(r, [session[r] EXCEPT !.todo = {}, !.pc = "commit",
                                        !.ran = @ \cup {s}])

(* run_source, the adapter answers an error: the source is run all the same. *)
FetchFails(r, s) ==
    /\ session[r].pc = "next"
    /\ s \in session[r].todo
    /\ SetSession(r, [session[r] EXCEPT !.todo = @ \ {s},
                                        !.pc = NextOrCommit(session[r].todo \ {s}),
                                        !.ran = @ \cup {s}])

FetchItems(r, s, items) ==
    /\ session[r].pc = "next"
    /\ s \in session[r].todo
    /\ SetSession(r, [session[r] EXCEPT !.todo = @ \ {s}, !.pc = "ingest",
                                        !.items = items, !.ran = @ \cup {s}])

(* One item of ingest.  What this session has added is found only once it   *)
(* is flushed, so a new key that comes again in the answer is added twice,  *)
(* and an endpoint that an earlier source added may confirm the finding.    *)
IngestItem(r, k, again) ==
    /\ session[r].pc = "ingest"
    /\ k \in session[r].items
    /\ LET run == session[r]
           new == finding[k] = "none" /\ k \notin run.flushed
           matched == k \in inventory \cup run.listed
       IN  SetSession(r, [run EXCEPT
               !.items = @ \ {k},
               !.fresh = IF new THEN @ \cup {k} ELSE @,
               !.clash = @ \/ (new /\ again),
               !.confirms = IF matched /\ finding[k] # "CONFIRMED" THEN @ \cup {k} ELSE @,
               !.shadows = IF matched THEN @ ELSE @ \cup {k}])

(* A source that created findings has an alert, whose flush writes what is  *)
(* pending; a duplicate key raises there or at the commit.                  *)
SourceDone(r) ==
    /\ session[r].pc = "ingest"
    /\ session[r].items = {}
    /\ SetSession(r, [session[r] EXCEPT
            !.pc = NextOrCommit(session[r].todo),
            !.flushed = @ \cup session[r].fresh, !.fresh = {},
            !.listed = IF session[r].fresh = {} THEN @ ELSE session[r].shadows])

(* The row of a source that was run is gone, a key was added twice, or      *)
(* somebody else has stored it.                                             *)
CommitClashes(run) ==
    \/ run.clash
    \/ \E s \in run.ran : ~Exists(s)
    \/ \E k \in run.flushed : finding[k] # "none"

WriteSources(run) ==
    source' = [s \in Sources |-> IF s \in run.ran THEN [source[s] EXCEPT !.due = FALSE]
                                 ELSE source[s]]

WriteFindings(run) ==
    finding' = [k \in ReconKeys |->
                   IF k \in run.confirms THEN "CONFIRMED"
                   ELSE IF k \in run.flushed THEN "NEW" ELSE finding[k]]

(* Mutant: an upsert instead of the unique key. *)
CommitUpserts(r) ==
    /\ session[r].pc = "commit"
    /\ \A s \in session[r].ran : Exists(s)
    /\ WriteSources(session[r])
    /\ WriteFindings(session[r])
    /\ inventory' = inventory \cup session[r].shadows
    /\ session' = [session EXCEPT ![r] = Closed]

CommitSession(r) ==
    /\ session[r].pc = "commit"
    /\ ~CommitClashes(session[r])
    /\ WriteSources(session[r])
    /\ WriteFindings(session[r])
    /\ inventory' = inventory \cup session[r].shadows
    /\ session' = [session EXCEPT ![r] = Closed]

(* Whatever raises rolls everything back: a request ends in a 500, and the  *)
(* scheduler's error handler raises TypeError, which ends the task.         *)
SessionRaises(r) ==
    /\ session[r].pc \notin {"idle", "dead"}
    /\ SetSession(r, [Closed EXCEPT !.pc = IF r = ReconTask THEN "dead" ELSE "idle"])

SessionStep(r) ==
    \/ \E s \in Sources : FetchFails(r, s)
    \/ \E s \in Sources, items \in SUBSET ReconKeys : FetchItems(r, s, items)
    \/ \E k \in ReconKeys, again \in BOOLEAN : IngestItem(r, k, again)
    \/ SourceDone(r) \/ CommitSession(r) \/ SessionRaises(r)

SchedulerStep == SelectDue \/ SessionStep(ReconTask)

ReconNext ==
    \/ \E s \in Edited : CreateSource(s) \/ UpdateSource(s) \/ DeleteSource(s)
    \/ \E r \in ReconCalls, s \in Edited : RunByHand(r, s)
    \/ \E s \in Sources : IntervalPasses(s)
    \/ \E k \in ReconKeys :
          Review(k, "IGNORED") \/ Review(k, "CONFIRMED") \/ InventoryChanges(k)
    \/ \E r \in ReconCalls, items \in SUBSET ReconKeys : PostFindings(r, items)
    \/ \E r \in ReconCalls : SessionStep(r)
    \/ SchedulerStep

ReconSpec == ReconInit /\ [][ReconNext]_reconVars

(* The event loop keeps running the scheduler's task. *)
ReconFairSpec == ReconSpec /\ WF_reconVars(SchedulerStep)

-----------------------------------------------------------------------------
(* A finding that was confirmed or ignored never becomes NEW again and is   *)
(* never dropped: runs that looked it up before the review, the unique key  *)
(* and the changed-columns update leave the decision alone, except that a   *)
(* match in the inventory confirms it.                                      *)
ReviewSurvivesRuns ==
    [][\A k \in ReconKeys :
          finding[k] \in {"CONFIRMED", "IGNORED"} =>
              finding'[k] \in {"CONFIRMED", "IGNORED"}]_reconVars

(* A pass of the scheduler forgets none of the sources it selected, nor one *)
(* it has run: each stays in the pass until a commit stores that it was run *)
(* or the task dies, whatever answers, reviews and deletions come between.  *)
SelectedSourcesAreRun ==
    [][\A s \in session[ReconTask].todo \cup session[ReconTask].ran :
          \/ s \in session'[ReconTask].todo \cup session'[ReconTask].ran
          \/ ~source'[s].due
          \/ session'[ReconTask].pc = "dead"]_reconVars

(* An enabled, due source is run, unless the scheduler's task has died:     *)
(* sources that keep failing to answer do not hold up the others.           *)
DueSourcesRun ==
    \A s \in Sources :
        s \in DueSources ~> (s \notin DueSources \/ session[ReconTask].pc = "dead")
=============================================================================
