---------------------------- MODULE ThreatActors ----------------------------
(***************************************************************************)
(* Threat actors, one row for each source IP, and the routes that count    *)
(* attacks on them and decide about them (api/routers/threat_actors.py,    *)
(* threat_detection.py, traffic.py).                                       *)
(*                                                                         *)
(* A route reads the row, awaits, and writes at its commit the columns     *)
(* whose value differs from the one it read: counts are read, incremented  *)
(* and written back, and a decision that equals the status it read writes  *)
(* nothing.  source_ip is unique over all tenants, yet some routes look    *)
(* only at their own tenant's rows, so they add one that is there already. *)
(* SQLite lets one transaction write at a time: a route that has flushed   *)
(* holds the lock until its commit.  risk_score and the event rows are     *)
(* data; the rows are never deleted.                                       *)
(***************************************************************************)
EXTENDS Naturals

CONSTANTS
    ActorIps,
    ActorTenants,  \* positive account ids
    DefaultOwner,  \* the default of ThreatActor.account_id
    ActorCalls,    \* bound: requests under way
    Verdicts,      \* bound: the statuses that analysts set
    MaxAttacks     \* bound: attacks by one IP when a request looks it up

NoCaller == "none"
AllTenants == 0

ASSUME ActorAssumption ==
    /\ ActorTenants \subseteq Nat \ {0}
    /\ DefaultOwner \in Nat \ {0}
    /\ NoCaller \notin ActorCalls
    /\ Verdicts \subseteq STRING \ {"absent"}
    /\ MaxAttacks \in Nat

VARIABLES
    actor,     \* threat_actors rows; owner 0: no row
    actorCall, \* the requests
    dbLock,    \* the request whose open transaction has written
    attacks,   \* history: attacks of each IP in committed requests
    overlaps,  \* history: attacks committed while another request held the count it had read
    decisions  \* history: the statuses that no later request has replaced; see Decide

actorVars == <<actor, actorCall, dbLock, attacks, overlaps, decisions>>

Statuses == Verdicts \cup {"MONITORING"}
NoActor == [owner |-> 0, status |-> "MONITORING", count |-> 0]
NoActorCall == [kind |-> "none"]

(* found: rows read; lacking: looked for and not found; fresh: added;       *)
(* base: the count read; adds: attacks seen; missed (history): attacks that *)
(* others committed since.                                                  *)
Reports == [kind : {"report"}, tenant : ActorTenants \cup {AllTenants},
            found : SUBSET ActorIps, lacking : SUBSET ActorIps, fresh : SUBSET ActorIps,
            base : [ActorIps -> Nat], adds : [ActorIps -> Nat], missed : [ActorIps -> Nat]]

(* read: the status it found, or "absent"; since (history): the decisions   *)
(* that were made since.                                                    *)
Decisions == [kind : {"decision"}, tenant : ActorTenants \cup {AllTenants}, ip : ActorIps,
              wanted : Verdicts, read : Statuses \cup {"absent"}, since : SUBSET Statuses]

ActorTypeOK ==
    /\ actor \in [ActorIps -> [owner : ActorTenants \cup {0, DefaultOwner},
                               status : Statuses, count : Nat]]
    /\ actorCall \in [ActorCalls -> {NoActorCall} \cup Reports \cup Decisions]
    /\ dbLock \in ActorCalls \cup {NoCaller}
    /\ attacks \in [ActorIps -> Nat]
    /\ overlaps \in [ActorIps -> Nat]
    /\ decisions \in [ActorIps -> SUBSET Statuses]

ActorInit ==
    /\ actor = [ip \in ActorIps |-> NoActor]
    /\ actorCall = [q \in ActorCalls |-> NoActorCall]
    /\ dbLock = NoCaller
    /\ attacks = [ip \in ActorIps |-> 0]
    /\ overlaps = [ip \in ActorIps |-> 0]
    /\ decisions = [ip \in ActorIps |-> {}]

Known(ip) == actor[ip].owner # 0
Sees(tenant, ip) == Known(ip) /\ tenant \in {AllTenants, actor[ip].owner}
MayWrite(q) == dbLock \in {NoCaller, q}
Zero == [ip \in ActorIps |-> 0]

SetCall(q, c) == actorCall' = [actorCall EXCEPT ![q] = c]

-----------------------------------------------------------------------------
(* Counting: log_malicious_event for one tenant and one IP,                 *)
(* record_malicious_event for one IP, import_nginx_log for those of a file. *)

BeginReport(q, tenant) ==
    /\ actorCall[q] = NoActorCall
    /\ SetCall(q, [kind |-> "report", tenant |-> tenant, found |-> {}, lacking |-> {},
                   fresh |-> {}, base |-> Zero, adds |-> Zero, missed |-> Zero])
    /\ UNCHANGED <<actor, dbLock, attacks, overlaps, decisions>>

Reporting(q) == actorCall[q].kind = "report"
Looked(c) == c.found \cup c.lacking \cup c.fresh

(* The select.  The attacks of later lines by the same IP add to the object *)
(* that is in the session already.                                          *)
LookUp(q, ip, n) ==
    /\ Reporting(q)
    /\ LET c == actorCall[q]
       IN  /\ ip \notin Looked(c)
           /\ c.lacking = {}
           /\ c.tenant # AllTenants => Looked(c) = {} /\ n = 1
           /\ attacks[ip] + n <= MaxAttacks
           /\ SetCall(q, [c EXCEPT
                  !.found = IF Sees(c.tenant, ip) THEN @ \cup {ip} ELSE @,
                  !.lacking = IF Sees(c.tenant, ip) THEN @ ELSE {ip},
                  !.base = [@ EXCEPT ![ip] = IF Sees(c.tenant, ip) THEN actor[ip].count ELSE 0],
                  !.adds = [@ EXCEPT ![ip] = n]])
    /\ UNCHANGED <<actor, dbLock, attacks, overlaps, decisions>>

(* Mutant: a row that is there already is taken for the new one. *)
AddActorAnyway(q) ==
    /\ Reporting(q)
    /\ actorCall[q].lacking # {}
    /\ MayWrite(q)
    /\ dbLock' = q
    /\ SetCall(q, [actorCall[q] EXCEPT !.lacking = {}, !.fresh = @ \cup actorCall[q].lacking])
    /\ UNCHANGED <<actor, attacks, overlaps, decisions>>

(* The flush of a new row; another row of this IP makes it raise. *)
AddActor(q) ==
    /\ Reporting(q)
    /\ actorCall[q].lacking # {}
    /\ \A ip \in actorCall[q].lacking : ~Known(ip)
    /\ MayWrite(q)
    /\ dbLock' = q
    /\ SetCall(q, [actorCall[q] EXCEPT !.lacking = {}, !.fresh = @ \cup actorCall[q].lacking])
    /\ UNCHANGED <<actor, attacks, overlaps, decisions>>

(* import_nginx_log flushes each endpoint it discovers. *)
FlushEndpoint(q) ==
    /\ Reporting(q)
    /\ actorCall[q].tenant = AllTenants
    /\ dbLock = NoCaller
    /\ dbLock' = q
    /\ UNCHANGED <<actor, actorCall, attacks, overlaps, decisions>>

OwnerOf(c) == IF c.tenant = AllTenants THEN DefaultOwner ELSE c.tenant
Counted(c, ip) ==
    IF ip \in c.fresh
    THEN [owner |-> OwnerOf(c), status |-> "MONITORING", count |-> c.adds[ip]]
    ELSE [actor[ip] EXCEPT !.count = c.base[ip] + c.adds[ip]]

(* What the other requests have missed of what c commits. *)
AfterReport(q, c) ==
    [p \in ActorCalls |->
        IF p = q THEN NoActorCall
        ELSE IF actorCall[p].kind = "report"
        THEN [actorCall[p] EXCEPT !.missed =
                 [ip \in ActorIps |->
                     @[ip] + (IF ip \in Looked(actorCall[p]) THEN c.adds[ip] ELSE 0)]]
        ELSE actorCall[p]]

RecordReport(q, c) ==
    /\ actorCall' = AfterReport(q, c)
    /\ attacks' = [ip \in ActorIps |-> attacks[ip] + c.adds[ip]]
    /\ overlaps' = [ip \in ActorIps |->
                       overlaps[ip] + (IF ip \in Looked(c) THEN c.missed[ip] ELSE 0)]
    /\ decisions' = [ip \in ActorIps |-> IF ip \in c.fresh THEN {"MONITORING"}
                                         ELSE decisions[ip]]

ReadyToCommit(q) ==
    /\ Reporting(q)
    /\ actorCall[q].tenant # AllTenants => Looked(actorCall[q]) # {}
    /\ actorCall[q].lacking = {}
    /\ MayWrite(q)

(* Mutant: the whole row is written, with the status of a new one. *)
CommitWholeRow(q) ==
    /\ ReadyToCommit(q)
    /\ LET c == actorCall[q]
       IN  /\ actor' = [ip \in ActorIps |->
                 IF ip \in Looked(c) THEN [Counted(c, ip) EXCEPT !.status = "MONITORING"]
                 ELSE actor[ip]]
           /\ RecordReport(q, c)
    /\ dbLock' = NoCaller

CommitReport(q) ==
    /\ ReadyToCommit(q)
    /\ LET c == actorCall[q]
       IN  /\ actor' = [ip \in ActorIps |-> IF ip \in Looked(c) THEN Counted(c, ip)
                                            ELSE actor[ip]]
           /\ RecordReport(q, c)
    /\ dbLock' = NoCaller

-----------------------------------------------------------------------------
(* Deciding: block_actor, whitelist_actor and add_threat_actor for one      *)
(* tenant, modify_actor_status for all.                                     *)

BeginDecision(q, tenant, ip, wanted) ==
    /\ actorCall[q] = NoActorCall
    /\ \/ Sees(tenant, ip)
       \/ tenant # AllTenants  \* add_threat_actor, whitelist_actor
    /\ SetCall(q, [kind |-> "decision", tenant |-> tenant, ip |-> ip, wanted |-> wanted,
                   read |-> IF Sees(tenant, ip) THEN actor[ip].status ELSE "absent",
                   since |-> {}])
    /\ UNCHANGED <<actor, dbLock, attacks, overlaps, decisions>>

Deciding(q, ip) == actorCall[q].kind = "decision" /\ actorCall[q].ip = ip

(* History: a decision about each of ips is answered that was begun when    *)
(* those in `since` had not been made.                                      *)
Decide(done, ips, wanted, since) ==
    /\ decisions' = [ip \in ActorIps |-> IF ip \in ips THEN {wanted} \cup since
                                         ELSE decisions[ip]]
    /\ actorCall' = [q \in ActorCalls |->
           IF q \in done THEN NoActorCall
           ELSE IF \E ip \in ips : Deciding(q, ip)
           THEN [actorCall[q] EXCEPT !.since = @ \cup {wanted}]
           ELSE actorCall[q]]

DecideNow(q, c) == Decide({q}, {c.ip}, c.wanted, c.since)

DecideUnchanged(q) ==
    /\ actorCall[q].kind = "decision"
    /\ actorCall[q].read = actorCall[q].wanted
    /\ DecideNow(q, actorCall[q])
    /\ UNCHANGED <<actor, dbLock, attacks, overlaps>>

DecideChanged(q) ==
    /\ actorCall[q].kind = "decision"
    /\ actorCall[q].read \notin {actorCall[q].wanted, "absent"}
    /\ dbLock = NoCaller
    /\ actor' = [actor EXCEPT ![actorCall[q].ip].status = actorCall[q].wanted]
    /\ DecideNow(q, actorCall[q])
    /\ UNCHANGED <<dbLock, attacks, overlaps>>

(* The insert of a new row; another row of this IP makes it raise. *)
DecideNew(q) ==
    /\ actorCall[q].kind = "decision"
    /\ actorCall[q].read = "absent"
    /\ ~Known(actorCall[q].ip)
    /\ dbLock = NoCaller
    /\ actor' = [actor EXCEPT ![actorCall[q].ip] =
                    [owner |-> actorCall[q].tenant, status |-> actorCall[q].wanted, count |-> 0]]
    /\ DecideNow(q, actorCall[q])
    /\ UNCHANGED <<dbLock, attacks, overlaps>>

(* bulk_modify_actor_status: one UPDATE. *)
DecideInBulk(ips, wanted) ==
    /\ dbLock = NoCaller
    /\ ips # {}
    /\ \A ip \in ips : Known(ip)
    /\ actor' = [ip \in ActorIps |-> IF ip \in ips THEN [actor[ip] EXCEPT !.status = wanted]
                                     ELSE actor[ip]]
    /\ Decide({}, ips, wanted, {})
    /\ UNCHANGED <<dbLock, attacks, overlaps>>

(* Any call to the database raises, or waits too long for the lock: the     *)
(* request ends in a 500 and everything it wrote is rolled back.            *)
ActorCallRaises(q) ==
    /\ actorCall[q] # NoActorCall
    /\ SetCall(q, NoActorCall)
    /\ dbLock' = IF dbLock = q THEN NoCaller ELSE dbLock
    /\ UNCHANGED <<actor, attacks, overlaps, decisions>>

ActorNext ==
    \/ \E q \in ActorCalls :
          \/ \E tenant \in ActorTenants \cup {AllTenants} :
                \/ BeginReport(q, tenant)
                \/ \E ip \in ActorIps, wanted \in Verdicts : BeginDecision(q, tenant, ip, wanted)
          \/ \E ip \in ActorIps, n \in 1..MaxAttacks : LookUp(q, ip, n)
          \/ AddActor(q) \/ FlushEndpoint(q) \/ CommitReport(q)
          \/ DecideUnchanged(q) \/ DecideChanged(q) \/ DecideNew(q)
          \/ ActorCallRaises(q)
    \/ \E ips \in SUBSET ActorIps, wanted \in Verdicts : DecideInBulk(ips, wanted)

ActorSpec == ActorInit /\ [][ActorNext]_actorVars

-----------------------------------------------------------------------------
(* An actor has the status of a decision that no other decision has come    *)
(* after: one that was answered before another was even begun never shows   *)
(* again, although requests write what they read long before, skip a write  *)
(* that looks needless, and imports of whole files write the same rows.     *)
DecisionIsRecent ==
    \A ip \in ActorIps : Known(ip) => actor[ip].status \in decisions[ip]

(* The count of an actor is never above the attacks that were committed,    *)
(* and what it lacks was committed by another request while the count was   *)
(* in some request's hands: attempts that fail, rows added twice and rows   *)
(* of other tenants cost nothing.                                           *)
CountHasACause ==
    \A ip \in ActorIps :
        /\ actor[ip].count <= attacks[ip]
        /\ attacks[ip] <= actor[ip].count + overlaps[ip]
=============================================================================
