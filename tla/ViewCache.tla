----------------------------- MODULE ViewCache -----------------------------
(***************************************************************************)
(* The dashboard and endpoint lists of one account kept in Redis           *)
(* (modules/cache/redis_cache.py, api/routers/dashboard.py, endpoints.py). *)
(* The key of a view holds the account's cache version; whoever writes     *)
(* rows commits them and then increments the version.                      *)
(*                                                                         *)
(* Any call of Redis may fail, or be skipped for 30 seconds after one did: *)
(* a read then answers nothing (version 0), an increment is lost.          *)
(* The version key expires 30 days after its first increment, a view after *)
(* its own time to live.  Rows are read from the primary, the default of   *)
(* get_read_db.                                                            *)
(***************************************************************************)
EXTENDS Naturals

CONSTANTS
    RowWriters,   \* writes: an ingestion job, an import, an edited endpoint
    ViewReaders,  \* requests for the view
    MaxExpiries   \* bound: how often the version key expires

ASSUME ViewAssumption == MaxExpiries \in Nat

VARIABLES
    writer,        \* where each writer is
    cacheVersion,  \* cache:version:<account>, 0 without the key
    expiries,      \* history: how often the key has expired
    view,          \* the cached views by version
    reader

viewVars == <<writer, cacheVersion, expiries, view, reader>>

Empty == [rows |-> {}, since |-> 0, there |-> FALSE]
Views == [rows : SUBSET RowWriters, since : 0..MaxExpiries, there : BOOLEAN]

(* pc; version; history: how often its key had expired by then; whether     *)
(* Redis gave no version; the rows read; history: owed, the writes that     *)
(* were announced before and have not been seen in an answer.  Of a served  *)
(* request only owed, blind and the expiries of its view are kept.          *)
ViewRequests == [pc : {"idle", "versioned", "queried", "served"}, version : Nat,
                 expiries : 0..MaxExpiries, blind : BOOLEAN,
                 rows : SUBSET RowWriters, owed : SUBSET RowWriters]
Idle == [pc |-> "idle", version |-> 0, expiries |-> 0, blind |-> FALSE,
         rows |-> {}, owed |-> {}]

ViewTypeOK ==
    /\ writer \in [RowWriters -> {"writing", "committed", "announced", "unannounced"}]
    /\ cacheVersion \in Nat
    /\ expiries \in 0..MaxExpiries
    /\ \A v \in DOMAIN view : v \in Nat /\ view[v] \in Views
    /\ reader \in [ViewReaders -> ViewRequests]

ViewInit ==
    /\ writer = [w \in RowWriters |-> "writing"]
    /\ cacheVersion = 0
    /\ expiries = 0
    /\ view = [v \in {0} |-> Empty]
    /\ reader = [q \in ViewReaders |-> Idle]

Committed == {w \in RowWriters : writer[w] # "writing"}
Announced == {w \in RowWriters : writer[w] = "announced"}
Lookup(v) == IF v \in DOMAIN view THEN view[v] ELSE Empty
Store(v, entry) == [u \in DOMAIN view \cup {v} |-> IF u = v THEN entry ELSE view[u]]

-----------------------------------------------------------------------------
CommitWrite(w) ==
    /\ writer[w] = "writing"
    /\ writer' = [writer EXCEPT ![w] = "committed"]
    /\ UNCHANGED <<cacheVersion, expiries, view, reader>>

(* bump_cache_version; without Redis, or if the process ends, the write is  *)
(* never announced.                                                         *)
BumpVersion(w) ==
    /\ writer[w] = "committed"
    /\ \/ /\ cacheVersion' = cacheVersion + 1
          /\ writer' = [writer EXCEPT ![w] = "announced"]
       \/ /\ writer' = [writer EXCEPT ![w] = "unannounced"]
          /\ UNCHANGED cacheVersion
    /\ UNCHANGED <<expiries, view, reader>>

-----------------------------------------------------------------------------
MoveReader(q, r) ==
    /\ reader' = [reader EXCEPT ![q] = r]
    /\ UNCHANGED <<writer, cacheVersion, expiries>>

Answer(r, rows, since) ==
    [r EXCEPT !.pc = "served", !.owed = @ \ rows, !.expiries = since,
              !.version = 0, !.rows = {}]

(* get_cache_version *)
FetchVersion(q) ==
    /\ reader[q].pc = "idle"
    /\ \E blind \in BOOLEAN :
          MoveReader(q, [Idle EXCEPT !.pc = "versioned",
                            !.version = IF blind THEN 0 ELSE cacheVersion,
                            !.blind = blind, !.expiries = expiries,
                            !.owed = Announced])
    /\ UNCHANGED view

(* get_json finds the view: it is the answer. *)
ServeCached(q) ==
    /\ reader[q].pc = "versioned"
    /\ Lookup(reader[q].version).there
    /\ LET e == Lookup(reader[q].version)
       IN  MoveReader(q, Answer(reader[q], e.rows, e.since))
    /\ UNCHANGED view

(* Nothing there, or Redis fails: the rows are counted. *)
QueryRows(q) ==
    /\ reader[q].pc = "versioned"
    /\ MoveReader(q, [reader[q] EXCEPT !.pc = "queried", !.rows = Committed,
                         !.owed = @ \ Committed, !.blind = FALSE])
    /\ UNCHANGED view

(* Mutant: the view is stored under the version of this moment. *)
StoreViewNow(q) ==
    /\ reader[q].pc = "queried"
    /\ view' = Store(cacheVersion,
                     [rows |-> reader[q].rows, since |-> reader[q].expiries,
                      there |-> TRUE])
    /\ MoveReader(q, Answer(reader[q], reader[q].rows, reader[q].expiries))

(* set_json under the version fetched at the beginning. *)
StoreView(q) ==
    /\ reader[q].pc = "queried"
    /\ \/ view' = Store(reader[q].version,
                        [rows |-> reader[q].rows, since |-> reader[q].expiries,
                         there |-> TRUE])
       \/ UNCHANGED view
    /\ MoveReader(q, Answer(reader[q], reader[q].rows, reader[q].expiries))

EndRequest(q) ==
    /\ reader[q].pc # "idle"
    /\ MoveReader(q, Idle)
    /\ UNCHANGED view

-----------------------------------------------------------------------------
ViewExpires(v) ==
    /\ view[v].there
    /\ view' = [view EXCEPT ![v] = Empty]
    /\ UNCHANGED <<writer, cacheVersion, expiries, reader>>

VersionExpires ==
    /\ cacheVersion > 0
    /\ expiries < MaxExpiries
    /\ expiries' = expiries + 1
    /\ cacheVersion' = 0
    /\ UNCHANGED <<writer, view, reader>>

ViewNext ==
    \/ \E w \in RowWriters : CommitWrite(w) \/ BumpVersion(w)
    \/ \E q \in ViewReaders :
          FetchVersion(q) \/ ServeCached(q) \/ QueryRows(q) \/ StoreView(q) \/ EndRequest(q)
    \/ \E v \in DOMAIN view : ViewExpires(v)
    \/ VersionExpires

ViewSpec == ViewInit /\ [][ViewNext]_viewVars

(* A request is answered with every write that was announced before it      *)
(* fetched the version, however slowly other requests fill the cache.  Two  *)
(* exceptions: the view was computed before the version key last expired    *)
(* and its number has come round again, or Redis gave this request no       *)
(* version (so 0) and yet found it a view a moment later.                   *)
AnnouncedWritesAreSeen ==
    \A q \in ViewReaders :
        reader[q].pc = "served" =>
            \/ reader[q].owed = {}
            \/ reader[q].expiries < expiries
            \/ reader[q].blind
=============================================================================
