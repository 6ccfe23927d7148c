----------------------------- MODULE WarmExport -----------------------------
(***************************************************************************)
(* WarmStoreExporter (modules/storage/warm_exporter.py): a task that       *)
(* copies the rows of the three metric tables to ClickHouse, in order of   *)
(* (created_at, id), and remembers how far it got.                         *)
(*                                                                         *)
(* The cursor is set in memory after each table and committed once, after  *)
(* the last one.  created_at is CURRENT_TIMESTAMP, a whole second, taken   *)
(* when the row is inserted; id is a random uuid, so rows of one second    *)
(* are ordered by chance.  The database is the default SQLite: one writer  *)
(* at a time, so rows become visible in the order of their stamps.         *)
(* A row is a pair of its table and its id.                                *)
(***************************************************************************)
EXTENDS Naturals, FiniteSets

CONSTANTS
    WarmTables,    \* the last of the tables, in export order: 1..WarmTables
    WarmRows,      \* bound: the rows that can ever be inserted
    WarmBatch,     \* WARM_EXPORT_BATCH_SIZE
    MaxSeconds,    \* bound: the last second
    MaxWarmStarts, \* bound: restarts of the process
    MaxRefusals    \* bound: inserts that ClickHouse does not acknowledge

ASSUME WarmAssumption ==
    /\ WarmTables \in Nat \ {0}
    /\ WarmRows \subseteq (1..WarmTables) \X (Nat \ {0})
    /\ IsFiniteSet(WarmRows)
    /\ WarmBatch \in Nat \ {0}
    /\ {MaxSeconds, MaxWarmStarts, MaxRefusals} \subseteq Nat

VARIABLES
    second,    \* the wall clock
    created,   \* created_at of each row, 0 while it does not exist
    staged,    \* rows inserted in the open write transaction
    copies,    \* how often ClickHouse holds each row
    mem,       \* WarmStoreExporter._cursor
    stored,    \* the warm_export_cursors rows
    exporter,  \* where the task is
    at,        \* the table in hand
    batch,     \* the rows selected from it
    refusals,
    warmStarts

rowsVars == <<second, created, staged>>
exporterVars == <<exporter, at, batch>>
faultVars == <<refusals, warmStarts>>
warmVars == <<rowsVars, copies, mem, stored, exporterVars, faultVars>>

TableIds == 1..WarmTables
NoCursor == <<0, 0>>
Cursors == Nat \X Nat

WarmTypeOK ==
    /\ second \in 1..(1 + MaxSeconds)
    /\ created \in [WarmRows -> Nat]
    /\ staged \subseteq WarmRows
    /\ copies \in [WarmRows -> Nat]
    /\ mem \in [TableIds -> Cursors]
    /\ stored \in [TableIds -> Cursors]
    /\ exporter \in {"starting", "sleeping", "select", "insert", "commit", "dead"}
    /\ at \in TableIds
    /\ batch \subseteq WarmRows
    /\ refusals \in 0..MaxRefusals
    /\ warmStarts \in 0..MaxWarmStarts

WarmInit ==
    /\ second = 1
    /\ created = [r \in WarmRows |-> 0]
    /\ staged = {}
    /\ copies = [r \in WarmRows |-> 0]
    /\ mem = [t \in TableIds |-> NoCursor]
    /\ stored = [t \in TableIds |-> NoCursor]
    /\ exporter = "starting"
    /\ at = 1
    /\ batch = {}
    /\ refusals = 0
    /\ warmStarts = 0

Visible == {r \in WarmRows : created[r] > 0 /\ r \notin staged}
Key(r) == <<created[r], r[2]>>

(* k is at or before c in the order of (created_at, id). *)
UpTo(k, c) == k[1] < c[1] \/ (k[1] = c[1] /\ k[2] <= c[2])

(* _load_cursor: the one in memory, or else the row. *)
Cursor(t) == IF mem[t] # NoCursor THEN mem[t] ELSE stored[t]

Waiting(t) == {r \in Visible : r[1] = t /\ ~UpTo(Key(r), Cursor(t))}
Passed(r) == r \in Visible /\ UpTo(Key(r), Cursor(r[1]))

-----------------------------------------------------------------------------
(* The clock, and the tasks that write metric rows. *)

NextSecond ==
    /\ second <= MaxSeconds
    /\ second' = second + 1
    /\ UNCHANGED <<created, staged, copies, mem, stored, exporterVars, faultVars>>

InsertRow(r) ==
    /\ created[r] = 0
    /\ created' = [created EXCEPT ![r] = second]
    /\ staged' = staged \cup {r}
    /\ UNCHANGED <<second, copies, mem, stored, exporterVars, faultVars>>

CommitRows ==
    /\ staged # {}
    /\ staged' = {}
    /\ UNCHANGED <<second, created, copies, mem, stored, exporterVars, faultVars>>

-----------------------------------------------------------------------------
(* _loop: ensure_tables, then _export_once, table by table. *)

EnsureTables ==
    /\ exporter = "starting"
    /\ exporter' = "sleeping"
    /\ UNCHANGED <<rowsVars, copies, mem, stored, at, batch, faultVars>>

BeginExport ==
    /\ exporter = "sleeping"
    /\ exporter' = "select"
    /\ at' = 1
    /\ UNCHANGED <<rowsVars, copies, mem, stored, batch, faultVars>>

(* Mutant: an empty table ends the export of the ones after it. *)
GoOnOrSleep ==
    /\ batch' = {}
    /\ IF at < WarmTables /\ batch # {}
       THEN exporter' = "select" /\ at' = at + 1
       ELSE exporter' = "commit" /\ at' = at

(* After a table: the next one, or the commit. *)
GoOn ==
    /\ batch' = {}
    /\ IF at < WarmTables
       THEN exporter' = "select" /\ at' = at + 1
       ELSE exporter' = "commit" /\ at' = at

(* The first rows of S, up to one of them; LIMIT WarmBatch. *)
FirstOf(S, last) == {r \in S : UpTo(Key(r), Key(last))}
FillsBatch(B, S) == Cardinality(B) = WarmBatch \/ (B = S /\ Cardinality(B) < WarmBatch)

(* The cursor found in the database is kept in memory. *)
SelectRows ==
    /\ exporter = "select"
    /\ mem' = [mem EXCEPT ![at] = Cursor(at)]
    /\ \/ /\ Waiting(at) = {}
          /\ GoOn
       \/ /\ Waiting(at) # {}
          /\ \E last \in Waiting(at) :
                /\ FillsBatch(FirstOf(Waiting(at), last), Waiting(at))
                /\ batch' = FirstOf(Waiting(at), last)
          /\ exporter' = "insert"
          /\ UNCHANGED at
    /\ UNCHANGED <<rowsVars, copies, stored, faultVars>>

Deliver == copies' = [r \in WarmRows |-> copies[r] + (IF r \in batch THEN 1 ELSE 0)]
LastOf(B) == CHOOSE r \in B : \A q \in B : UpTo(Key(q), Key(r))

(* Mutant: the cursor goes to the newest row of the table, not of the batch. *)
InsertAcceptedSkips ==
    /\ exporter = "insert"
    /\ Deliver
    /\ mem' = [mem EXCEPT ![at] = Key(LastOf(Waiting(at)))]
    /\ GoOn
    /\ UNCHANGED <<rowsVars, stored, faultVars>>

InsertAccepted ==
    /\ exporter = "insert"
    /\ Deliver
    /\ mem' = [mem EXCEPT ![at] = Key(LastOf(batch))]
    /\ GoOn
    /\ UNCHANGED <<rowsVars, stored, faultVars>>

(* A status outside 200..299: the cursor stays.  A proxy may answer so      *)
(* although the rows were stored.                                           *)
InsertRefused ==
    /\ exporter = "insert"
    /\ refusals < MaxRefusals
    /\ refusals' = refusals + 1
    /\ Deliver \/ UNCHANGED copies
    /\ GoOn
    /\ UNCHANGED <<rowsVars, mem, stored, warmStarts>>

(* The request or a database call raises: logging it raises TypeError, in   *)
(* the client and again in _loop, and the task ends.  ClickHouse may have   *)
(* stored the rows; what was not committed is rolled back.                  *)
ExportRaises ==
    /\ exporter \in {"starting", "select", "insert", "commit"}
    /\ exporter' = "dead"
    /\ at' = 1
    /\ batch' = {}
    /\ \/ exporter = "insert" /\ Deliver
       \/ UNCHANGED copies
    /\ UNCHANGED <<rowsVars, mem, stored, faultVars>>

(* Mutant: the cursors are committed but forgotten in memory and the rows. *)
CommitNothing ==
    /\ exporter = "commit"
    /\ mem' = [t \in TableIds |-> NoCursor]
    /\ exporter' = "sleeping"
    /\ UNCHANGED <<rowsVars, copies, stored, at, batch, faultVars>>

CommitCursors ==
    /\ exporter = "commit"
    /\ stored' = mem
    /\ exporter' = "sleeping"
    /\ UNCHANGED <<rowsVars, copies, mem, at, batch, faultVars>>

(* The process ends, at any step, and starts again; a writer's open         *)
(* transaction is rolled back.                                              *)
RestartExporter ==
    /\ warmStarts < MaxWarmStarts
    /\ warmStarts' = warmStarts + 1
    /\ mem' = [t \in TableIds |-> NoCursor]
    /\ exporter' = "starting"
    /\ batch' = {}
    /\ at' = 1
    /\ created' = [r \in WarmRows |-> IF r \in staged THEN 0 ELSE created[r]]
    /\ staged' = {}
    /\ UNCHANGED <<second, copies, stored, refusals>>

ExportStep ==
    \/ EnsureTables \/ BeginExport \/ SelectRows \/ CommitCursors
    \/ InsertAccepted \/ InsertRefused

WarmNext ==
    \/ NextSecond
    \/ \E r \in WarmRows : InsertRow(r)
    \/ CommitRows
    \/ ExportStep
    \/ ExportRaises
    \/ RestartExporter

WarmSpec == WarmInit /\ [][WarmNext]_warmVars

(* The event loop keeps running the task; refusals are bounded. *)
WarmFairSpec == WarmSpec /\ WF_warmVars(ExportStep)

-----------------------------------------------------------------------------
(* A row the cursor has passed and ClickHouse never got was inserted in the *)
(* same second as a row of its table that was exported: whatever fails,     *)
(* restarts and commits late, the (created_at, id) cursor skips nothing     *)
(* else.  (Within that second it does skip rows: their id decides.)         *)
LostOnlyInItsSecond ==
    \A r \in WarmRows :
        Passed(r) /\ copies[r] = 0 =>
            \E q \in WarmRows :
                q[1] = r[1] /\ copies[q] > 0 /\ created[q] = created[r]

(* Delivery is at least once: each refusal and each restart can repeat a    *)
(* row once, and nothing else does; neither an export that died half-way    *)
(* nor a cursor that was not committed leads to more.                       *)
CopiesHaveACause ==
    \A r \in WarmRows : copies[r] <= 1 + refusals + warmStarts

(* A visible row reaches ClickHouse, or is passed by the cursor, unless the *)
(* task dies: a batch limit or an earlier table never starves it.           *)
RowsReachWarmStore ==
    \A r \in WarmRows :
        r \in Visible ~> (copies[r] > 0 \/ Passed(r) \/ exporter = "dead")
=============================================================================
