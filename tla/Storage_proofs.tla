--------------------------- MODULE Storage_proofs ---------------------------
(***************************************************************************)
(* Proofs about what is kept elsewhere: the warm export, the cold archive. *)
(***************************************************************************)
EXTENDS WarmExport, ColdArchive, TLAPS

(***************************************************************************)
(* WarmExport, for any tables, rows, batch size and bounds.                *)
(* The argument: every cursor, in memory or stored, is the key of a row    *)
(* that was exported; a row that becomes visible later is not older than   *)
(* any row that was visible before; so a cursor can only pass it within    *)
(* the second of the exported row.                                         *)
(***************************************************************************)

(* A row of r's table and second was exported; r itself may be the one.     *)
Covered(r) ==
    \E q \in WarmRows : q[1] = r[1] /\ copies[q] > 0 /\ created[q] = created[r]

CursorOK(t, c) ==
    /\ c = NoCursor \/ \E q \in WarmRows : q[1] = t /\ copies[q] > 0 /\ c = Key(q)
    /\ \A r \in Visible : r[1] = t /\ UpTo(Key(r), c) => Covered(r)

RowsOK ==
    /\ \A r \in WarmRows : created[r] <= second
    /\ \A s \in staged : created[s] > 0 /\ \A v \in Visible : created[v] <= created[s]
    /\ \A r \in WarmRows : copies[r] > 0 => r \in Visible

CountOK(r) ==
    /\ copies[r] <= 1 + refusals + warmStarts
    /\ exporter # "dead" /\ ~UpTo(Key(r), Cursor(r[1])) =>
          copies[r] <= refusals + warmStarts

(* The batch is not yet passed, has a last row, and what else is waiting    *)
(* is not older.                                                            *)
BatchOK ==
    exporter = "insert" =>
        /\ batch \subseteq Visible
        /\ \A r \in batch : r[1] = at /\ ~UpTo(Key(r), Cursor(at))
        /\ \E last \in batch : \A q \in batch : UpTo(Key(q), Key(last))
        /\ \A r \in Visible :
              r[1] = at /\ r \notin batch /\ ~UpTo(Key(r), Cursor(at)) =>
                  \A q \in batch : created[q] <= created[r]

(* The tables whose cursor has been looked up in this export. *)
Loaded(t) ==
    \/ exporter \in {"select", "insert"} /\ t < at
    \/ exporter = "insert" /\ t = at
    \/ exporter = "commit"

WarmInv ==
    /\ WarmTypeOK
    /\ RowsOK
    /\ \A t \in TableIds : CursorOK(t, mem[t]) /\ CursorOK(t, stored[t])
    /\ \A r \in WarmRows : CountOK(r)
    /\ BatchOK
    /\ \A t \in TableIds : Loaded(t) /\ mem[t] = NoCursor => stored[t] = NoCursor

LEMMA RowFacts ==
    /\ \A r \in WarmRows : r[1] \in TableIds /\ r[2] \in Nat /\ r[2] # 0
    /\ WarmTables \in Nat /\ 1 \in TableIds /\ NoCursor \in Cursors
    /\ MaxSeconds \in Nat /\ MaxWarmStarts \in Nat /\ MaxRefusals \in Nat
BY WarmAssumption DEF TableIds, NoCursor, Cursors

LEMMA InitWarmInv == WarmInit => WarmInv
<1> SUFFICES ASSUME WarmInit PROVE WarmInv
  OBVIOUS
<1>1. WarmTypeOK
  BY RowFacts DEF WarmInit, WarmTypeOK
<1>2. Visible = {}
  BY DEF WarmInit, Visible
<1>3. RowsOK
  BY <1>2 DEF WarmInit, RowsOK
<1>4. \A t \in TableIds : CursorOK(t, mem[t]) /\ CursorOK(t, stored[t])
  BY <1>2 DEF WarmInit, CursorOK
<1>5. \A r \in WarmRows : CountOK(r)
  BY DEF WarmInit, CountOK
<1> QED BY <1>1, <1>3, <1>4, <1>5 DEF WarmInv, WarmInit, BatchOK, Loaded

LEMMA WarmFacts ==
    ASSUME WarmTypeOK
    PROVE  /\ second \in Nat /\ refusals \in Nat /\ warmStarts \in Nat /\ at \in TableIds
           /\ \A r \in WarmRows : created[r] \in Nat /\ copies[r] \in Nat
           /\ \A t \in TableIds : mem[t] \in Cursors /\ stored[t] \in Cursors
                                  /\ Cursor(t) \in Cursors
           /\ Visible \subseteq WarmRows
BY RowFacts DEF WarmTypeOK, Cursor, Visible

(* What a cursor has passed stays covered when rows become visible or are   *)
(* exported.                                                                *)
LEMMA CursorKept ==
    ASSUME WarmInv, WarmTypeOK', NEW t \in TableIds,
           \A r \in Visible : r \in Visible' /\ created'[r] = created[r],
           \A r \in WarmRows : copies[r] <= copies'[r],
           \A r \in Visible' : r \in Visible \/ \A v \in Visible : created[v] <= created'[r]
    PROVE  \A c \in Cursors : CursorOK(t, c) => CursorOK(t, c)'
<1> SUFFICES ASSUME NEW c \in Cursors, CursorOK(t, c) PROVE CursorOK(t, c)'
  OBVIOUS
<1>f. /\ \A r \in WarmRows : created[r] \in Nat /\ copies[r] \in Nat
      /\ \A r \in WarmRows : created'[r] \in Nat /\ copies'[r] \in Nat
      /\ Visible \subseteq WarmRows
  BY WarmFacts DEF WarmInv, WarmTypeOK
<1>1. \A q \in WarmRows : copies[q] > 0 =>
          copies'[q] > 0 /\ created'[q] = created[q] /\ q \in Visible
  BY <1>f DEF WarmInv, RowsOK
<1>2. c = NoCursor \/ \E q \in WarmRows : q[1] = t /\ copies'[q] > 0 /\ c = <<created'[q], q[2]>>
  BY <1>1 DEF CursorOK, Key
<1>3. ASSUME NEW r \in Visible', r[1] = t, UpTo(Key(r)', c)
      PROVE  Covered(r)'
  <2>r. r \in WarmRows /\ created'[r] > 0 /\ r[2] \in Nat /\ created'[r] \in Nat
    BY <1>f, RowFacts DEF Visible
  <2>1. CASE r \in Visible
    <3>1. UpTo(Key(r), c)
      BY <2>1, <1>3 DEF Key
    <3>2. Covered(r)
      BY <3>1, <2>1, <1>3 DEF CursorOK
    <3> QED BY <3>2, <1>1, <2>1 DEF Covered
  <2>2. CASE r \notin Visible
    <3>1. c # NoCursor
      BY <1>3, <2>r DEF UpTo, Key, NoCursor
    <3>2. PICK q \in WarmRows : q[1] = t /\ copies[q] > 0 /\ c = Key(q)
      BY <3>1 DEF CursorOK
    <3>3. created[q] \in Nat /\ created'[q] = created[q] /\ copies'[q] > 0
          /\ created[q] <= created'[r]
      BY <3>2, <2>2, <1>1, <1>f
    <3>4. created'[r] <= created[q]
      BY <3>2, <3>3, <1>3, <2>r DEF UpTo, Key
    <3>5. created'[q] = created'[r]
      BY <3>3, <3>4, <2>r
    <3> QED BY <3>2, <3>3, <3>5, <1>3 DEF Covered
  <2> QED BY <2>1, <2>2
<1> QED BY <1>2, <1>3 DEF CursorOK, Key
(* The clock and the writers: rows become visible, none of them older than  *)
(* one that was visible already.                                            *)
LEMMA RowsGrow ==
    ASSUME WarmInv, WarmTypeOK', RowsOK',
           UNCHANGED <<copies, mem, stored, exporter, at, batch, refusals, warmStarts>>,
           \A r \in Visible : r \in Visible' /\ created'[r] = created[r],
           \A r \in Visible' : r \in Visible \/ \A v \in Visible : created[v] <= created'[r]
    PROVE  WarmInv'
<1>t. WarmTypeOK
  BY DEF WarmInv
<1>f. /\ refusals \in Nat /\ warmStarts \in Nat /\ at \in TableIds
      /\ \A r \in WarmRows : created[r] \in Nat /\ copies[r] \in Nat
      /\ \A t \in TableIds : mem[t] \in Cursors /\ stored[t] \in Cursors
      /\ Visible \subseteq WarmRows
  BY <1>t, WarmFacts
<1>c. \A t : Cursor(t)' = Cursor(t)
  BY DEF Cursor
<1>1. ASSUME NEW t \in TableIds
      PROVE  CursorOK(t, mem[t])' /\ CursorOK(t, stored[t])'
  <2>1. \A c \in Cursors : CursorOK(t, c) => CursorOK(t, c)'
    BY <1>f, CursorKept
  <2>2. PICK m \in Cursors, s \in Cursors : m = mem[t] /\ s = stored[t]
    BY <1>f
  <2>3. CursorOK(t, m)' /\ CursorOK(t, s)'
    BY <2>1, <2>2 DEF WarmInv
  <2> QED BY <2>2, <2>3 DEF CursorOK
<1>2. ASSUME NEW r \in WarmRows PROVE CountOK(r)'
  <2>1. CountOK(r) /\ (copies[r] > 0 => created'[r] = created[r])
    BY DEF WarmInv, RowsOK
  <2> QED BY <2>1, <1>c, <1>f DEF CountOK, Key
<1>3. BatchOK'
  <2> SUFFICES ASSUME exporter = "insert" PROVE BatchOK'
    BY DEF BatchOK
  <2>1. /\ batch \subseteq Visible
        /\ \A r \in batch : r[1] = at /\ ~UpTo(Key(r), Cursor(at))
        /\ \E last \in batch : \A q \in batch : UpTo(Key(q), Key(last))
        /\ \A r \in Visible :
              r[1] = at /\ r \notin batch /\ ~UpTo(Key(r), Cursor(at)) =>
                  \A q \in batch : created[q] <= created[r]
    BY DEF WarmInv, BatchOK
  <2>2. \A r \in Visible : Key(r)' = Key(r)
    BY DEF Key
  <2>3. batch \subseteq Visible'
    BY <2>1
  <2>4. \A r \in batch : r[1] = at /\ ~UpTo(Key(r)', Cursor(at)')
    BY <2>1, <2>2, <1>c DEF UpTo
  <2>5. \E last \in batch : \A q \in batch : UpTo(Key(q)', Key(last)')
    BY <2>1, <2>2
  <2>6. ASSUME NEW r \in Visible', r[1] = at, r \notin batch, ~UpTo(Key(r)', Cursor(at)'),
               NEW q \in batch
        PROVE  created'[q] <= created'[r]
    <3>1. created'[q] = created[q] /\ q \in Visible
      BY <2>1
    <3>2. CASE r \in Visible
      BY <3>1, <3>2, <2>1, <2>2, <2>6, <1>c
    <3>3. CASE r \notin Visible
      BY <3>1, <3>3
    <3> QED BY <3>2, <3>3
  <2> QED BY <2>3, <2>4, <2>5, <2>6 DEF BatchOK, UpTo
<1> QED BY <1>1, <1>2, <1>3 DEF WarmInv, Loaded

LEMMA WriterInv ==
    ASSUME WarmInv,
           \/ NextSecond \/ CommitRows \/ UNCHANGED warmVars
           \/ \E r \in WarmRows : InsertRow(r)
    PROVE  WarmInv'
<1>t. WarmTypeOK
  BY DEF WarmInv
<1>f. /\ second \in Nat /\ second > 0 /\ staged \subseteq WarmRows /\ Visible \subseteq WarmRows
      /\ \A r \in WarmRows : created[r] \in Nat /\ copies[r] \in Nat
  BY <1>t, WarmFacts, RowFacts DEF WarmTypeOK
<1>r. RowsOK
  BY DEF WarmInv
<1>1. UNCHANGED <<copies, mem, stored, exporter, at, batch, refusals, warmStarts>>
  BY DEF NextSecond, CommitRows, InsertRow, warmVars, rowsVars, exporterVars, faultVars
<1>2. CASE NextSecond
  <2>1. second' = second + 1 /\ second <= MaxSeconds /\ UNCHANGED <<created, staged>>
    BY <1>2 DEF NextSecond
  <2>2. WarmTypeOK'
    BY <2>1, <1>1, <1>t, RowFacts DEF WarmTypeOK
  <2>3. Visible' = Visible
    BY <2>1 DEF Visible
  <2>4. RowsOK'
    BY <2>1, <2>3, <1>1, <1>r, <1>f DEF RowsOK
  <2> QED BY <2>1, <2>2, <2>3, <2>4, <1>1, RowsGrow
<1>3. CASE CommitRows
  <2>1. staged' = {} /\ UNCHANGED <<second, created>>
    BY <1>3 DEF CommitRows
  <2>2. WarmTypeOK'
    BY <2>1, <1>1, <1>t DEF WarmTypeOK
  <2>3. Visible' = Visible \cup staged
    BY <2>1, <1>r, <1>f DEF Visible, RowsOK
  <2>4. RowsOK'
    BY <2>1, <2>3, <1>1, <1>r DEF RowsOK
  <2>5. \A r \in Visible' : r \in Visible \/ \A v \in Visible : created[v] <= created'[r]
    BY <2>1, <2>3, <1>r DEF RowsOK
  <2> QED BY <2>1, <2>2, <2>3, <2>4, <2>5, <1>1, RowsGrow
<1>4. ASSUME NEW r \in WarmRows, InsertRow(r)
      PROVE  WarmInv'
  <2>1. created[r] = 0 /\ staged' = staged \cup {r} /\ UNCHANGED second
        /\ created' = [created EXCEPT ![r] = second]
    BY <1>4 DEF InsertRow
  <2>2. created'[r] = second /\ \A q \in WarmRows : q # r => created'[q] = created[q]
    BY <2>1, <1>t DEF WarmTypeOK
  <2>3. WarmTypeOK'
    BY <2>1, <1>1, <1>f, <1>t DEF WarmTypeOK
  <2>4. r \notin Visible /\ Visible' = Visible
    BY <2>1, <2>2, <1>f DEF Visible
  <2>5. RowsOK'
    <3>1. \A q \in WarmRows : created'[q] <= second
      BY <2>2, <1>r, <1>f DEF RowsOK
    <3>2. ASSUME NEW s \in staged', NEW v \in Visible
          PROVE  created'[s] > 0 /\ created'[v] <= created'[s]
      <4>1. created'[v] = created[v] /\ created[v] <= second
        BY <2>2, <2>4, <1>r, <1>f DEF RowsOK
      <4>2. CASE s = r
        BY <4>1, <4>2, <2>2, <1>f
      <4>3. CASE s # r
        BY <4>1, <4>3, <2>1, <2>2, <1>r, <1>f DEF RowsOK
      <4> QED BY <4>2, <4>3
    <3>3. \A s \in staged' : created'[s] > 0
      BY <2>1, <2>2, <1>r, <1>f DEF RowsOK
    <3> QED BY <3>1, <3>2, <3>3, <2>1, <2>4, <1>1, <1>r DEF RowsOK
  <2>6. \A q \in Visible : q \in Visible' /\ created'[q] = created[q]
    BY <2>2, <2>4, <1>f
  <2> QED BY <2>3, <2>4, <2>5, <2>6, <1>1, RowsGrow
<1>5. CASE UNCHANGED warmVars
  <2>1. UNCHANGED <<second, created, staged>>
    BY <1>5 DEF warmVars, rowsVars
  <2>2. WarmTypeOK' /\ Visible' = Visible /\ RowsOK'
    BY <2>1, <1>1, <1>t, <1>r DEF WarmTypeOK, RowsOK, Visible
  <2> QED BY <2>1, <2>2, <1>1, RowsGrow
<1> QED BY <1>2, <1>3, <1>4, <1>5

-----------------------------------------------------------------------------
(* A step of the exporter that delivers nothing. *)
LEMMA QuietStep ==
    ASSUME WarmInv, WarmTypeOK', UNCHANGED <<rowsVars, copies, warmStarts>>,
           refusals <= refusals',
           \A t \in TableIds : Cursor(t)' = Cursor(t),
           \A t \in TableIds : mem'[t] \in {mem[t], stored[t]}
                              /\ stored'[t] \in {mem[t], stored[t]},
           exporter # "dead" \/ exporter' = "dead",
           BatchOK',
           \A t \in TableIds : Loaded(t)' /\ mem'[t] = NoCursor => stored'[t] = NoCursor
    PROVE  WarmInv'
<1>t. WarmTypeOK
  BY DEF WarmInv
<1>f. /\ refusals \in Nat /\ refusals' \in Nat /\ warmStarts \in Nat
      /\ \A r \in WarmRows : created[r] \in Nat /\ copies[r] \in Nat
      /\ \A t \in TableIds : mem[t] \in Cursors /\ stored[t] \in Cursors
  BY <1>t, WarmFacts, RowFacts DEF WarmTypeOK
<1>v. Visible' = Visible /\ UNCHANGED <<second, created, staged, copies, warmStarts>>
  BY DEF Visible, rowsVars
<1>1. RowsOK'
  BY <1>v DEF WarmInv, RowsOK
<1>2. ASSUME NEW t \in TableIds
      PROVE  CursorOK(t, mem[t])' /\ CursorOK(t, stored[t])'
  <2>1. PICK m \in Cursors, s \in Cursors : m = mem'[t] /\ s = stored'[t]
    BY <1>f
  <2>2. CursorOK(t, m) /\ CursorOK(t, s)
    BY <2>1 DEF WarmInv
  <2>3. CursorOK(t, m)' /\ CursorOK(t, s)'
    BY <2>2, <1>v DEF CursorOK, Key, Covered
  <2> QED BY <2>1, <2>3 DEF CursorOK
<1>3. ASSUME NEW r \in WarmRows PROVE CountOK(r)'
  <2>1. CountOK(r) /\ Cursor(r[1])' = Cursor(r[1]) /\ copies[r] \in Nat
    BY <1>f, RowFacts DEF WarmInv
  <2> QED BY <2>1, <1>v, <1>f DEF CountOK, Key
<1> QED BY <1>1, <1>2, <1>3 DEF WarmInv

(* GoOn: the next table, or the commit after the last one. *)
LEMMA GoOnFacts ==
    ASSUME WarmTypeOK, GoOn
    PROVE  /\ exporter' \in {"select", "commit"} /\ batch' = {} /\ at' \in TableIds
           /\ \A t \in TableIds : Loaded(t)' => t <= at
BY RowFacts DEF WarmTypeOK, GoOn, Loaded, TableIds

LEMMA SelectInv ==
    ASSUME WarmInv, SelectRows
    PROVE  WarmInv'
<1>t. WarmTypeOK
  BY DEF WarmInv
<1>f. /\ at \in TableIds /\ refusals \in Nat
      /\ \A r \in WarmRows : created[r] \in Nat
      /\ \A t \in TableIds : mem[t] \in Cursors /\ stored[t] \in Cursors
                             /\ Cursor(t) \in Cursors
      /\ Visible \subseteq WarmRows
  BY <1>t, WarmFacts
<1>1. /\ exporter = "select" /\ UNCHANGED <<rowsVars, copies, stored, refusals, warmStarts>>
      /\ mem' = [mem EXCEPT ![at] = Cursor(at)]
  BY DEF SelectRows, faultVars
<1>2. mem'[at] = Cursor(at) /\ \A t \in TableIds : t # at => mem'[t] = mem[t]
  BY <1>1, <1>f, <1>t DEF WarmTypeOK
<1>3. \A t \in TableIds : Cursor(t)' = Cursor(t)
  BY <1>1, <1>2 DEF Cursor
<1>4. \A t \in TableIds : mem'[t] \in {mem[t], stored[t]} /\ stored'[t] \in {mem[t], stored[t]}
  BY <1>1, <1>2 DEF Cursor
<1>5. ASSUME NEW t \in TableIds, t <= at, mem'[t] = NoCursor PROVE stored'[t] = NoCursor
  <2>1. CASE t = at
    BY <2>1, <1>1, <1>2, <1>5 DEF Cursor
  <2>2. CASE t # at
    <3>1. t < at
      BY <2>2, <1>5, <1>f, RowFacts DEF TableIds
    <3>2. Loaded(t)
      BY <3>1, <1>1 DEF Loaded
    <3> QED BY <3>2, <2>2, <1>1, <1>2, <1>5 DEF WarmInv
  <2> QED BY <2>1, <2>2
<1>6. mem' \in [TableIds -> Cursors]
  BY <1>1, <1>f, <1>t DEF WarmTypeOK
<1>7. CASE Waiting(at) = {} /\ GoOn
  <2>1. /\ exporter' \in {"select", "commit"} /\ batch' = {} /\ at' \in TableIds
        /\ \A t \in TableIds : Loaded(t)' => t <= at
    BY <1>7, <1>t, GoOnFacts
  <2>2. WarmTypeOK'
    BY <2>1, <1>1, <1>6, <1>t DEF WarmTypeOK, rowsVars
  <2>3. BatchOK'
    BY <2>1 DEF BatchOK
  <2> QED BY <2>1, <2>2, <2>3, <1>1, <1>3, <1>4, <1>5, <1>f, QuietStep
<1>8. CASE Waiting(at) # {} /\ exporter' = "insert" /\ UNCHANGED at
           /\ \E last \in Waiting(at) : batch' = FirstOf(Waiting(at), last)
  <2>1. PICK last \in Waiting(at) : batch' = FirstOf(Waiting(at), last)
    BY <1>8
  <2> DEFINE W == Waiting(at)
  <2>2. /\ W \subseteq Visible /\ W \subseteq WarmRows
        /\ \A r \in W : r[1] = at /\ ~UpTo(Key(r), Cursor(at))
        /\ \A r \in Visible : r[1] = at /\ ~UpTo(Key(r), Cursor(at)) => r \in W
    BY <1>f DEF Waiting
  <2>3. batch' = {r \in W : UpTo(Key(r), Key(last))} /\ last \in W
    BY <2>1 DEF FirstOf
  <2>k. \A r \in WarmRows : Key(r)[1] = created[r] /\ Key(r)[2] = r[2]
                          /\ created[r] \in Nat /\ r[2] \in Nat
    BY <1>f, RowFacts DEF Key
  <2> HIDE DEF W
  <2>4. WarmTypeOK'
    BY <2>2, <2>3, <1>1, <1>6, <1>8, <1>t DEF WarmTypeOK, rowsVars
  <2>5. last \in batch' /\ \A q \in batch' : UpTo(Key(q), Key(last))
    BY <2>2, <2>3, <2>k DEF UpTo
  <2>6. ASSUME NEW r \in Visible, r[1] = at, r \notin batch', ~UpTo(Key(r), Cursor(at)),
               NEW q \in batch'
        PROVE  created[q] <= created[r]
    <3>1. r \in W /\ q \in W /\ ~UpTo(Key(r), Key(last)) /\ UpTo(Key(q), Key(last))
      BY <2>2, <2>3, <2>6
    <3>2. r \in WarmRows /\ q \in WarmRows /\ last \in WarmRows
      BY <2>2, <2>3, <3>1
    <3> QED BY <3>1, <3>2, <2>k DEF UpTo
  <2>7. batch' \subseteq Visible /\ \A r \in batch' : r[1] = at /\ ~UpTo(Key(r), Cursor(at))
    BY <2>2, <2>3
  <2>8. Visible' = Visible /\ UNCHANGED <<created, at>> /\ Cursor(at)' = Cursor(at)
    BY <1>1, <1>3, <1>8, <1>f DEF Visible, rowsVars, Cursor
  <2>9. BatchOK'
    BY <2>5, <2>6, <2>7, <2>8 DEF BatchOK, Key, UpTo
  <2>10. \A t \in TableIds : Loaded(t)' => t <= at
    BY <1>8, <1>f DEF Loaded, TableIds
  <2> QED BY <2>4, <2>9, <2>10, <1>1, <1>3, <1>4, <1>5, <1>8, <1>f, QuietStep
<1> QED BY <1>7, <1>8 DEF SelectRows

LEMMA QuietInv ==
    ASSUME WarmInv,
           \/ EnsureTables \/ BeginExport \/ CommitCursors
           \/ InsertRefused /\ UNCHANGED copies
           \/ ExportRaises /\ UNCHANGED copies
    PROVE  WarmInv'
<1>t. WarmTypeOK
  BY DEF WarmInv
<1>f. refusals \in Nat /\ at \in TableIds /\ 1 \in TableIds
  BY <1>t, WarmFacts, RowFacts
<1>l. \A t \in TableIds : Loaded(t) /\ mem[t] = NoCursor => stored[t] = NoCursor
  BY DEF WarmInv
<1>1. CASE EnsureTables \/ BeginExport
  <2>1. /\ exporter' \in {"sleeping", "select"} /\ exporter \in {"starting", "sleeping"}
        /\ at' \in TableIds /\ (exporter' = "select" => at' = 1)
        /\ UNCHANGED <<rowsVars, copies, mem, stored, batch, refusals, warmStarts>>
    BY <1>1, <1>f DEF EnsureTables, BeginExport, faultVars
  <2>2. WarmTypeOK'
    BY <2>1, <1>t DEF WarmTypeOK, rowsVars
  <2>3. BatchOK' /\ \A t \in TableIds : ~Loaded(t)'
    BY <2>1 DEF BatchOK, Loaded, TableIds
  <2> QED BY <2>1, <2>2, <2>3, <1>f, QuietStep DEF Cursor
<1>2. CASE CommitCursors
  <2>1. /\ exporter = "commit" /\ exporter' = "sleeping" /\ stored' = mem
        /\ UNCHANGED <<rowsVars, copies, mem, at, batch, refusals, warmStarts>>
    BY <1>2 DEF CommitCursors, faultVars
  <2>2. WarmTypeOK'
    BY <2>1, <1>t DEF WarmTypeOK, rowsVars
  <2>3. BatchOK' /\ \A t \in TableIds : ~Loaded(t)'
    BY <2>1 DEF BatchOK, Loaded
  <2>4. \A t \in TableIds : Cursor(t)' = Cursor(t)
    BY <2>1, <1>l DEF Cursor, Loaded
  <2> QED BY <2>1, <2>2, <2>3, <2>4, <1>f, QuietStep
<1>3. CASE InsertRefused /\ UNCHANGED copies
  <2>1. /\ exporter = "insert" /\ refusals' = refusals + 1 /\ refusals' \in 0..MaxRefusals
        /\ UNCHANGED <<rowsVars, copies, mem, stored, warmStarts>> /\ GoOn
    BY <1>3, <1>f, RowFacts DEF InsertRefused
  <2>2. /\ exporter' \in {"select", "commit"} /\ batch' = {} /\ at' \in TableIds
        /\ \A t \in TableIds : Loaded(t)' => t <= at
    BY <2>1, <1>t, GoOnFacts
  <2>3. WarmTypeOK'
    BY <2>1, <2>2, <1>t DEF WarmTypeOK, rowsVars
  <2>4. BatchOK'
    BY <2>2 DEF BatchOK
  <2>5. \A t \in TableIds : t <= at => Loaded(t)
    BY <2>1, <1>f DEF Loaded, TableIds
  <2> QED BY <2>1, <2>2, <2>3, <2>4, <2>5, <1>f, <1>l, QuietStep DEF Cursor
<1>4. CASE ExportRaises /\ UNCHANGED copies
  <2>1. /\ exporter' = "dead" /\ at' = 1 /\ batch' = {}
        /\ UNCHANGED <<rowsVars, copies, mem, stored, refusals, warmStarts>>
    BY <1>4 DEF ExportRaises, faultVars
  <2>2. WarmTypeOK'
    BY <2>1, <1>f, <1>t DEF WarmTypeOK, rowsVars
  <2>3. BatchOK' /\ \A t \in TableIds : ~Loaded(t)'
    BY <2>1 DEF BatchOK, Loaded
  <2> QED BY <2>1, <2>2, <2>3, <1>f, QuietStep DEF Cursor
<1> QED BY <1>1, <1>2, <1>3, <1>4

(* What every delivery of the batch does to the rows. *)
LEMMA DeliverFacts ==
    ASSUME WarmInv, exporter = "insert", Deliver, UNCHANGED rowsVars
    PROVE  /\ copies' \in [WarmRows -> Nat]
           /\ \A r \in batch : copies'[r] = copies[r] + 1
           /\ \A r \in WarmRows : r \notin batch => copies'[r] = copies[r]
           /\ \A r \in WarmRows : copies[r] <= copies'[r]
           /\ Visible' = Visible /\ UNCHANGED <<second, created, staged>>
           /\ RowsOK'
           /\ \A r \in batch : r \in WarmRows /\ copies[r] <= refusals + warmStarts
<1>t. WarmTypeOK
  BY DEF WarmInv
<1>f. /\ \A r \in WarmRows : copies[r] \in Nat
      /\ Visible \subseteq WarmRows
  BY <1>t, WarmFacts
<1>b. batch \subseteq Visible /\ \A r \in batch : r[1] = at /\ ~UpTo(Key(r), Cursor(at))
  BY DEF WarmInv, BatchOK
<1>1. copies' = [r \in WarmRows |-> copies[r] + (IF r \in batch THEN 1 ELSE 0)]
  BY DEF Deliver
<1>2. copies' \in [WarmRows -> Nat]
  BY <1>1, <1>f
<1>3. /\ \A r \in batch : copies'[r] = copies[r] + 1
      /\ \A r \in WarmRows : r \notin batch => copies'[r] = copies[r]
      /\ \A r \in WarmRows : copies[r] <= copies'[r]
  BY <1>1, <1>f, <1>b
<1>4. Visible' = Visible /\ UNCHANGED <<second, created, staged>>
  BY DEF Visible, rowsVars
<1>5. RowsOK'
  BY <1>3, <1>4, <1>b DEF WarmInv, RowsOK
<1>6. \A r \in batch : r \in WarmRows /\ copies[r] <= refusals + warmStarts
  BY <1>b, <1>f DEF WarmInv, CountOK
<1> QED BY <1>2, <1>3, <1>4, <1>5, <1>6

(* The rows were stored although the exporter does not learn it. *)
LEMMA UnknownDelivery ==
    ASSUME WarmInv, InsertRefused \/ ExportRaises, exporter = "insert", Deliver
    PROVE  WarmInv'
<1>t. WarmTypeOK
  BY DEF WarmInv
<1>f. /\ refusals \in Nat /\ warmStarts \in Nat /\ at \in TableIds /\ 1 \in TableIds
      /\ \A r \in WarmRows : created[r] \in Nat /\ copies[r] \in Nat
      /\ \A t \in TableIds : mem[t] \in Cursors /\ stored[t] \in Cursors
  BY <1>t, WarmFacts, RowFacts
<1>1. UNCHANGED <<rowsVars, mem, stored, warmStarts>>
  BY DEF InsertRefused, ExportRaises, faultVars
<1>2. /\ copies' \in [WarmRows -> Nat]
      /\ \A r \in batch : copies'[r] = copies[r] + 1
      /\ \A r \in WarmRows : r \notin batch => copies'[r] = copies[r]
      /\ \A r \in WarmRows : copies[r] <= copies'[r]
      /\ Visible' = Visible /\ UNCHANGED <<second, created, staged>>
      /\ RowsOK'
      /\ \A r \in batch : r \in WarmRows /\ copies[r] <= refusals + warmStarts
  BY <1>1, DeliverFacts
<1>3. /\ batch' = {} /\ at' \in TableIds
      /\ \A t \in TableIds : Loaded(t)' => Loaded(t)
      /\ \/ exporter' = "dead" /\ refusals' = refusals
         \/ exporter' \in {"select", "commit"} /\ refusals' = refusals + 1
            /\ refusals' \in 0..MaxRefusals
  <2>1. CASE InsertRefused
    <3>1. GoOn /\ refusals' = refusals + 1 /\ refusals' \in 0..MaxRefusals
      BY <2>1, <1>f, RowFacts DEF InsertRefused
    <3>2. /\ exporter' \in {"select", "commit"} /\ batch' = {} /\ at' \in TableIds
          /\ \A t \in TableIds : Loaded(t)' => t <= at
      BY <3>1, <1>t, GoOnFacts
    <3>3. \A t \in TableIds : t <= at => Loaded(t)
      BY <1>f DEF Loaded, TableIds
    <3> QED BY <3>1, <3>2, <3>3
  <2>2. CASE ExportRaises
    <3>1. exporter' = "dead" /\ batch' = {} /\ at' = 1 /\ refusals' = refusals
      BY <2>2 DEF ExportRaises, faultVars
    <3> QED BY <3>1, <1>f DEF Loaded
  <2> QED BY <2>1, <2>2
<1>4. WarmTypeOK'
  BY <1>1, <1>2, <1>3, <1>t DEF WarmTypeOK, rowsVars
<1>5. ASSUME NEW t \in TableIds
      PROVE  CursorOK(t, mem[t])' /\ CursorOK(t, stored[t])'
  <2>1. \A c \in Cursors : CursorOK(t, c) => CursorOK(t, c)'
    BY <1>2, <1>4, CursorKept
  <2>2. PICK m \in Cursors, s \in Cursors : m = mem[t] /\ s = stored[t]
    BY <1>f
  <2>3. CursorOK(t, m)' /\ CursorOK(t, s)'
    BY <2>1, <2>2 DEF WarmInv
  <2> QED BY <2>2, <2>3, <1>1 DEF CursorOK
<1>6. ASSUME NEW r \in WarmRows PROVE CountOK(r)'
  <2>1. CountOK(r) /\ Cursor(r[1])' = Cursor(r[1]) /\ Key(r)' = Key(r)
        /\ copies[r] \in Nat /\ copies'[r] \in Nat
    BY <1>f, <1>1, <1>2 DEF WarmInv, Cursor, Key
  <2>2. exporter # "dead"
    OBVIOUS
  <2> QED BY <2>1, <2>2, <1>1, <1>2, <1>3, <1>f DEF CountOK
<1>7. BatchOK'
  BY <1>3 DEF BatchOK
<1>8. \A t \in TableIds : Loaded(t)' /\ mem'[t] = NoCursor => stored'[t] = NoCursor
  BY <1>1, <1>3 DEF WarmInv
<1> QED BY <1>2, <1>4, <1>5, <1>6, <1>7, <1>8 DEF WarmInv

(* The rows were stored and the cursor goes to the last of them. *)
LEMMA AcceptedInv ==
    ASSUME WarmInv, InsertAccepted
    PROVE  WarmInv'
<1>t. WarmTypeOK
  BY DEF WarmInv
<1>f. /\ refusals \in Nat /\ warmStarts \in Nat /\ at \in TableIds
      /\ \A r \in WarmRows : created[r] \in Nat /\ copies[r] \in Nat
      /\ \A t \in TableIds : mem[t] \in Cursors /\ stored[t] \in Cursors
                             /\ Cursor(t) \in Cursors
      /\ Visible \subseteq WarmRows
  BY <1>t, WarmFacts
<1>k. \A r \in WarmRows : Key(r)[1] = created[r] /\ Key(r)[2] = r[2] /\ Key(r) \in Cursors
                        /\ r[1] \in TableIds
  BY <1>f, RowFacts DEF Key, Cursors
<1> DEFINE L == LastOf(batch)
<1>1. /\ exporter = "insert" /\ Deliver /\ GoOn
      /\ mem' = [mem EXCEPT ![at] = Key(L)]
      /\ UNCHANGED <<rowsVars, stored, refusals, warmStarts>>
  BY DEF InsertAccepted, faultVars
<1>2. /\ copies' \in [WarmRows -> Nat]
      /\ \A r \in batch : copies'[r] = copies[r] + 1
      /\ \A r \in WarmRows : r \notin batch => copies'[r] = copies[r]
      /\ \A r \in WarmRows : copies[r] <= copies'[r]
      /\ Visible' = Visible /\ UNCHANGED <<second, created, staged>>
      /\ RowsOK'
      /\ \A r \in batch : r \in WarmRows /\ copies[r] <= refusals + warmStarts
  BY <1>1, DeliverFacts
<1>b. /\ batch \subseteq Visible
      /\ \A r \in batch : r[1] = at /\ ~UpTo(Key(r), Cursor(at))
      /\ \E last \in batch : \A q \in batch : UpTo(Key(q), Key(last))
      /\ \A r \in Visible :
            r[1] = at /\ r \notin batch /\ ~UpTo(Key(r), Cursor(at)) =>
                \A q \in batch : created[q] <= created[r]
  BY <1>1 DEF WarmInv, BatchOK
<1>3. L \in batch /\ \A q \in batch : UpTo(Key(q), Key(L))
  BY <1>b DEF LastOf
<1> HIDE DEF L
<1>4. /\ L \in WarmRows /\ L[1] = at /\ Key(L) \in Cursors /\ Key(L) # NoCursor
      /\ ~UpTo(Key(L), Cursor(at)) /\ copies'[L] > 0 /\ L \in Visible
  <2>1. L \in WarmRows /\ L \in Visible /\ L[1] = at /\ ~UpTo(Key(L), Cursor(at))
    BY <1>2, <1>3, <1>b
  <2>2. created[L] > 0
    BY <2>1 DEF Visible
  <2>3. copies'[L] > 0
    BY <2>1, <1>2, <1>3, <1>f
  <2>4. Key(L) \in Cursors
    BY <2>1, <1>k
  <2>5. Key(L) # NoCursor
    BY <2>2 DEF Key, NoCursor
  <2> QED BY <2>1, <2>3, <2>4, <2>5
<1>5. mem'[at] = Key(L) /\ \A t \in TableIds : t # at => mem'[t] = mem[t]
  BY <1>1, <1>f, <1>t DEF WarmTypeOK
<1>6. \A t \in TableIds : t # at => Cursor(t)' = Cursor(t)
  BY <1>1, <1>4, <1>5, <1>f DEF Cursor
<1>7. /\ exporter' \in {"select", "commit"} /\ batch' = {} /\ at' \in TableIds
      /\ \A t \in TableIds : Loaded(t)' => t <= at
  BY <1>1, <1>t, GoOnFacts
<1>8. WarmTypeOK'
  <2>1. mem' \in [TableIds -> Cursors]
    BY <1>1, <1>4, <1>t DEF WarmTypeOK
  <2> QED BY <2>1, <1>1, <1>2, <1>7, <1>t DEF WarmTypeOK, rowsVars
<1>9. \A t \in TableIds : \A c \in Cursors : CursorOK(t, c) => CursorOK(t, c)'
  <2> SUFFICES ASSUME NEW t \in TableIds
               PROVE  \A c \in Cursors : CursorOK(t, c) => CursorOK(t, c)'
    OBVIOUS
  <2> QED BY <1>2, <1>8, CursorKept
<1>10. \A r \in Visible : r[1] = at /\ UpTo(Key(r), Key(L)) =>
          \E q \in WarmRows : q[1] = at /\ copies'[q] > 0 /\ created[q] = created[r]
  <2> SUFFICES ASSUME NEW r \in Visible, r[1] = at, UpTo(Key(r), Key(L))
               PROVE  \E q \in WarmRows : q[1] = at /\ copies'[q] > 0 /\ created[q] = created[r]
    OBVIOUS
  <2>r. r \in WarmRows
    BY <1>f
  <2>1. CASE r \in batch
    BY <2>1, <2>r, <1>2, <1>f
  <2>2. CASE r \notin batch /\ ~UpTo(Key(r), Cursor(at))
    <3>1. created[L] <= created[r]
      BY <2>2, <1>3, <1>b
    <3>2. created[r] <= created[L]
      BY <2>r, <1>4, <1>k, <1>f DEF UpTo
    <3> QED BY <3>1, <3>2, <2>r, <1>4, <1>f
  <2>3. CASE UpTo(Key(r), Cursor(at))
    <3>1. Covered(r)
      BY <2>3, <1>f DEF WarmInv, CursorOK, Cursor
    <3>2. PICK q \in WarmRows : q[1] = r[1] /\ copies[q] > 0 /\ created[q] = created[r]
      BY <3>1 DEF Covered
    <3>3. copies[q] \in Nat /\ copies'[q] \in Nat /\ copies[q] <= copies'[q]
      BY <1>2, <1>f
    <3>4. copies'[q] > 0
      BY <3>2, <3>3
    <3> QED BY <3>2, <3>4
  <2> QED BY <2>1, <2>2, <2>3
<1>11. ASSUME NEW t \in TableIds
       PROVE  CursorOK(t, mem[t])' /\ CursorOK(t, stored[t])'
  <2>1. PICK m \in Cursors, s \in Cursors : m = mem'[t] /\ s = stored[t]
    BY <1>f, <1>4, <1>5
  <2>2. CursorOK(t, s)'
    BY <2>1, <1>9 DEF WarmInv
  <2>3. CursorOK(t, m)'
    <3>1. CASE t # at
      BY <3>1, <2>1, <1>5, <1>9 DEF WarmInv
    <3>2. CASE t = at
      <4>1. m = Key(L) /\ Key(L) = <<created'[L], L[2]>> /\ L[1] = t /\ copies'[L] > 0
        BY <3>2, <2>1, <1>4, <1>5, <1>2 DEF Key
      <4>2. \A r \in Visible' : r[1] = t /\ UpTo(<<created'[r], r[2]>>, m) =>
                \E q \in WarmRows : q[1] = r[1] /\ copies'[q] > 0 /\ created'[q] = created'[r]
        BY <3>2, <4>1, <1>2, <1>10 DEF Key
      <4> QED BY <4>1, <4>2, <1>4 DEF CursorOK, Key, Covered, UpTo
    <3> QED BY <3>1, <3>2
  <2> QED BY <2>1, <2>2, <2>3, <1>1 DEF CursorOK
<1>12. ASSUME NEW r \in WarmRows PROVE CountOK(r)'
  <2>1. CountOK(r) /\ Key(r)' = Key(r) /\ copies[r] \in Nat /\ copies'[r] \in Nat
    BY <1>2, <1>f DEF WarmInv, Key
  <2>2. CASE r \in batch
    <3>1. r[1] = at /\ UpTo(Key(r), Key(L)) /\ copies'[r] <= 1 + refusals + warmStarts
      BY <2>2, <1>2, <1>3, <1>b, <1>f
    <3>2. Cursor(r[1])' = Key(L)
      BY <3>1, <1>1, <1>4, <1>5, <1>f DEF Cursor
    <3> QED BY <3>1, <3>2, <2>1, <1>1 DEF CountOK
  <2>3. CASE r \notin batch /\ r[1] # at
    <3>1. Cursor(r[1])' = Cursor(r[1]) /\ copies'[r] = copies[r]
      BY <2>3, <1>2, <1>6, <1>k
    <3> QED BY <3>1, <2>1, <1>1 DEF CountOK
  <2>4. CASE r \notin batch /\ r[1] = at
    <3>1. Cursor(r[1])' = Key(L) /\ copies'[r] = copies[r]
      BY <2>4, <1>1, <1>2, <1>4, <1>5 DEF Cursor
    <3>2. ~UpTo(Key(r), Key(L)) => ~UpTo(Key(r), Cursor(at))
      <4>1. Key(r) \in Nat \X Nat /\ Key(L) \in Nat \X Nat /\ Cursor(at) \in Nat \X Nat
        BY <1>f, <1>k, <1>4 DEF Cursors
      <4> QED BY <4>1, <1>4 DEF UpTo
    <3> QED BY <3>1, <3>2, <2>1, <2>4, <1>1 DEF CountOK
  <2> QED BY <2>2, <2>3, <2>4
<1>13. BatchOK'
  BY <1>7 DEF BatchOK
<1>14. ASSUME NEW t \in TableIds, Loaded(t)', mem'[t] = NoCursor
       PROVE  stored'[t] = NoCursor
  <2>1. t <= at /\ t # at
    BY <1>14, <1>4, <1>5, <1>7
  <2>2. Loaded(t) /\ mem[t] = NoCursor
    BY <2>1, <1>1, <1>5, <1>14, <1>f, RowFacts DEF Loaded, TableIds
  <2> QED BY <2>2, <1>1 DEF WarmInv
<1> QED BY <1>2, <1>8, <1>11, <1>12, <1>13, <1>14 DEF WarmInv

(* A restart goes back to the stored cursors; the rows of an open           *)
(* transaction were never visible.                                          *)
LEMMA RestartInv ==
    ASSUME WarmInv, RestartExporter
    PROVE  WarmInv'
<1>t. WarmTypeOK
  BY DEF WarmInv
<1>f. /\ refusals \in Nat /\ warmStarts \in Nat /\ 1 \in TableIds
      /\ \A r \in WarmRows : created[r] \in Nat /\ copies[r] \in Nat
      /\ \A t \in TableIds : stored[t] \in Cursors
      /\ second \in Nat /\ NoCursor \in Cursors
      /\ Visible \subseteq WarmRows
  BY <1>t, WarmFacts, RowFacts
<1>1. /\ warmStarts' = warmStarts + 1 /\ warmStarts' \in 0..MaxWarmStarts
      /\ mem' = [t \in TableIds |-> NoCursor] /\ exporter' = "starting" /\ batch' = {} /\ at' = 1
      /\ created' = [r \in WarmRows |-> IF r \in staged THEN 0 ELSE created[r]]
      /\ staged' = {}
      /\ UNCHANGED <<second, copies, stored, refusals>>
  BY <1>f, RowFacts DEF RestartExporter
<1>2. WarmTypeOK'
  <2>1. created' \in [WarmRows -> Nat] /\ mem' \in [TableIds -> Cursors]
    BY <1>1, <1>f
  <2> QED BY <2>1, <1>1, <1>f, <1>t DEF WarmTypeOK
<1>3. Visible' = Visible /\ \A r \in Visible : created'[r] = created[r]
  BY <1>1, <1>f DEF Visible
<1>4. RowsOK'
  BY <1>1, <1>3, <1>f DEF WarmInv, RowsOK
<1>5. ASSUME NEW t \in TableIds
      PROVE  CursorOK(t, mem[t])' /\ CursorOK(t, stored[t])'
  <2>1. \A c \in Cursors : CursorOK(t, c) => CursorOK(t, c)'
    BY <1>1, <1>2, <1>3, <1>f, CursorKept
  <2>2. CursorOK(t, NoCursor)
    BY <1>f DEF CursorOK, NoCursor, UpTo, Key, Visible
  <2>3. PICK m \in Cursors, s \in Cursors : m = NoCursor /\ s = stored[t]
    BY <1>f
  <2>4. CursorOK(t, m)' /\ CursorOK(t, s)'
    BY <2>1, <2>2, <2>3 DEF WarmInv
  <2>5. mem'[t] = m
    BY <2>3, <1>1
  <2> QED BY <2>3, <2>4, <2>5, <1>1 DEF CursorOK
<1>6. ASSUME NEW r \in WarmRows PROVE CountOK(r)'
  <2>1. copies[r] <= 1 + refusals + warmStarts /\ copies[r] \in Nat
    BY <1>f DEF WarmInv, CountOK
  <2>2. copies'[r] <= refusals' + warmStarts'
    BY <2>1, <1>1, <1>f
  <2> QED BY <2>1, <2>2, <1>1, <1>f DEF CountOK
<1>7. BatchOK' /\ \A t \in TableIds : ~Loaded(t)'
  BY <1>1 DEF BatchOK, Loaded
<1> QED BY <1>2, <1>4, <1>5, <1>6, <1>7 DEF WarmInv

LEMMA NextWarmInv == WarmInv /\ [WarmNext]_warmVars => WarmInv'
<1>1. WarmInv /\ InsertRefused => WarmInv'
  BY QuietInv, UnknownDelivery DEF InsertRefused
<1>2. WarmInv /\ ExportRaises => WarmInv'
  BY QuietInv, UnknownDelivery DEF ExportRaises
<1> QED BY <1>1, <1>2, WriterInv, QuietInv, SelectInv, AcceptedInv, RestartInv
        DEF WarmNext, ExportStep

-----------------------------------------------------------------------------
(* Every variable of the warm export keeps its type. *)
THEOREM WarmTypeCorrect == WarmSpec => []WarmTypeOK
<1>1. WarmInv => WarmTypeOK
  BY DEF WarmInv
<1> QED BY <1>1, InitWarmInv, NextWarmInv, PTL DEF WarmSpec

(* The cursor loses nothing but within the second of an exported row. *)
THEOREM WarmLoss == WarmSpec => []LostOnlyInItsSecond
<1>1. WarmInv => LostOnlyInItsSecond
  <2> SUFFICES ASSUME WarmInv, NEW r \in WarmRows, Passed(r) PROVE Covered(r)
    BY DEF LostOnlyInItsSecond, Covered
  <2>1. r[1] \in TableIds
    BY RowFacts
  <2>2. CursorOK(r[1], mem[r[1]]) /\ CursorOK(r[1], stored[r[1]])
    BY <2>1 DEF WarmInv
  <2> QED BY <2>2 DEF CursorOK, Passed, Cursor
<1> QED BY <1>1, InitWarmInv, NextWarmInv, PTL DEF WarmSpec

(* A row is copied more than once only for a refusal or a restart. *)
THEOREM WarmCopies == WarmSpec => []CopiesHaveACause
<1>1. WarmInv => CopiesHaveACause
  BY DEF WarmInv, CountOK, CopiesHaveACause
<1> QED BY <1>1, InitWarmInv, NextWarmInv, PTL DEF WarmSpec

-----------------------------------------------------------------------------
(***************************************************************************)
(* ColdArchive, for any rows, runners, policies and bounds.                *)
(* The argument: a run deletes only rows it has put into a file, or rows   *)
(* older than the retention it read, which stays one that has been in      *)
(* force; files never lose rows, and rows only get older.                  *)
(***************************************************************************)

(* A row that may be deleted, when A are the archived ones. *)
Expendable(r, A) ==
    /\ born[r] # 0
    /\ r \in A \/ \E d \in inForce : born[r] + d < day

RunOK(run, A) ==
    /\ run.start <= day
    /\ run.pc \in {"select", "write", "delete", "purge", "commit"} => run.keep \in inForce
    /\ run.batch \subseteq {r \in ColdRows : born[r] # 0}
    /\ run.pc = "delete" => run.batch \subseteq A
    /\ \A r \in run.gone : Expendable(r, A)

ColdInv ==
    /\ ColdTypeOK
    /\ Effective(keepDays) \in inForce
    /\ \A r \in hot : born[r] # 0
    /\ \A k \in Runners : RunOK(runner[k], archived)

LEMMA NoRunOK == ColdTypeOK => NoRun \in Runs /\ \A A : RunOK(NoRun, A)
BY DEF ColdTypeOK, NoRun, Runs, RunOK

LEMMA InitColdInv == ColdInit => ColdInv
<1> SUFFICES ASSUME ColdInit PROVE ColdInv
  OBVIOUS
<1>1. DefaultKeep \in Nat /\ MaxDay \in Nat /\ 1 <= MaxDay
  BY ColdAssumption
<1>2. NoRun \in Runs
  BY DEF NoRun, Runs
<1>3. ColdTypeOK
  BY <1>1, <1>2, ColdAssumption DEF ColdInit, ColdTypeOK
<1> QED BY <1>3, NoRunOK DEF ColdInv, ColdInit, Effective

(* A step of one run. *)
LEMMA RunMoves ==
    ASSUME ColdInv, NEW k \in Runners,
           hot' \subseteq hot, archived \subseteq archived', archived' \subseteq ColdRows
    PROVE  \A run \in Runs : MoveRun(k, run) /\ RunOK(run, archived') => ColdInv'
<1> SUFFICES ASSUME NEW run \in Runs, MoveRun(k, run), RunOK(run, archived')
             PROVE  ColdInv'
  OBVIOUS
<1>t. ColdTypeOK
  BY DEF ColdInv
<1>1. runner' = [runner EXCEPT ![k] = run] /\ UNCHANGED <<day, born, keepDays, inForce, restarts>>
  BY DEF MoveRun
<1>2. ColdTypeOK'
  BY <1>t, <1>1 DEF ColdTypeOK
<1>3. runner'[k] = run /\ \A j \in Runners : j # k => runner'[j] = runner[j]
  BY <1>t, <1>1 DEF ColdTypeOK
<1>4. \A j \in Runners : RunOK(runner[j], archived)
  BY DEF ColdInv
<1>5. \A j \in Runners : RunOK(runner[j], archived')
  BY <1>4 DEF RunOK, Expendable
<1>6. \A j \in Runners : RunOK(runner'[j], archived')
  BY <1>3, <1>5
<1>7. \A j \in Runners : RunOK(runner[j], archived)'
  BY <1>1, <1>6 DEF RunOK, Expendable
<1> QED BY <1>1, <1>2, <1>7 DEF ColdInv, Effective

LEMMA KeepIsNat == ColdTypeOK => \A d \in Retentions \cup {0} : Effective(d) \in Nat
BY ColdAssumption DEF Effective

LEMMA RunStepInv ==
    ASSUME ColdInv, NEW k \in Runners, RunStep(k) \/ RunRaises(k)
    PROVE  ColdInv'
<1>t. ColdTypeOK
  BY DEF ColdInv
<1>r. runner[k] \in Runs /\ hot \subseteq ColdRows /\ archived \subseteq ColdRows
      /\ day \in Nat /\ inForce \subseteq Nat
  BY <1>t, ColdAssumption DEF ColdTypeOK
<1>b. \A r \in ColdRows : born[r] \in Nat
  BY <1>t DEF ColdTypeOK
<1>k. RunOK(runner[k], archived)
  BY DEF ColdInv
<1>h. \A r \in hot : born[r] # 0
  BY DEF ColdInv
<1>n. NoRun \in Runs /\ \A A : RunOK(NoRun, A)
  BY <1>t, NoRunOK
<1>1. CASE BeginRun(k)
  <2> DEFINE run == [NoRun EXCEPT !.pc = "policy", !.start = day]
  <2>1. run \in Runs
    BY <1>r DEF NoRun, Runs
  <2>2. MoveRun(k, run) /\ UNCHANGED <<hot, archived>>
    BY <1>1 DEF BeginRun
  <2>3. RunOK(run, archived')
    BY <1>r DEF NoRun, RunOK
  <2> QED BY <2>1, <2>2, <2>3, <1>r, RunMoves
<1>2. CASE ReadRetention(k)
  <2> DEFINE run == [runner[k] EXCEPT !.pc = "select", !.keep = Effective(keepDays)]
  <2>1. Effective(keepDays) \in Nat
    BY <1>t, KeepIsNat DEF ColdTypeOK
  <2>2. Effective(keepDays) \in inForce
    BY DEF ColdInv
  <2>3. run \in Runs
    BY <2>1, <1>r DEF Runs
  <2>4. MoveRun(k, run) /\ UNCHANGED <<hot, archived>>
    BY <1>2 DEF ReadRetention
  <2>5. RunOK(run, archived')
    BY <2>2, <2>4, <1>2, <1>k, <1>r DEF RunOK, ReadRetention, Runs
  <2> QED BY <2>3, <2>4, <2>5, <1>r, RunMoves
<1>3. CASE SelectBatch(k)
  <2>1. PICK B \in SUBSET {r \in Rows(runner[k]) : OlderThan(r, runner[k], ArchiveAfter)} :
            MoveRun(k, [runner[k] EXCEPT !.batch = B,
                           !.pc = IF B = {} THEN "purge" ELSE "write"])
    BY <1>3 DEF SelectBatch
  <2> DEFINE run == [runner[k] EXCEPT !.batch = B,
                        !.pc = IF B = {} THEN "purge" ELSE "write"]
  <2>2. runner[k].pc = "select" /\ UNCHANGED <<hot, archived>>
    BY <1>3 DEF SelectBatch
  <2>3. B \subseteq hot
    BY <2>1 DEF Rows
  <2>4. run \in Runs
    BY <2>3, <1>r DEF Runs
  <2>5. RunOK(run, archived')
    BY <2>2, <2>3, <1>k, <1>r, <1>h DEF RunOK, Runs
  <2> QED BY <2>1, <2>2, <2>4, <2>5, <1>r, RunMoves
<1>4. CASE WriteFiles(k)
  <2> DEFINE run == [runner[k] EXCEPT !.pc = "delete"]
  <2>1. runner[k].pc = "write" /\ MoveRun(k, run) /\ UNCHANGED hot
        /\ archived' = archived \cup runner[k].batch
    BY <1>4 DEF WriteFiles
  <2>2. run \in Runs /\ runner[k].batch \subseteq ColdRows
    BY <1>r DEF Runs
  <2>3. RunOK(run, archived')
    BY <2>1, <1>k, <1>r DEF RunOK, Runs, Expendable
  <2> QED BY <2>1, <2>2, <2>3, <1>r, RunMoves
<1>5. CASE DeleteBatch(k)
  <2> DEFINE run == [runner[k] EXCEPT !.pc = "select", !.batch = {},
                        !.gone = @ \cup runner[k].batch]
  <2>1. runner[k].pc = "delete" /\ MoveRun(k, run) /\ UNCHANGED <<hot, archived>>
    BY <1>5 DEF DeleteBatch
  <2>2. run \in Runs
    BY <1>r DEF Runs
  <2>3. \A r \in runner[k].batch : Expendable(r, archived)
    BY <2>1, <1>k DEF RunOK, Expendable
  <2>4. \A r \in runner[k].gone : Expendable(r, archived)
    BY <1>k DEF RunOK
  <2>5. run.gone = runner[k].gone \cup runner[k].batch /\ run.batch = {}
        /\ run.pc = "select" /\ run.start = runner[k].start /\ run.keep = runner[k].keep
    BY <1>r DEF Runs
  <2>6. runner[k].start <= day /\ runner[k].keep \in inForce
    BY <2>1, <1>k DEF RunOK
  <2> HIDE DEF run
  <2>7. RunOK(run, archived')
    BY <2>1, <2>3, <2>4, <2>5, <2>6 DEF RunOK
  <2> QED BY <2>1, <2>2, <2>7, <1>r, RunMoves
<1>6. CASE Purge(k)
  <2> DEFINE old == {r \in Rows(runner[k]) : OlderThan(r, runner[k], runner[k].keep)}
             run == [runner[k] EXCEPT !.gone = @ \cup old,
                        !.pc = IF runner[k].table = 1 THEN "select" ELSE "commit",
                        !.table = 2]
  <2>1. runner[k].pc = "purge" /\ MoveRun(k, run) /\ UNCHANGED <<hot, archived>>
    BY <1>6 DEF Purge
  <2>2. runner[k].start <= day /\ runner[k].keep \in inForce
    BY <2>1, <1>k DEF RunOK
  <2>3. runner[k].start \in Nat /\ runner[k].keep \in Nat
    BY <1>r DEF Runs
  <2>4. old \subseteq hot
    BY DEF Rows
  <2>5. \A r \in old : Expendable(r, archived)
    <3> SUFFICES ASSUME NEW r \in old PROVE Expendable(r, archived)
      OBVIOUS
    <3>1. born[r] + runner[k].keep < runner[k].start
      BY DEF OlderThan
    <3>2. born[r] \in Nat /\ born[r] # 0
      BY <2>4, <1>b, <1>h, <1>r
    <3>3. born[r] + runner[k].keep < day
      BY <3>1, <3>2, <2>2, <2>3, <1>r
    <3> QED BY <3>2, <3>3, <2>2 DEF Expendable
  <2>6. \A r \in runner[k].gone : Expendable(r, archived)
    BY <1>k DEF RunOK
  <2>7. run \in Runs
    BY <2>4, <1>r DEF Runs
  <2>8. run.gone = runner[k].gone \cup old /\ run.batch = runner[k].batch
        /\ run.pc \in {"select", "commit"} /\ run.start = runner[k].start
        /\ run.keep = runner[k].keep
    BY <1>r DEF Runs
  <2> HIDE DEF run, old
  <2>9. RunOK(run, archived')
    BY <2>1, <2>2, <2>5, <2>6, <2>8, <1>k DEF RunOK
  <2> QED BY <2>1, <2>7, <2>9, <1>r, RunMoves
<1>7. CASE CommitRun(k)
  <2>1. MoveRun(k, NoRun) /\ hot' \subseteq hot /\ UNCHANGED archived
    BY <1>7 DEF CommitRun
  <2> QED BY <2>1, <1>n, <1>r, RunMoves
<1>8. CASE RunRaises(k)
  <2> DEFINE run == [NoRun EXCEPT !.pc = IF k = ArchiveTask THEN "dead" ELSE "idle"]
  <2>1. PICK B \in PartlyWritten(runner[k]) : archived' = archived \cup B
    BY <1>8 DEF RunRaises
  <2>2. B \subseteq ColdRows
    BY <2>1, <1>r DEF PartlyWritten, Runs
  <2>3. MoveRun(k, run) /\ UNCHANGED hot
    BY <1>8 DEF RunRaises
  <2>4. run \in Runs /\ RunOK(run, archived')
    BY <1>r DEF NoRun, Runs, RunOK
  <2> QED BY <2>1, <2>2, <2>3, <2>4, <1>r, RunMoves
<1> QED BY <1>1, <1>2, <1>3, <1>4, <1>5, <1>6, <1>7, <1>8 DEF RunStep

(* What goes on around the runs: the clock, writes, PUT and a restart.      *)
LEMMA AroundInv ==
    ASSUME ColdInv,
           \/ NextDay
           \/ \E r \in ColdRows : WriteRow(r)
           \/ \E d \in Retentions : PutRetention(d)
           \/ RestartProcess
           \/ UNCHANGED coldVars
    PROVE  ColdInv'
<1>t. ColdTypeOK
  BY DEF ColdInv
<1>d. day \in Nat /\ MaxDay \in Nat /\ inForce \subseteq Nat
  BY <1>t, ColdAssumption DEF ColdTypeOK
<1>b. \A r \in ColdRows : born[r] \in Nat
  BY <1>t DEF ColdTypeOK
<1>g. \A k \in Runners : /\ runner[k].start \in Nat
                         /\ runner[k].gone \subseteq ColdRows
                         /\ runner[k].batch \subseteq ColdRows
  BY <1>t DEF ColdTypeOK, Runs
<1>k. \A k \in Runners : RunOK(runner[k], archived)
  BY DEF ColdInv
<1>1. CASE NextDay
  <2>1. day' = day + 1 /\ day' \in 1..MaxDay
        /\ UNCHANGED <<born, hot, archived, keepDays, inForce, runner, restarts>>
    BY <1>1, <1>t, <1>d DEF NextDay, ColdTypeOK
  <2>2. ColdTypeOK'
    BY <2>1, <1>t DEF ColdTypeOK
  <2>3. \A r \in ColdRows : Expendable(r, archived) => Expendable(r, archived)'
    BY <2>1, <1>b, <1>d DEF Expendable
  <2>4. \A k \in Runners : RunOK(runner[k], archived)'
    BY <2>1, <2>3, <1>g, <1>k, <1>d DEF RunOK
  <2> QED BY <2>1, <2>2, <2>4 DEF ColdInv, Effective
<1>2. ASSUME NEW r \in ColdRows, WriteRow(r)
      PROVE  ColdInv'
  <2>1. born[r] = 0 /\ hot' = hot \cup {r}
        /\ UNCHANGED <<day, archived, keepDays, inForce, runner, restarts>>
    BY <1>2 DEF WriteRow
  <2>2. born'[r] = day /\ day # 0 /\ \A q \in ColdRows : q # r => born'[q] = born[q]
    BY <1>2, <1>t DEF WriteRow, ColdTypeOK
  <2>3. ColdTypeOK'
    BY <1>2, <2>1, <1>t, <1>d DEF WriteRow, ColdTypeOK
  <2>4. \A q \in ColdRows : born[q] # 0 => born'[q] = born[q]
    BY <2>1, <2>2
  <2>5. \A k \in Runners : RunOK(runner[k], archived)'
    <3> SUFFICES ASSUME NEW k \in Runners PROVE RunOK(runner[k], archived)'
      OBVIOUS
    <3>1. RunOK(runner[k], archived) /\ runner[k].gone \subseteq ColdRows
          /\ runner[k].batch \subseteq ColdRows
      BY <1>k, <1>g
    <3> QED BY <3>1, <2>1, <2>4 DEF RunOK, Expendable
  <2>6. \A q \in hot' : born'[q] # 0
    BY <2>1, <2>2, <2>4, <1>t DEF ColdInv, ColdTypeOK
  <2> QED BY <2>1, <2>3, <2>5, <2>6 DEF ColdInv, Effective
<1>3. ASSUME NEW d \in Retentions, PutRetention(d)
      PROVE  ColdInv'
  <2>1. keepDays' = d /\ inForce' = inForce \cup {Effective(d)}
        /\ UNCHANGED <<day, born, hot, archived, runner, restarts>>
    BY <1>3 DEF PutRetention
  <2>2. Effective(d) \in Nat
    BY <1>t, KeepIsNat
  <2>3. ColdTypeOK'
    BY <2>1, <2>2, <1>t DEF ColdTypeOK
  <2>4. \A k \in Runners : RunOK(runner[k], archived)'
    BY <2>1, <1>k DEF RunOK, Expendable
  <2>5. Effective(keepDays)' = Effective(d)
    BY <2>1 DEF Effective
  <2> QED BY <2>1, <2>3, <2>4, <2>5 DEF ColdInv
<1>4. CASE RestartProcess
  <2>1. PICK k \in Runners, B \in SUBSET ColdRows : archived' = archived \cup B
    BY <1>4 DEF RestartProcess
  <2>2. runner' = [j \in Runners |-> NoRun] /\ restarts' \in 0..MaxRestarts
        /\ UNCHANGED <<day, born, hot, keepDays, inForce>>
    BY <1>4, <1>t, ColdAssumption DEF RestartProcess, ColdTypeOK
  <2>3. ColdTypeOK'
    BY <2>1, <2>2, <1>t, NoRunOK DEF ColdTypeOK
  <2>4. \A j \in Runners : RunOK(runner[j], archived)'
    BY <2>2, <1>d DEF RunOK, NoRun
  <2> QED BY <2>2, <2>3, <2>4 DEF ColdInv, Effective
<1>5. CASE UNCHANGED coldVars
  BY <1>5 DEF coldVars, ColdInv, ColdTypeOK, RunOK, Expendable, Effective
<1> QED BY <1>1, <1>2, <1>3, <1>4, <1>5

LEMMA NextColdInv == ColdInv /\ [ColdNext]_coldVars => ColdInv'
BY RunStepInv, AroundInv DEF ColdNext

(* Only a commit takes rows out of the database, and it takes what its run  *)
(* may delete.                                                              *)
LEMMA RowsLeaveArchived ==
    ASSUME ColdInv, [ColdNext]_coldVars
    PROVE  \A r \in hot \ hot' : r \in archived \/ \E d \in inForce : born[r] + d < day
<1> SUFFICES ASSUME NEW r \in hot \ hot' PROVE Expendable(r, archived)
  BY DEF Expendable
<1>1. ASSUME NEW k \in Runners, CommitRun(k) PROVE Expendable(r, archived)
  BY <1>1 DEF CommitRun, ColdInv, RunOK
<1>2. ASSUME NEW k \in Runners, RunStep(k) \/ RunRaises(k), ~CommitRun(k) PROVE FALSE
  BY <1>2 DEF RunStep, RunRaises, BeginRun, ReadRetention, SelectBatch, WriteFiles,
     DeleteBatch, Purge
<1>3. ASSUME \/ NextDay \/ RestartProcess \/ UNCHANGED coldVars
             \/ \E q \in ColdRows : WriteRow(q)
             \/ \E d \in Retentions : PutRetention(d)
      PROVE  FALSE
  BY <1>3 DEF NextDay, RestartProcess, coldVars, WriteRow, PutRetention
<1> QED BY <1>1, <1>2, <1>3 DEF ColdNext

-----------------------------------------------------------------------------
(* Every variable of the archive keeps its type. *)
THEOREM ColdTypeCorrect == ColdSpec => []ColdTypeOK
<1>1. ColdInv => ColdTypeOK
  BY DEF ColdInv
<1> QED BY <1>1, InitColdInv, NextColdInv, PTL DEF ColdSpec

(* No run, crash, failure or change of policy costs a row its archive       *)
(* before a retention that was in force has passed.                         *)
THEOREM ArchiveBeforeDelete == ColdSpec => GoneMeansArchived
<1>1. ColdInv /\ [ColdNext]_coldVars =>
        [\A r \in hot \ hot' :
            r \in archived \/ \E d \in inForce : born[r] + d < day]_coldVars
  BY RowsLeaveArchived
<1> QED BY <1>1, InitColdInv, NextColdInv, PTL DEF ColdSpec, GoneMeansArchived
=============================================================================
