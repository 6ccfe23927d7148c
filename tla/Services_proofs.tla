-------------------------- MODULE Services_proofs ---------------------------
(***************************************************************************)
(* Proofs about the scans, recon, and the composition, which rests on the  *)
(* proofs about the other services.                                        *)
(***************************************************************************)
EXTENDS Services, Storage_proofs, Caches_proofs, Response_proofs, Agents_proofs,
        FiniteSetTheorems, TLAPS

(***************************************************************************)
(* ScanRun, for any number of tests.                                       *)
(* The argument: the rows are those of the tests that ran, at most one for *)
(* each (RowsFit), and the counters count them (CountsFit).                *)
(***************************************************************************)

Vulnerable(rows) == {r \in rows : r.outcome = "vulnerable"}

(* The staged results cover the tests done, once each, and agree with the   *)
(* committed vulnerabilities; rows are those of tests 1..n.                 *)
RowsFit(rows, n) ==
    /\ IsFiniteSet(rows)
    /\ \A r \in rows : r.test \in 1..n
    /\ \A t \in 1..n : \E r \in rows : r.test = t
    /\ \A r, s \in rows : r.test = s.test => r = s
    /\ \A r \in rows : r.outcome = "vulnerable" => vulnRows[r.test] = 1
    /\ \A r \in rows : r.outcome = "clean" => vulnRows[r.test] = 0

CountsFit(rows, n, tot, vulns, errs) ==
    tot + errs + Cardinality(Vulnerable(rows)) = n + vulns

ScanInv ==
    /\ ScanTypeOK
    /\ scanTask \in {"queued", "testing", "saving"} =>
          /\ scanStatus # "COMPLETED"
          /\ RowsFit(results, scanTest)
          /\ CountsFit(results, scanTest, total, vulnCount, errCount)
          /\ \A t \in Tests : t > scanTest => vulnRows[t] = 0
    /\ scanTask = "saving" => scanTest < ScanTests
    /\ scanStatus = "COMPLETED" =>
          /\ RowsFit(record.results, ScanTests)
          /\ CountsFit(record.results, ScanTests, record.total, record.vulnerable, record.errors)

LEMMA InitScanInv == ScanInit => ScanInv
<1> SUFFICES ASSUME ScanInit PROVE ScanInv
  OBVIOUS
<1>1. ScanTypeOK
  BY ScanAssumption DEF ScanInit, ScanTypeOK, NoRecord
<1>2. Vulnerable({}) = {}
  BY DEF Vulnerable
<1>3. RowsFit(results, scanTest)
  BY FS_EmptySet DEF ScanInit, RowsFit
<1>4. CountsFit(results, scanTest, total, vulnCount, errCount)
  BY <1>2, FS_EmptySet DEF ScanInit, CountsFit
<1>5. QED
  BY <1>1, <1>3, <1>4 DEF ScanInit, ScanInv

(* One more row, of the next test. *)
LEMMA ScanRowsGrow ==
    ASSUME NEW rows, NEW n \in Nat, RowsFit(rows, n), NEW outcome \in Outcomes,
           NEW r, r.test = n + 1, r.outcome = outcome,
           NEW more, more = rows \cup {r}
    PROVE  /\ IsFiniteSet(more)
           /\ \A s \in more : s.test \in 1..(n + 1)
           /\ \A s, u \in more : s.test = u.test => s = u
           /\ Cardinality(Vulnerable(more)) =
                 Cardinality(Vulnerable(rows)) + (IF outcome = "vulnerable" THEN 1 ELSE 0)
           /\ Cardinality(Vulnerable(rows)) \in Nat
<1>1. IsFiniteSet(rows) /\ IsFiniteSet(more)
  BY FS_AddElement DEF RowsFit
<1>2. r \notin rows /\ r.test = n + 1 /\ r.outcome = outcome
  BY DEF RowsFit
<1>3. \A s \in more : s.test \in 1..(n + 1)
  BY <1>2 DEF RowsFit
<1>5. \A s, u \in more : s.test = u.test => s = u
  BY <1>2 DEF RowsFit
<1>6. IsFiniteSet(Vulnerable(rows)) /\ Vulnerable(rows) \subseteq rows
  BY <1>1, FS_Subset DEF Vulnerable
<1>7. Cardinality(Vulnerable(rows)) \in Nat
  BY <1>6, FS_CardinalityType
<1>8. CASE outcome = "vulnerable"
  <2>1. Vulnerable(more) = Vulnerable(rows) \cup {r}
    BY <1>2, <1>8 DEF Vulnerable
  <2>2. Cardinality(Vulnerable(more)) = Cardinality(Vulnerable(rows)) + 1
    <3>1. r \notin Vulnerable(rows)
      BY <1>2 DEF Vulnerable
    <3>2. QED
      BY <1>6, <2>1, <3>1, FS_AddElement
  <2>3. QED
    BY <1>1, <1>3, <1>5, <1>7, <1>8, <2>2
<1>9. CASE outcome # "vulnerable"
  <2>1. Vulnerable(more) = Vulnerable(rows)
    BY <1>2, <1>9 DEF Vulnerable
  <2>2. QED
    BY <1>1, <1>3, <1>5, <1>7, <1>9, <2>1
<1>10. QED
  BY <1>8, <1>9

(* AddResult, after a count of the counters that balances it. *)
LEMMA AddResultInv ==
    ASSUME ScanInv, scanTask \in {"testing", "saving"}, scanTest < ScanTests,
           NEW outcome \in Outcomes, AddResult(outcome),
           vulnRows' \in [Tests -> Nat],
           total' \in Nat, vulnCount' \in Nat, errCount' \in Nat,
           \A t \in Tests : t # scanTest + 1 => vulnRows'[t] = vulnRows[t],
           outcome = "vulnerable" => vulnRows'[scanTest + 1] = 1,
           outcome = "clean" => vulnRows'[scanTest + 1] = 0,
           total' + errCount' + (IF outcome = "vulnerable" THEN 1 ELSE 0) + vulnCount
              = total + errCount + vulnCount' + 1
    PROVE  ScanInv'
<1> DEFINE r == [test |-> scanTest + 1, outcome |-> outcome]
<1>1. /\ results' = results \cup {r}
      /\ scanTest' = scanTest + 1
      /\ scanTask' = "testing"
      /\ scanStatus' = scanStatus /\ record' = record
  BY DEF AddResult
<1>2. /\ scanTest \in Nat /\ scanTest + 1 \in Tests /\ scanTest + 1 \in 0..ScanTests
      /\ total \in Nat /\ errCount \in Nat /\ vulnCount \in Nat
  <2>1. /\ ScanTests \in Nat /\ scanTest \in 0..ScanTests
        /\ total \in Nat /\ errCount \in Nat /\ vulnCount \in Nat
    BY ScanAssumption DEF ScanInv, ScanTypeOK
  <2>2. QED
    BY <2>1 DEF Tests
<1>3. RowsFit(results, scanTest) /\ scanStatus # "COMPLETED"
  BY DEF ScanInv
<1>4. /\ IsFiniteSet(results')
      /\ \A s \in results' : s.test \in 1..(scanTest + 1)
      /\ \A t \in 1..(scanTest + 1) : \E s \in results' : s.test = t
      /\ \A s, u \in results' : s.test = u.test => s = u
      /\ Cardinality(Vulnerable(results')) =
            Cardinality(Vulnerable(results)) + (IF outcome = "vulnerable" THEN 1 ELSE 0)
      /\ Cardinality(Vulnerable(results)) \in Nat
  <2>1. results' = results \cup {r} /\ r.test = scanTest + 1 /\ r.outcome = outcome
    BY <1>1
  <2>2. scanTest \in Nat /\ RowsFit(results, scanTest)
    BY <1>2, <1>3
  <2>3. \A t \in 1..(scanTest + 1) : \E s \in results' : s.test = t
    <3> SUFFICES ASSUME NEW t \in 1..(scanTest + 1) PROVE \E s \in results' : s.test = t
      OBVIOUS
    <3>1. CASE t = scanTest + 1
      BY <2>1, <3>1
    <3>2. CASE t \in 1..scanTest
      BY <2>1, <2>2, <3>2 DEF RowsFit
    <3>3. QED
      BY <2>2, <3>1, <3>2
  <2> HIDE DEF r
  <2>4. QED
    BY <2>1, <2>2, <2>3, ScanRowsGrow
<1>5. ScanTypeOK'
  <2>1. r \in Result
    BY <1>2 DEF Result
  <2>2. QED
    BY <1>1, <1>2, <2>1 DEF ScanInv, ScanTypeOK
<1>6. \A s \in results' : (s.outcome = "vulnerable" => vulnRows'[s.test] = 1)
                          /\ (s.outcome = "clean" => vulnRows'[s.test] = 0)
  <2> SUFFICES ASSUME NEW s \in results'
               PROVE  (s.outcome = "vulnerable" => vulnRows'[s.test] = 1)
                      /\ (s.outcome = "clean" => vulnRows'[s.test] = 0)
    OBVIOUS
  <2>1. CASE s = r
    BY <2>1
  <2>2. CASE s \in results
    <3>1. s.test \in 1..scanTest
      BY <1>3, <2>2 DEF RowsFit
    <3>2. \A k \in 1..scanTest : k \in Tests /\ k # scanTest + 1
      BY <1>2, ScanAssumption DEF Tests
    <3>3. QED
      BY <1>3, <2>2, <3>1, <3>2 DEF RowsFit
  <2>3. QED
    BY <1>1, <2>1, <2>2
<1>7. RowsFit(results, scanTest)'
  BY <1>1, <1>4, <1>6 DEF RowsFit
<1>8. CountsFit(results, scanTest, total, vulnCount, errCount)'
  <2>1. total + errCount + Cardinality(Vulnerable(results)) = scanTest + vulnCount
    BY DEF ScanInv, CountsFit
  <2>2. total' + errCount' + Cardinality(Vulnerable(results')) = scanTest + 1 + vulnCount'
    <3>1. CASE outcome = "vulnerable"
      BY <1>2, <1>4, <2>1, <3>1
    <3>2. CASE outcome # "vulnerable"
      BY <1>2, <1>4, <2>1, <3>2
    <3>3. QED
      BY <3>1, <3>2
  <2>3. QED
    BY <1>1, <2>2 DEF CountsFit, Vulnerable
<1>9. \A t \in Tests : t > scanTest' => vulnRows'[t] = 0
  <2>1. \A t \in Tests : t > scanTest + 1 => t > scanTest /\ t # scanTest + 1
    BY <1>2 DEF Tests
  <2>2. QED
    BY <1>1, <2>1 DEF ScanInv
<1>10. QED
  BY <1>1, <1>3, <1>5, <1>7, <1>8, <1>9 DEF ScanInv, Tests

LEMMA NextScanInv == ScanInv /\ [ScanNext]_scanVars => ScanInv'
<1> SUFFICES ASSUME ScanInv, [ScanNext]_scanVars PROVE ScanInv'
  OBVIOUS
<1>0. /\ scanTest \in Nat /\ total \in Nat /\ vulnCount \in Nat /\ errCount \in Nat
      /\ vulnRows \in [Tests -> Nat]
      /\ scanTask \in {"testing", "saving"} /\ scanTest < ScanTests =>
            scanTest + 1 \in Tests /\ vulnRows[scanTest + 1] = 0
  BY ScanAssumption DEF ScanInv, ScanTypeOK, Tests
<1>1. CASE BeginScan
  BY <1>1 DEF BeginScan, ScanInv, ScanTypeOK, RowsFit, CountsFit, Tests, Vulnerable
<1>2. CASE TestFindsNothing
  BY <1>2, <1>0, AddResultInv DEF TestFindsNothing, InTest, Outcomes
<1>3. CASE TestRaises
  BY <1>3, <1>0, AddResultInv DEF TestRaises, InTest, Outcomes
<1>4. CASE TestFindsVulnerability
  <2>1. scanTask' = "saving" /\ total' = total + 1 /\ vulnCount' = vulnCount + 1 /\ InTest
        /\ UNCHANGED <<scanStatus, scanTest, errCount, results, vulnRows, record>>
    BY <1>4 DEF TestFindsVulnerability
  <2>2. Cardinality(Vulnerable(results)) \in Nat
    <3>1. IsFiniteSet(results)
      BY <2>1 DEF ScanInv, InTest, RowsFit
    <3>2. QED
      BY <3>1, FS_Subset, FS_CardinalityType DEF Vulnerable
  <2>3. CountsFit(results, scanTest, total, vulnCount, errCount)'
    BY <1>0, <2>1, <2>2 DEF ScanInv, InTest, CountsFit, Vulnerable
  <2>4. RowsFit(results, scanTest)'
    BY <2>1 DEF ScanInv, InTest, RowsFit
  <2>5. QED
    BY <1>0, <2>1, <2>3, <2>4 DEF ScanInv, ScanTypeOK, InTest, Tests, RowsFit, CountsFit, Vulnerable
<1>5. CASE SaveVulnerability
  <2>1. scanTask = "saving" /\ scanTest < ScanTests
    BY <1>5 DEF SaveVulnerability, ScanInv
  <2>2. QED
    BY <1>5, <1>0, <2>1, AddResultInv DEF SaveVulnerability, StoreVulnerability, Outcomes
<1>6. CASE SaveRaises
  <2>1. scanTask = "saving" /\ scanTest < ScanTests
    BY <1>6 DEF SaveRaises, ScanInv
  <2>2. vulnRows' \in [Tests -> Nat] /\ \A t \in Tests : t # scanTest + 1 => vulnRows'[t] = vulnRows[t]
    BY <1>6, <1>0 DEF SaveRaises, StoreVulnerability
  <2>3. QED
    BY <1>6, <1>0, <2>1, <2>2, AddResultInv DEF SaveRaises, Outcomes
<1>7. CASE CompleteScan
  <2>1. /\ scanTask = "testing" /\ scanTest = ScanTests
        /\ scanTask' = "ended" /\ scanStatus' = "COMPLETED"
        /\ record' = [total |-> total, vulnerable |-> vulnCount, errors |-> errCount,
                      results |-> results]
        /\ UNCHANGED <<scanTest, total, vulnCount, errCount, results, vulnRows>>
    BY <1>7 DEF CompleteScan
  <2>2. ScanTypeOK'
    BY <2>1 DEF ScanInv, ScanTypeOK
  <2>3. RowsFit(record.results, ScanTests)'
    BY <2>1 DEF ScanInv, RowsFit
  <2>4. CountsFit(record.results, ScanTests, record.total, record.vulnerable, record.errors)'
    BY <2>1 DEF ScanInv, CountsFit, Vulnerable
  <2>5. QED
    BY <2>1, <2>2, <2>3, <2>4 DEF ScanInv, RowsFit, CountsFit, Vulnerable
<1>8. CASE ScanBreaksOff
  <2>1. scanStatus' # "COMPLETED" /\ scanTask' = "ended"
    BY <1>8 DEF ScanBreaksOff, ScanInv, ScanTypeOK
  <2>2. ScanTypeOK'
    BY <1>8 DEF ScanBreaksOff, ScanInv, ScanTypeOK
  <2>3. QED
    BY <2>1, <2>2 DEF ScanInv
<1>9. CASE UNCHANGED scanVars
  BY <1>9 DEF scanVars, ScanInv, ScanTypeOK, RowsFit, CountsFit, Tests, Vulnerable
<1>10. QED
  BY <1>1, <1>2, <1>3, <1>4, <1>5, <1>6, <1>7, <1>8, <1>9 DEF ScanNext

LEMMA InvImpliesScanAddsUp == ScanInv => ScanAddsUp
<1> SUFFICES ASSUME ScanInv, scanStatus = "COMPLETED"
             PROVE  /\ \A t \in Tests : Cardinality({r \in record.results : r.test = t}) = 1
                    /\ \A r \in ResultsWith("vulnerable") : vulnRows[r.test] = 1
                    /\ \A r \in ResultsWith("clean") : vulnRows[r.test] = 0
                    /\ record.total + record.errors + Cardinality(ResultsWith("vulnerable"))
                          = ScanTests + record.vulnerable
  BY DEF ScanAddsUp
<1>1. RowsFit(record.results, ScanTests)
  BY DEF ScanInv
<1>2. ASSUME NEW t \in Tests
      PROVE  Cardinality({r \in record.results : r.test = t}) = 1
  <2>1. PICK r \in record.results : r.test = t
    BY <1>1 DEF RowsFit, Tests
  <2>2. {s \in record.results : s.test = t} = {r}
    BY <1>1, <2>1 DEF RowsFit
  <2>3. QED
    BY <2>2, FS_Singleton
<1>3. ResultsWith("vulnerable") = Vulnerable(record.results)
  BY DEF ResultsWith, Vulnerable
<1>4. QED
  BY <1>1, <1>2, <1>3 DEF ScanInv, RowsFit, CountsFit, ResultsWith

(* The scan, its rows and its record are always well formed. *)
THEOREM ScanTypeCorrect == ScanSpec => []ScanTypeOK
<1>1. ScanInv => ScanTypeOK
  BY DEF ScanInv
<1>2. QED
  BY InitScanInv, NextScanInv, <1>1, PTL DEF ScanSpec

(* A completed scan adds up, for any number of tests: one row for each,    *)
(* the vulnerabilities stored once, and the counters that the route        *)
(* reports explained by the findings that could not be saved.              *)
THEOREM CompletedScanAddsUp == ScanSpec => []ScanAddsUp
  BY InitScanInv, NextScanInv, InvImpliesScanAddsUp, PTL DEF ScanSpec

-----------------------------------------------------------------------------
(***************************************************************************)
(* ReconSources, for any sources, keys and calls.                          *)
(***************************************************************************)

ReconRuns == [pc : {"idle", "next", "ingest", "commit", "dead"}, todo : SUBSET Sources,
         ran : SUBSET Sources, items : SUBSET ReconKeys, fresh : SUBSET ReconKeys,
         flushed : SUBSET ReconKeys, clash : BOOLEAN,
         confirms : SUBSET ReconKeys, shadows : SUBSET ReconKeys,
         listed : SUBSET ReconKeys]

LEMMA ReconTypes ==
    ASSUME ReconTypeOK
    PROVE  /\ source \in [Sources -> [row : {"none", "enabled", "disabled"}, due : BOOLEAN]]
           /\ finding \in [ReconKeys -> {"none", "NEW", "CONFIRMED", "IGNORED"}]
           /\ inventory \subseteq ReconKeys
           /\ session \in [Sessions -> ReconRuns]
  BY DEF ReconTypeOK, ReconRuns

LEMMA InitReconTypes == ReconInit => ReconTypeOK
  BY DEF ReconInit, ReconTypeOK, NoSource, Closed

(* A step of one run that touches nothing but the run. *)
LEMMA ReconRunMoves ==
    ASSUME ReconTypeOK, NEW r \in Sessions, NEW run \in ReconRuns, SetSession(r, run)
    PROVE  ReconTypeOK' /\ finding' = finding
<1>1. session' = [session EXCEPT ![r] = run] /\ UNCHANGED <<source, finding, inventory>>
  BY DEF SetSession
<1>2. session' \in [Sessions -> ReconRuns]
  BY <1>1, ReconTypes
<1>3. QED
  BY <1>1, <1>2 DEF ReconTypeOK, ReconRuns

LEMMA RunOfSession ==
    ASSUME ReconTypeOK
    PROVE  /\ \A r \in Sessions : session[r] \in ReconRuns
           /\ Closed \in ReconRuns
  BY ReconTypes DEF Closed, ReconRuns

LEMMA CommitSessionStep ==
    ASSUME ReconTypeOK, NEW r \in Sessions, CommitSession(r)
    PROVE  /\ ReconTypeOK'
           /\ \A k \in ReconKeys : finding[k] \in {"CONFIRMED", "IGNORED"} =>
                 finding'[k] \in {"CONFIRMED", "IGNORED"}
<1> DEFINE run == session[r]
<1>1. /\ ~CommitClashes(run) /\ WriteSources(run) /\ WriteFindings(run)
      /\ inventory' = inventory \cup run.shadows /\ session' = [session EXCEPT ![r] = Closed]
  BY DEF CommitSession
<1>2. run \in ReconRuns
  BY RunOfSession
<1> HIDE DEF run
<1>3. run.shadows \subseteq ReconKeys
  BY <1>2 DEF ReconRuns
<1>4. source' \in [Sources -> [row : {"none", "enabled", "disabled"}, due : BOOLEAN]]
  <2>1. \A s \in Sources : source'[s] \in [row : {"none", "enabled", "disabled"}, due : BOOLEAN]
    BY <1>1, ReconTypes DEF WriteSources
  <2>2. QED
    BY <1>1, <2>1 DEF WriteSources
<1>5. finding' \in [ReconKeys -> {"none", "NEW", "CONFIRMED", "IGNORED"}]
  BY <1>1, ReconTypes DEF WriteFindings
<1>6. session' \in [Sessions -> ReconRuns]
  BY <1>1, ReconTypes, RunOfSession
<1>7. ReconTypeOK'
  BY <1>1, <1>3, <1>4, <1>5, <1>6, ReconTypes DEF ReconTypeOK, ReconRuns
<1>8. ASSUME NEW k \in ReconKeys, finding[k] \in {"CONFIRMED", "IGNORED"}
      PROVE  finding'[k] \in {"CONFIRMED", "IGNORED"}
  <2>1. k \notin run.flushed
    BY <1>1, <1>8 DEF CommitClashes
  <2>2. QED
    BY <1>1, <1>8, <2>1 DEF WriteFindings
<1>9. QED
  BY <1>7, <1>8

LEMMA SessionStepStep ==
    ASSUME ReconTypeOK, NEW r \in Sessions, SessionStep(r)
    PROVE  /\ ReconTypeOK'
           /\ \A k \in ReconKeys : finding[k] \in {"CONFIRMED", "IGNORED"} =>
                 finding'[k] \in {"CONFIRMED", "IGNORED"}
<1> DEFINE run == session[r]
<1>0. run \in ReconRuns
  BY RunOfSession
<1>1. ASSUME NEW s \in Sources, FetchFails(r, s)
      PROVE  ReconTypeOK' /\ finding' = finding
  <2> DEFINE d == [run EXCEPT !.todo = @ \ {s}, !.pc = NextOrCommit(run.todo \ {s}),
                              !.ran = @ \cup {s}]
  <2>1. SetSession(r, d)
    BY <1>1 DEF FetchFails
  <2>2. d \in ReconRuns
    BY <1>0 DEF ReconRuns, NextOrCommit
  <2> HIDE DEF d
  <2>3. QED
    BY <2>1, <2>2, ReconRunMoves
<1>2. ASSUME NEW s \in Sources, NEW items \in SUBSET ReconKeys, FetchItems(r, s, items)
      PROVE  ReconTypeOK' /\ finding' = finding
  <2> DEFINE d == [run EXCEPT !.todo = @ \ {s}, !.pc = "ingest", !.items = items,
                              !.ran = @ \cup {s}]
  <2>1. SetSession(r, d)
    BY <1>2 DEF FetchItems
  <2>2. d \in ReconRuns
    BY <1>0 DEF ReconRuns
  <2> HIDE DEF d
  <2>3. QED
    BY <2>1, <2>2, ReconRunMoves
<1>3. ASSUME NEW k \in ReconKeys, NEW again \in BOOLEAN, IngestItem(r, k, again)
      PROVE  ReconTypeOK' /\ finding' = finding
  <2> DEFINE new == finding[k] = "none" /\ k \notin run.flushed
             matched == k \in inventory \cup run.listed
             d == [run EXCEPT
                      !.items = @ \ {k},
                      !.fresh = IF new THEN @ \cup {k} ELSE @,
                      !.clash = @ \/ (new /\ again),
                      !.confirms = IF matched /\ finding[k] # "CONFIRMED" THEN @ \cup {k} ELSE @,
                      !.shadows = IF matched THEN @ ELSE @ \cup {k}]
  <2>1. SetSession(r, d)
    BY <1>3 DEF IngestItem
  <2>2. new \in BOOLEAN /\ matched \in BOOLEAN
    OBVIOUS
  <2> HIDE DEF new, matched, run
  <2>3. d \in ReconRuns
    BY <1>0, <2>2 DEF ReconRuns
  <2> HIDE DEF d
  <2>4. QED
    BY <2>1, <2>3, ReconRunMoves
<1>4. ASSUME SourceDone(r)
      PROVE  ReconTypeOK' /\ finding' = finding
  <2> DEFINE d == [run EXCEPT !.pc = NextOrCommit(run.todo),
                              !.flushed = @ \cup run.fresh, !.fresh = {},
                              !.listed = IF run.fresh = {} THEN @ ELSE run.shadows]
  <2>1. SetSession(r, d)
    BY <1>4 DEF SourceDone
  <2>2. d \in ReconRuns
    BY <1>0 DEF ReconRuns, NextOrCommit
  <2> HIDE DEF d
  <2>3. QED
    BY <2>1, <2>2, ReconRunMoves
<1>5. ASSUME SessionRaises(r)
      PROVE  ReconTypeOK' /\ finding' = finding
  <2> DEFINE d == [Closed EXCEPT !.pc = IF r = ReconTask THEN "dead" ELSE "idle"]
  <2>1. SetSession(r, d)
    BY <1>5 DEF SessionRaises
  <2>2. d \in ReconRuns
    BY RunOfSession DEF ReconRuns
  <2> HIDE DEF d
  <2>3. QED
    BY <2>1, <2>2, ReconRunMoves
<1>6. QED
  BY <1>1, <1>2, <1>3, <1>4, <1>5, CommitSessionStep DEF SessionStep

LEMMA NextReconTypes ==
    ASSUME ReconTypeOK, [ReconNext]_reconVars
    PROVE  /\ ReconTypeOK'
           /\ \A k \in ReconKeys : finding[k] \in {"CONFIRMED", "IGNORED"} =>
                 finding'[k] \in {"CONFIRMED", "IGNORED"}
<1>1. ASSUME NEW s \in Sources, NEW row \in {"none", "enabled", "disabled"}, NEW due \in BOOLEAN,
             SetSource(s, row, due)
      PROVE  ReconTypeOK' /\ finding' = finding
  BY <1>1, ReconTypes DEF SetSource, ReconTypeOK
<1>2. ASSUME NEW s \in Edited, CreateSource(s) \/ UpdateSource(s) \/ DeleteSource(s)
      PROVE  ReconTypeOK' /\ finding' = finding
  <2>1. s \in Sources /\ source[s].due \in BOOLEAN
    BY ReconAssumption, ReconTypes
  <2>2. QED
    BY <1>1, <1>2, <2>1 DEF CreateSource, UpdateSource, DeleteSource
<1>3. ASSUME NEW s \in Sources, IntervalPasses(s)
      PROVE  ReconTypeOK' /\ finding' = finding
  <2>1. source[s].row \in {"none", "enabled", "disabled"}
    BY ReconTypes
  <2>2. QED
    BY <1>1, <1>3, <2>1 DEF IntervalPasses
<1>4. ASSUME NEW r \in ReconCalls, NEW s \in Edited, RunByHand(r, s)
      PROVE  ReconTypeOK' /\ finding' = finding
  <2> DEFINE d == [Closed EXCEPT !.pc = "next", !.todo = {s}]
  <2>1. SetSession(r, d) /\ r \in Sessions
    BY <1>4 DEF RunByHand, Sessions
  <2>2. d \in ReconRuns
    BY RunOfSession, ReconAssumption DEF ReconRuns
  <2> HIDE DEF d
  <2>3. QED
    BY <2>1, <2>2, ReconRunMoves
<1>5. ASSUME NEW r \in ReconCalls, NEW items \in SUBSET ReconKeys, PostFindings(r, items)
      PROVE  ReconTypeOK' /\ finding' = finding
  <2> DEFINE d == [Closed EXCEPT !.pc = "ingest", !.items = items]
  <2>1. SetSession(r, d) /\ r \in Sessions
    BY <1>5 DEF PostFindings, Sessions
  <2>2. d \in ReconRuns
    BY RunOfSession DEF ReconRuns
  <2> HIDE DEF d
  <2>3. QED
    BY <2>1, <2>2, ReconRunMoves
<1>6. ASSUME SelectDue
      PROVE  ReconTypeOK' /\ finding' = finding
  <2> DEFINE d == [Closed EXCEPT !.pc = "next", !.todo = DueSources]
  <2>1. SetSession(ReconTask, d) /\ ReconTask \in Sessions
    BY <1>6 DEF SelectDue, Sessions
  <2>2. d \in ReconRuns
    BY RunOfSession DEF ReconRuns, DueSources
  <2> HIDE DEF d
  <2>3. QED
    BY <2>1, <2>2, ReconRunMoves
<1>7. ASSUME NEW k \in ReconKeys, NEW decision \in {"CONFIRMED", "IGNORED"}, Review(k, decision)
      PROVE  /\ ReconTypeOK'
             /\ \A i \in ReconKeys : finding[i] \in {"CONFIRMED", "IGNORED"} =>
                   finding'[i] \in {"CONFIRMED", "IGNORED"}
  BY <1>7, ReconTypes DEF Review, ReconTypeOK
<1>8. ASSUME NEW k \in ReconKeys, InventoryChanges(k)
      PROVE  ReconTypeOK' /\ finding' = finding
  BY <1>8, ReconTypes DEF InventoryChanges, ReconTypeOK
<1>9. ASSUME NEW r \in Sessions, SessionStep(r)
      PROVE  /\ ReconTypeOK'
             /\ \A i \in ReconKeys : finding[i] \in {"CONFIRMED", "IGNORED"} =>
                   finding'[i] \in {"CONFIRMED", "IGNORED"}
  BY <1>9, SessionStepStep
<1>10. CASE UNCHANGED reconVars
  BY <1>10 DEF reconVars, ReconTypeOK
<1>11. QED
  BY <1>2, <1>3, <1>4, <1>5, <1>6, <1>7, <1>8, <1>9, <1>10 DEF ReconNext, SchedulerStep, Sessions

(* Sources, findings and the sessions of the runs are always well formed. *)
THEOREM ReconTypeCorrect == ReconSpec => []ReconTypeOK
<1>1. ReconTypeOK /\ [ReconNext]_reconVars => ReconTypeOK'
  BY NextReconTypes
<1>2. QED
  BY InitReconTypes, <1>1, PTL DEF ReconSpec

(* No step of a run, of the API or of the review takes the decision on a   *)
(* finding back, for any number of sources, keys and runs.                 *)
THEOREM ReviewsSurvive == ReconSpec => ReviewSurvivesRuns
<1>1. ReconTypeOK /\ [ReconNext]_reconVars =>
         [\A k \in ReconKeys : finding[k] \in {"CONFIRMED", "IGNORED"} =>
             finding'[k] \in {"CONFIRMED", "IGNORED"}]_reconVars
  BY NextReconTypes
<1>2. QED
  BY ReconTypeCorrect, <1>1, PTL DEF ReconSpec, ReviewSurvivesRuns

(* The scheduler commits only when it has run all it selected, and takes up *)
(* a new selection only with empty hands.                                   *)
PassOK ==
    LET run == session[ReconTask]
    IN  /\ run.pc \in {"idle", "dead", "commit"} => run.todo = {}
        /\ run.pc \in {"idle", "dead"} => run.ran = {}

PassKeeps ==
    \A s \in session[ReconTask].todo \cup session[ReconTask].ran :
        \/ s \in session'[ReconTask].todo \cup session'[ReconTask].ran
        \/ ~source'[s].due
        \/ session'[ReconTask].pc = "dead"

(* A step that replaces the scheduler's run by one with the same sources.   *)
LEMMA PassMoves ==
    ASSUME ReconTypeOK, NEW d \in ReconRuns, SetSession(ReconTask, d),
           session[ReconTask].todo \cup session[ReconTask].ran \subseteq d.todo \cup d.ran,
           d.pc \in {"idle", "dead", "commit"} => d.todo = {},
           d.pc \in {"idle", "dead"} => d.ran = {}
    PROVE  PassOK' /\ PassKeeps
<1>1. session'[ReconTask] = d
  BY ReconTypes DEF SetSession, Sessions
<1>2. QED
  BY <1>1 DEF PassOK, PassKeeps

LEMMA SchedulerPass ==
    ASSUME ReconTypeOK, PassOK, SchedulerStep
    PROVE  PassOK' /\ PassKeeps
<1> DEFINE run == session[ReconTask]
<1>0. /\ ReconTask \in Sessions /\ run \in ReconRuns
      /\ run.pc \in {"idle", "dead", "commit"} => run.todo = {}
      /\ run.pc \in {"idle", "dead"} => run.ran = {}
  BY RunOfSession DEF Sessions, PassOK
<1>1. CASE SelectDue
  <2> DEFINE d == [Closed EXCEPT !.pc = "next", !.todo = DueSources]
  <2>1. SetSession(ReconTask, d) /\ run.todo \cup run.ran = {}
    BY <1>0, <1>1 DEF SelectDue
  <2>2. d \in ReconRuns /\ d.pc = "next"
    BY RunOfSession DEF Closed, ReconRuns, DueSources
  <2> HIDE DEF d, run
  <2>3. QED
    BY <2>1, <2>2, PassMoves DEF run
<1>2. ASSUME NEW s \in Sources, FetchFails(ReconTask, s) PROVE PassOK' /\ PassKeeps
  <2> DEFINE d == [run EXCEPT !.todo = @ \ {s}, !.pc = NextOrCommit(run.todo \ {s}),
                              !.ran = @ \cup {s}]
  <2>1. SetSession(ReconTask, d)
    BY <1>2 DEF FetchFails
  <2>2. /\ d \in ReconRuns /\ d.todo = run.todo \ {s} /\ d.ran = run.ran \cup {s}
        /\ d.pc = NextOrCommit(d.todo)
    BY <1>0 DEF ReconRuns, NextOrCommit
  <2>3. d.pc \in {"next", "commit"} /\ (d.pc = "commit" => d.todo = {})
    BY <2>2 DEF NextOrCommit
  <2> HIDE DEF d, run
  <2>4. QED
    BY <2>1, <2>2, <2>3, PassMoves DEF run
<1>3. ASSUME NEW s \in Sources, NEW items \in SUBSET ReconKeys, FetchItems(ReconTask, s, items)
      PROVE  PassOK' /\ PassKeeps
  <2> DEFINE d == [run EXCEPT !.todo = @ \ {s}, !.pc = "ingest", !.items = items,
                              !.ran = @ \cup {s}]
  <2>1. SetSession(ReconTask, d)
    BY <1>3 DEF FetchItems
  <2>2. /\ d \in ReconRuns /\ d.todo = run.todo \ {s} /\ d.ran = run.ran \cup {s}
        /\ d.pc = "ingest"
    BY <1>0 DEF ReconRuns
  <2> HIDE DEF d, run
  <2>3. QED
    BY <2>1, <2>2, PassMoves DEF run
<1>4. ASSUME NEW k \in ReconKeys, NEW again \in BOOLEAN, IngestItem(ReconTask, k, again)
      PROVE  PassOK' /\ PassKeeps
  <2>1. /\ run.pc = "ingest"
        /\ \E d \in ReconRuns : /\ SetSession(ReconTask, d)
                                /\ d.todo = run.todo /\ d.ran = run.ran /\ d.pc = run.pc
    <3> DEFINE new == finding[k] = "none" /\ k \notin run.flushed
               matched == k \in inventory \cup run.listed
               d == [run EXCEPT
                      !.items = @ \ {k},
                      !.fresh = IF new THEN @ \cup {k} ELSE @,
                      !.clash = @ \/ (new /\ again),
                      !.confirms = IF matched /\ finding[k] # "CONFIRMED" THEN @ \cup {k} ELSE @,
                      !.shadows = IF matched THEN @ ELSE @ \cup {k}]
    <3>1. SetSession(ReconTask, d) /\ run.pc = "ingest"
      BY <1>4 DEF IngestItem
    <3>2. new \in BOOLEAN /\ matched \in BOOLEAN
      OBVIOUS
    <3> HIDE DEF new, matched, run
    <3>3. /\ d \in ReconRuns
          /\ d.todo = run.todo /\ d.ran = run.ran /\ d.pc = run.pc
      BY <1>0, <3>2 DEF ReconRuns
    <3> HIDE DEF d
    <3>4. QED
      BY <3>1, <3>3
  <2>2. PICK d \in ReconRuns : /\ SetSession(ReconTask, d)
                               /\ d.todo = run.todo /\ d.ran = run.ran /\ d.pc = run.pc
    BY <2>1
  <2> HIDE DEF run
  <2>3. QED
    BY <2>1, <2>2, PassMoves DEF run
<1>5. CASE SourceDone(ReconTask)
  <2> DEFINE d == [run EXCEPT !.pc = NextOrCommit(run.todo),
                              !.flushed = @ \cup run.fresh, !.fresh = {},
                              !.listed = IF run.fresh = {} THEN @ ELSE run.shadows]
  <2>1. SetSession(ReconTask, d)
    BY <1>5 DEF SourceDone
  <2>2. /\ d \in ReconRuns /\ d.todo = run.todo /\ d.ran = run.ran
        /\ d.pc = NextOrCommit(d.todo)
    BY <1>0 DEF ReconRuns, NextOrCommit
  <2>3. d.pc \in {"next", "commit"} /\ (d.pc = "commit" => d.todo = {})
    BY <2>2 DEF NextOrCommit
  <2> HIDE DEF d, run
  <2>4. QED
    BY <2>1, <2>2, <2>3, PassMoves DEF run
<1>6. CASE CommitSession(ReconTask)
  <2>1. /\ run.pc = "commit" /\ WriteSources(run)
        /\ session' = [session EXCEPT ![ReconTask] = Closed]
    BY <1>6 DEF CommitSession
  <2>2. session'[ReconTask] = Closed /\ run.todo = {} /\ run.ran \subseteq Sources
    BY <1>0, <2>1, ReconTypes DEF ReconRuns
  <2>3. PassOK'
    BY <2>2 DEF PassOK, Closed
  <2>4. \A s \in run.ran : ~source'[s].due
    BY <2>1, <2>2, ReconTypes DEF WriteSources
  <2>5. QED
    BY <2>2, <2>3, <2>4 DEF PassKeeps
<1>7. CASE SessionRaises(ReconTask)
  <2>1. session'[ReconTask] = [Closed EXCEPT !.pc = "dead"]
    BY <1>0, <1>7, ReconTypes DEF SessionRaises, SetSession
  <2>2. QED
    BY <2>1 DEF PassOK, PassKeeps, Closed
<1>8. QED
  BY <1>1, <1>2, <1>3, <1>4, <1>5, <1>6, <1>7 DEF SchedulerStep, SessionStep

(* Nothing but the scheduler's own steps touches its pass. *)
LEMMA OthersLeavePass ==
    ASSUME ReconTypeOK, [ReconNext]_reconVars, ~SchedulerStep
    PROVE  session'[ReconTask] = session[ReconTask]
<1>1. ASSUME NEW r \in ReconCalls, session' = [session EXCEPT ![r] = session'[r]]
      PROVE  session'[ReconTask] = session[ReconTask]
  <2>1. ReconTask # r
    BY ReconAssumption
  <2>2. QED
    BY <1>1, <2>1, ReconTypes DEF Sessions
<1>2. ASSUME NEW r \in ReconCalls,
             \/ SessionStep(r) \/ \E s \in Edited : RunByHand(r, s)
             \/ \E items \in SUBSET ReconKeys : PostFindings(r, items)
      PROVE  session'[ReconTask] = session[ReconTask]
  <2>0. session \in [Sessions -> ReconRuns] /\ r \in Sessions
    BY ReconTypes DEF Sessions
  <2>1. \E d : session' = [session EXCEPT ![r] = d]
    BY <1>2 DEF SessionStep, RunByHand, PostFindings, SetSession, FetchFails, FetchItems,
       IngestItem, SourceDone, CommitSession, SessionRaises
  <2>2. session' = [session EXCEPT ![r] = session'[r]]
    BY <2>0, <2>1
  <2>3. QED
    BY <1>1, <2>2
<1>3. CASE \/ \E s \in Edited : CreateSource(s) \/ UpdateSource(s) \/ DeleteSource(s)
           \/ \E s \in Sources : IntervalPasses(s)
  BY <1>3 DEF CreateSource, UpdateSource, DeleteSource, IntervalPasses, SetSource
<1>4. CASE \E k \in ReconKeys :
              Review(k, "IGNORED") \/ Review(k, "CONFIRMED") \/ InventoryChanges(k)
  BY <1>4 DEF Review, InventoryChanges
<1>5. QED
  BY <1>2, <1>3, <1>4 DEF ReconNext, reconVars

LEMMA PassStep ==
    ASSUME ReconTypeOK, PassOK, [ReconNext]_reconVars
    PROVE  PassOK' /\ PassKeeps
<1>1. CASE SchedulerStep
  BY <1>1, SchedulerPass
<1>2. CASE ~SchedulerStep
  BY <1>2, OthersLeavePass DEF PassOK, PassKeeps
<1>3. QED
  BY <1>1, <1>2

(* A pass of the scheduler forgets no source: the safety half of            *)
(* DueSourcesRun, for any sources, runs by hand, edits and failures.        *)
THEOREM PassesAreComplete == ReconSpec => SelectedSourcesAreRun
<1>1. ReconInit => PassOK
  BY DEF ReconInit, PassOK, Closed, Sessions
<1>2. ReconTypeOK /\ PassOK /\ [ReconNext]_reconVars => PassOK'
  BY PassStep
<1>3. ReconTypeOK /\ PassOK /\ [ReconNext]_reconVars
        => [\A s \in session[ReconTask].todo \cup session[ReconTask].ran :
               \/ s \in session'[ReconTask].todo \cup session'[ReconTask].ran
               \/ ~source'[s].due
               \/ session'[ReconTask].pc = "dead"]_reconVars
  BY PassStep DEF PassKeeps
<1>4. QED
  BY ReconTypeCorrect, <1>1, <1>2, <1>3, PTL DEF ReconSpec, SelectedSourcesAreRun

-----------------------------------------------------------------------------
(***************************************************************************)
(* The composition: a behaviour of Services is one of every part.  What is *)
(* proved of a part's specification is therefore true of Services.         *)
(***************************************************************************)

LEMMA InitOfParts ==
    ServicesInit =>
        /\ WarmInit /\ ColdInit /\ PolicyInit /\ QuotaInit /\ ViewInit /\ AlertInit
        /\ ScanInit /\ ReconInit /\ ActorInit /\ ShipperInit /\ ChatInit /\ BreakerInit
BY DEF ServicesInit

(* A step of Services is a step of one part, which leaves the others alone. *)
LEMMA StepOfParts ==
    [ServicesNext]_serviceVars =>
        /\ [WarmNext]_warmVars /\ [ColdNext]_coldVars /\ [PolicyNext]_policyVars
        /\ [QuotaNext]_quotaVars /\ [ViewNext]_viewVars /\ [AlertNext]_alertVars
        /\ [ScanNext]_scanVars /\ [ReconNext]_reconVars /\ [ActorNext]_actorVars
        /\ [ShipperNext]_shipVars /\ [ChatNext]_chatVars /\ [BreakerNext]_breakerVars
BY DEF ServicesNext, serviceVars, BesideWarm, BesideCold, BesidePolicy, BesideQuota,
       BesideView, BesideAlert, BesideScan, BesideRecon, BesideActors, BesideShipper,
       BesideChat, BesideTrading

(* Each part behaves in Services as it does alone. *)
THEOREM ServicesAreTheirParts ==
    ServicesSpec =>
        /\ WarmSpec /\ ColdSpec /\ PolicySpec /\ QuotaSpec /\ ViewSpec /\ AlertSpec
        /\ ScanSpec /\ ReconSpec /\ ActorSpec /\ ShipperSpec /\ ChatSpec /\ BreakerSpec
BY InitOfParts, StepOfParts, PTL
   DEF ServicesSpec, WarmSpec, ColdSpec, PolicySpec, QuotaSpec, ViewSpec, AlertSpec,
       ScanSpec, ReconSpec, ActorSpec, ShipperSpec, ChatSpec, BreakerSpec

(* The state of every part is always well formed in the composition.        *)
THEOREM ServicesTypesHold == ServicesSpec => []ServicesTypeOK
<1>1. ServicesInit => part \in Parts
  BY DEF ServicesInit
<1>2. part \in Parts /\ [ServicesNext]_serviceVars => (part \in Parts)'
  BY DEF ServicesNext, serviceVars, BesideWarm, BesideCold, BesidePolicy, BesideQuota,
         BesideView, BesideAlert, BesideScan, BesideRecon, BesideActors, BesideShipper,
         BesideChat, BesideTrading
<1>3. ServicesSpec => [](part \in Parts)
  BY <1>1, <1>2, PTL DEF ServicesSpec
<1>4. /\ part \in Parts
      /\ WarmTypeOK /\ ColdTypeOK /\ PolicyTypeOK /\ QuotaTypeOK /\ ViewTypeOK
      /\ AlertTypeOK /\ ScanTypeOK /\ ReconTypeOK /\ ActorTypeOK
      /\ ShipperTypeOK /\ ChatTypeOK /\ BreakerTypeOK
      => ServicesTypeOK
  BY DEF ServicesTypeOK
<1>5. QED
  BY <1>3, <1>4, ServicesAreTheirParts, WarmTypeCorrect, ColdTypeCorrect, PolicyTypeCorrect,
     QuotaTypeCorrect, ViewTypeCorrect, AlertTypeCorrect, ScanTypeCorrect, ReconTypeCorrect,
     ActorTypeCorrect, ShipperTypeCorrect, ChatTypeCorrect, BreakerTypeCorrect, PTL

(* Every safety property of the twelve services holds of the services       *)
(* together: none is broken by what another one does.                       *)
THEOREM ServicesKeepTheirPromises ==
    ServicesSpec =>
        /\ []LostOnlyInItsSecond /\ []CopiesHaveACause
        /\ GoneMeansArchived
        /\ []BatchesSeeReplacement
        /\ []AdmittedWithinLimit
        /\ []AnnouncedWritesAreSeen
        /\ []SuccessMeansBlocked /\ []FailuresBoundLossAndRepeats
        /\ []ScanAddsUp
        /\ ReviewSurvivesRuns /\ SelectedSourcesAreRun
        /\ []DecisionIsRecent /\ []CountHasACause
        /\ []DeliveriesHaveACause /\ LinesAreKept
        /\ []PauseBoundsReplies
        /\ []BreakerBoundsRequests
  BY ServicesAreTheirParts, WarmLoss, WarmCopies, ArchiveBeforeDelete, ReplacementIsSeen,
     LimitHolds, ViewsAreFresh, SuccessBlocks, AlertLossBounded, CompletedScanAddsUp,
     ReviewsSurvive, PassesAreComplete, DecisionsStand, CountsHaveACause, DeliveriesHold,
     LinesKept, PauseHolds, BreakerHolds
=============================================================================
