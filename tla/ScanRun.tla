------------------------------- MODULE ScanRun -------------------------------
(***************************************************************************)
(* One security scan (api/routers/tests.py, _run_security_tasks): POST     *)
(* /run stores it PENDING, the background task marks it RUNNING, runs      *)
(* every known template against every endpoint, and stores the results     *)
(* and the counters with the COMPLETED status, in one commit at the end.   *)
(*                                                                         *)
(* A vulnerability is committed at once, in a session of its own           *)
(* (modules/test_executor/result_aggregator.py), and the one try block     *)
(* around the test covers that too: a failure to save comes after the      *)
(* counters went up.  Nothing resumes or fails a scan whose task ended     *)
(* early.  Tests are numbered in the order they are run; which templates   *)
(* are known, and what a test finds, is the environment's choice.          *)
(***************************************************************************)
EXTENDS Naturals, FiniteSets

CONSTANTS ScanTests  \* pairs of a known template and an endpoint

ASSUME ScanAssumption == ScanTests \in Nat

VARIABLES
    scanStatus,   \* TestRun.status, committed
    scanTask,     \* where the background task is
    scanTest,     \* tests done
    total, vulnCount, errCount,
    results,      \* the TestResult rows of the task's session
    vulnRows,     \* committed vulnerabilities, by test
    record        \* what GET /runs/{id} shows: counters and results

scanVars == <<scanStatus, scanTask, scanTest, total, vulnCount, errCount,
              results, vulnRows, record>>

Tests == 1..ScanTests
Outcomes == {"clean", "vulnerable", "error"}
Result == [test : Tests, outcome : Outcomes]
NoRecord == [total |-> 0, vulnerable |-> 0, errors |-> 0, results |-> {}]

ScanTypeOK ==
    /\ scanStatus \in {"PENDING", "RUNNING", "COMPLETED"}
    /\ scanTask \in {"queued", "testing", "saving", "ended"}
    /\ scanTest \in 0..ScanTests
    /\ {total, vulnCount, errCount} \subseteq Nat
    /\ results \subseteq Result
    /\ vulnRows \in [Tests -> Nat]
    /\ record \in [total : Nat, vulnerable : Nat, errors : Nat, results : SUBSET Result]

ScanInit ==
    /\ scanStatus = "PENDING"
    /\ scanTask = "queued"
    /\ scanTest = 0
    /\ total = 0 /\ vulnCount = 0 /\ errCount = 0
    /\ results = {}
    /\ vulnRows = [t \in Tests |-> 0]
    /\ record = NoRecord

BeginScan ==
    /\ scanTask = "queued"
    /\ scanTask' = "testing"
    /\ scanStatus' = "RUNNING"
    /\ UNCHANGED <<scanTest, total, vulnCount, errCount, results, vulnRows, record>>

InTest == scanTask = "testing" /\ scanTest < ScanTests

(* The row is staged and the progress broadcast. *)
AddResult(outcome) ==
    /\ results' = results \cup {[test |-> scanTest + 1, outcome |-> outcome]}
    /\ scanTest' = scanTest + 1
    /\ scanTask' = "testing"
    /\ UNCHANGED <<scanStatus, record>>

TestFindsNothing ==
    /\ InTest
    /\ total' = total + 1
    /\ AddResult("clean")
    /\ UNCHANGED <<vulnCount, errCount, vulnRows>>

TestRaises ==
    /\ InTest
    /\ errCount' = errCount + 1
    /\ AddResult("error")
    /\ UNCHANGED <<total, vulnCount, vulnRows>>

TestFindsVulnerability ==
    /\ InTest
    /\ total' = total + 1
    /\ vulnCount' = vulnCount + 1
    /\ scanTask' = "saving"
    /\ UNCHANGED <<scanStatus, scanTest, errCount, results, vulnRows, record>>

StoreVulnerability == vulnRows' = [vulnRows EXCEPT ![scanTest + 1] = @ + 1]

SaveVulnerability ==
    /\ scanTask = "saving"
    /\ StoreVulnerability
    /\ AddResult("vulnerable")
    /\ UNCHANGED <<total, vulnCount, errCount>>

(* Mutant: a failure to save does not change the result. *)
SaveFailsSilently ==
    /\ scanTask = "saving"
    /\ StoreVulnerability \/ UNCHANGED vulnRows
    /\ AddResult("vulnerable")
    /\ UNCHANGED <<total, vulnCount, errCount>>

(* Before or after the commit of the vulnerability. *)
SaveRaises ==
    /\ scanTask = "saving"
    /\ StoreVulnerability \/ UNCHANGED vulnRows
    /\ errCount' = errCount + 1
    /\ AddResult("error")
    /\ UNCHANGED <<total, vulnCount>>

CompleteScan ==
    /\ scanTask = "testing"
    /\ scanTest = ScanTests
    /\ scanTask' = "ended"
    /\ scanStatus' = "COMPLETED"
    /\ record' = [total |-> total, vulnerable |-> vulnCount, errors |-> errCount,
                  results |-> results]
    /\ UNCHANGED <<scanTest, total, vulnCount, errCount, results, vulnRows>>

(* The process ends, or a database call outside the try block raises: the   *)
(* status stays as it is, for ever, and the staged results are gone.        *)
ScanBreaksOff ==
    /\ scanTask # "ended"
    /\ scanTask' = "ended"
    /\ results' = {}
    /\ UNCHANGED <<scanStatus, scanTest, total, vulnCount, errCount, vulnRows, record>>

ScanNext ==
    \/ BeginScan \/ CompleteScan \/ ScanBreaksOff
    \/ TestFindsNothing \/ TestRaises \/ TestFindsVulnerability
    \/ SaveVulnerability \/ SaveRaises

ScanSpec == ScanInit /\ [][ScanNext]_scanVars

-----------------------------------------------------------------------------
ResultsWith(outcome) == {r \in record.results : r.outcome = outcome}

(* A completed scan adds up: one result for every test; a vulnerable result *)
(* has its vulnerability stored, once; and a finding that could not be      *)
(* saved, counted both as a test and as an error, is exactly what total and *)
(* errors exceed the number of tests by, and what vulnerable exceeds the    *)
(* vulnerable results by.                                                   *)
ScanAddsUp ==
    scanStatus = "COMPLETED" =>
        /\ \A t \in Tests : Cardinality({r \in record.results : r.test = t}) = 1
        /\ \A r \in ResultsWith("vulnerable") : vulnRows[r.test] = 1
        /\ \A r \in ResultsWith("clean") : vulnRows[r.test] = 0
        /\ record.total + record.errors + Cardinality(ResultsWith("vulnerable"))
              = ScanTests + record.vulnerable
=============================================================================
