--------------------------- MODULE EvidenceQueries ---------------------------
(***************************************************************************)
(* The trading log agent (Trading-Rag): the queries that the retrieval of  *)
(* several questions sends to Elasticsearch through one circuit breaker.   *)
(*                                                                         *)
(* A question's evidence tasks and its baseline run in threads, so queries *)
(* of several requests are in flight together.  A question answered from a *)
(* cache sends none, and neither does what follows the retrieval; what the *)
(* queries find is data.  The Elasticsearch client repeats a request that  *)
(* fails or times out, up to max_retries times, without asking the breaker *)
(* again; the breaker hears of the query only when the client gives up.    *)
(* Time is only what the breaker sees of it: open, or due because its time *)
(* is over.  The field list and the query guard ask Elasticsearch without  *)
(* the breaker and are left out.                                           *)
(***************************************************************************)
EXTENDS Naturals, FiniteSets

CONSTANTS
    AskCalls,       \* bound: questions that are being retrieved
    EvidenceTasks,  \* bound: the tasks of a question the router is not sure of
    Threshold,      \* failures that open the breaker
    Retries         \* max_retries of the client; retry_on_timeout is set

ASSUME BreakerAssumption ==
    /\ IsFiniteSet(AskCalls)
    /\ "chosen" \in EvidenceTasks
    /\ EvidenceTasks \subseteq {"chosen", "correlate", "search"}
    /\ Threshold \in Nat \ {0}
    /\ Retries \in Nat

VARIABLES
    breaker,   \* of the process: failures in a row, and whether it is open
    ask,       \* the questions: what is left, what is in flight, its retries
    requests   \* history: requests to Elasticsearch since it last forgot its failures

breakerVars == <<breaker, ask, requests>>

Tasks == EvidenceTasks \cup {"baseline"}
ClosedBreaker == [failures |-> 0, state |-> "closed"]
NoTries == [t \in Tasks |-> 0]
Done == [sure |-> FALSE, left |-> [t \in Tasks |-> 0], flying |-> {}, tries |-> NoTries]

BreakerTypeOK ==
    /\ breaker \in [failures : Nat, state : {"closed", "open", "due"}]
    /\ ask \in [AskCalls ->
                   [sure : BOOLEAN, left : [Tasks -> 0..2], flying : SUBSET Tasks,
                    tries : [Tasks -> 0..Retries]]]
    /\ requests \in Nat

BreakerInit ==
    /\ breaker = ClosedBreaker
    /\ ask = [a \in AskCalls |-> Done]
    /\ requests = 0

(* Queries of a retrieval: one task, or all of them if the router was not   *)
(* sure.  The chosen one may be the correlation, which queries two indexes; *)
(* the baseline comes from Redis or from Elasticsearch.                     *)
Work(sure) ==
    {left \in [Tasks -> 0..2] :
        /\ left["chosen"] \in {1, 2}
        /\ left["baseline"] \in {0, 2}
        /\ \A t \in EvidenceTasks \ {"chosen"} :
              left[t] = IF sure THEN 0 ELSE IF t = "correlate" THEN 2 ELSE 1}

Retrieve(a) ==
    /\ ask[a] = Done
    /\ \E sure \in BOOLEAN : \E left \in Work(sure) :
          ask' = [ask EXCEPT ![a] = [Done EXCEPT !.sure = sure, !.left = left]]
    /\ UNCHANGED <<breaker, requests>>

(* The baseline is queried when the evidence is there. *)
MayQuery(a, t) ==
    /\ t \notin ask[a].flying
    /\ ask[a].left[t] > 0
    /\ t = "baseline" => \A e \in EvidenceTasks : ask[a].left[e] = 0

(* allow: a breaker that is due forgets its failures.  The first request. *)
SendQuery(a, t) ==
    /\ MayQuery(a, t)
    /\ breaker.state # "open"
    /\ IF breaker.state = "closed"
       THEN requests' = requests + 1 /\ UNCHANGED breaker
       ELSE requests' = 1 /\ breaker' = ClosedBreaker
    /\ ask' = [ask EXCEPT ![a].flying = @ \cup {t}]

(* The client's own retry, whatever the breaker says by now. *)
RetryRequest(a, t) ==
    /\ t \in ask[a].flying
    /\ ask[a].tries[t] < Retries
    /\ requests' = requests + 1
    /\ ask' = [ask EXCEPT ![a].tries[t] = @ + 1]
    /\ UNCHANGED breaker

(* What is left of a question when a query has come back. *)
Landed(a, t, n) ==
    [ask[a] EXCEPT !.flying = @ \ {t}, !.tries[t] = 0, !.left[t] = n]

(* A failed query ends its evidence task, and the request if that was its   *)
(* only one; the baseline is tried once more.                               *)
AfterLoss(a, t) ==
    IF t = "baseline" THEN Landed(a, t, ask[a].left[t] - 1)
    ELSE IF ask[a].sure THEN Done
    ELSE Landed(a, t, 0)

(* A question with nothing left to query goes on to its analysis. *)
Settle(a, question) ==
    ask' = [ask EXCEPT ![a] =
               IF \A t \in Tasks : question.left[t] = 0 THEN Done ELSE question]

QueryRefused(a, t) ==
    /\ MayQuery(a, t)
    /\ breaker.state = "open"
    /\ Settle(a, AfterLoss(a, t))
    /\ UNCHANGED <<breaker, requests>>

(* The task goes on; or it ends, because the baseline is found or because a *)
(* result cannot be read (a baseline is then tried once more).              *)
QuerySucceeds(a, t) ==
    /\ t \in ask[a].flying
    /\ \/ \E n \in {ask[a].left[t] - 1} \cup (IF t = "baseline" THEN {0} ELSE {}) :
             Settle(a, Landed(a, t, n))
       \/ Settle(a, AfterLoss(a, t))
    /\ breaker' = ClosedBreaker
    /\ requests' = 0

(* Mutant: the breaker opens one failure late. *)
OneMoreFailureLate ==
    [failures |-> breaker.failures + 1,
     state |-> IF breaker.failures >= Threshold THEN "open" ELSE breaker.state]

(* record_failure *)
OneMoreFailure ==
    [failures |-> breaker.failures + 1,
     state |-> IF breaker.failures + 1 >= Threshold THEN "open" ELSE breaker.state]

(* The client gives up, after its last retry or at an error that it does    *)
(* not repeat.                                                              *)
QueryFails(a, t) ==
    /\ t \in ask[a].flying
    /\ Settle(a, AfterLoss(a, t))
    /\ breaker' = OneMoreFailure
    /\ UNCHANGED requests

ResetIsDue ==
    /\ breaker.state = "open"
    /\ breaker' = [breaker EXCEPT !.state = "due"]
    /\ UNCHANGED <<ask, requests>>

RestartAgent ==
    /\ breaker' = ClosedBreaker
    /\ ask' = [a \in AskCalls |-> Done]
    /\ requests' = 0

BreakerNext ==
    \/ ResetIsDue
    \/ RestartAgent
    \/ \E a \in AskCalls :
          \/ Retrieve(a)
          \/ \E t \in Tasks :
                \/ SendQuery(a, t) \/ RetryRequest(a, t) \/ QueryRefused(a, t)
                \/ QuerySucceeds(a, t) \/ QueryFails(a, t)

BreakerSpec == BreakerInit /\ [][BreakerNext]_breakerVars

-----------------------------------------------------------------------------
Seats == Cardinality(AskCalls) * Cardinality(EvidenceTasks)

(* From one reset of the breaker to the next, an Elasticsearch that answers *)
(* nothing gets no more requests than Threshold - 1 queries and those that  *)
(* can be in flight together make, each with its retries: late failures of  *)
(* queries sent before it opened, retries after it, and requests that find  *)
(* it due at the same time, do not add up to more.                          *)
BreakerBoundsRequests == requests <= (1 + Retries) * ((Threshold - 1) + Seats)
=============================================================================
