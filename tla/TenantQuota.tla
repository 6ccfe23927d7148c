---------------------------- MODULE TenantQuota ----------------------------
(***************************************************************************)
(* The ingestion quota of one server process                               *)
(* (modules/quotas/tenant_quota.py check_ingest_quota): a counter per      *)
(* account and minute, kept in memory under a lock.                        *)
(*                                                                         *)
(* A request reads the clock, asks Redis and only then takes the lock, so  *)
(* it may count in a minute that is over.  The Redis counter is used only  *)
(* if its key exists, and nothing creates it (incr comes after get_int     *)
(* found it): Redis never answers, and the memory counters decide.         *)
(***************************************************************************)
EXTENDS Naturals, FiniteSets, Functions

CONSTANTS
    Accounts,
    Requests,    \* bound: requests under way
    Costs,       \* bound: what a request can cost (its number of events)
    Limit,       \* INGESTION_RATE_LIMIT_RPM
    WindowLen,   \* 60 seconds
    Grace,       \* 60 seconds
    KeepKeys,    \* 100 counters
    MaxCount,    \* bound: no request begins once its counter is above this
    LastSecond   \* bound: the clock

ASSUME QuotaAssumption ==
    /\ Costs \subseteq Nat
    /\ WindowLen \in Nat \ {0}
    /\ {Limit, Grace, KeepKeys, MaxCount, LastSecond} \subseteq Nat

VARIABLES
    clock,
    request,   \* the requests that have read the clock
    counters,  \* _memory_counters: expires_at and the count, by key
    admitted   \* history: the cost admitted for each key

quotaVars == <<clock, request, counters, admitted>>

WindowStart(t) == t - (t % WindowLen)
Keys == Accounts \X {WindowStart(t) : t \in 0..LastSecond}
ResetAt(key) == key[2] + WindowLen
NoRequest == [waiting |-> FALSE]
Asks == [waiting : {TRUE}, account : Accounts, cost : Costs, now : 0..LastSecond]

QuotaTypeOK ==
    /\ clock \in 0..LastSecond
    /\ request \in [Requests -> Asks \cup {NoRequest}]
    /\ DOMAIN counters \subseteq Keys
    /\ \A key \in DOMAIN counters : counters[key] \in [count : Nat, expires : Nat]
    /\ admitted \in [Keys -> Nat]

QuotaInit ==
    /\ clock = 0
    /\ request = [q \in Requests |-> NoRequest]
    /\ counters = [key \in {} |-> [count |-> 0, expires |-> 0]]
    /\ admitted = [key \in Keys |-> 0]

ClockTicks ==
    /\ clock < LastSecond
    /\ clock' = clock + 1
    /\ UNCHANGED <<request, counters, admitted>>

KeyOf(ask) == <<ask.account, WindowStart(ask.now)>>

(* (0, reset_at) without an entry; a stale one would begin again. *)
Entry(key, t) ==
    IF key \in DOMAIN counters /\ t < counters[key].expires
    THEN counters[key]
    ELSE [count |-> 0, expires |-> ResetAt(key)]

(* The clock is read; then Redis is awaited, for any time. *)
BeginCheck(q, a, c) ==
    /\ request[q] = NoRequest
    /\ Entry(<<a, WindowStart(clock)>>, clock).count <= MaxCount
    /\ request' = [request EXCEPT ![q] =
                      [waiting |-> TRUE, account |-> a, cost |-> c, now |-> clock]]
    /\ UNCHANGED <<clock, counters, admitted>>

(* Mutant: the counters of a minute are dropped as soon as it is over. *)
CleanedEagerly(entries, t) ==
    IF Cardinality(DOMAIN entries) > KeepKeys
    THEN Restrict(entries, {key \in DOMAIN entries : t <= entries[key].expires})
    ELSE entries

Cleaned(entries, t) ==
    IF Cardinality(DOMAIN entries) > KeepKeys
    THEN Restrict(entries, {key \in DOMAIN entries : t <= entries[key].expires + Grace})
    ELSE entries

(* Under the lock; a refused request is counted too. *)
Check(q) ==
    /\ request[q] # NoRequest
    /\ LET ask == request[q]
           key == KeyOf(ask)
           entry == Entry(key, ask.now)
           count == entry.count + ask.cost
           entries == [k \in DOMAIN counters \cup {key} |->
                          IF k = key THEN [count |-> count, expires |-> entry.expires]
                          ELSE counters[k]]
       IN  /\ counters' = Cleaned(entries, ask.now)
           /\ admitted' = IF count <= Limit
                          THEN [admitted EXCEPT ![key] = @ + ask.cost]
                          ELSE admitted
    /\ request' = [request EXCEPT ![q] = NoRequest]
    /\ UNCHANGED clock

QuotaNext ==
    \/ ClockTicks
    \/ \E q \in Requests, a \in Accounts, c \in Costs : BeginCheck(q, a, c)
    \/ \E q \in Requests : Check(q)

QuotaSpec == QuotaInit /\ [][QuotaNext]_quotaVars

(* No account is admitted more than Limit in one minute by one process, for *)
(* as long as no counter of that minute can have been dropped: late         *)
(* requests and the clean-up do not make the counter start again.           *)
AdmittedWithinLimit ==
    \A key \in Keys :
        clock <= ResetAt(key) + Grace => admitted[key] <= Limit
=============================================================================
