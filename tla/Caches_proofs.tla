--------------------------- MODULE Caches_proofs ----------------------------
(***************************************************************************)
(* Proofs about what a process keeps in memory: policies, quotas, views.   *)
(***************************************************************************)
EXTENDS RetentionPolicy, TenantQuota, ViewCache, TLAPS

(***************************************************************************)
(* RetentionPolicy, for any number of processes, calls, PUTs and seconds.  *)
(* The argument: a copy lives at most PolicyTTL after the clock was read,  *)
(* and the row was selected after that, so the version in hand was still   *)
(* the committed one when its call began.  A batch that takes the copy     *)
(* asks before it expires; after that its age no longer matters.           *)
(***************************************************************************)

(* A call has begun in the past.  What it selected was not replaced before  *)
(* it began, and what it applies not PolicyTTL before.                      *)
CallIsFresh(c) ==
    /\ call[c].started <= now
    /\ call[c].pc \in {"fetched", "using"} => call[c].version <= version
    /\ call[c].pc = "fetched" /\ call[c].version # version =>
          call[c].started <= replacedAt[call[c].version]
    /\ call[c].pc = "using" /\ call[c].version # version =>
          call[c].started < replacedAt[call[c].version] + PolicyTTL

(* A copy expires within PolicyTTL of the replacement of its version.       *)
CopyExpires(p) ==
    /\ copy[p].version <= version
    /\ copy[p].expires <=
          (IF copy[p].version = version THEN now ELSE replacedAt[copy[p].version])
             + PolicyTTL

PolicyInv ==
    /\ PolicyTypeOK
    /\ \A c \in CallIds : CallIsFresh(c)
    /\ \A p \in PolicyProcs : CopyExpires(p)

LEMMA InitPolicyInv == PolicyInit => PolicyInv
BY PolicyAssumption DEF PolicyInit, PolicyInv, PolicyTypeOK, CallIsFresh, CopyExpires,
    NoCall, NoCopy, Versions, Times

(* What the steps of a call do to the calls: only its own entry changes. *)
LEMMA CallStep ==
    ASSUME PolicyInv, NEW c \in CallIds,
           \/ ServeCopy(c) \/ CacheMiss(c) \/ FetchRow(c) \/ FillCopy(c)
           \/ FetchRaises(c) \/ EndBatch(c)
    PROVE  PolicyInv'
<1> USE PolicyAssumption DEF Versions, Times
<1>t. PolicyTypeOK
  BY DEF PolicyInv
<1>p. c[1] \in PolicyProcs
  BY DEF CallIds
<1>k. CallIsFresh(c)
  BY DEF PolicyInv
<1>n. now \in Nat /\ version \in Nat /\ PolicyTTL \in Nat
  BY <1>t DEF PolicyTypeOK
<1>1. CASE CacheMiss(c)
  <2>1. call'[c].started = now /\ call'[c].pc = "missed"
    BY <1>1, <1>t DEF CacheMiss, PolicyTypeOK
  <2>2. \A d \in CallIds : d # c => call'[d] = call[d]
    BY <1>1, <1>t DEF CacheMiss, PolicyTypeOK
  <2>3. PolicyTypeOK'
    BY <1>1, <1>t DEF CacheMiss, PolicyTypeOK
  <2>4. UNCHANGED <<now, version, replacedAt, copy>>
    BY <1>1 DEF CacheMiss
  <2> QED BY <2>1, <2>2, <2>3, <2>4, <1>n DEF PolicyInv, CallIsFresh, CopyExpires
<1>2. CASE FetchRow(c)
  <2>1. call'[c].started = call[c].started /\ call'[c].version = version
    BY <1>2, <1>t DEF FetchRow, PolicyTypeOK
  <2>2. \A d \in CallIds : d # c => call'[d] = call[d]
    BY <1>2, <1>t DEF FetchRow, PolicyTypeOK
  <2>3. PolicyTypeOK'
    BY <1>2, <1>t DEF FetchRow, PolicyTypeOK
  <2>4. UNCHANGED <<now, version, replacedAt, copy>>
    BY <1>2 DEF FetchRow
  <2> QED BY <2>1, <2>2, <2>3, <2>4, <1>n, <1>k DEF PolicyInv, CallIsFresh, CopyExpires
<1>3. CASE FillCopy(c)
  <2>1. /\ call'[c] = [call[c] EXCEPT !.pc = "using"]
        /\ \A d \in CallIds : d # c => call'[d] = call[d]
    BY <1>3, <1>t DEF FillCopy, PolicyTypeOK
  <2>2. copy'[c[1]] = [version |-> call[c].version, expires |-> call[c].started + PolicyTTL]
    BY <1>3, <1>t, <1>p DEF FillCopy, PolicyTypeOK
  <2>3. \A p \in PolicyProcs : p # c[1] => copy'[p] = copy[p]
    BY <1>3, <1>t, <1>p DEF FillCopy, PolicyTypeOK
  <2>4. UNCHANGED <<now, version, replacedAt>>
    BY <1>3 DEF FillCopy
  <2>5. PolicyTypeOK'
    <3>1. call[c].started + PolicyTTL \in Nat /\ call[c].version \in 0..MaxVersion
      BY <1>t DEF PolicyTypeOK
    <3>2. copy' \in [PolicyProcs -> [version : 0..MaxVersion, expires : Nat]]
      BY <3>1, <1>3, <1>t, <1>p DEF FillCopy, PolicyTypeOK
    <3>3. call' \in [CallIds -> [pc : {"none", "missed", "fetched", "using"},
                                started : 0..MaxTime, version : 0..MaxVersion]]
      BY <1>3, <1>t DEF FillCopy, PolicyTypeOK
    <3>4. UNCHANGED putting
      BY <1>3 DEF FillCopy
    <3> QED BY <3>2, <3>3, <3>4, <2>4, <1>t DEF PolicyTypeOK
  <2>6. CopyExpires(c[1])' /\ CallIsFresh(c)'
    <3>1. call[c].pc = "fetched"
      BY <1>3 DEF FillCopy
    <3>2. call[c].started \in Nat /\ call[c].version \in 0..MaxVersion
      BY <1>t DEF PolicyTypeOK
    <3>3. replacedAt[call[c].version] \in Nat
      BY <3>2, <1>t DEF PolicyTypeOK
    <3> QED BY <3>1, <3>2, <3>3, <2>1, <2>2, <2>4, <1>k, <1>n, PolicyAssumption
            DEF CallIsFresh, CopyExpires
  <2> QED BY <2>1, <2>3, <2>4, <2>5, <2>6, <1>n DEF PolicyInv, CallIsFresh, CopyExpires
<1>4. CASE FetchRaises(c) \/ EndBatch(c)
  <2>1. call'[c] = NoCall /\ \A d \in CallIds : d # c => call'[d] = call[d]
    BY <1>4, <1>t DEF FetchRaises, EndBatch, PolicyTypeOK
  <2>2. PolicyTypeOK'
    <3>1. call' = [call EXCEPT ![c] = NoCall] /\ UNCHANGED <<now, version, replacedAt, copy, putting>>
      BY <1>4 DEF FetchRaises, EndBatch
    <3> QED BY <3>1, <1>t DEF PolicyTypeOK, NoCall
  <2>3. UNCHANGED <<now, version, replacedAt, copy>>
    BY <1>4 DEF FetchRaises, EndBatch
  <2> QED BY <2>1, <2>2, <2>3, <1>n DEF PolicyInv, CallIsFresh, CopyExpires, NoCall
<1>5. CASE ServeCopy(c)
  <2>1. /\ call'[c] = [pc |-> "using", started |-> now, version |-> copy[c[1]].version]
        /\ \A d \in CallIds : d # c => call'[d] = call[d]
    BY <1>5, <1>t DEF ServeCopy, PolicyTypeOK
  <2>2. UNCHANGED <<now, version, replacedAt, copy>> /\ copy[c[1]].expires > now
    BY <1>5 DEF ServeCopy, InUse
  <2>3. copy[c[1]].expires \in Nat /\ copy[c[1]].version \in 0..MaxVersion
    BY <1>t, <1>p DEF PolicyTypeOK
  <2>4. PolicyTypeOK'
    BY <1>5, <2>3, <1>t DEF ServeCopy, PolicyTypeOK
  <2>5. CallIsFresh(c)'
    <3>1. CopyExpires(c[1])
      BY <1>p DEF PolicyInv
    <3>2. replacedAt[copy[c[1]].version] \in Nat
      BY <2>3, <1>t DEF PolicyTypeOK
    <3> QED BY <3>1, <3>2, <2>1, <2>2, <2>3, <1>n DEF CallIsFresh, CopyExpires
  <2> QED BY <2>1, <2>2, <2>4, <2>5, <1>n DEF PolicyInv, CallIsFresh, CopyExpires
<1> QED BY <1>1, <1>2, <1>3, <1>4, <1>5

(* A second, a PUT and its invalidation. *)
LEMMA PolicyStep ==
    ASSUME PolicyInv,
           \/ PolicyTick
           \/ \E p \in PolicyProcs : PutCommits(p) \/ PutInvalidates(p)
           \/ UNCHANGED policyVars
    PROVE  PolicyInv'
<1> USE PolicyAssumption DEF Versions, Times
<1>t. PolicyTypeOK
  BY DEF PolicyInv
<1>n. now \in Nat /\ version \in Nat /\ PolicyTTL \in Nat
  BY <1>t DEF PolicyTypeOK
<1>c. \A c \in CallIds : call[c].started \in Nat /\ call[c].version \in 0..MaxVersion
  BY <1>t DEF PolicyTypeOK
<1>p. \A p \in PolicyProcs : copy[p].expires \in Nat /\ copy[p].version \in 0..MaxVersion
  BY <1>t DEF PolicyTypeOK
<1>r. \A v \in 0..MaxVersion : replacedAt[v] \in Nat
  BY <1>t DEF PolicyTypeOK
<1>1. CASE PolicyTick
  <2>1. PolicyTypeOK'
    BY <1>1, <1>t DEF PolicyTick, PolicyTypeOK
  <2>2. now' = now + 1 /\ UNCHANGED <<version, replacedAt, copy, call>>
    BY <1>1 DEF PolicyTick
  <2> QED BY <2>1, <2>2, <1>n, <1>c, <1>p, <1>r DEF PolicyInv, CallIsFresh, CopyExpires
<1>2. ASSUME NEW p \in PolicyProcs, PutCommits(p)
      PROVE  PolicyInv'
  <2>1. PolicyTypeOK'
    BY <1>2, <1>t DEF PutCommits, PolicyTypeOK
  <2>2. version' = version + 1 /\ UNCHANGED <<now, copy, call>>
    BY <1>2 DEF PutCommits
  <2>3. replacedAt'[version] = now
    BY <1>2, <1>t DEF PutCommits, PolicyTypeOK
  <2>4. \A v \in 0..MaxVersion : v # version => replacedAt'[v] = replacedAt[v]
    BY <1>2, <1>t DEF PutCommits, PolicyTypeOK
  <2>5. \A c \in CallIds : CallIsFresh(c)'
    BY <2>2, <2>3, <2>4, <1>n, <1>c DEF PolicyInv, CallIsFresh
  <2>6. \A q \in PolicyProcs : CopyExpires(q)'
    BY <2>2, <2>3, <2>4, <1>n, <1>p DEF PolicyInv, CopyExpires
  <2> QED BY <2>1, <2>5, <2>6 DEF PolicyInv
<1>3. ASSUME NEW p \in PolicyProcs, PutInvalidates(p)
      PROVE  PolicyInv'
  <2>1. PolicyTypeOK'
    BY <1>3, <1>t DEF PutInvalidates, PolicyTypeOK, NoCopy
  <2>2. UNCHANGED <<now, version, replacedAt, call>>
    BY <1>3 DEF PutInvalidates
  <2>3. copy'[p] = NoCopy /\ \A q \in PolicyProcs : q # p => copy'[q] = copy[q]
    BY <1>3, <1>t DEF PutInvalidates, PolicyTypeOK
  <2>4. CopyExpires(p)'
    BY <2>2, <2>3, <1>n, <1>r DEF CopyExpires, NoCopy
  <2> QED BY <2>1, <2>2, <2>3, <2>4, <1>n DEF PolicyInv, CallIsFresh, CopyExpires
<1>4. CASE UNCHANGED policyVars
  BY <1>4, <1>t DEF policyVars, PolicyInv, PolicyTypeOK, CallIsFresh, CopyExpires
<1> QED BY <1>1, <1>2, <1>3, <1>4

LEMMA NextPolicyInv == PolicyInv /\ [PolicyNext]_policyVars => PolicyInv'
BY CallStep, PolicyStep DEF PolicyNext

LEMMA FreshFromInv == PolicyInv => BatchesSeeReplacement
BY DEF PolicyInv, CallIsFresh, BatchesSeeReplacement

-----------------------------------------------------------------------------
(* Every variable of the retention cache keeps its type. *)
THEOREM PolicyTypeCorrect == PolicySpec => []PolicyTypeOK
<1>1. PolicyInv => PolicyTypeOK
  BY DEF PolicyInv
<1> QED BY <1>1, InitPolicyInv, NextPolicyInv, PTL DEF PolicySpec

(* No batch that asks PolicyTTL seconds or more after a policy was replaced *)
(* is given that policy, in any process; what a batch has been given before *)
(* is its own to the end.                                                   *)
THEOREM ReplacementIsSeen == PolicySpec => []BatchesSeeReplacement
BY InitPolicyInv, NextPolicyInv, FreshFromInv, PTL DEF PolicySpec

-----------------------------------------------------------------------------
(***************************************************************************)
(* TenantQuota, for any number of accounts, requests and costs.            *)
(* The argument: the counter of a minute is what was admitted in it, as    *)
(* long as its key lives; a key outlives its minute (MinuteOK).            *)
(***************************************************************************)

(* What the counters say of a minute whose counter cannot have been dropped. *)
MinuteOK(key) ==
    clock <= ResetAt(key) + Grace =>
        /\ admitted[key] <= Limit
        /\ key \in DOMAIN counters => admitted[key] <= counters[key].count
        /\ key \notin DOMAIN counters => admitted[key] = 0

QuotaInv ==
    /\ QuotaTypeOK
    /\ \A q \in Requests : request[q] # NoRequest => request[q].now <= clock
    /\ \A key \in DOMAIN counters : counters[key].expires = ResetAt(key)
    /\ \A key \in Keys : MinuteOK(key)

LEMMA MinuteOfTime ==
    ASSUME NEW t \in Nat
    PROVE  /\ WindowStart(t) \in Int
           /\ WindowStart(t) <= t
           /\ t < WindowStart(t) + WindowLen
<1>1. WindowLen \in Nat \ {0}
  BY QuotaAssumption
<1>2. t % WindowLen \in 0..(WindowLen - 1)
  BY <1>1
<1>3. QED
  BY <1>1, <1>2 DEF WindowStart

LEMMA KeyTypes ==
    ASSUME NEW key \in Keys
    PROVE  key[2] \in Int /\ ResetAt(key) \in Nat
<1>1. PICK t \in 0..LastSecond : key[2] = WindowStart(t)
  BY DEF Keys
<1>2. t \in Nat
  BY QuotaAssumption
<1>3. QED
  BY <1>1, <1>2, MinuteOfTime, QuotaAssumption DEF ResetAt

LEMMA InitQuotaInv == QuotaInit => QuotaInv
<1>1. \A q \in Requests : [q1 \in Requests |-> NoRequest][q] = NoRequest
  OBVIOUS
<1>2. QED
  BY QuotaAssumption, <1>1 DEF QuotaInit, QuotaInv, QuotaTypeOK, MinuteOK

LEMMA CheckQuotaInv ==
    ASSUME QuotaInv, NEW q \in Requests, Check(q)
    PROVE  QuotaInv'
<1> DEFINE asked == request[q]
           key == KeyOf(asked)
           entry == Entry(key, asked.now)
           count == entry.count + asked.cost
           entries == [k \in DOMAIN counters \cup {key} |->
                          IF k = key THEN [count |-> count, expires |-> entry.expires]
                          ELSE counters[k]]
<1>1. /\ asked \in Asks
      /\ asked.now <= clock
      /\ asked.now \in Nat
      /\ asked.cost \in Nat
      /\ clock \in Nat
  <2>1. request[q] # NoRequest
    BY Zenon DEF Check
  <2>2. asked \in Asks /\ asked.now <= clock
    BY <2>1 DEF QuotaInv, QuotaTypeOK
  <2>3. asked.now \in 0..LastSecond /\ asked.cost \in Nat /\ clock \in 0..LastSecond
    BY <2>2, QuotaAssumption DEF QuotaInv, QuotaTypeOK, Asks
  <2>4. QED
    BY <2>2, <2>3, QuotaAssumption
<1>2. key \in Keys
  BY <1>1 DEF KeyOf, Keys, Asks
<1>3. ResetAt(key) \in Nat /\ asked.now < ResetAt(key)
  BY <1>1, <1>2, KeyTypes, MinuteOfTime DEF KeyOf, ResetAt
<1>4. /\ key \in DOMAIN counters => entry = counters[key]
      /\ key \notin DOMAIN counters => entry = [count |-> 0, expires |-> ResetAt(key)]
  BY <1>3 DEF Entry, QuotaInv
<1>5. /\ entry.count \in Nat
      /\ entry.expires = ResetAt(key)
      /\ count \in Nat
  BY <1>1, <1>3, <1>4 DEF QuotaInv, QuotaTypeOK
<1>6. /\ DOMAIN entries = DOMAIN counters \cup {key}
      /\ entries[key] = [count |-> count, expires |-> ResetAt(key)]
      /\ \A k \in DOMAIN counters : k # key => entries[k] = counters[k]
  BY <1>5
<1>7. \A k \in DOMAIN entries :
         k \in Keys /\ entries[k] \in [count : Nat, expires : Nat] /\ entries[k].expires = ResetAt(k)
  BY <1>2, <1>3, <1>5, <1>6 DEF QuotaInv, QuotaTypeOK
<1>8. counters' = Cleaned(entries, asked.now)
  BY Zenon DEF Check
<1>9. /\ DOMAIN counters' \subseteq DOMAIN entries
      /\ \A k \in DOMAIN counters' : counters'[k] = entries[k]
      /\ \A k \in DOMAIN entries : k \notin DOMAIN counters' => ResetAt(k) + Grace < asked.now
  <2>1. CASE counters' = entries
    BY <2>1
  <2>2. CASE counters' = Restrict(entries, {k \in DOMAIN entries : asked.now <= entries[k].expires + Grace})
    <3> DEFINE S == {k \in DOMAIN entries : asked.now <= entries[k].expires + Grace}
    <3>1. counters' = [k \in S |-> entries[k]]
      BY <2>2 DEF Restrict
    <3>2. \A k \in DOMAIN entries : k \notin S => ResetAt(k) + Grace < asked.now
      <4> SUFFICES ASSUME NEW k \in DOMAIN entries, ~(asked.now <= entries[k].expires + Grace)
                   PROVE  ResetAt(k) + Grace < asked.now
        OBVIOUS
      <4>1. entries[k].expires = ResetAt(k) /\ ResetAt(k) \in Nat
        BY <1>7, KeyTypes
      <4>2. QED
        BY <4>1, <1>1, QuotaAssumption
    <3>3. QED
      BY <3>1, <3>2
  <2>3. QED
    BY <1>8, <2>1, <2>2 DEF Cleaned
<1>10. admitted' = IF count <= Limit THEN [admitted EXCEPT ![key] = @ + asked.cost] ELSE admitted
  BY Zenon DEF Check
<1>11. request' = [request EXCEPT ![q] = NoRequest] /\ clock' = clock
  BY Zenon DEF Check
<1>12. QuotaTypeOK'
  <2>1. \A k \in DOMAIN counters' : k \in Keys /\ counters'[k] \in [count : Nat, expires : Nat]
    BY <1>7, <1>9
  <2>2. admitted' \in [Keys -> Nat]
    BY <1>1, <1>2, <1>10 DEF QuotaInv, QuotaTypeOK
  <2>3. QED
    BY <2>1, <2>2, <1>11 DEF QuotaInv, QuotaTypeOK
<1>13. \A p \in Requests : request'[p] # NoRequest => request'[p].now <= clock'
  BY <1>11 DEF QuotaInv, QuotaTypeOK
<1>14. \A k \in DOMAIN counters' : counters'[k].expires = ResetAt(k)
  BY <1>7, <1>9
<1>15. ASSUME NEW k \in Keys, clock <= ResetAt(k) + Grace
       PROVE  /\ admitted'[k] <= Limit
              /\ k \in DOMAIN counters' => admitted'[k] <= counters'[k].count
              /\ k \notin DOMAIN counters' => admitted'[k] = 0
  <2>1. k \in DOMAIN counters' <=> k \in DOMAIN entries
    BY <1>1, <1>9, <1>15, KeyTypes, QuotaAssumption
  <2>2. /\ admitted[k] <= Limit
        /\ k \in DOMAIN counters => admitted[k] <= counters[k].count
        /\ k \notin DOMAIN counters => admitted[k] = 0
        /\ admitted[k] \in Nat
    BY <1>15 DEF QuotaInv, MinuteOK, QuotaTypeOK
  <2>3. CASE k = key
    <3>1. admitted[key] <= entry.count
      BY <2>2, <2>3, <1>4, <1>5
    <3>2. counters'[key].count = count /\ key \in DOMAIN counters'
      <4>1. key \in DOMAIN counters'
        BY <2>1, <2>3, <1>6
      <4>2. counters'[key] = entries[key]
        BY <4>1, <1>9
      <4> HIDE DEF key, entry, count, entries
      <4>3. QED
        BY <4>1, <4>2, <1>6
    <3>3. admitted'[key] = IF count <= Limit THEN admitted[key] + asked.cost ELSE admitted[key]
      BY <1>2, <1>10 DEF QuotaInv, QuotaTypeOK
    <3>4. QED
      BY <2>2, <2>3, <3>1, <3>2, <3>3, <1>1, <1>5, QuotaAssumption
  <2>4. CASE k # key
    <3>1. admitted'[k] = admitted[k]
      BY <2>4, <1>2, <1>10 DEF QuotaInv, QuotaTypeOK
    <3>2. /\ k \in DOMAIN counters' <=> k \in DOMAIN counters
          /\ k \in DOMAIN counters => counters'[k] = counters[k]
      BY <2>1, <2>4, <1>6, <1>9
    <3>3. QED
      BY <2>2, <3>1, <3>2
  <2>5. QED
    BY <2>3, <2>4
<1>16. \A k \in Keys : MinuteOK(k)'
  BY <1>11, <1>15 DEF MinuteOK, ResetAt
<1>17. QED
  BY <1>12, <1>13, <1>14, <1>16 DEF QuotaInv, ResetAt, Keys, WindowStart

LEMMA NextQuotaInv == QuotaInv /\ [QuotaNext]_quotaVars => QuotaInv'
<1> SUFFICES ASSUME QuotaInv, [QuotaNext]_quotaVars PROVE QuotaInv'
  OBVIOUS
<1>1. CASE ClockTicks
  <2>1. clock' \in 0..LastSecond /\ clock \in Nat /\ clock' = clock + 1
    BY <1>1, QuotaAssumption DEF ClockTicks, QuotaInv, QuotaTypeOK
  <2>2. \A q \in Requests : request[q] # NoRequest => request[q].now <= clock'
    <3> SUFFICES ASSUME NEW q \in Requests, request[q] # NoRequest PROVE request[q].now <= clock'
      OBVIOUS
    <3>1. request[q].now <= clock /\ request[q].now \in 0..LastSecond
      BY DEF QuotaInv, QuotaTypeOK, Asks
    <3>2. QED
      BY <2>1, <3>1, QuotaAssumption
  <2>3. ASSUME NEW key \in Keys PROVE MinuteOK(key)'
    <3>1. clock' <= ResetAt(key) + Grace => clock <= ResetAt(key) + Grace
      BY <2>1, KeyTypes, QuotaAssumption
    <3>2. QED
      BY <1>1, <3>1 DEF ClockTicks, QuotaInv, MinuteOK, ResetAt
  <2>4. QED
    BY <1>1, <2>1, <2>2, <2>3 DEF ClockTicks, QuotaInv, QuotaTypeOK, ResetAt, Keys, WindowStart
<1>2. ASSUME NEW q \in Requests, NEW a \in Accounts, NEW c \in Costs, BeginCheck(q, a, c)
      PROVE  QuotaInv'
  <2> DEFINE new == [waiting |-> TRUE, account |-> a, cost |-> c, now |-> clock]
  <2>1. request' = [request EXCEPT ![q] = new] /\ UNCHANGED <<clock, counters, admitted>>
    BY <1>2 DEF BeginCheck
  <2>2. new \in Asks /\ new.now <= clock
    BY QuotaAssumption DEF QuotaInv, QuotaTypeOK, Asks
  <2>3. QuotaTypeOK'
    BY <2>1, <2>2 DEF QuotaInv, QuotaTypeOK, Keys, WindowStart
  <2>4. \A p \in Requests : request'[p] # NoRequest => request'[p].now <= clock'
    BY <2>1, <2>2 DEF QuotaInv, QuotaTypeOK
  <2>5. QED
    BY <2>1, <2>3, <2>4 DEF QuotaInv, MinuteOK, ResetAt, Keys, WindowStart
<1>3. CASE \E q \in Requests : Check(q)
  BY <1>3, CheckQuotaInv
<1>4. CASE UNCHANGED quotaVars
  BY <1>4 DEF quotaVars, QuotaInv, QuotaTypeOK, MinuteOK, ResetAt, Keys, WindowStart
<1>5. QED
  BY <1>1, <1>2, <1>3, <1>4 DEF QuotaNext

(* The quota counters and the requests are always well formed. *)
THEOREM QuotaTypeCorrect == QuotaSpec => []QuotaTypeOK
<1>1. QuotaInv => QuotaTypeOK
  BY DEF QuotaInv
<1>2. QED
  BY InitQuotaInv, NextQuotaInv, <1>1, PTL DEF QuotaSpec

(* Late requests and the clean-up never make the counter of a minute       *)
(* start again while that minute can still be asked for: no account is     *)
(* admitted more than Limit, for any number of accounts, requests and      *)
(* costs.                                                                  *)
THEOREM LimitHolds == QuotaSpec => []AdmittedWithinLimit
<1>1. QuotaInv => AdmittedWithinLimit
  BY DEF QuotaInv, MinuteOK, AdmittedWithinLimit
<1>2. QED
  BY InitQuotaInv, NextQuotaInv, <1>1, PTL DEF QuotaSpec

-----------------------------------------------------------------------------
(***************************************************************************)
(* ViewCache, for any writers, readers and expiries.  The                  *)
(* argument: a write is announced only by a new version, so whatever was   *)
(* read for a version while it was the current one holds every write that  *)
(* had been announced; a request that fetched that version, in the same    *)
(* life of the version key, can be given it without missing any of them.   *)
(***************************************************************************)

(* Request q fetched a version and may be given rows that were read for     *)
(* version v, by a request begun after the key had expired `since` times.   *)
Accepts(q, v, since) ==
    /\ reader[q].pc = "versioned"
    /\ ~reader[q].blind
    /\ \/ reader[q].expiries < since
       \/ reader[q].expiries = since /\ reader[q].version = v

Settled(v, since, rows) ==
    /\ since <= expiries
    /\ since = expiries => v <= cacheVersion
    /\ since = expiries /\ v = cacheVersion => Announced \subseteq rows
    /\ \A q \in ViewReaders : Accepts(q, v, since) => reader[q].owed \subseteq rows

ViewsSettled == \A v \in DOMAIN view :
    view[v].there => Settled(v, view[v].since, view[v].rows)

ReaderOK(q) ==
    /\ reader[q].owed \subseteq Announced
    /\ reader[q].expiries <= expiries
    /\ reader[q].pc \in {"versioned", "queried"} /\ reader[q].expiries = expiries =>
          reader[q].version <= cacheVersion
    /\ reader[q].pc = "queried" =>
          /\ reader[q].owed = {}
          /\ Settled(reader[q].version, reader[q].expiries, reader[q].rows)
    /\ reader[q].pc = "served" =>
          reader[q].owed = {} \/ reader[q].expiries < expiries \/ reader[q].blind

ViewInv ==
    /\ ViewTypeOK
    /\ ViewsSettled
    /\ \A q \in ViewReaders : ReaderOK(q)

LEMMA InitViewInv == ViewInit => ViewInv
BY ViewAssumption DEF ViewInit, ViewInv, ViewTypeOK, ViewsSettled, ReaderOK, Empty,
    Views, Idle, ViewRequests, Announced

(* A writer's step, or the end of the version key: what is settled stays    *)
(* settled.                                                                 *)
LEMMA ViewWriterInv ==
    ASSUME ViewInv,
           \/ \E w \in RowWriters : CommitWrite(w) \/ BumpVersion(w)
           \/ VersionExpires
    PROVE  ViewInv'
<1>t. ViewTypeOK
  BY DEF ViewInv
<1>n. cacheVersion \in Nat /\ expiries \in Nat /\ \A v \in DOMAIN view : v \in Nat
      /\ \A u \in DOMAIN view : view[u].since \in Nat
  BY <1>t, ViewAssumption DEF ViewTypeOK, Views
<1>r. \A q \in ViewReaders : /\ reader[q].version \in Nat /\ reader[q].expiries \in Nat
                              /\ reader[q].rows \in SUBSET RowWriters
  BY <1>t, ViewAssumption DEF ViewTypeOK, ViewRequests
<1>1. /\ UNCHANGED <<view, reader>>
      /\ \/ UNCHANGED <<cacheVersion, expiries>> /\ Announced' = Announced
         \/ cacheVersion' = cacheVersion + 1 /\ expiries' = expiries
            /\ Announced \subseteq Announced'
         \/ expiries' = expiries + 1 /\ expiries' \in 0..MaxExpiries /\ cacheVersion' = 0
            /\ Announced' = Announced
      /\ ViewTypeOK'
  <2>1. ASSUME NEW w \in RowWriters, CommitWrite(w)
        PROVE  UNCHANGED <<view, reader, cacheVersion, expiries>> /\ Announced' = Announced
               /\ ViewTypeOK'
    BY <2>1, <1>t DEF CommitWrite, ViewTypeOK, Announced
  <2>2. ASSUME NEW w \in RowWriters, BumpVersion(w)
        PROVE  /\ UNCHANGED <<view, reader, expiries>>
               /\ \/ cacheVersion' = cacheVersion + 1 /\ Announced \subseteq Announced'
                  \/ cacheVersion' = cacheVersion /\ Announced' = Announced
               /\ ViewTypeOK'
    <3>1. writer' \in [RowWriters -> {"writing", "committed", "announced", "unannounced"}]
          /\ cacheVersion' \in Nat /\ UNCHANGED <<view, reader, expiries>>
      BY <2>2, <1>t, <1>n DEF BumpVersion, ViewTypeOK
    <3>2. ViewTypeOK'
      BY <3>1, <1>t DEF ViewTypeOK
    <3>3. \/ cacheVersion' = cacheVersion + 1 /\ Announced \subseteq Announced'
          \/ cacheVersion' = cacheVersion /\ Announced' = Announced
      BY <2>2, <1>t DEF BumpVersion, ViewTypeOK, Announced
    <3> QED BY <3>1, <3>2, <3>3
  <2>3. CASE VersionExpires
    BY <2>3, <1>t, <1>n, ViewAssumption DEF VersionExpires, ViewTypeOK, Announced
  <2> QED BY <2>1, <2>2, <2>3
<1>2. \A v \in Nat, since \in Nat, rows \in SUBSET RowWriters :
          Settled(v, since, rows) => Settled(v, since, rows)'
  BY <1>1, <1>n DEF Settled, Accepts
<1>3. ViewsSettled'
  BY <1>1, <1>2, <1>n DEF ViewInv, ViewsSettled, Settled, Accepts
<1>4. ASSUME NEW q \in ViewReaders PROVE ReaderOK(q)'
  <2>1. ReaderOK(q) /\ reader'[q] = reader[q]
    BY <1>1 DEF ViewInv
  <2>2. reader[q].pc = "queried" =>
            Settled(reader[q].version, reader[q].expiries, reader[q].rows)'
    <3> SUFFICES ASSUME reader[q].pc = "queried"
                 PROVE  Settled(reader[q].version, reader[q].expiries, reader[q].rows)'
      OBVIOUS
    <3>1. PICK v \in Nat, since \in Nat, rows \in SUBSET RowWriters :
              v = reader[q].version /\ since = reader[q].expiries /\ rows = reader[q].rows
      BY <1>r
    <3>2. Settled(v, since, rows)
      BY <2>1, <3>1 DEF ReaderOK
    <3>3. Settled(v, since, rows)'
      BY <3>2, <1>2
    <3>4. v = reader'[q].version /\ since = reader'[q].expiries /\ rows = reader'[q].rows
      BY <2>1, <3>1
    <3> QED BY <3>3, <3>4 DEF Settled, Accepts
  <2> QED BY <2>1, <2>2, <1>1, <1>n, <1>r DEF ReaderOK
<1> QED BY <1>1, <1>3, <1>4 DEF ViewInv

(* A request's step: what is settled stays settled for the others, and for  *)
(* a request that has just fetched the version.                             *)
LEMMA ReaderMoves ==
    ASSUME ViewInv, NEW q \in ViewReaders
    PROVE  \A r \in ViewRequests :
              /\ MoveReader(q, r)
              /\ \/ r.pc # "versioned" \/ r.blind
                 \/ r.version = cacheVersion /\ r.expiries = expiries /\ r.owed = Announced
              => /\ \A v \in Nat, since \in Nat, rows \in SUBSET RowWriters :
                       Settled(v, since, rows) => Settled(v, since, rows)'
                 /\ reader'[q] = r
                 /\ \A p \in ViewReaders : p # q => ReaderOK(p)'
                 /\ reader' \in [ViewReaders -> ViewRequests]
                 /\ UNCHANGED <<writer, cacheVersion, expiries>> /\ Announced' = Announced
<1> SUFFICES ASSUME NEW r \in ViewRequests, MoveReader(q, r),
                    \/ r.pc # "versioned" \/ r.blind
                    \/ r.version = cacheVersion /\ r.expiries = expiries /\ r.owed = Announced
             PROVE  /\ \A v \in Nat, since \in Nat, rows \in SUBSET RowWriters :
                          Settled(v, since, rows) => Settled(v, since, rows)'
                    /\ reader'[q] = r
                    /\ \A p \in ViewReaders : p # q => ReaderOK(p)'
                    /\ reader' \in [ViewReaders -> ViewRequests]
                    /\ UNCHANGED <<writer, cacheVersion, expiries>> /\ Announced' = Announced
  OBVIOUS
<1>t. ViewTypeOK
  BY DEF ViewInv
<1>n. cacheVersion \in Nat /\ expiries \in Nat
  BY <1>t, ViewAssumption DEF ViewTypeOK
<1>1. UNCHANGED <<writer, cacheVersion, expiries>> /\ Announced' = Announced
  BY DEF MoveReader, Announced
<1>2. reader'[q] = r /\ reader' \in [ViewReaders -> ViewRequests]
      /\ \A p \in ViewReaders : p # q => reader'[p] = reader[p]
  BY <1>t DEF MoveReader, ViewTypeOK
<1>3. ASSUME NEW v \in Nat, NEW since \in Nat, NEW rows, Settled(v, since, rows)
      PROVE  Settled(v, since, rows)'
  <2>1. since <= expiries /\ (since = expiries => v <= cacheVersion)
        /\ (since = expiries /\ v = cacheVersion => Announced \subseteq rows)
    BY <1>3 DEF Settled
  <2>2. ASSUME NEW p \in ViewReaders, p # q, Accepts(p, v, since)'
        PROVE  reader'[p].owed \subseteq rows
    BY <1>1, <1>2, <1>3, <2>2 DEF Settled, Accepts
  <2>3. ASSUME Accepts(q, v, since)'
        PROVE  reader'[q].owed \subseteq rows
    BY <1>1, <1>2, <2>1, <2>3, <1>n DEF Accepts
  <2> QED BY <1>1, <2>1, <2>2, <2>3 DEF Settled
<1>4. ASSUME NEW p \in ViewReaders, p # q
      PROVE  ReaderOK(p)'
  <2>1. ReaderOK(p) /\ reader'[p] = reader[p]
    BY <1>2, <1>4 DEF ViewInv
  <2>2. /\ reader[p].version \in Nat /\ reader[p].expiries \in Nat
        /\ reader[p].rows \in SUBSET RowWriters
    BY <1>t, ViewAssumption DEF ViewTypeOK, ViewRequests
  <2>3. reader[p].pc = "queried" =>
            Settled(reader[p].version, reader[p].expiries, reader[p].rows)'
    <3> SUFFICES ASSUME reader[p].pc = "queried"
                 PROVE  Settled(reader[p].version, reader[p].expiries, reader[p].rows)'
      OBVIOUS
    <3>1. PICK v \in Nat, since \in Nat, rows \in SUBSET RowWriters :
              v = reader[p].version /\ since = reader[p].expiries /\ rows = reader[p].rows
      BY <2>2
    <3>2. Settled(v, since, rows)
      BY <2>1, <3>1 DEF ReaderOK
    <3>3. Settled(v, since, rows)'
      BY <3>2, <1>3
    <3>4. v = reader'[p].version /\ since = reader'[p].expiries /\ rows = reader'[p].rows
      BY <2>1, <3>1
    <3> QED BY <3>3, <3>4 DEF Settled, Accepts
  <2> QED BY <2>1, <2>2, <2>3, <1>1 DEF ReaderOK
<1> QED BY <1>1, <1>2, <1>3, <1>4
(* A request's step as a whole: its own record r, and the views, which are  *)
(* as they were or hold settled rows.                                       *)
RecordOK(r) ==
    /\ r.owed \subseteq Announced
    /\ r.expiries <= expiries
    /\ r.pc \in {"versioned", "queried"} /\ r.expiries = expiries =>
          r.version <= cacheVersion
    /\ r.pc = "versioned" =>
          r.blind \/ (r.version = cacheVersion /\ r.expiries = expiries /\ r.owed = Announced)
    /\ r.pc = "queried" => r.owed = {} /\ Settled(r.version, r.expiries, r.rows)
    /\ r.pc = "served" => r.owed = {} \/ r.expiries < expiries \/ r.blind

LEMMA RequestInv ==
    ASSUME ViewInv, NEW q \in ViewReaders, NEW r \in ViewRequests,
           MoveReader(q, r), RecordOK(r),
           \A v \in DOMAIN view' :
               /\ v \in Nat
               /\ view'[v] \in Views
               /\ view'[v].there => Settled(v, view'[v].since, view'[v].rows)
    PROVE  ViewInv'
<1>t. ViewTypeOK
  BY DEF ViewInv
<1>1. /\ \A v \in Nat, since \in Nat, rows \in SUBSET RowWriters :
             Settled(v, since, rows) => Settled(v, since, rows)'
      /\ reader'[q] = r
      /\ \A p \in ViewReaders : p # q => ReaderOK(p)'
      /\ reader' \in [ViewReaders -> ViewRequests]
      /\ UNCHANGED <<writer, cacheVersion, expiries>> /\ Announced' = Announced
  BY ReaderMoves DEF RecordOK
<1>2. ViewTypeOK'
  BY <1>1, <1>t DEF ViewTypeOK
<1>3. ViewsSettled'
  <2> SUFFICES ASSUME NEW v \in DOMAIN view', view'[v].there
               PROVE  Settled(v, view[v].since, view[v].rows)'
    BY DEF ViewsSettled
  <2>1. /\ v \in Nat /\ view'[v].since \in Nat
        /\ view'[v].rows \in SUBSET RowWriters
    BY ViewAssumption DEF Views
  <2>2. PICK since \in Nat, rows \in SUBSET RowWriters : since = view'[v].since /\ rows = view'[v].rows
    BY <2>1
  <2>3. Settled(v, since, rows)
    BY <2>2
  <2>4. Settled(v, since, rows)'
    BY <2>1, <2>3, <1>1
  <2> QED BY <2>2, <2>4 DEF Settled, Accepts
<1>4. ReaderOK(q)'
  <2>1. r.version \in Nat /\ r.expiries \in Nat /\ r.rows \in SUBSET RowWriters
    BY ViewAssumption DEF ViewRequests
  <2>2. r.pc = "queried" => Settled(r.version, r.expiries, r.rows)'
    BY <1>1, <2>1 DEF RecordOK
  <2>3. r.pc = "queried" => Settled(reader[q].version, reader[q].expiries, reader[q].rows)'
    BY <1>1, <2>2 DEF Settled, Accepts
  <2> QED BY <1>1, <2>3 DEF RecordOK, ReaderOK
<1> QED BY <1>1, <1>2, <1>3, <1>4 DEF ViewInv

LEMMA ReaderInv ==
    ASSUME ViewInv, NEW q \in ViewReaders,
           \/ FetchVersion(q) \/ ServeCached(q) \/ QueryRows(q) \/ StoreView(q)
           \/ EndRequest(q)
    PROVE  ViewInv'
<1>t. ViewTypeOK
  BY DEF ViewInv
<1>n. cacheVersion \in Nat /\ expiries \in Nat /\ expiries \in 0..MaxExpiries
      /\ Announced \subseteq Committed
      /\ Committed \subseteq RowWriters
  BY <1>t, ViewAssumption DEF ViewTypeOK, Announced, Committed
<1>r. reader[q] \in ViewRequests /\ ReaderOK(q)
  BY <1>t DEF ViewTypeOK, ViewInv
<1>v. \A v \in DOMAIN view : v \in Nat /\ view[v] \in Views
                            /\ (view[v].there => Settled(v, view[v].since, view[v].rows))
  BY <1>t DEF ViewTypeOK, ViewInv, ViewsSettled
<1>1. ASSUME NEW r \in ViewRequests, MoveReader(q, r), UNCHANGED view, RecordOK(r)
      PROVE  ViewInv'
  <2>1. \A v \in DOMAIN view' :
            /\ v \in Nat
            /\ view'[v] \in Views
            /\ view'[v].there => Settled(v, view'[v].since, view'[v].rows)
    BY <1>v, <1>1
  <2> QED BY <2>1, <1>1, RequestInv
<1>2. CASE FetchVersion(q)
  <2>1. PICK blind \in BOOLEAN :
          MoveReader(q, [Idle EXCEPT !.pc = "versioned",
                            !.version = IF blind THEN 0 ELSE cacheVersion,
                            !.blind = blind, !.expiries = expiries,
                            !.owed = Announced]) /\ UNCHANGED view
    BY <1>2 DEF FetchVersion
  <2> DEFINE r == [Idle EXCEPT !.pc = "versioned",
                            !.version = IF blind THEN 0 ELSE cacheVersion,
                            !.blind = blind, !.expiries = expiries,
                            !.owed = Announced]
  <2>2. /\ r \in ViewRequests /\ r.pc = "versioned" /\ r.blind = blind
        /\ r.version = (IF blind THEN 0 ELSE cacheVersion)
        /\ r.expiries = expiries /\ r.owed = Announced
    BY <1>n DEF Idle, ViewRequests
  <2>3. MoveReader(q, r) /\ UNCHANGED view
    BY <2>1
  <2> HIDE DEF r
  <2>4. RecordOK(r)
    BY <2>2, <1>n DEF RecordOK
  <2> QED BY <1>1, <2>2, <2>3, <2>4
<1>3. CASE ServeCached(q)
  <2> DEFINE v == reader[q].version
             e == Lookup(v)
             r == Answer(reader[q], e.rows, e.since)
  <2>1. reader[q].pc = "versioned" /\ e.there /\ MoveReader(q, r) /\ UNCHANGED view
    BY <1>3 DEF ServeCached
  <2>2. v \in DOMAIN view /\ e = view[v] /\ view[v].there
    BY <2>1 DEF Lookup, Empty
  <2>3. e.since \in Nat /\ e.since \in 0..MaxExpiries /\ Settled(v, e.since, e.rows)
    BY <2>2, <1>v, ViewAssumption DEF Views
  <2>4. /\ r \in ViewRequests /\ r.pc = "served" /\ r.owed = reader[q].owed \ e.rows
        /\ r.expiries = e.since /\ r.blind = reader[q].blind
    BY <1>r, <2>3 DEF ViewRequests, Answer
  <2>5. reader[q].expiries \in Nat /\ reader[q].expiries <= expiries /\ e.since <= expiries
    BY <1>r, <2>3, ViewAssumption DEF ReaderOK, Settled, ViewRequests
  <2>6. r.owed = {} \/ r.expiries < expiries \/ r.blind
    <3>1. CASE reader[q].blind
      BY <3>1, <2>4
    <3>2. CASE e.since < expiries
      BY <3>2, <2>4
    <3>3. CASE ~reader[q].blind /\ e.since = expiries
      <4>1. Accepts(q, v, e.since)
        BY <2>1, <2>5, <3>3, <1>n DEF Accepts
      <4>2. reader[q].owed \subseteq e.rows
        BY <4>1, <2>3 DEF Settled
      <4> QED BY <4>2, <2>4
    <3> QED BY <3>1, <3>2, <3>3, <2>3, <2>5, <1>n
  <2>7. r.owed \subseteq Announced
    BY <2>4, <1>r DEF ReaderOK
  <2> HIDE DEF r, e, v
  <2>8. RecordOK(r)
    BY <2>4, <2>5, <2>6, <2>7 DEF RecordOK
  <2> QED BY <1>1, <2>1, <2>4, <2>8
<1>4. CASE QueryRows(q)
  <2> DEFINE r == [reader[q] EXCEPT !.pc = "queried", !.rows = Committed,
                         !.owed = @ \ Committed, !.blind = FALSE]
  <2>1. reader[q].pc = "versioned" /\ MoveReader(q, r) /\ UNCHANGED view
    BY <1>4 DEF QueryRows
  <2>2. /\ r \in ViewRequests /\ r.pc = "queried" /\ r.rows = Committed
        /\ r.owed = reader[q].owed \ Committed
        /\ r.version = reader[q].version /\ r.expiries = reader[q].expiries
    BY <1>r, <1>n DEF ViewRequests
  <2>3. r.owed = {} /\ r.expiries <= expiries
        /\ (r.expiries = expiries => r.version <= cacheVersion)
    BY <2>1, <2>2, <1>r, <1>n DEF ReaderOK
  <2>4. \A p \in ViewReaders : reader[p].owed \subseteq Committed
    BY <1>n DEF ViewInv, ReaderOK
  <2> HIDE DEF r
  <2>5. Settled(r.version, r.expiries, r.rows)
    BY <2>2, <2>3, <2>4, <1>n DEF Settled
  <2>6. RecordOK(r)
    BY <2>2, <2>3, <2>5 DEF RecordOK
  <2> QED BY <1>1, <2>1, <2>2, <2>6
<1>5. CASE EndRequest(q)
  <2>1. MoveReader(q, Idle) /\ UNCHANGED view
    BY <1>5 DEF EndRequest
  <2>2. Idle \in ViewRequests
    BY ViewAssumption DEF Idle, ViewRequests
  <2>3. Idle.pc = "idle" /\ Idle.owed = {} /\ Idle.expiries = 0
    BY DEF Idle
  <2>4. RecordOK(Idle)
    BY <2>3, <1>n DEF RecordOK
  <2> QED BY <1>1, <2>1, <2>2, <2>4
<1>6. CASE StoreView(q)
  <2> DEFINE entry == [rows |-> reader[q].rows, since |-> reader[q].expiries, there |-> TRUE]
             r == Answer(reader[q], reader[q].rows, reader[q].expiries)
  <2>1. /\ reader[q].pc = "queried" /\ MoveReader(q, r)
        /\ view' = Store(reader[q].version, entry) \/ UNCHANGED view
    BY <1>6 DEF StoreView
  <2>2. /\ reader[q].version \in Nat /\ entry \in Views
        /\ reader[q].owed = {}
        /\ Settled(reader[q].version, entry.since, entry.rows)
    BY <2>1, <1>r DEF ReaderOK, ViewRequests, Views
  <2>3. r \in ViewRequests /\ r.pc = "served" /\ r.owed = {} /\ r.expiries = reader[q].expiries
    BY <2>2, <1>r DEF ViewRequests, Answer
  <2> HIDE DEF entry, r
  <2>4. RecordOK(r)
    BY <2>3, <1>r DEF RecordOK, ReaderOK
  <2>5. \A v \in DOMAIN view' :
            /\ v \in Nat
            /\ view'[v] \in Views
            /\ view'[v].there => Settled(v, view'[v].since, view'[v].rows)
    <3>1. CASE UNCHANGED view
      BY <3>1, <1>v
    <3>2. CASE view' = Store(reader[q].version, entry)
      <4> SUFFICES ASSUME NEW v \in DOMAIN view'
                   PROVE  /\ v \in Nat
                          /\ view'[v] \in Views
                          /\ view'[v].there => Settled(v, view'[v].since, view'[v].rows)
        OBVIOUS
      <4>1. CASE v = reader[q].version
        <5>1. view'[v] = entry
          BY <3>2, <4>1 DEF Store
        <5> QED BY <5>1, <4>1, <2>2
      <4>2. CASE v # reader[q].version
        <5>1. v \in DOMAIN view /\ view'[v] = view[v]
          BY <3>2, <4>2 DEF Store
        <5> QED BY <5>1, <1>v
      <4> QED BY <4>1, <4>2
    <3> QED BY <3>1, <3>2, <2>1
  <2> QED BY <2>1, <2>3, <2>4, <2>5, RequestInv
<1> QED BY <1>2, <1>3, <1>4, <1>5, <1>6

(* A view expires, or nothing happens. *)
LEMMA ExpiryInv ==
    ASSUME ViewInv, (\E v \in DOMAIN view : ViewExpires(v)) \/ UNCHANGED viewVars
    PROVE  ViewInv'
<1>1. ASSUME NEW v \in DOMAIN view, ViewExpires(v) PROVE ViewInv'
  <2>1. view' = [view EXCEPT ![v] = Empty] /\ UNCHANGED <<writer, cacheVersion, expiries, reader>>
    BY <1>1 DEF ViewExpires
  <2>2. DOMAIN view' = DOMAIN view /\ view'[v] = Empty
        /\ \A u \in DOMAIN view : u # v => view'[u] = view[u]
    BY <2>1
  <2>3. Empty \in Views /\ ~Empty.there
    BY ViewAssumption DEF Empty, Views
  <2>4. ViewTypeOK'
    BY <2>1, <2>2, <2>3 DEF ViewInv, ViewTypeOK
  <2>5. ViewsSettled'
    BY <2>1, <2>2, <2>3 DEF ViewInv, ViewsSettled, Settled, Accepts, Announced
  <2>6. \A q \in ViewReaders : ReaderOK(q)'
    BY <2>1 DEF ViewInv, ReaderOK, Settled, Accepts, Announced
  <2> QED BY <2>4, <2>5, <2>6 DEF ViewInv
<1>2. CASE UNCHANGED viewVars
  BY <1>2 DEF viewVars, ViewInv, ViewTypeOK, ViewsSettled, ReaderOK, Settled, Accepts, Announced
<1> QED BY <1>1, <1>2

LEMMA NextViewInv == ViewInv /\ [ViewNext]_viewVars => ViewInv'
BY ViewWriterInv, ReaderInv, ExpiryInv DEF ViewNext

LEMMA SeenFromInv == ViewInv => AnnouncedWritesAreSeen
BY DEF ViewInv, ReaderOK, AnnouncedWritesAreSeen

-----------------------------------------------------------------------------
(* Every variable of the cache keeps its type. *)
THEOREM ViewTypeCorrect == ViewSpec => []ViewTypeOK
<1>1. ViewInv => ViewTypeOK
  BY DEF ViewInv
<1> QED BY <1>1, InitViewInv, NextViewInv, PTL DEF ViewSpec

(* An answer misses no write that was announced before its request, but for *)
(* the two exceptions the property names.                                   *)
THEOREM ViewsAreFresh == ViewSpec => []AnnouncedWritesAreSeen
BY InitViewInv, NextViewInv, SeenFromInv, PTL DEF ViewSpec
=============================================================================
