--------------------------- MODULE RetentionPolicy ---------------------------
(***************************************************************************)
(* One tenant's retention policy and the copies of it that the server      *)
(* processes keep in memory for _CACHE_TTL_SECONDS                         *)
(* (modules/privacy/retention.py); PUT /retention replaces the row and     *)
(* drops the copy of its own process (api/routers/retention.py).           *)
(*                                                                         *)
(* get_retention_policy looks at the clock first and awaits the database   *)
(* afterwards, so a commit or an invalidation can fall between the two and *)
(* a stale policy can be put back after it was invalidated.  A batch asks  *)
(* once (modules/ingestion/processors.py) and applies the answer to each   *)
(* of its events, across awaits that may take any time.  Versions number   *)
(* the committed policies; 0 is the default, no row.                       *)
(***************************************************************************)
EXTENDS Naturals

CONSTANTS
    PolicyProcs,  \* server processes
    PolicyCalls,  \* bound: batches (or GETs) that ask in one process at a time
    PolicyTTL,    \* _CACHE_TTL_SECONDS
    MaxVersion,   \* bound: PUTs
    MaxTime       \* bound: seconds

ASSUME PolicyAssumption ==
    PolicyTTL \in Nat \ {0} /\ MaxVersion \in Nat /\ MaxTime \in Nat

VARIABLES
    now,
    version,     \* the committed row
    replacedAt,  \* when each version was superseded
    copy,        \* _CACHE of each process; expires 0: no entry
    call,        \* what each batch waits for or applies
    putting      \* processes whose PUT has committed and not yet invalidated

policyVars == <<now, version, replacedAt, copy, call, putting>>

Versions == 0..MaxVersion
Times == 0..MaxTime
NoCopy == [version |-> 0, expires |-> 0]
NoCall == [pc |-> "none", started |-> 0, version |-> 0]
CallIds == PolicyProcs \X PolicyCalls

PolicyTypeOK ==
    /\ now \in Times
    /\ version \in Versions
    /\ replacedAt \in [Versions -> Times]
    /\ copy \in [PolicyProcs -> [version : Versions, expires : Nat]]
    /\ call \in [CallIds -> [pc : {"none", "missed", "fetched", "using"},
                             started : Times, version : Versions]]
    /\ putting \subseteq PolicyProcs

PolicyInit ==
    /\ now = 0
    /\ version = 0
    /\ replacedAt = [v \in Versions |-> 0]
    /\ copy = [p \in PolicyProcs |-> NoCopy]
    /\ call = [c \in CallIds |-> NoCall]
    /\ putting = {}

InUse(p) == copy[p].expires > now

PolicyTick ==
    /\ now < MaxTime
    /\ now' = now + 1
    /\ UNCHANGED <<version, replacedAt, copy, call, putting>>

(* A copy that has not expired is the answer, whatever has been committed.  *)
ServeCopy(c) ==
    /\ call[c] = NoCall
    /\ InUse(c[1])
    /\ call' = [call EXCEPT ![c] = [pc |-> "using", started |-> now,
                                    version |-> copy[c[1]].version]]
    /\ UNCHANGED <<now, version, replacedAt, copy, putting>>

(* No copy, or an expired one; the clock has been read. *)
CacheMiss(c) ==
    /\ call[c] = NoCall
    /\ ~InUse(c[1])
    /\ call' = [call EXCEPT ![c] = [pc |-> "missed", started |-> now, version |-> 0]]
    /\ UNCHANGED <<now, version, replacedAt, copy, putting>>

FetchRow(c) ==
    /\ call[c].pc = "missed"
    /\ call' = [call EXCEPT ![c].pc = "fetched", ![c].version = version]
    /\ UNCHANGED <<now, version, replacedAt, copy, putting>>

(* Mutant: the time to live counts from the answer of the database. *)
FillCopyLate(c) ==
    /\ call[c].pc = "fetched"
    /\ copy' = [copy EXCEPT ![c[1]] =
                    [version |-> call[c].version, expires |-> now + PolicyTTL]]
    /\ call' = [call EXCEPT ![c].pc = "using"]
    /\ UNCHANGED <<now, version, replacedAt, putting>>

(* The last call to return wins, not the last to have asked.  The row is    *)
(* the answer however long its read took, expired or not.                   *)
FillCopy(c) ==
    /\ call[c].pc = "fetched"
    /\ copy' = [copy EXCEPT ![c[1]] =
                    [version |-> call[c].version, expires |-> call[c].started + PolicyTTL]]
    /\ call' = [call EXCEPT ![c].pc = "using"]
    /\ UNCHANGED <<now, version, replacedAt, putting>>

(* The last event of the batch; nothing bounds how long it has taken. *)
EndBatch(c) ==
    /\ call[c].pc = "using"
    /\ call' = [call EXCEPT ![c] = NoCall]
    /\ UNCHANGED <<now, version, replacedAt, copy, putting>>

(* The select raises: the copy stays as it was, and the batch goes on with  *)
(* what the settings say instead of a tenant's policy.                      *)
FetchRaises(c) ==
    /\ call[c].pc = "missed"
    /\ call' = [call EXCEPT ![c] = NoCall]
    /\ UNCHANGED <<now, version, replacedAt, copy, putting>>

PutCommits(p) ==
    /\ p \notin putting
    /\ version < MaxVersion
    /\ version' = version + 1
    /\ replacedAt' = [replacedAt EXCEPT ![version] = now]
    /\ putting' = putting \cup {p}
    /\ UNCHANGED <<now, copy, call>>

PutInvalidates(p) ==
    /\ p \in putting
    /\ putting' = putting \ {p}
    /\ copy' = [copy EXCEPT ![p] = NoCopy]
    /\ UNCHANGED <<now, version, replacedAt, call>>

PolicyNext ==
    \/ PolicyTick
    \/ \E c \in CallIds :
          \/ ServeCopy(c) \/ CacheMiss(c) \/ FetchRow(c) \/ FillCopy(c)
          \/ FetchRaises(c) \/ EndBatch(c)
    \/ \E p \in PolicyProcs : PutCommits(p) \/ PutInvalidates(p)

PolicySpec == PolicyInit /\ [][PolicyNext]_policyVars

(* A batch that asks PolicyTTL seconds or more after a PUT never applies    *)
(* the policy which that PUT replaced: not in any process, however slow the *)
(* reads are, and although an old answer can be stored after the            *)
(* invalidation.  It says nothing of batches that had asked before: one     *)
(* that is still at work applies its answer to its end.                     *)
BatchesSeeReplacement ==
    \A c \in CallIds :
        call[c].pc = "using" /\ call[c].version # version =>
            call[c].started < replacedAt[call[c].version] + PolicyTTL
=============================================================================
