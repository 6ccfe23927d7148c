---------------------- MODULE EndpointLifecycle_proofs -----------------------
(***************************************************************************)
(* Theorems about EndpointLifecycle, for every set of paths, every finite  *)
(* set of rows and any number of workers.  Both invariants are inductive   *)
(* relative to TypeOK: the statuses the workers read may be stale, but a   *)
(* row's status and its violations change in the same commit.              *)
(***************************************************************************)
EXTENDS EndpointLifecycle, FunctionTheorems, FiniteSetTheorems, TLAPS

USE DEF rowVars, violationVars, reconVars, Statuses, Suspect, IdsOrNull, Txns, NoTxn

(* The next-state relation, one disjunct per action. *)
LEMMA NextCases ==
  ASSUME Next
  PROVE  \/ \E w \in Writers : \/ TrafficCreate(w) \/ TrafficRefresh(w)
                               \/ TrafficRevive(w) \/ TrafficFails(w)
                               \/ \E p \in Paths : TrafficRead(w, p)
         \/ SweepCommit \/ SweepNotify \/ SweepRaises \/ ReconCommit
         \/ \E p \in Paths : ReconRead(p) \/ ReconRepeats(p)
         \/ \E r \in Ids : FallSilent(r)
         \/ Restart
  BY DEF Next, TrafficCommit

(* A recon run creates finitely many rows, and at least one if it found an  *)
(* unknown path.                                                            *)
LEMMA NewRowsCounted ==
  ASSUME NEW id \in Injection(NewInBatch, Unused)
  PROVE  /\ Cardinality(NewInBatch) \in Nat
         /\ NewInBatch # {} => Cardinality(NewInBatch) > 0
<1>1. IsFiniteSet(Unused)
  BY IdsAssumption, FS_Subset DEF Unused
<1>2. IsFiniteSet(NewInBatch)
  BY <1>1, FS_Injection
<1>3. QED
  BY <1>2, FS_CardinalityType, FS_EmptySet

(* What a recon commit does to rows and violations. *)
LEMMA ReconCommitEffect ==
  ASSUME TypeOK, ReconCommit
  PROVE  /\ path' \in [Ids -> Paths \cup {NoPath}]
         /\ status' \in [Ids -> Statuses]
         /\ recent' \in [Ids -> BOOLEAN]
         /\ shadow' \in [IdsOrNull -> Nat]
         /\ \A r \in Ids : status'[r] = status[r] \/ status'[r] = "SHADOW"
         /\ NewInBatch # {} => shadow'[NoId] > 0
         /\ NewInBatch = {} => UNCHANGED <<path, status>>
         /\ shadow[NoId] > 0 => shadow'[NoId] = shadow[NoId]
<1> USE DEF TypeOK
<1>1. PICK id \in Injection(NewInBatch, Unused) :
          /\ path' = [r \in Ids |-> IF r \in Range(id)
                                    THEN CHOOSE p \in NewInBatch : id[p] = r
                                    ELSE path[r]]
          /\ status' = [r \in Ids |-> IF r \in Range(id) THEN "SHADOW" ELSE status[r]]
          /\ recent' = [r \in Ids |-> r \in Range(id) \/ recent[r]]
  BY DEF ReconCommit
<1>2. /\ Cardinality(NewInBatch) \in Nat
      /\ NewInBatch # {} => Cardinality(NewInBatch) > 0
  BY NewRowsCounted
<1>3. \A r \in Range(id) : \E p \in NewInBatch : id[p] = r
  BY DEF Range, Injection
<1>4. path' \in [Ids -> Paths \cup {NoPath}]
  <2> SUFFICES ASSUME NEW r \in Ids, r \in Range(id)
               PROVE  (CHOOSE p \in NewInBatch : id[p] = r) \in Paths
    BY <1>1
  <2>1. QED
    BY <1>3 DEF NewInBatch
<1>5. status' \in [Ids -> Statuses] /\ recent' \in [Ids -> BOOLEAN]
  BY <1>1
<1>6. PICK n \in 0..Cardinality(NewInBatch) :
          /\ NewInBatch # {} => n > 0
          /\ shadow' = [r \in IdsOrNull |->
                IF r = NoId /\ shadow[NoId] = 0 THEN n
                ELSE IF r # NoId /\ r \in Range(batch) THEN 0 ELSE shadow[r]]
  BY DEF ReconCommit
<1>7. \A r \in Ids : status'[r] = status[r] \/ status'[r] = "SHADOW"
  BY <1>1
<1>8. /\ shadow' \in [IdsOrNull -> Nat]
      /\ shadow'[NoId] = IF shadow[NoId] = 0 THEN n ELSE shadow[NoId]
  BY <1>2, <1>6 DEF IdsOrNull
<1>9. NewInBatch = {} => UNCHANGED <<path, status>>
  BY <1>1, <1>3
<1>10. QED
  BY <1>2, <1>4, <1>5, <1>6, <1>7, <1>8, <1>9

-----------------------------------------------------------------------------
(* Types are preserved by every step. *)
LEMMA TypeStep == TypeOK /\ [Next]_vars => TypeOK'
<1> SUFFICES ASSUME TypeOK, [Next]_vars PROVE TypeOK'
  OBVIOUS
<1> USE DEF TypeOK
<1>1. CASE UNCHANGED vars
  BY <1>1 DEF vars
<1>2. ASSUME NEW w \in Writers, NEW p \in Paths, TrafficRead(w, p) PROVE TypeOK'
  BY <1>2 DEF TrafficRead
<1>3. ASSUME NEW w \in Writers, TrafficCreate(w) PROVE TypeOK'
  BY <1>3 DEF TrafficCreate, EndTxn, Unused
<1>4. ASSUME NEW w \in Writers, TrafficRefresh(w) PROVE TypeOK'
  BY <1>4 DEF TrafficRefresh, EndTxn
<1>5. ASSUME NEW w \in Writers, TrafficRevive(w) PROVE TypeOK'
  BY <1>5 DEF TrafficRevive, EndTxn
<1>6. ASSUME NEW w \in Writers, TrafficFails(w) PROVE TypeOK'
  BY <1>6 DEF TrafficFails, EndTxn
<1>7. CASE SweepCommit
  BY <1>7 DEF SweepCommit, Swept
<1>8. CASE SweepNotify \/ SweepRaises
  BY <1>8 DEF SweepNotify, SweepRaises
<1>9. CASE ReconCommit
  BY <1>9, ReconCommitEffect DEF ReconCommit, InBatch
<1>10. ASSUME NEW p \in Paths, ReconRead(p) PROVE TypeOK'
  BY <1>10 DEF ReconRead, RowsOf
<1>11. ASSUME NEW p \in Paths, ReconRepeats(p) PROVE TypeOK'
  BY <1>11 DEF ReconRepeats
<1>12. ASSUME NEW r \in Ids, FallSilent(r) PROVE TypeOK'
  BY <1>12 DEF FallSilent
<1>13. CASE Restart
  BY <1>13 DEF Restart, NotInBatch
<1>14. QED
  BY <1>1, <1>2, <1>3, <1>4, <1>5, <1>6, <1>7, <1>8, <1>9, <1>10, <1>11, <1>12,
     <1>13, NextCases

(* Every variable of the inventory keeps its type. *)
THEOREM InventoryTypeCorrect == Spec => []TypeOK
<1>1. Init => TypeOK
  BY DEF Init, TypeOK, NotInBatch
<1>2. QED
  BY <1>1, TypeStep, PTL DEF Spec

-----------------------------------------------------------------------------
(* With no more rows than the limit, a sweep looks at every candidate. *)
LEMMA AllCandidates ==
  ASSUME Cardinality(Ids) <= CandidateLimit,
         NEW S \in SUBSET Candidates, Limited(S)
  PROVE  S = Candidates
<1>1. IsFiniteSet(Candidates) /\ Cardinality(Candidates) <= Cardinality(Ids)
  BY IdsAssumption, FS_Subset DEF Candidates, Rows
<1>2. Cardinality(S) <= Cardinality(Candidates)
  BY <1>1, FS_Subset
<1>3. /\ Cardinality(S) \in Nat /\ Cardinality(Candidates) \in Nat
      /\ Cardinality(Ids) \in Nat
  BY <1>1, IdsAssumption, FS_Subset, FS_CardinalityType
<1>4. SUFFICES ASSUME S # Candidates PROVE FALSE
  OBVIOUS
<1>5. Cardinality(S) = CandidateLimit
  BY <1>4 DEF Limited
<1>6. Cardinality(S) = Cardinality(Candidates)
  BY <1>1, <1>2, <1>3, <1>5, LimitAssumption
<1>7. QED
  BY <1>1, <1>4, <1>6, FS_Subset

(* Each commit that writes a row's status writes its zombie violations too. *)
LEMMA TrackedStep ==
  TypeOK /\ ZombiesAreTracked /\ [Next]_vars => ZombiesAreTracked'
<1> SUFFICES ASSUME TypeOK, ZombiesAreTracked, [Next]_vars,
                    Cardinality(Ids) <= CandidateLimit,
                    NEW r \in Ids
             PROVE  /\ zombie'[r] <= 1
                    /\ status'[r] = "ZOMBIE" => zombie'[r] = 1
  BY DEF ZombiesAreTracked
<1> DEFINE Kept == zombie'[r] <= 1 /\ (status'[r] = "ZOMBIE" => zombie'[r] = 1)
<1>0. zombie[r] \in Nat /\ zombie[r] <= 1 /\ (status[r] = "ZOMBIE" => zombie[r] = 1)
  BY DEF ZombiesAreTracked, TypeOK
<1>1. CASE UNCHANGED <<status, zombie>>
  BY <1>0, <1>1
<1>2. ASSUME NEW w \in Writers, TrafficCreate(w) PROVE Kept
  BY <1>0, <1>2 DEF TrafficCreate, TypeOK
<1>3. ASSUME NEW w \in Writers, TrafficRevive(w) PROVE Kept
  BY <1>0, <1>3 DEF TrafficRevive, TypeOK
<1>4. CASE SweepCommit
  <2>1. PICK S \in SUBSET Candidates :
            /\ Limited(S)
            /\ zombie' = [x \in Ids |->
                  IF Due # {} /\ x \in S /\ zombie[x] = 0 THEN 1 ELSE zombie[x]]
    BY <1>4 DEF SweepCommit
  <2>2. S = Candidates
    BY <2>1, AllCandidates
  <2>3. CASE r \in Due
    BY <1>0, <2>1, <2>2, <2>3 DEF Due, Candidates
  <2>4. CASE r \notin Due
    BY <1>0, <1>4, <2>1, <2>4 DEF SweepCommit, Swept
  <2>5. QED
    BY <2>3, <2>4
<1>5. CASE ReconCommit
  <2>1. status'[r] = status[r] \/ status'[r] = "SHADOW"
    BY <1>5, ReconCommitEffect
  <2>2. QED
    BY <1>0, <1>5, <2>1 DEF ReconCommit
<1>6. CASE UNCHANGED vars
  BY <1>1, <1>6 DEF vars
<1>7. ASSUME NEW w \in Writers,
             \/ TrafficRefresh(w) \/ TrafficFails(w)
             \/ \E p \in Paths : TrafficRead(w, p)
      PROVE  Kept
  BY <1>1, <1>7 DEF TrafficRefresh, TrafficFails, TrafficRead
<1>8. CASE SweepNotify \/ SweepRaises \/ Restart
  BY <1>1, <1>8 DEF SweepNotify, SweepRaises, Restart
<1>9. ASSUME NEW p \in Paths, ReconRead(p) \/ ReconRepeats(p) PROVE Kept
  BY <1>1, <1>9 DEF ReconRead, ReconRepeats
<1>10. ASSUME NEW x \in Ids, FallSilent(x) PROVE Kept
  BY <1>1, <1>10 DEF FallSilent
<1>11. QED
  BY <1>2, <1>3, <1>4, <1>5, <1>6, <1>7, <1>8, <1>9, <1>10, NextCases

(* Whatever stale status a worker holds while a sweep commits, a ZOMBIE row *)
(* has exactly one open zombie violation.                                   *)
THEOREM ZombiesTracked == Spec => []ZombiesAreTracked
<1>1. Init => TypeOK /\ ZombiesAreTracked
  BY DEF Init, TypeOK, NotInBatch, ZombiesAreTracked
<1>2. QED
  BY <1>1, TypeStep, TrackedStep, PTL DEF Spec

-----------------------------------------------------------------------------
(* Only recon makes a row SHADOW, and then a violation with no endpoint_id  *)
(* is open; no condition on an endpoint's id ever matches that one.         *)
LEMMA ReportedStep ==
  TypeOK /\ ShadowIsReported /\ [Next]_vars => ShadowIsReported'
<1> SUFFICES ASSUME TypeOK, ShadowIsReported, [Next]_vars PROVE ShadowIsReported'
  OBVIOUS
<1> DEFINE Older == \A r \in Ids :
              path'[r] # NoPath /\ status'[r] = "SHADOW" =>
                  path[r] # NoPath /\ status[r] = "SHADOW"
<1>0. ASSUME Older, shadow'[NoId] = shadow[NoId] PROVE ShadowIsReported'
  BY <1>0 DEF ShadowIsReported, Rows
<1>1. CASE UNCHANGED <<path, status, shadow>>
  BY <1>0, <1>1
<1>2. ASSUME NEW w \in Writers, TrafficCreate(w) PROVE ShadowIsReported'
  BY <1>0, <1>2 DEF TrafficCreate, TypeOK
<1>3. ASSUME NEW w \in Writers, TrafficRevive(w) PROVE ShadowIsReported'
  <2>1. shadow'[NoId] = shadow[NoId]
    BY <1>3 DEF TrafficRevive, TypeOK
  <2>2. Older
    BY <1>3 DEF TrafficRevive, TypeOK
  <2>3. QED
    BY <1>0, <2>1, <2>2
<1>4. CASE SweepCommit
  BY <1>0, <1>4 DEF SweepCommit, Swept, TypeOK
<1>5. CASE ReconCommit
  <2>1. CASE NewInBatch # {}
    BY <1>5, <2>1, ReconCommitEffect DEF ShadowIsReported
  <2>2. CASE NewInBatch = {}
    <3>1. UNCHANGED <<path, status>>
      BY <1>5, <2>2, ReconCommitEffect
    <3>2. shadow[NoId] > 0 => shadow'[NoId] > 0
      BY <1>5, ReconCommitEffect
    <3>3. QED
      BY <3>1, <3>2 DEF ShadowIsReported, Rows
  <2>3. QED
    BY <2>1, <2>2
<1>6. CASE UNCHANGED vars
  BY <1>1, <1>6 DEF vars
<1>7. ASSUME NEW w \in Writers,
             \/ TrafficRefresh(w) \/ TrafficFails(w)
             \/ \E p \in Paths : TrafficRead(w, p)
      PROVE  ShadowIsReported'
  BY <1>1, <1>7 DEF TrafficRefresh, TrafficFails, TrafficRead
<1>8. CASE SweepNotify \/ SweepRaises \/ Restart
  BY <1>1, <1>8 DEF SweepNotify, SweepRaises, Restart
<1>9. ASSUME NEW p \in Paths, ReconRead(p) \/ ReconRepeats(p) PROVE ShadowIsReported'
  BY <1>1, <1>9 DEF ReconRead, ReconRepeats
<1>10. ASSUME NEW x \in Ids, FallSilent(x) PROVE ShadowIsReported'
  BY <1>1, <1>10 DEF FallSilent
<1>11. QED
  BY <1>2, <1>3, <1>4, <1>5, <1>6, <1>7, <1>8, <1>9, <1>10, NextCases

(* An account with a shadow candidate has a SHADOW_ENDPOINT violation open. *)
THEOREM ShadowReported == Spec => []ShadowIsReported
<1>1. Init => TypeOK /\ ShadowIsReported
  BY DEF Init, TypeOK, NotInBatch, ShadowIsReported, Rows
<1>2. QED
  BY <1>1, TypeStep, ReportedStep, PTL DEF Spec

-----------------------------------------------------------------------------
(* The rows of a path are finite in number, and so are the tasks that may   *)
(* add one.                                                                 *)
LEMMA CreatorsFinite ==
  ASSUME NEW p \in Paths
  PROVE  /\ IsFiniteSet(RowsOf(p)) /\ IsFiniteSet(Creators(p))
         /\ Cardinality(RowsOf(p)) \in Nat /\ Cardinality(Creators(p)) \in Nat
         /\ Cardinality(Creators(p)) <= Cardinality(Writers)
         /\ Cardinality(Writers) \in Nat
<1>1. RowsOf(p) \subseteq Ids /\ Creators(p) \subseteq Writers
  BY DEF RowsOf, Creators
<1>2. QED
  BY <1>1, IdsAssumption, WritersAssumption, FS_Subset, FS_CardinalityType

(* A worker that ends its transaction is no creator any more, and nobody    *)
(* becomes one.                                                             *)
LEMMA EndingCreates ==
  ASSUME TypeOK, NEW p \in Paths, NEW w \in Writers, EndTxn(w)
  PROVE  Creators(p)' = Creators(p) \ {w}
<1>1. txn' = [txn EXCEPT ![w] = NoTxn] /\ txn \in [Writers -> Txns]
  BY DEF EndTxn, TypeOK
<1>2. NoTxn.path # p
  BY PathsAssumption
<1>3. QED
  BY <1>1, <1>2 DEF Creators

(* The rows a recon commit creates: one for each new path of the run.       *)
LEMMA ReconCreates ==
  ASSUME TypeOK, ReconCommit, NEW p \in Paths
  PROVE  IF batch[p] = NoId
         THEN \E r \in Unused : RowsOf(p)' = RowsOf(p) \cup {r}
         ELSE RowsOf(p)' = RowsOf(p)
<1>1. PICK id \in Injection(NewInBatch, Unused) :
          path' = [r \in Ids |-> IF r \in Range(id)
                                 THEN CHOOSE q \in NewInBatch : id[q] = r
                                 ELSE path[r]]
  BY DEF ReconCommit
<1>2. /\ id \in [NewInBatch -> Unused]
      /\ \A q1, q2 \in NewInBatch : id[q1] = id[q2] => q1 = q2
  BY <1>1 DEF Injection, IsInjective
<1>3. \A q \in NewInBatch : id[q] \in Unused /\ path'[id[q]] = q
  BY <1>1, <1>2 DEF Range, Unused
<1>4. \A r \in Ids : r \in Range(id) => \E q \in NewInBatch : r = id[q]
  BY <1>2 DEF Range
<1>5. \A r \in Ids : r \notin Range(id) => path'[r] = path[r]
  BY <1>1
<1>6. \A q \in NewInBatch : path[id[q]] = NoPath
  BY <1>3 DEF Unused, Rows
<1>7. CASE batch[p] = NoId
  <2>1. p \in NewInBatch
    BY <1>7 DEF NewInBatch
  <2>2. RowsOf(p)' = RowsOf(p) \cup {id[p]}
    BY <1>3, <1>4, <1>5, <1>6, <2>1, PathsAssumption DEF RowsOf, Unused
  <2>3. QED
    BY <1>3, <1>7, <2>1, <2>2
<1>8. CASE batch[p] # NoId
  <2>1. p \notin NewInBatch
    BY <1>8 DEF NewInBatch
  <2>2. RowsOf(p)' = RowsOf(p)
    BY <1>3, <1>4, <1>5, <1>6, <2>1, PathsAssumption DEF RowsOf
  <2>3. QED
    BY <1>8, <2>2
<1>9. QED
  BY <1>7, <1>8

(* No step adds to the rows of a path and its late tasks, but a look that   *)
(* finds the path without a row.                                            *)
LEMMA MayHaveStep ==
  ASSUME TypeOK, [Next]_vars, NEW p \in Paths
  PROVE  MayHave(p)' <= MayHave(p) \/ (RowsOf(p) = {} /\ RowsOf(p)' = {})
<1> USE CreatorsFinite, PathsAssumption, IdsAssumption
<1>0. /\ txn \in [Writers -> Txns] /\ path \in [Ids -> Paths \cup {NoPath}]
      /\ batch \in [Paths -> IdsOrNull \cup {NotInBatch}] /\ NotInBatch # NoId
  BY DEF TypeOK, NotInBatch
<1>s. ASSUME RowsOf(p)' = RowsOf(p), batch'[p] = batch[p] \/ batch'[p] # NoId,
             Creators(p)' \subseteq Creators(p)
      PROVE  MayHave(p)' <= MayHave(p)
  <2>1. /\ Cardinality(Creators(p)') <= Cardinality(Creators(p))
        /\ Cardinality(Creators(p)') \in Nat
    BY <1>s, FS_Subset, FS_CardinalityType
  <2>2. Cardinality(RowsOf(p)') = Cardinality(RowsOf(p))
    BY <1>s
  <2>3. (IF batch'[p] = NoId THEN 1 ELSE 0) <= (IF batch[p] = NoId THEN 1 ELSE 0)
    BY <1>s
  <2> DEFINE b == IF batch[p] = NoId THEN 1 ELSE 0
             c == IF batch'[p] = NoId THEN 1 ELSE 0
  <2>4. b \in Nat /\ c \in Nat /\ c <= b
    BY <2>3
  <2>5. MayHave(p)' = Cardinality(RowsOf(p)') + Cardinality(Creators(p)') + c
    BY DEF MayHave
  <2>6. MayHave(p) = Cardinality(RowsOf(p)) + Cardinality(Creators(p)) + b
    BY DEF MayHave
  <2> HIDE DEF b, c
  <2>7. QED
    BY <2>1, <2>2, <2>4, <2>5, <2>6
<1>1. ASSUME NEW w \in Writers, TrafficCreate(w) PROVE MayHave(p)' <= MayHave(p)
  <2>1. /\ txn[w].row = NoId /\ EndTxn(w) /\ UNCHANGED batch
        /\ \E r \in Unused : path' = [path EXCEPT ![r] = txn[w].path]
    BY <1>1 DEF TrafficCreate
  <2>2. PICK r \in Unused : path' = [path EXCEPT ![r] = txn[w].path]
    BY <2>1
  <2>3. path[r] = NoPath /\ r \in Ids
    BY <2>2 DEF Unused, Rows
  <2>4. Creators(p)' = Creators(p) \ {w}
    BY <2>1, EndingCreates
  <2>5. CASE txn[w].path = p
    <3>1. RowsOf(p)' = RowsOf(p) \cup {r} /\ r \notin RowsOf(p)
      BY <1>0, <2>2, <2>3, <2>5 DEF RowsOf
    <3>2. w \in Creators(p)
      BY <2>1, <2>5 DEF Creators
    <3>3. Cardinality(RowsOf(p)') = Cardinality(RowsOf(p)) + 1
      BY <3>1, FS_AddElement
    <3>4. Cardinality(Creators(p)') = Cardinality(Creators(p)) - 1
      BY <2>4, <3>2, FS_RemoveElement
    <3> DEFINE b == IF batch[p] = NoId THEN 1 ELSE 0
    <3>5. /\ MayHave(p)' = Cardinality(RowsOf(p)') + Cardinality(Creators(p)') + b
          /\ MayHave(p) = Cardinality(RowsOf(p)) + Cardinality(Creators(p)) + b
          /\ b \in Nat
      BY <2>1 DEF MayHave
    <3> HIDE DEF b
    <3>6. QED
      BY <3>3, <3>4, <3>5
  <2>6. CASE txn[w].path # p
    <3>1. RowsOf(p)' = RowsOf(p)
      BY <1>0, <2>2, <2>3, <2>6 DEF RowsOf
    <3>2. QED
      BY <1>s, <2>1, <2>4, <3>1
  <2>7. QED
    BY <2>5, <2>6
<1>2. ASSUME NEW w \in Writers, TrafficRefresh(w) \/ TrafficRevive(w) \/ TrafficFails(w)
      PROVE  MayHave(p)' <= MayHave(p)
  <2>1. EndTxn(w) /\ UNCHANGED <<path, batch>>
    BY <1>2 DEF TrafficRefresh, TrafficRevive, TrafficFails
  <2>2. RowsOf(p)' = RowsOf(p) /\ Creators(p)' = Creators(p) \ {w}
    BY <2>1, EndingCreates DEF RowsOf
  <2>3. QED
    BY <1>s, <2>1, <2>2
<1>3. ASSUME NEW w \in Writers, NEW q \in Paths, TrafficRead(w, q), RowsOf(p) # {}
      PROVE  MayHave(p)' <= MayHave(p)
  <2>1. /\ UNCHANGED <<path, batch>>
        /\ \/ /\ RowsOf(q) = {}
              /\ txn' = [txn EXCEPT ![w] = [path |-> q, row |-> NoId, status |-> "ACTIVE"]]
           \/ \E r \in Ids :
                 txn' = [txn EXCEPT ![w] = [path |-> q, row |-> r, status |-> status[r]]]
    BY <1>3 DEF TrafficRead
  <2>2. Creators(p)' \subseteq Creators(p)
    <3>1. \A v \in Writers \ {w} : txn'[v] = txn[v]
      BY <1>0, <2>1
    <3>2. ~(txn'[w].path = p /\ txn'[w].row = NoId)
      <4>1. CASE RowsOf(q) = {} /\ txn' = [txn EXCEPT ![w] =
                              [path |-> q, row |-> NoId, status |-> "ACTIVE"]]
        <5>1. txn'[w].path = q
          BY <1>0, <4>1
        <5>2. QED
          BY <1>3, <4>1, <5>1
      <4>2. ASSUME NEW r \in Ids,
                   txn' = [txn EXCEPT ![w] = [path |-> q, row |-> r, status |-> status[r]]]
            PROVE  txn'[w].row # NoId
        <5>1. txn'[w].row = r
          BY <1>0, <4>2
        <5>2. QED
          BY <5>1
      <4>3. QED
        BY <2>1, <4>1, <4>2
    <3>3. QED
      BY <3>1, <3>2 DEF Creators
  <2>3. QED
    BY <1>s, <2>1, <2>2 DEF RowsOf
<1>4. ASSUME NEW q \in Paths, ReconRead(q), RowsOf(p) # {}
      PROVE  MayHave(p)' <= MayHave(p)
  <2>1. /\ UNCHANGED <<path, txn>>
        /\ \/ RowsOf(q) = {} /\ batch' = [batch EXCEPT ![q] = NoId]
           \/ \E r \in RowsOf(q) : batch' = [batch EXCEPT ![q] = r]
    BY <1>4 DEF ReconRead
  <2>2. batch'[p] = batch[p] \/ batch'[p] # NoId
    BY <1>0, <1>4, <2>1 DEF RowsOf
  <2>3. QED
    BY <1>s, <2>1, <2>2 DEF RowsOf, Creators
<1>5. CASE ReconCommit
  <2>1. /\ UNCHANGED txn /\ batch' = [q \in Paths |-> NotInBatch]
    BY <1>5 DEF ReconCommit
  <2>2. Creators(p)' = Creators(p) /\ batch'[p] # NoId
    BY <1>0, <2>1 DEF Creators
  <2>3. CASE batch[p] = NoId
    <3>1. PICK r \in Unused : RowsOf(p)' = RowsOf(p) \cup {r}
      BY <1>5, <2>3, ReconCreates
    <3>2. r \notin RowsOf(p)
      BY <3>1 DEF Unused, Rows, RowsOf
    <3>3. Cardinality(RowsOf(p)') = Cardinality(RowsOf(p)) + 1
      BY <3>1, <3>2, FS_AddElement
    <3>4. /\ MayHave(p)' = Cardinality(RowsOf(p)') + Cardinality(Creators(p)) + 0
          /\ MayHave(p) = Cardinality(RowsOf(p)) + Cardinality(Creators(p)) + 1
      BY <2>2, <2>3 DEF MayHave
    <3>5. QED
      BY <3>3, <3>4
  <2>4. CASE batch[p] # NoId
    <3>1. RowsOf(p)' = RowsOf(p)
      BY <1>5, <2>4, ReconCreates
    <3>2. QED
      BY <1>s, <2>2, <3>1
  <2>5. QED
    BY <2>3, <2>4
<1>6. ASSUME NEW q \in Paths, ReconRepeats(q) PROVE MayHave(p)' <= MayHave(p)
  <2>1. UNCHANGED <<path, txn>> /\ batch' = [x \in Paths |-> NotInBatch]
    BY <1>6 DEF ReconRepeats
  <2>2. QED
    BY <1>0, <1>s, <2>1 DEF RowsOf, Creators
<1>7. CASE Restart
  <2>1. /\ txn' = [w \in Writers |-> NoTxn] /\ UNCHANGED path
        /\ batch' = [x \in Paths |-> NotInBatch]
    BY <1>7 DEF Restart
  <2>2. Creators(p)' = {}
    BY <2>1 DEF Creators
  <2>3. QED
    BY <1>0, <1>s, <2>1, <2>2 DEF RowsOf
<1>8. ASSUME UNCHANGED <<path, txn, batch>> PROVE MayHave(p)' <= MayHave(p)
  BY <1>s, <1>8 DEF RowsOf, Creators
<1>9. \/ SweepCommit \/ SweepNotify \/ SweepRaises \/ (\E r \in Ids : FallSilent(r))
      \/ UNCHANGED vars
      => UNCHANGED <<path, txn, batch>>
  BY DEF SweepCommit, SweepNotify, SweepRaises, FallSilent, vars
<1>10. ASSUME NEW q \in Paths,
              ReconRead(q) \/ \E w \in Writers : TrafficRead(w, q),
              RowsOf(p) = {}
       PROVE  RowsOf(p)' = {}
  BY <1>10 DEF ReconRead, TrafficRead, RowsOf
<1>11. QED
  BY <1>1, <1>2, <1>3, <1>4, <1>5, <1>6, <1>7, <1>8, <1>9, <1>10, NextCases

(* Each late task costs a path at most one row more, for any number of      *)
(* workers, rows, restarts and recon runs.                                  *)
THEOREM DuplicatesBounded == Spec => []DuplicatesAreBounded
<1>1. ASSUME NEW p \in Paths, RowsOf(p) = {} PROVE MayHave(p) <= Cardinality(Writers) + 1
  <2> DEFINE b == IF batch[p] = NoId THEN 1 ELSE 0
  <2>1. Cardinality(RowsOf(p)) = 0
    BY <1>1, FS_EmptySet
  <2>2. MayHave(p) = 0 + Cardinality(Creators(p)) + b /\ b \in 0..1
    BY <2>1 DEF MayHave
  <2> HIDE DEF b
  <2>3. QED
    BY <2>2, CreatorsFinite
<1>2. Init => DuplicatesAreBounded
  <2>1. Init => \A p \in Paths : RowsOf(p) = {}
    BY PathsAssumption DEF Init, RowsOf
  <2>2. QED
    BY <1>1, <2>1 DEF DuplicatesAreBounded
<1>3. TypeOK /\ TypeOK' /\ DuplicatesAreBounded /\ [Next]_vars => DuplicatesAreBounded'
  <2> SUFFICES ASSUME TypeOK, TypeOK', DuplicatesAreBounded, [Next]_vars, NEW p \in Paths
               PROVE  MayHave(p)' <= Cardinality(Writers) + 1
    BY DEF DuplicatesAreBounded
  <2>1. MayHave(p) <= Cardinality(Writers) + 1
    BY DEF DuplicatesAreBounded
  <2>2. MayHave(p) \in Int
    BY CreatorsFinite DEF MayHave
  <2>3. /\ Cardinality(RowsOf(p)') \in Nat /\ Cardinality(Creators(p)') \in Nat
        /\ Cardinality(Creators(p)') <= Cardinality(Writers)
    <3>1. RowsOf(p)' \subseteq Ids /\ Creators(p)' \subseteq Writers
      BY DEF RowsOf, Creators
    <3>2. QED
      BY <3>1, IdsAssumption, WritersAssumption, FS_Subset, FS_CardinalityType
  <2>4. CASE MayHave(p)' <= MayHave(p)
    <3>1. MayHave(p)' \in Int
      BY <2>3 DEF MayHave
    <3>2. QED
      BY <2>1, <2>2, <2>4, <3>1, CreatorsFinite
  <2>5. CASE RowsOf(p)' = {}
    <3> DEFINE b == IF batch'[p] = NoId THEN 1 ELSE 0
    <3>1. Cardinality(RowsOf(p)') = 0
      BY <2>5, FS_EmptySet
    <3>2. MayHave(p)' = 0 + Cardinality(Creators(p)') + b /\ b \in 0..1
      BY <3>1 DEF MayHave
    <3> HIDE DEF b
    <3>3. QED
      BY <2>3, <3>2, CreatorsFinite
  <2>6. QED
    BY <2>4, <2>5, MayHaveStep
<1>4. QED
  BY <1>2, <1>3, InventoryTypeCorrect, PTL DEF Spec

(* Once a path has a row, its duplicates come only from tasks that had      *)
(* looked before: no later look adds one.                                   *)
THEOREM DuplicatesStop == Spec => NoNewDuplicates
<1>1. TypeOK /\ [Next]_vars =>
        [\A p \in Paths : RowsOf(p) # {} => MayHave(p)' <= MayHave(p)]_vars
  BY MayHaveStep
<1>2. QED
  BY <1>1, InventoryTypeCorrect, PTL DEF Spec, NoNewDuplicates

-----------------------------------------------------------------------------
(* What a recon commit may do to a row that exists: nothing. *)
LEMMA ReconKeepsRows ==
  ASSUME TypeOK, ReconCommit, NEW r \in Ids
  PROVE  \/ path'[r] = path[r] /\ status'[r] = status[r] /\ recent'[r] = recent[r]
         \/ r \notin Rows /\ status'[r] = "SHADOW" /\ recent'[r] = TRUE
<1>1. PICK id \in Injection(NewInBatch, Unused) :
          /\ path' = [x \in Ids |-> IF x \in Range(id)
                                    THEN CHOOSE q \in NewInBatch : id[q] = x
                                    ELSE path[x]]
          /\ status' = [x \in Ids |-> IF x \in Range(id) THEN "SHADOW" ELSE status[x]]
          /\ recent' = [x \in Ids |-> x \in Range(id) \/ recent[x]]
  BY DEF ReconCommit
<1>2. Range(id) \subseteq Unused
  BY DEF Range, Injection
<1>3. CASE r \in Range(id)
  BY <1>1, <1>2, <1>3 DEF Unused
<1>4. CASE r \notin Range(id)
  <2>1. path'[r] = path[r] /\ status'[r] = status[r]
    BY <1>1, <1>4
  <2>2. recent'[r] = recent[r]
    <3>1. recent'[r] = (r \in Range(id) \/ recent[r])
      BY <1>1
    <3>2. QED
      BY <1>4, <3>1 DEF TypeOK
  <2>3. QED
    BY <2>1, <2>2
<1>5. QED
  BY <1>3, <1>4

(* The writers do not undo one another's work on a row beyond what the      *)
(* row's own traffic justifies.                                             *)
THEOREM ChangesExplained == Spec => ChangesHaveACause
<1>1. TypeOK /\ [Next]_vars =>
        [\A r \in Ids :
            /\ path[r] # NoPath => path'[r] = path[r]
            /\ status[r] # "ZOMBIE" /\ status'[r] = "ZOMBIE" => r \in Rows /\ ~recent[r]
            /\ status[r] = "ZOMBIE" /\ status'[r] # "ZOMBIE" => recent'[r]
            /\ status[r] # "SHADOW" /\ status'[r] = "SHADOW" => r \notin Rows
            /\ zombie[r] > 0 /\ zombie'[r] = 0
                 => status'[r] = "ACTIVE" /\ recent'[r]]_vars
  <2> SUFFICES ASSUME TypeOK, [Next]_vars, NEW r \in Ids
               PROVE
            /\ path[r] # NoPath => path'[r] = path[r]
            /\ status[r] # "ZOMBIE" /\ status'[r] = "ZOMBIE" => r \in Rows /\ ~recent[r]
            /\ status[r] = "ZOMBIE" /\ status'[r] # "ZOMBIE" => recent'[r]
            /\ status[r] # "SHADOW" /\ status'[r] = "SHADOW" => r \notin Rows
            /\ zombie[r] > 0 /\ zombie'[r] = 0 => status'[r] = "ACTIVE" /\ recent'[r]
    OBVIOUS
  <2> DEFINE Explained ==
            /\ path[r] # NoPath => path'[r] = path[r]
            /\ status[r] # "ZOMBIE" /\ status'[r] = "ZOMBIE" => r \in Rows /\ ~recent[r]
            /\ status[r] = "ZOMBIE" /\ status'[r] # "ZOMBIE" => recent'[r]
            /\ status[r] # "SHADOW" /\ status'[r] = "SHADOW" => r \notin Rows
            /\ zombie[r] > 0 /\ zombie'[r] = 0 => status'[r] = "ACTIVE" /\ recent'[r]
  <2>0. /\ path \in [Ids -> Paths \cup {NoPath}] /\ status \in [Ids -> Statuses]
        /\ recent \in [Ids -> BOOLEAN] /\ zombie \in [Ids -> Nat]
        /\ txn \in [Writers -> Txns]
    BY DEF TypeOK
  <2>1. ASSUME UNCHANGED <<path, status, zombie>> PROVE Explained
    BY <2>0, <2>1
  <2>2. ASSUME NEW w \in Writers, TrafficCreate(w) PROVE Explained
    <3>1. UNCHANGED zombie
      BY <2>2 DEF TrafficCreate
    <3>2. PICK x \in Unused : /\ path' = [path EXCEPT ![x] = txn[w].path]
                              /\ status' = [status EXCEPT ![x] = "ACTIVE"]
                              /\ recent' = [recent EXCEPT ![x] = TRUE]
      BY <2>2 DEF TrafficCreate
    <3>3. x \in Ids /\ path[x] = NoPath
      BY <3>2 DEF Unused, Rows
    <3>4. CASE r = x
      BY <2>0, <3>1, <3>2, <3>3, <3>4
    <3>5. CASE r # x
      BY <2>0, <3>1, <3>2, <3>3, <3>5
    <3>6. QED
      BY <3>4, <3>5
  <2>3. ASSUME NEW w \in Writers, TrafficRevive(w) PROVE Explained
    <3>1. /\ recent' = [recent EXCEPT ![txn[w].row] = TRUE]
          /\ status' = [status EXCEPT ![txn[w].row] = "ACTIVE"]
          /\ zombie' = [zombie EXCEPT ![txn[w].row] = 0]
          /\ UNCHANGED path
      BY <2>3 DEF TrafficRevive
    <3>2. CASE r = txn[w].row
      BY <2>0, <3>1, <3>2
    <3>3. CASE r # txn[w].row
      BY <2>0, <3>1, <3>3
    <3>4. QED
      BY <3>2, <3>3
  <2>4. CASE SweepCommit
    <3>1. UNCHANGED <<path, recent>> /\ status'[r] = Swept[r]
      BY <2>4 DEF SweepCommit
    <3>2. zombie[r] > 0 => zombie'[r] = zombie[r]
      BY <2>0, <2>4 DEF SweepCommit
    <3>3. \/ status'[r] = "ZOMBIE" /\ r \in Rows /\ ~recent[r]
          \/ status[r] = "ZOMBIE" /\ status'[r] = "ACTIVE" /\ recent[r]
          \/ status'[r] = status[r]
      BY <3>1 DEF Swept, Due, Back
    <3>4. path'[r] = path[r] /\ recent'[r] = recent[r]
      BY <3>1
    <3>5. ~(zombie[r] > 0 /\ zombie'[r] = 0)
      BY <3>2
    <3>6. QED
      BY <3>3, <3>4, <3>5
  <2>5. CASE ReconCommit
    <3>1. UNCHANGED zombie
      BY <2>5 DEF ReconCommit
    <3>2. CASE path'[r] = path[r] /\ status'[r] = status[r]
      BY <2>0, <3>1, <3>2
    <3>3. CASE r \notin Rows /\ status'[r] = "SHADOW" /\ recent'[r] = TRUE
      BY <2>0, <3>1, <3>3 DEF Rows
    <3>4. QED
      BY <2>5, <3>2, <3>3, ReconKeepsRows
  <2>6. \/ UNCHANGED vars
        \/ \E w \in Writers : \/ TrafficRefresh(w) \/ TrafficFails(w)
                              \/ \E p \in Paths : TrafficRead(w, p)
        \/ SweepNotify \/ SweepRaises \/ Restart
        \/ \E p \in Paths : ReconRead(p) \/ ReconRepeats(p)
        \/ \E x \in Ids : FallSilent(x)
        => UNCHANGED <<path, status, zombie>>
    BY DEF vars, TrafficRefresh, TrafficFails, TrafficRead, SweepNotify, SweepRaises,
           Restart, ReconRead, ReconRepeats, FallSilent
  <2>7. QED
    BY <2>1, <2>2, <2>3, <2>4, <2>5, <2>6, NextCases
<1>2. QED
  BY <1>1, InventoryTypeCorrect, PTL DEF Spec, ChangesHaveACause
=============================================================================
