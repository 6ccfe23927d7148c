-------------------------- MODULE Response_proofs ---------------------------
(***************************************************************************)
(* Proofs about the answer to attacks: alerts and their playbooks, and the *)
(* threat actors.                                                          *)
(***************************************************************************)
EXTENDS AlertResponse, ThreatActors, FiniteSetTheorems, TLAPS

(***************************************************************************)
(* AlertResponse, for any log of alerts, restarts and unblocks.  The       *)
(* argument: while an alert is in hand whose action has worked and that    *)
(* has nothing to add, its IP is blocked by its tenant or has been         *)
(* released since the lookup; and the offset is never ahead of the position, so a restart goes back   *)
(* over alerts that were handled at most once since the last one.          *)
(***************************************************************************)

Holds(n) == blocked[AlertLog[n].ip] = AlertLog[n].tenant

(* The alert in hand: it has a tenant, and an action that worked has found  *)
(* the block or adds it.                                                    *)
InHandOK ==
    InHand =>
        /\ consumer.position \in MessageIds
        /\ Current.tenant # 0
        /\ consumer.pc = "commit" /\ consumer.worked /\ consumer.adds = 0
           /\ consumer.position \notin released => Holds(consumer.position)

AlertRowsOK(n) ==
    /\ alertRows[n] > 0 => AlertLog[n].tenant # 0
    /\ alertRows[n] <= 1 + alertRestarts
    /\ consumer.position < n \/ (InHand /\ n = consumer.position) =>
          alertRows[n] <= alertRestarts
    /\ n \in actionLogs => alertRows[n] > 0 /\ (n \notin released => Holds(n))

GivenUp == {n \in MessageIds : AlertLog[n].tenant # 0 /\ PassedOver(n)}

AlertInv ==
    /\ AlertTypeOK
    /\ offset <= consumer.position
    /\ InHandOK
    /\ \A n \in MessageIds : AlertRowsOK(n)
    /\ Cardinality(GivenUp) <= alertFailures

LEMMA LogFacts ==
    /\ Len(AlertLog) \in Nat
    /\ \A n \in MessageIds :
          n \in Nat \ {0} /\ AlertLog[n].ip \in AlertIps /\ AlertLog[n].tenant \in AlertTenants
          /\ AlertLog[n].tenant \in Nat /\ AlertLog[n].times \in Nat
    /\ AlertTenants \subseteq Nat /\ RouteTenant \in AlertTenants /\ RouteTenant # 0
<1>1. Len(AlertLog) \in Nat /\ MessageIds = 1..Len(AlertLog)
  BY AlertAssumption DEF MessageIds
<1>2. ASSUME NEW n \in MessageIds
      PROVE  n \in Nat \ {0} /\ AlertLog[n] \in Messages
  BY <1>1, <1>2, AlertAssumption
<1>3. ASSUME NEW m \in Messages
      PROVE  m.tenant \in Nat /\ m.times \in Nat
  BY <1>3 DEF Messages
<1>4. RouteTenant \in Nat /\ RouteTenant # 0
  BY AlertAssumption
<1>5. AlertTenants \subseteq Nat /\ RouteTenant \in AlertTenants
  BY <1>2, <1>3, <1>4 DEF AlertTenants
<1> QED BY <1>1, <1>2, <1>3, <1>4, <1>5 DEF AlertIps, AlertTenants

LEMMA GivenUpFinite == IsFiniteSet(GivenUp) /\ Cardinality(GivenUp) \in Nat
<1>1. IsFiniteSet(MessageIds)
  BY LogFacts, FS_Interval DEF MessageIds
<1>2. GivenUp \subseteq MessageIds
  BY DEF GivenUp
<1> QED BY <1>1, <1>2, FS_Subset, FS_CardinalityType

(* The alerts given up grow by at most the one that is counted. *)
LEMMA GivenUpGrows ==
    ASSUME AlertTypeOK, AlertTypeOK', Cardinality(GivenUp) <= alertFailures,
           \/ GivenUp' \subseteq GivenUp /\ alertFailures' = alertFailures
           \/ /\ GivenUp' \subseteq GivenUp \cup {consumer.position}
              /\ alertFailures' = alertFailures + 1
    PROVE  Cardinality(GivenUp') <= alertFailures'
<1>1. IsFiniteSet(GivenUp) /\ Cardinality(GivenUp) \in Nat /\ alertFailures \in Nat
  BY GivenUpFinite DEF AlertTypeOK
<1>2. CASE GivenUp' \subseteq GivenUp /\ alertFailures' = alertFailures
  <2>1. Cardinality(GivenUp') <= Cardinality(GivenUp) /\ Cardinality(GivenUp') \in Nat
    BY <1>1, <1>2, FS_Subset, FS_CardinalityType
  <2> QED BY <2>1, <1>1, <1>2
<1>3. CASE GivenUp' \subseteq GivenUp \cup {consumer.position}
           /\ alertFailures' = alertFailures + 1
  <2> DEFINE S == GivenUp \cup {consumer.position}
  <2>a. IsFiniteSet(S)
        /\ Cardinality(S) = IF consumer.position \in GivenUp THEN Cardinality(GivenUp)
                            ELSE Cardinality(GivenUp) + 1
    BY <1>1, FS_AddElement
  <2>1. IsFiniteSet(S) /\ Cardinality(S) \in Nat /\ Cardinality(S) <= Cardinality(GivenUp) + 1
    BY <1>1, <2>a
  <2>2. Cardinality(GivenUp') <= Cardinality(S) /\ Cardinality(GivenUp') \in Nat
    BY <2>1, <1>3, FS_Subset, FS_CardinalityType
  <2> QED BY <2>1, <2>2, <1>1, <1>3
<1> QED BY <1>2, <1>3

LEMMA InitAlertInv == AlertInit => AlertInv
<1> SUFFICES ASSUME AlertInit PROVE AlertInv
  OBVIOUS
<1>1. AlertTypeOK
  BY AlertAssumption, LogFacts DEF AlertInit, AlertTypeOK, Connected, At
<1>2. GivenUp = {}
  BY LogFacts DEF AlertInit, GivenUp, PassedOver, Connected, At
<1>3. Cardinality(GivenUp) = 0
  BY <1>2, FS_EmptySet
<1> QED BY <1>1, <1>3, AlertAssumption
   DEF AlertInit, AlertInv, InHandOK, AlertRowsOK, InHand, Connected, At

(* Kafka: nothing but the log and the offset moves. *)
LEMMA KafkaInv ==
    ASSUME AlertInv, ProduceAlert \/ AutoCommit \/ UNCHANGED alertVars
    PROVE  AlertInv'
<1>t. AlertTypeOK
  BY DEF AlertInv
<1>1. UNCHANGED <<consumer, alertRows, actionLogs, blocked, released, alertFailures, alertRestarts>>
  BY DEF ProduceAlert, AutoCommit, alertVars
<1>2. offset' = offset \/ offset' = consumer.position
  BY DEF ProduceAlert, AutoCommit, alertVars
<1>b. produced' \in 0..Len(AlertLog) /\ unblocks' = unblocks
  <2>1. produced \in Nat /\ produced <= Len(AlertLog) /\ Len(AlertLog) \in Nat
    BY <1>t, LogFacts DEF AlertTypeOK
  <2> QED BY <2>1 DEF ProduceAlert, AutoCommit, alertVars
<1>c. offset' \in 0..Len(AlertLog)
  BY <1>2, <1>t DEF AlertTypeOK
<1>3. AlertTypeOK'
  BY <1>t, <1>1, <1>b, <1>c DEF AlertTypeOK
<1>4. offset' <= consumer'.position
  BY <1>1, <1>2, <1>t, LogFacts DEF AlertInv, AlertTypeOK
<1>5. GivenUp' = GivenUp
  BY <1>1 DEF GivenUp, PassedOver, InHand
<1> QED BY <1>1, <1>3, <1>4, <1>5 DEF AlertInv, InHandOK, AlertRowsOK, InHand, Holds, Current

(* The consumer takes the next message; without an account it is skipped.   *)
LEMMA DeliverInv ==
    ASSUME AlertInv, DeliverAlert
    PROVE  AlertInv'
<1>t. AlertTypeOK
  BY DEF AlertInv
<1>a. UNCHANGED <<produced, offset, alertRows, actionLogs, blocked, released,
                  alertFailures, alertRestarts, unblocks>>
  BY DEF DeliverAlert
<1> DEFINE n == consumer.position + 1
<1>1. consumer.pc = "poll" /\ consumer.position \in Nat /\ n \in MessageIds
      /\ offset \in Nat /\ offset <= consumer.position
  BY <1>t, LogFacts DEF DeliverAlert, AlertTypeOK, MessageIds, AlertInv
<1>2. consumer' = [pc |-> IF AlertLog[n].tenant = 0 THEN "poll" ELSE "respond",
                   position |-> n, adds |-> 0, worked |-> FALSE]
  BY DEF DeliverAlert, At
<1>3. AlertTypeOK'
  BY <1>a, <1>1, <1>2, <1>t DEF AlertTypeOK, MessageIds
<1>4. InHandOK'
  BY <1>a, <1>1, <1>2 DEF InHandOK, InHand, Current
<1>5. ASSUME NEW m \in MessageIds PROVE AlertRowsOK(m)'
  <2>1. AlertRowsOK(m) /\ m \in Nat /\ AlertLog[m].tenant \in Nat
    BY LogFacts DEF AlertInv
  <2>2. alertRows[m] \in Nat /\ alertRestarts \in Nat
    BY <1>t, AlertAssumption DEF AlertTypeOK
  <2> QED BY <2>1, <2>2, <1>a, <1>1, <1>2 DEF AlertRowsOK, InHand, Holds
<1>6. GivenUp' \subseteq GivenUp
  <2> SUFFICES ASSUME NEW m \in MessageIds, AlertLog[m].tenant # 0, PassedOver(m)'
               PROVE  PassedOver(m)
    BY DEF GivenUp
  <2>1. m \in Nat
    BY LogFacts
  <2> QED BY <2>1, <1>a, <1>1, <1>2 DEF PassedOver, InHand
<1>7. Cardinality(GivenUp') <= alertFailures'
  BY <1>t, <1>3, <1>6, <1>a, GivenUpGrows DEF AlertInv
<1>8. offset' <= consumer'.position
  BY <1>a, <1>1, <1>2
<1> QED BY <1>3, <1>4, <1>5, <1>7, <1>8 DEF AlertInv

(* The lookups and the commit of the alert in hand. *)
LEMMA HandleInv ==
    ASSUME AlertInv, RunPlaybooks \/ CommitAlert
    PROVE  AlertInv'
<1>t. AlertTypeOK
  BY DEF AlertInv
<1> DEFINE n == consumer.position
<1>1. /\ n \in MessageIds /\ n \in Nat /\ Current.tenant # 0 /\ Current.tenant \in AlertTenants
      /\ Current.ip \in AlertIps /\ Current.times \in Nat /\ Current = AlertLog[n]
      /\ AlertRowsOK(n) /\ alertRows[n] \in Nat /\ InHand
      /\ consumer.pc \in {"respond", "commit"} /\ consumer.adds \in Nat
  BY <1>t, LogFacts DEF RunPlaybooks, CommitAlert, AlertInv, InHandOK, InHand, Current, AlertTypeOK
<1>2. CASE RunPlaybooks
  <2>1. UNCHANGED <<produced, offset, alertRows, actionLogs, blocked, released,
                    alertFailures, alertRestarts, unblocks>>
    BY <1>2 DEF RunPlaybooks
  <2>2. /\ consumer'.position = n /\ consumer'.pc = "commit"
        /\ consumer'.worked => consumer'.adds > 0 \/ Holds(n)
        /\ consumer' \in [pc : {"commit"}, position : 0..Len(AlertLog), adds : Nat,
                          worked : BOOLEAN]
    <3>1. PICK k \in 0..Current.times :
             consumer' = [consumer EXCEPT
                            !.pc = "commit",
                            !.adds = IF blocked[Current.ip] = Current.tenant THEN 0 ELSE k,
                            !.worked = k > 0]
      BY <1>2 DEF RunPlaybooks
    <3>2. consumer' = [pc |-> "commit", position |-> n, worked |-> k > 0,
                       adds |-> IF blocked[Current.ip] = Current.tenant THEN 0 ELSE k]
      BY <3>1, <1>t DEF AlertTypeOK
    <3>3. k \in Nat /\ n \in 0..Len(AlertLog)
      BY <3>1, <1>1, <1>t DEF AlertTypeOK
    <3>4. CASE blocked[Current.ip] = Current.tenant
      BY <3>2, <3>3, <3>4, <1>1 DEF Holds
    <3>5. CASE blocked[Current.ip] # Current.tenant
      <4>1. consumer' = [pc |-> "commit", position |-> n, adds |-> k, worked |-> k > 0]
        BY <3>2, <3>5
      <4>2. consumer'.worked => consumer'.adds > 0
        BY <3>3, <4>1
      <4>3. (k > 0) \in BOOLEAN
        BY <3>3
      <4> QED BY <3>3, <4>1, <4>2, <4>3
    <3> QED BY <3>4, <3>5
  <2>3. AlertTypeOK'
    BY <2>1, <2>2, <1>t DEF AlertTypeOK
  <2>4. InHandOK'
    BY <1>1, <2>1, <2>2 DEF InHandOK, Holds, Current
  <2>5. InHand' /\ InHand
    BY <1>1, <2>2 DEF InHand
  <2>6. \A m \in MessageIds : AlertRowsOK(m)'
    BY <2>1, <2>2, <2>5 DEF AlertInv, AlertRowsOK, Holds
  <2>7. GivenUp' = GivenUp
    BY <2>1, <2>2, <2>5 DEF GivenUp, PassedOver
  <2> QED BY <2>1, <2>2, <2>3, <2>4, <2>6, <2>7 DEF AlertInv
<1>3. CASE CommitAlert
  <2>1. /\ UNCHANGED <<produced, offset, released, alertFailures, alertRestarts, unblocks>>
        /\ consumer' = Connected(n) /\ consumer.pc = "commit" /\ ~BlockConflict
        /\ alertRows' = [alertRows EXCEPT ![n] = @ + 1]
        /\ actionLogs' = IF consumer.worked THEN actionLogs \cup {n} ELSE actionLogs
        /\ blocked' = IF consumer.adds > 0
                      THEN [blocked EXCEPT ![Current.ip] = Current.tenant] ELSE blocked
    BY <1>3 DEF CommitAlert, StoreAlert
  <2>2. AlertTypeOK'
    <3>1. blocked' \in [AlertIps -> AlertTenants \cup {0}]
      BY <2>1, <1>1, <1>t DEF AlertTypeOK
    <3>2. alertRows' \in [MessageIds -> Nat]
      BY <2>1, <1>1, <1>t DEF AlertTypeOK
    <3>3. consumer' \in [pc : {"poll", "respond", "commit", "dead"},
                         position : 0..Len(AlertLog), adds : Nat, worked : BOOLEAN]
      BY <2>1, <1>t DEF AlertTypeOK, Connected, At
    <3>4. actionLogs' \subseteq MessageIds
      BY <2>1, <1>1, <1>t DEF AlertTypeOK
    <3> QED BY <3>1, <3>2, <3>3, <3>4, <2>1, <1>t DEF AlertTypeOK
  <2>3. consumer'.pc = "poll" /\ consumer'.position = n /\ ~InHand'
    BY <2>1 DEF Connected, At, InHand
  <2>4. alertRows'[n] = alertRows[n] + 1
        /\ \A m \in MessageIds : m # n => alertRows'[m] = alertRows[m]
    BY <2>1, <1>1, <1>t DEF AlertTypeOK
  <2>5. \/ consumer.adds = 0 /\ blocked' = blocked
        \/ /\ blocked[Current.ip] = 0 /\ blocked'[Current.ip] = Current.tenant
           /\ \A ip \in AlertIps : ip # Current.ip => blocked'[ip] = blocked[ip]
    BY <2>1, <1>1, <1>t DEF BlockConflict, AlertTypeOK
  <2>6. \A m \in MessageIds : AlertRowsOK(m)'
    <3> SUFFICES ASSUME NEW m \in MessageIds PROVE AlertRowsOK(m)'
      OBVIOUS
    <3>1. AlertRowsOK(m) /\ m \in Nat /\ AlertLog[m].ip \in AlertIps
          /\ alertRows[m] \in Nat /\ alertRestarts \in Nat
      BY <1>t, LogFacts, AlertAssumption DEF AlertInv, AlertTypeOK
    <3>2. alertRows'[m] <= 1 + alertRestarts
          /\ (n < m => alertRows'[m] <= alertRestarts)
      BY <3>1, <1>1, <2>4 DEF AlertRowsOK
    <3>3. alertRows'[m] > 0 => AlertLog[m].tenant # 0
      BY <3>1, <1>1, <2>4 DEF AlertRowsOK
    <3>4. m \in actionLogs => alertRows'[m] > 0 /\ (m \notin released => Holds(m)')
      <4>1. m \in actionLogs /\ m \notin released => Holds(m)'
        BY <3>1, <2>5 DEF AlertRowsOK, Holds
      <4>2. m \in actionLogs => alertRows'[m] > 0
        BY <3>1, <2>4 DEF AlertRowsOK
      <4> QED BY <4>1, <4>2
    <3>5. ASSUME m = n, consumer.worked, m \notin released
          PROVE  Holds(m)'
      <4>1. CASE consumer.adds = 0 /\ blocked' = blocked
        BY <3>5, <4>1, <2>1, <1>1 DEF AlertInv, InHandOK, Holds
      <4>2. CASE blocked'[Current.ip] = Current.tenant
        BY <3>5, <4>2, <1>1 DEF Holds
      <4> QED BY <4>1, <4>2, <2>5
    <3>6. m \in actionLogs' => alertRows'[m] > 0 /\ (m \notin released => Holds(m)')
      BY <3>1, <3>4, <3>5, <1>1, <2>1, <2>4
    <3> QED BY <3>1, <3>2, <3>3, <3>6, <2>1, <2>3 DEF AlertRowsOK
  <2>7. GivenUp' \subseteq GivenUp
    <3> SUFFICES ASSUME NEW m \in MessageIds, AlertLog[m].tenant # 0, PassedOver(m)'
                 PROVE  PassedOver(m)
      BY DEF GivenUp
    <3>1. m # n
      BY <2>4, <1>1 DEF PassedOver
    <3> QED BY <3>1, <2>3, <2>4 DEF PassedOver
  <2>8. Cardinality(GivenUp') <= alertFailures'
    BY <1>t, <2>1, <2>2, <2>7, GivenUpGrows DEF AlertInv
  <2>9. InHandOK' /\ offset' <= consumer'.position
    BY <2>1, <2>3 DEF InHandOK, AlertInv
  <2> QED BY <2>2, <2>6, <2>8, <2>9 DEF AlertInv
<1> QED BY <1>2, <1>3

(* An exception, and a restart: the alert in hand is counted as a failure.  *)
LEMMA FailureInv ==
    ASSUME AlertInv, ConsumerRaises \/ RestartConsumer
    PROVE  AlertInv'
<1>t. AlertTypeOK
  BY DEF AlertInv
<1> DEFINE n == consumer.position
<1>n. n \in Nat /\ offset \in Nat /\ offset <= n /\ alertRestarts \in Nat
      /\ alertFailures \in Nat /\ offset \in 0..Len(AlertLog) /\ n \in 0..Len(AlertLog)
  BY <1>t, LogFacts, AlertAssumption DEF AlertTypeOK, AlertInv
<1>a. UNCHANGED <<produced, alertRows, actionLogs, blocked, released, unblocks>>
  BY DEF ConsumerRaises, RestartConsumer
<1>b. alertFailures' = alertFailures + (IF InHand THEN 1 ELSE 0)
  BY DEF ConsumerRaises, RestartConsumer
<1>1. /\ consumer'.position <= n /\ consumer'.position \in Nat /\ ~InHand'
      /\ offset' = consumer'.position
      /\ AlertTypeOK'
      /\ \/ consumer'.position = n /\ alertRestarts' = alertRestarts
         \/ alertRestarts' = alertRestarts + 1
  <2>1. CASE ConsumerRaises
    <3>1. consumer' = At("dead", n) /\ offset' = n
          /\ alertRestarts' = alertRestarts
      BY <2>1 DEF ConsumerRaises
    <3>2. consumer'.position = n /\ consumer'.pc = "dead"
          /\ consumer' \in [pc : {"poll", "respond", "commit", "dead"},
                             position : 0..Len(AlertLog), adds : Nat, worked : BOOLEAN]
      BY <3>1, <1>n DEF At
    <3>3. AlertTypeOK'
      BY <3>1, <3>2, <1>a, <1>b, <1>n, <1>t DEF AlertTypeOK
    <3> QED BY <3>1, <3>2, <3>3, <1>n DEF InHand
  <2>2. CASE RestartConsumer
    <3>1. consumer' = Connected(offset) /\ offset' = offset /\ alertRestarts' = alertRestarts + 1
          /\ alertRestarts' \in 0..MaxAlertRestarts
      BY <2>2, <1>n, AlertAssumption DEF RestartConsumer
    <3>2. consumer'.position = offset /\ consumer'.pc = "poll"
          /\ consumer' \in [pc : {"poll", "respond", "commit", "dead"},
                             position : 0..Len(AlertLog), adds : Nat, worked : BOOLEAN]
      BY <3>1, <1>n DEF Connected, At
    <3>3. AlertTypeOK'
      BY <3>1, <3>2, <1>a, <1>b, <1>n, <1>t DEF AlertTypeOK
    <3> QED BY <3>1, <3>2, <3>3, <1>n DEF InHand
  <2> QED BY <2>1, <2>2
<1>2. ASSUME NEW m \in MessageIds PROVE AlertRowsOK(m)'
  <2>1. AlertRowsOK(m) /\ m \in Nat /\ alertRows[m] \in Nat
    BY <1>t, LogFacts DEF AlertInv, AlertTypeOK
  <2> QED BY <2>1, <1>n, <1>a, <1>1 DEF AlertRowsOK, Holds
<1>3. GivenUp' \subseteq GivenUp \cup (IF InHand THEN {n} ELSE {})
  <2> SUFFICES ASSUME NEW m \in MessageIds, AlertLog[m].tenant # 0, PassedOver(m)'
               PROVE  PassedOver(m) \/ (InHand /\ m = n)
    BY DEF GivenUp
  <2>1. m \in Nat
    BY LogFacts
  <2> QED BY <2>1, <1>n, <1>a, <1>1 DEF PassedOver
<1>4. Cardinality(GivenUp') <= alertFailures'
  <2>1. CASE InHand
    BY <2>1, <1>b, <1>t, <1>1, <1>3, GivenUpGrows DEF AlertInv
  <2>2. CASE ~InHand
    BY <2>2, <1>b, <1>n, <1>t, <1>1, <1>3, GivenUpGrows DEF AlertInv
  <2> QED BY <2>1, <2>2
<1> QED BY <1>n, <1>1, <1>2, <1>4 DEF AlertInv, InHandOK

(* The block-list routes: a block is added where there was none, and        *)
(* removed only with its alerts released.                                   *)
LEMMA RoutesInv ==
    ASSUME AlertInv,
           \/ \E ip \in AlertIps : BlockByHand(ip) \/ UnblockIp(ip)
           \/ \E ips \in SUBSET AlertIps : AutoBlock(ips)
    PROVE  AlertInv'
<1>t. AlertTypeOK
  BY DEF AlertInv
<1>1. UNCHANGED <<produced, offset, consumer, alertRows, actionLogs, alertFailures, alertRestarts>>
  BY DEF BlockByHand, UnblockIp, AutoBlock
<1>2. /\ released \subseteq released'
      /\ \A m \in MessageIds :
            AlertLog[m].tenant # 0 /\ m \in Responded /\ m \notin released' /\ Holds(m) => Holds(m)'
      /\ AlertTypeOK'
  <2>1. ASSUME NEW ip \in AlertIps, BlockByHand(ip)
        PROVE  /\ released' = released
               /\ \A m \in MessageIds : AlertLog[m].tenant # 0 /\ Holds(m) => Holds(m)'
               /\ AlertTypeOK'
    BY <2>1, <1>t, LogFacts DEF BlockByHand, AlertTypeOK, Holds
  <2>2. ASSUME NEW ips \in SUBSET AlertIps, AutoBlock(ips)
        PROVE  /\ released' = released
               /\ \A m \in MessageIds : AlertLog[m].tenant # 0 /\ Holds(m) => Holds(m)'
               /\ AlertTypeOK'
    BY <2>2, <1>t, LogFacts DEF AutoBlock, AlertTypeOK, Holds
  <2>3. ASSUME NEW ip \in AlertIps, UnblockIp(ip)
        PROVE  /\ released \subseteq released'
               /\ \A m \in MessageIds : m \in Responded /\ m \notin released' /\ Holds(m) => Holds(m)'
               /\ AlertTypeOK'
    <3>1. released' = released \cup {m \in Responded : AlertLog[m].ip = ip}
          /\ blocked' = [blocked EXCEPT ![ip] = 0]
          /\ unblocks' = unblocks + 1 /\ unblocks < MaxUnblocks
      BY <2>3 DEF UnblockIp
    <3>2. \A other \in AlertIps : other # ip => blocked'[other] = blocked[other]
      BY <3>1, <1>t DEF AlertTypeOK
    <3>3. AlertTypeOK'
      BY <3>1, <1>1, <1>t, AlertAssumption DEF AlertTypeOK, Responded
    <3>4. ASSUME NEW m \in MessageIds, m \in Responded, m \notin released', Holds(m)
          PROVE  Holds(m)'
      BY <3>1, <3>2, <3>4, LogFacts DEF Holds
    <3> QED BY <3>1, <3>3, <3>4
  <2> QED BY <2>1, <2>2, <2>3
<1>3. InHandOK'
  <2>1. InHand /\ consumer.position \in MessageIds => consumer.position \in Responded
    BY DEF Responded
  <2> QED BY <2>1, <1>1, <1>2 DEF AlertInv, InHandOK, InHand, Current
<1>4. ASSUME NEW m \in MessageIds PROVE AlertRowsOK(m)'
  <2>1. AlertRowsOK(m) /\ (alertRows[m] > 0 => m \in Responded)
    BY DEF AlertInv, Responded
  <2> QED BY <2>1, <1>1, <1>2 DEF AlertRowsOK, InHand
<1>5. GivenUp' = GivenUp
  BY <1>1 DEF GivenUp, PassedOver, InHand
<1> QED BY <1>1, <1>2, <1>3, <1>4, <1>5 DEF AlertInv

LEMMA NextAlertInv == AlertInv /\ [AlertNext]_alertVars => AlertInv'
BY KafkaInv, DeliverInv, HandleInv, FailureInv, RoutesInv
   DEF AlertNext, ConsumerStep, CommitConflicts

-----------------------------------------------------------------------------
(* Every variable of the alert response keeps its type. *)
THEOREM AlertTypeCorrect == AlertSpec => []AlertTypeOK
<1>1. AlertInv => AlertTypeOK
  BY DEF AlertInv
<1> QED BY <1>1, InitAlertInv, NextAlertInv, PTL DEF AlertSpec

(* A block action that is logged as a success has its alert stored and its  *)
(* IP blocked by the alert's tenant until somebody unblocks it by hand.     *)
THEOREM SuccessBlocks == AlertSpec => []SuccessMeansBlocked
<1>1. AlertInv => SuccessMeansBlocked
  BY DEF AlertInv, AlertTypeOK, AlertRowsOK, Holds, SuccessMeansBlocked
<1> QED BY <1>1, InitAlertInv, NextAlertInv, PTL DEF AlertSpec

(* A failure loses at most one alert, a restart repeats each at most once.  *)
THEOREM AlertLossBounded == AlertSpec => []FailuresBoundLossAndRepeats
<1>1. AlertInv => FailuresBoundLossAndRepeats
  BY DEF AlertInv, AlertRowsOK, GivenUp, FailuresBoundLossAndRepeats
<1> QED BY <1>1, InitAlertInv, NextAlertInv, PTL DEF AlertSpec

-----------------------------------------------------------------------------
(***************************************************************************)
(* ThreatActors, for any IPs, tenants, calls and number of attacks.        *)
(* The argument: a report under way that found an actor holds a count and  *)
(* a status that the row, or a later decision, accounts for (ReportOK),    *)
(* and the last decision on an actor is either in its row or about to be   *)
(* overwritten by a report that read the row before it (DecisionOK).       *)
(***************************************************************************)

(* What a report under way knows: fresh rows exist nowhere else, found ones  *)
(* are not deleted, and the count it has read lacks only what others have    *)
(* committed since, or had lost before.                                      *)
ReportOK(c) ==
    /\ \A ip \in c.found : Known(ip)
    /\ \A ip \in c.fresh : ~Known(ip)
    /\ \A ip \in c.lacking \cup c.fresh : c.base[ip] = 0
    /\ \A ip \in ActorIps : ip \notin Looked(c) => c.adds[ip] = 0
    /\ \A ip \in c.found \cup c.fresh :
          /\ c.base[ip] <= attacks[ip]
          /\ attacks[ip] <= c.base[ip] + c.missed[ip] + overlaps[ip]

(* A decision under way has read the status, or one was decided since. *)
DecisionOK(c) ==
    c.read # "absent" =>
        /\ Known(c.ip)
        /\ actor[c.ip].status = c.read \/ actor[c.ip].status \in c.since

CallSound(q) ==
    /\ actorCall[q].kind = "report" =>
          ReportOK(actorCall[q]) /\ (actorCall[q].fresh # {} => dbLock = q)
    /\ actorCall[q].kind = "decision" => DecisionOK(actorCall[q])

CallsOK == \A q \in ActorCalls : CallSound(q)

ActorInv ==
    /\ ActorTypeOK
    /\ CallsOK
    /\ \A ip \in ActorIps : ~Known(ip) => actor[ip].count = 0
    /\ DecisionIsRecent
    /\ CountHasACause

ActorRows == [owner : ActorTenants \cup {0, DefaultOwner}, status : Statuses, count : Nat]

LEMMA ActorTypes ==
    ASSUME ActorInv
    PROVE  /\ actor \in [ActorIps -> ActorRows]
           /\ actorCall \in [ActorCalls -> {NoActorCall} \cup Reports \cup Decisions]
           /\ dbLock \in ActorCalls \cup {NoCaller}
           /\ attacks \in [ActorIps -> Nat]
           /\ overlaps \in [ActorIps -> Nat]
           /\ decisions \in [ActorIps -> SUBSET Statuses]
           /\ \A q \in ActorCalls : /\ actorCall[q].kind = "report" => actorCall[q] \in Reports
                                    /\ actorCall[q].kind = "decision" => actorCall[q] \in Decisions
           /\ \A ip \in ActorIps : /\ actor[ip].count \in Nat
                                   /\ attacks[ip] \in Nat
                                   /\ overlaps[ip] \in Nat
                                   /\ actor[ip].count <= attacks[ip]
                                   /\ attacks[ip] <= actor[ip].count + overlaps[ip]
  BY DEF ActorInv, ActorTypeOK, ActorRows, CountHasACause, NoActorCall, Reports, Decisions

LEMMA InitActorInv == ActorInit => ActorInv
<1> SUFFICES ASSUME ActorInit PROVE ActorInv
  OBVIOUS
<1>1. ActorTypeOK
  BY DEF ActorInit, ActorTypeOK, NoActor, NoActorCall, Statuses
<1>2. CallsOK
  BY DEF ActorInit, CallsOK, CallSound, NoActorCall
<1>3. QED
  BY <1>1, <1>2 DEF ActorInit, ActorInv, DecisionIsRecent, CountHasACause, Known, NoActor

(* A step of one request that leaves the rows alone. *)
LEMMA CallMoves ==
    ASSUME ActorInv, NEW q \in ActorCalls, NEW c, SetCall(q, c),
           c \in {NoActorCall} \cup Reports \cup Decisions,
           c.kind = "report" => ReportOK(c) /\ (c.fresh # {} => dbLock' = q),
           c.kind = "decision" => DecisionOK(c),
           dbLock' \in ActorCalls \cup {NoCaller},
           \A p \in ActorCalls : p # q /\ dbLock = p => dbLock' = p,
           UNCHANGED <<actor, attacks, overlaps, decisions>>
    PROVE  ActorInv'
<1>1. actorCall' = [actorCall EXCEPT ![q] = c]
  BY DEF SetCall
<1>2. actor' = actor /\ attacks' = attacks /\ overlaps' = overlaps /\ decisions' = decisions
  OBVIOUS
<1>3. ActorTypeOK'
  BY <1>1, <1>2 DEF ActorInv, ActorTypeOK
<1>4. ASSUME NEW p \in ActorCalls
      PROVE  CallSound(p)'
  <2>1. CASE p = q
    <3>1. actorCall'[p] = c
      BY <1>1, <2>1, ActorTypes
    <3>2. QED
      BY <1>2, <2>1, <3>1 DEF CallSound, ReportOK, DecisionOK, Known
  <2>2. CASE p # q
    <3>1. actorCall'[p] = actorCall[p]
      BY <1>1, <2>2, ActorTypes
    <3>2. CallSound(p)
      BY DEF ActorInv, CallsOK
    <3>3. QED
      BY <1>2, <2>2, <3>1, <3>2 DEF CallSound, ReportOK, DecisionOK, Known
  <2>3. QED
    BY <2>1, <2>2
<1>5. QED
  BY <1>2, <1>3, <1>4 DEF ActorInv, CallsOK, DecisionIsRecent, CountHasACause, Known

LEMMA BeginReportInv ==
    ASSUME ActorInv, NEW q \in ActorCalls, NEW tenant \in ActorTenants \cup {AllTenants},
           BeginReport(q, tenant)
    PROVE  ActorInv'
<1> DEFINE c == [kind |-> "report", tenant |-> tenant, found |-> {}, lacking |-> {},
                 fresh |-> {}, base |-> Zero, adds |-> Zero, missed |-> Zero]
<1>1. SetCall(q, c) /\ UNCHANGED <<actor, dbLock, attacks, overlaps, decisions>>
  BY DEF BeginReport
<1>2. c \in Reports /\ c.kind = "report" /\ c.fresh = {}
  BY DEF Reports, Zero
<1>3. ReportOK(c)
  BY DEF ReportOK, Looked, Zero
<1> HIDE DEF c
<1>4. QED
  BY <1>1, <1>2, <1>3, ActorTypes, CallMoves

LEMMA LookUpInv ==
    ASSUME ActorInv, NEW q \in ActorCalls, NEW ip \in ActorIps, NEW n \in 1..MaxAttacks,
           LookUp(q, ip, n)
    PROVE  ActorInv'
<1> DEFINE c == actorCall[q]
           sees == Sees(c.tenant, ip)
           count == IF sees THEN actor[ip].count ELSE 0
           d == [c EXCEPT
                    !.found = IF sees THEN @ \cup {ip} ELSE @,
                    !.lacking = IF sees THEN @ ELSE {ip},
                    !.base = [@ EXCEPT ![ip] = count],
                    !.adds = [@ EXCEPT ![ip] = n]]
<1>1. /\ c.kind = "report" /\ ip \notin Looked(c) /\ c.lacking = {}
      /\ SetCall(q, d) /\ UNCHANGED <<actor, dbLock, attacks, overlaps, decisions>>
  BY DEF LookUp, Reporting
<1>2. /\ c \in Reports /\ ReportOK(c) /\ (c.fresh # {} => dbLock = q)
      /\ count \in Nat /\ n \in Nat
  BY <1>1, ActorTypes, ActorAssumption DEF ActorInv, CallsOK, CallSound
<1>3. sees => Known(ip)
  BY DEF Sees
<1> HIDE DEF c, sees
<1>4. /\ d \in Reports /\ d.kind = "report"
      /\ d.found = (IF sees THEN c.found \cup {ip} ELSE c.found)
      /\ d.lacking = (IF sees THEN {} ELSE {ip})
      /\ d.fresh = c.fresh
      /\ d.base = [c.base EXCEPT ![ip] = count]
      /\ d.adds = [c.adds EXCEPT ![ip] = n]
      /\ d.missed = c.missed
  BY <1>1, <1>2 DEF Reports
<1>5. /\ c.base \in [ActorIps -> Nat] /\ c.adds \in [ActorIps -> Nat]
      /\ c.missed \in [ActorIps -> Nat] /\ c.fresh \subseteq ActorIps /\ c.found \subseteq ActorIps
  BY <1>2 DEF Reports
<1> HIDE DEF d
<1>6. ReportOK(d)
  <2>1. \A i \in d.found : Known(i)
    BY <1>2, <1>3, <1>4 DEF ReportOK
  <2>2. \A i \in d.fresh : ~Known(i)
    BY <1>2, <1>4 DEF ReportOK
  <2>3. \A i \in d.lacking \cup d.fresh : d.base[i] = 0
    BY <1>1, <1>2, <1>4, <1>5 DEF ReportOK, Looked
  <2>4. \A i \in ActorIps : i \notin Looked(d) => d.adds[i] = 0
    BY <1>1, <1>2, <1>4, <1>5 DEF ReportOK, Looked
  <2>5. ASSUME NEW i \in d.found \cup d.fresh
        PROVE  d.base[i] <= attacks[i] /\ attacks[i] <= d.base[i] + d.missed[i] + overlaps[i]
    <3>1. CASE i = ip
      <4>1. sees
        BY <1>1, <1>4, <2>5, <3>1 DEF Looked
      <4>2. d.base[i] = actor[i].count /\ d.missed[i] \in Nat
        BY <1>4, <1>5, <3>1, <4>1
      <4>3. QED
        BY <3>1, <4>2, ActorTypes
    <3>2. CASE i # ip
      BY <1>2, <1>4, <1>5, <2>5, <3>2 DEF ReportOK
    <3>3. QED
      BY <3>1, <3>2
  <2>6. QED
    BY <2>1, <2>2, <2>3, <2>4, <2>5 DEF ReportOK
<1>7. QED
  BY <1>1, <1>2, <1>4, <1>6, ActorTypes, CallMoves

(* The lock keeps the other requests from having fresh rows. *)
LEMMA OneWriter ==
    ASSUME ActorInv, NEW q \in ActorCalls \cup {NoCaller}, dbLock \in {NoCaller, q}
    PROVE  \A p \in ActorCalls : p # q => dbLock # p
                                 /\ (actorCall[p].kind = "report" => actorCall[p].fresh = {})
  BY ActorAssumption DEF ActorInv, CallsOK, CallSound

LEMMA AddActorInv == ASSUME ActorInv, NEW q \in ActorCalls, AddActor(q) PROVE ActorInv'
<1> DEFINE c == actorCall[q]
           d == [c EXCEPT !.lacking = {}, !.fresh = @ \cup c.lacking]
<1>1. /\ c.kind = "report" /\ MayWrite(q) /\ dbLock' = q
      /\ \A ip \in c.lacking : ~Known(ip)
      /\ SetCall(q, d) /\ UNCHANGED <<actor, attacks, overlaps, decisions>>
  BY DEF AddActor, Reporting
<1>2. c \in Reports /\ ReportOK(c)
  BY <1>1, ActorTypes DEF ActorInv, CallsOK, CallSound
<1>3. \A p \in ActorCalls : p # q => dbLock # p
  BY <1>1, OneWriter DEF MayWrite
<1> HIDE DEF c
<1>4. /\ d \in Reports /\ d.kind = "report"
      /\ d.found = c.found /\ d.lacking = {} /\ d.fresh = c.fresh \cup c.lacking
      /\ d.base = c.base /\ d.adds = c.adds /\ d.missed = c.missed
  BY <1>1, <1>2 DEF Reports
<1>5. /\ c.base \in [ActorIps -> Nat] /\ c.missed \in [ActorIps -> Nat]
      /\ c.lacking \subseteq ActorIps
  BY <1>2 DEF Reports
<1> HIDE DEF d
<1>6. ReportOK(d)
  <2>1. \A ip \in c.lacking : c.base[ip] <= attacks[ip]
                              /\ attacks[ip] <= c.base[ip] + c.missed[ip] + overlaps[ip]
    <3> SUFFICES ASSUME NEW ip \in c.lacking
                 PROVE  c.base[ip] <= attacks[ip]
                        /\ attacks[ip] <= c.base[ip] + c.missed[ip] + overlaps[ip]
      OBVIOUS
    <3>1. actor[ip].count = 0 /\ c.base[ip] = 0 /\ ip \in ActorIps /\ c.missed[ip] \in Nat
      BY <1>1, <1>2, <1>5 DEF ActorInv, ReportOK
    <3>2. QED
      BY <3>1, ActorTypes
  <2>2. QED
    BY <1>1, <1>2, <1>4, <2>1 DEF ReportOK, Looked
<1>7. QED
  BY <1>1, <1>3, <1>4, <1>6, CallMoves

LEMMA FlushEndpointInv == ASSUME ActorInv, NEW q \in ActorCalls, FlushEndpoint(q) PROVE ActorInv'
<1>1. dbLock = NoCaller /\ dbLock' = q /\ UNCHANGED <<actor, actorCall, attacks, overlaps, decisions>>
  BY DEF FlushEndpoint
<1>2. \A p \in ActorCalls : actorCall[p].kind = "report" => actorCall[p].fresh = {}
  BY <1>1, ActorAssumption DEF ActorInv, CallsOK, CallSound
<1>3. CallsOK'
  BY <1>1, <1>2 DEF ActorInv, CallsOK, CallSound, ReportOK, DecisionOK, Known
<1>4. QED
  BY <1>1, <1>3 DEF ActorInv, ActorTypeOK, DecisionIsRecent, CountHasACause, Known

(* What a commit changes, one IP and one other request at a time. *)
LEMMA CommitReportInv == ASSUME ActorInv, NEW q \in ActorCalls, CommitReport(q) PROVE ActorInv'
<1> DEFINE c == actorCall[q]
<1>1. /\ c.kind = "report" /\ c.lacking = {} /\ MayWrite(q) /\ dbLock' = NoCaller
      /\ actor' = [ip \in ActorIps |-> IF ip \in Looked(c) THEN Counted(c, ip) ELSE actor[ip]]
      /\ RecordReport(q, c)
  BY DEF CommitReport, ReadyToCommit, Reporting
<1>2. c \in Reports /\ ReportOK(c)
  BY <1>1, ActorTypes DEF ActorInv, CallsOK, CallSound
<1>3. \A p \in ActorCalls : p # q /\ actorCall[p].kind = "report" => actorCall[p].fresh = {}
  BY <1>1, OneWriter DEF MayWrite
<1> HIDE DEF c
<1>4. /\ c.found \subseteq ActorIps /\ c.fresh \subseteq ActorIps
      /\ c.base \in [ActorIps -> Nat] /\ c.adds \in [ActorIps -> Nat]
      /\ c.missed \in [ActorIps -> Nat]
      /\ Looked(c) = c.found \cup c.fresh
      /\ OwnerOf(c) \in (ActorTenants \cup {DefaultOwner}) /\ OwnerOf(c) # 0
  BY <1>1, <1>2, ActorAssumption DEF Reports, Looked, OwnerOf, AllTenants
<1>5. /\ attacks' = [ip \in ActorIps |-> attacks[ip] + c.adds[ip]]
      /\ overlaps' = [ip \in ActorIps |->
                        overlaps[ip] + (IF ip \in Looked(c) THEN c.missed[ip] ELSE 0)]
      /\ decisions' = [ip \in ActorIps |-> IF ip \in c.fresh THEN {"MONITORING"}
                                           ELSE decisions[ip]]
      /\ actorCall' = AfterReport(q, c)
  BY <1>1 DEF RecordReport
<1>6. ASSUME NEW ip \in ActorIps
      PROVE  /\ attacks'[ip] = attacks[ip] + c.adds[ip]
             /\ attacks'[ip] \in Nat /\ overlaps'[ip] \in Nat
             /\ overlaps'[ip] >= overlaps[ip]
             /\ ip \in c.found \cup c.fresh => overlaps'[ip] = overlaps[ip] + c.missed[ip]
  BY <1>4, <1>5, ActorTypes
<1>7. ASSUME NEW ip \in c.fresh
      PROVE  /\ actor'[ip] \in ActorRows
             /\ actor'[ip].owner = OwnerOf(c) /\ actor'[ip].status = "MONITORING"
             /\ actor'[ip].count = c.adds[ip]
  <2>1. actor'[ip] = [owner |-> OwnerOf(c), status |-> "MONITORING", count |-> c.adds[ip]]
    BY <1>1, <1>4, <1>7 DEF Counted
  <2>2. c.adds[ip] \in Nat
    BY <1>4, <1>7
  <2>3. QED
    BY <1>4, <2>1, <2>2 DEF ActorRows, Statuses
<1>8. ASSUME NEW ip \in ActorIps, ip \in c.found
      PROVE  /\ actor'[ip] = [actor[ip] EXCEPT !.count = c.base[ip] + c.adds[ip]]
             /\ actor'[ip] \in ActorRows
             /\ actor'[ip].owner = actor[ip].owner /\ actor'[ip].status = actor[ip].status
             /\ actor'[ip].count = c.base[ip] + c.adds[ip]
  <2>1. actor'[ip] = [actor[ip] EXCEPT !.count = c.base[ip] + c.adds[ip]]
    <3>1. ip \notin c.fresh
      BY <1>2, <1>8 DEF ReportOK
    <3>2. QED
      BY <1>1, <1>4, <1>8, <3>1 DEF Counted
  <2>2. actor[ip] \in ActorRows /\ c.base[ip] + c.adds[ip] \in Nat
    BY <1>4, ActorTypes
  <2>3. QED
    BY <2>1, <2>2 DEF ActorRows
<1>9. ASSUME NEW ip \in ActorIps, ip \notin c.found \cup c.fresh
      PROVE  actor'[ip] = actor[ip] /\ attacks'[ip] = attacks[ip]
  <2>1. c.adds[ip] = 0
    BY <1>2, <1>4, <1>9 DEF ReportOK
  <2>2. QED
    BY <1>1, <1>4, <1>6, <1>9, <2>1, ActorTypes
<1>10. ASSUME NEW ip \in ActorIps
       PROVE  /\ actor'[ip] \in ActorRows
              /\ Known(ip) => Known(ip)'
              /\ ip \notin c.fresh =>
                    (Known(ip)' <=> Known(ip)) /\ actor'[ip].status = actor[ip].status
              /\ actor'[ip].count <= attacks'[ip]
              /\ attacks'[ip] <= actor'[ip].count + overlaps'[ip]
  <2>1. /\ actor[ip] \in ActorRows /\ attacks[ip] \in Nat /\ overlaps[ip] \in Nat
        /\ c.adds[ip] \in Nat /\ c.base[ip] \in Nat /\ c.missed[ip] \in Nat
        /\ actor[ip].count \in Nat
        /\ actor[ip].count <= attacks[ip] /\ attacks[ip] <= actor[ip].count + overlaps[ip]
    BY <1>4, ActorTypes
  <2>2. ip \in c.found \cup c.fresh =>
           c.base[ip] <= attacks[ip] /\ attacks[ip] <= c.base[ip] + c.missed[ip] + overlaps[ip]
    BY <1>2 DEF ReportOK
  <2>3. CASE ip \in c.fresh
    <3>1. c.base[ip] = 0
      BY <1>2, <2>3 DEF ReportOK
    <3>2. QED
      BY <1>2, <1>4, <1>6, <1>7, <2>1, <2>2, <2>3, <3>1 DEF Known, ReportOK
  <2>4. CASE ip \in c.found /\ ip \notin c.fresh
    <3>1. /\ actor'[ip] \in ActorRows
          /\ Known(ip)' <=> Known(ip)
          /\ actor'[ip].status = actor[ip].status
          /\ actor'[ip].count = c.base[ip] + c.adds[ip]
      BY <1>8, <2>4 DEF Known
    <3>2. attacks'[ip] = attacks[ip] + c.adds[ip] /\ overlaps'[ip] = overlaps[ip] + c.missed[ip]
      BY <1>6, <2>4
    <3>3. QED
      BY <2>1, <2>2, <2>4, <3>1, <3>2
  <2>5. CASE ip \notin c.found \cup c.fresh
    BY <1>6, <1>9, <2>1, <2>5 DEF Known
  <2>6. QED
    BY <2>3, <2>4, <2>5
<1>11. ASSUME NEW p \in ActorCalls
       PROVE  actorCall'[p] \in {NoActorCall} \cup Reports \cup Decisions /\ CallSound(p)'
  <2>1. CASE p = q
    BY <1>5, <2>1 DEF AfterReport, CallSound, NoActorCall
  <2>2. CASE p # q /\ actorCall[p].kind # "report"
    <3>1. actorCall'[p] = actorCall[p]
      BY <1>5, <2>2 DEF AfterReport
    <3>2. actorCall[p].kind = "decision" => DecisionOK(actorCall[p]) /\ actorCall[p].ip \in ActorIps
      BY ActorTypes DEF ActorInv, CallsOK, CallSound, Decisions
    <3>3. ASSUME actorCall[p].kind = "decision"
          PROVE  DecisionOK(actorCall[p])'
      <4>1. actorCall[p].read # "absent" => actorCall[p].ip \notin c.fresh
        BY <1>2, <3>2, <3>3 DEF DecisionOK, ReportOK
      <4>2. QED
        BY <1>10, <3>1, <3>2, <3>3, <4>1 DEF DecisionOK
    <3>4. QED
      BY <2>2, <3>1, <3>3, ActorTypes DEF CallSound
  <2>3. CASE p # q /\ actorCall[p].kind = "report"
    <3> DEFINE e == actorCall[p]
               g == [ip \in ActorIps |-> e.missed[ip] + (IF ip \in Looked(e) THEN c.adds[ip] ELSE 0)]
               d == [e EXCEPT !.missed = g]
    <3>1. actorCall'[p] = d
      BY <1>5, <2>3 DEF AfterReport
    <3>2. e \in Reports /\ ReportOK(e) /\ e.fresh = {}
      BY <1>3, <2>3, ActorTypes DEF ActorInv, CallsOK, CallSound
    <3> HIDE DEF e
    <3>3. e.missed \in [ActorIps -> Nat] /\ e.base \in [ActorIps -> Nat] /\ e.found \subseteq ActorIps
      BY <3>2 DEF Reports
    <3>4. g \in [ActorIps -> Nat]
      BY <1>4, <3>3
    <3>5. \A ip \in e.found : g[ip] = e.missed[ip] + c.adds[ip]
      BY <3>3 DEF Looked
    <3> HIDE DEF g
    <3>6. /\ d \in Reports /\ d.kind = "report" /\ d.found = e.found /\ d.fresh = {}
          /\ d.lacking = e.lacking /\ d.base = e.base /\ d.adds = e.adds /\ d.missed = g
      BY <3>2, <3>4 DEF Reports
    <3> HIDE DEF d
    <3>7. ReportOK(actorCall[p])'
      <4>1. \A ip \in d.found : Known(ip)'
        BY <1>10, <3>2, <3>3, <3>6 DEF ReportOK
      <4>2. \A ip \in d.lacking \cup d.fresh : d.base[ip] = 0
        BY <3>2, <3>6 DEF ReportOK
      <4>3. \A ip \in ActorIps : ip \notin Looked(d) => d.adds[ip] = 0
        BY <3>2, <3>6 DEF ReportOK, Looked
      <4>4. ASSUME NEW ip \in d.found
            PROVE  d.base[ip] <= attacks'[ip]
                   /\ attacks'[ip] <= d.base[ip] + d.missed[ip] + overlaps'[ip]
        <5>1. /\ ip \in ActorIps /\ d.base[ip] = e.base[ip] /\ d.missed[ip] = e.missed[ip] + c.adds[ip]
              /\ e.base[ip] \in Nat /\ e.missed[ip] \in Nat /\ c.adds[ip] \in Nat
          BY <1>4, <3>3, <3>5, <3>6
        <5>2. e.base[ip] <= attacks[ip] /\ attacks[ip] <= e.base[ip] + e.missed[ip] + overlaps[ip]
          BY <3>2, <3>6 DEF ReportOK
        <5>3. QED
          BY <1>6, <5>1, <5>2, ActorTypes
      <4>5. QED
        BY <3>1, <3>6, <4>1, <4>2, <4>3, <4>4 DEF ReportOK, Looked
    <3>8. QED
      BY <3>1, <3>6, <3>7 DEF CallSound
  <2>4. QED
    BY <2>1, <2>2, <2>3
<1>12. ActorTypeOK'
  <2>1. actor' \in [ActorIps -> ActorRows]
    BY <1>1, <1>10
  <2>2. actorCall' \in [ActorCalls -> {NoActorCall} \cup Reports \cup Decisions]
    BY <1>5, <1>11 DEF AfterReport
  <2>3. attacks' \in [ActorIps -> Nat] /\ overlaps' \in [ActorIps -> Nat]
    BY <1>5, <1>6
  <2>4. decisions' \in [ActorIps -> SUBSET Statuses]
    BY <1>5, ActorTypes DEF Statuses
  <2>5. QED
    BY <1>1, <2>1, <2>2, <2>3, <2>4 DEF ActorTypeOK, ActorRows
<1>13. \A ip \in ActorIps : ~Known(ip)' => actor'[ip].count = 0
  <2> SUFFICES ASSUME NEW ip \in ActorIps, ~Known(ip)' PROVE actor'[ip].count = 0
    OBVIOUS
  <2>1. ip \notin c.fresh
    BY <1>4, <1>7 DEF Known
  <2>2. ~Known(ip) /\ ip \notin c.found
    BY <1>2, <1>10 DEF ReportOK
  <2>3. QED
    BY <1>9, <2>1, <2>2 DEF ActorInv
<1>14. ASSUME NEW ip \in ActorIps, Known(ip)'
       PROVE  actor'[ip].status \in decisions'[ip]
  <2>1. CASE ip \in c.fresh
    <3>1. decisions'[ip] = {"MONITORING"}
      BY <1>5, <2>1
    <3>2. QED
      BY <1>7, <2>1, <3>1
  <2>2. CASE ip \notin c.fresh
    <3>1. Known(ip) /\ actor'[ip].status = actor[ip].status
      BY <1>10, <1>14, <2>2
    <3>2. decisions'[ip] = decisions[ip]
      BY <1>5, <2>2
    <3>3. QED
      BY <3>1, <3>2 DEF ActorInv, DecisionIsRecent
  <2>3. QED
    BY <2>1, <2>2
<1>15. QED
  BY <1>10, <1>11, <1>12, <1>13, <1>14 DEF ActorInv, CallsOK, DecisionIsRecent, CountHasACause

(* A decision, or several at once, about ips: the rows of other IPs, and     *)
(* all counts, stay as they are; no row is lost; the status of each of ips   *)
(* is the wanted one, or one that the decision knows.                        *)
LEMMA DecideInv ==
    ASSUME ActorInv, NEW done \in SUBSET ActorCalls, NEW ips \in SUBSET ActorIps,
           NEW wanted \in Verdicts, NEW since \in SUBSET Statuses,
           Decide(done, ips, wanted, since),
           actor' \in [ActorIps -> ActorRows],
           \A ip \in ActorIps \ ips : actor'[ip] = actor[ip],
           \A ip \in ActorIps : actor'[ip].count = actor[ip].count,
           \A ip \in ActorIps : Known(ip) => Known(ip)',
           \A p \in ActorCalls : actorCall[p].kind = "report" =>
              \A ip \in actorCall[p].fresh : Known(ip)' => Known(ip),
           \A ip \in ips : Known(ip)' => actor'[ip].status \in {wanted} \cup since,
           \A ip \in ips : Known(ip) => actor'[ip].status \in {actor[ip].status, wanted},
           UNCHANGED <<dbLock, attacks, overlaps>>
    PROVE  ActorInv'
<1>1. /\ decisions' = [ip \in ActorIps |-> IF ip \in ips THEN {wanted} \cup since
                                           ELSE decisions[ip]]
      /\ actorCall' = [q \in ActorCalls |->
             IF q \in done THEN NoActorCall
             ELSE IF \E ip \in ips : Deciding(q, ip)
             THEN [actorCall[q] EXCEPT !.since = @ \cup {wanted}]
             ELSE actorCall[q]]
      /\ dbLock' = dbLock /\ attacks' = attacks /\ overlaps' = overlaps
  BY DEF Decide
<1>2. wanted \in Statuses
  BY DEF Statuses
<1>3. ASSUME NEW p \in ActorCalls
      PROVE  actorCall'[p] \in {NoActorCall} \cup Reports \cup Decisions /\ CallSound(p)'
  <2>1. CASE p \in done
    BY <1>1, <2>1 DEF CallSound, NoActorCall
  <2>2. CASE p \notin done /\ actorCall[p].kind # "decision"
    <3>1. actorCall'[p] = actorCall[p]
      BY <1>1, <2>2 DEF Deciding
    <3>2. CallSound(p)
      BY DEF ActorInv, CallsOK
    <3>3. ASSUME actorCall[p].kind = "report"
          PROVE  ReportOK(actorCall[p])'
      <4>1. actorCall[p] \in Reports
        BY <3>3, ActorTypes
      <4>2. actorCall[p].found \subseteq ActorIps /\ actorCall[p].fresh \subseteq ActorIps
        BY <4>1 DEF Reports
      <4>3. ReportOK(actorCall[p])
        BY <3>2, <3>3 DEF CallSound
      <4>4. QED
        BY <1>1, <3>1, <3>3, <4>2, <4>3 DEF ReportOK, Looked
    <3>4. QED
      BY <1>1, <2>2, <3>1, <3>2, <3>3, ActorTypes DEF CallSound
  <2>3. CASE p \notin done /\ actorCall[p].kind = "decision"
    <3> DEFINE e == actorCall[p]
               d == [e EXCEPT !.since = @ \cup {wanted}]
    <3>1. e \in Decisions /\ DecisionOK(e)
      BY <2>3, ActorTypes DEF ActorInv, CallsOK, CallSound
    <3>2. e.ip \in ActorIps
      BY <3>1 DEF Decisions
    <3>3. actorCall'[p] = IF e.ip \in ips THEN d ELSE e
      BY <1>1, <2>3 DEF Deciding
    <3> HIDE DEF e
    <3>4. /\ d \in Decisions /\ d.kind = "decision" /\ d.ip = e.ip /\ d.read = e.read
          /\ d.since = e.since \cup {wanted}
      BY <1>2, <3>1 DEF Decisions
    <3> HIDE DEF d
    <3>5. ASSUME e.read # "absent"
          PROVE  /\ actor'[e.ip].owner # 0
                 /\ e.ip \in ips => actor'[e.ip].status \in {e.read, wanted} \cup e.since
                 /\ e.ip \notin ips => actor'[e.ip].status \in {e.read} \cup e.since
      <4>1. Known(e.ip) /\ actor[e.ip].status \in {e.read} \cup e.since
        BY <3>1, <3>5 DEF DecisionOK
      <4>2. actor'[e.ip].owner # 0
        BY <3>2, <4>1 DEF Known
      <4>3. e.ip \in ips => actor'[e.ip].status \in {actor[e.ip].status, wanted}
        BY <4>1
      <4>4. e.ip \notin ips => actor'[e.ip] = actor[e.ip]
        BY <3>2
      <4>5. QED
        BY <4>1, <4>2, <4>3, <4>4
    <3>6. DecisionOK(actorCall[p])'
      <4>1. actorCall'[p].ip = e.ip /\ actorCall'[p].read = e.read
        BY <3>3, <3>4
      <4>2. actorCall'[p].since = IF e.ip \in ips THEN e.since \cup {wanted} ELSE e.since
        BY <3>3, <3>4
      <4>3. QED
        BY <3>5, <4>1, <4>2 DEF DecisionOK, Known
    <3>7. actorCall'[p] \in Decisions /\ actorCall'[p].kind = "decision"
      BY <3>1, <3>3, <3>4 DEF Decisions
    <3>8. QED
      BY <3>6, <3>7 DEF CallSound
  <2>4. QED
    BY <2>1, <2>2, <2>3
<1>4. ActorTypeOK'
  <2>1. actorCall' \in [ActorCalls -> {NoActorCall} \cup Reports \cup Decisions]
    BY <1>1, <1>3
  <2>2. decisions' \in [ActorIps -> SUBSET Statuses]
    BY <1>1, <1>2, ActorTypes
  <2>3. QED
    BY <1>1, <2>1, <2>2 DEF ActorInv, ActorTypeOK, ActorRows
<1>5. \A ip \in ActorIps : ~Known(ip)' => actor'[ip].count = 0
  BY DEF ActorInv
<1>6. ASSUME NEW ip \in ActorIps, Known(ip)'
      PROVE  actor'[ip].status \in decisions'[ip]
  <2>1. CASE ip \in ips
    BY <1>1, <1>6, <2>1
  <2>2. CASE ip \notin ips
    <3>1. actor'[ip] = actor[ip] /\ decisions'[ip] = decisions[ip]
      BY <1>1, <2>2
    <3>2. Known(ip)
      BY <1>6, <3>1 DEF Known
    <3>3. QED
      BY <3>1, <3>2 DEF ActorInv, DecisionIsRecent
  <2>3. QED
    BY <2>1, <2>2
<1>7. CountHasACause'
  BY <1>1 DEF ActorInv, CountHasACause
<1>8. QED
  BY <1>3, <1>4, <1>5, <1>6, <1>7 DEF ActorInv, CallsOK, DecisionIsRecent

LEMMA DecideUnchangedInv ==
    ASSUME ActorInv, NEW q \in ActorCalls, DecideUnchanged(q) PROVE ActorInv'
<1> DEFINE c == actorCall[q]
<1>1. /\ c.kind = "decision" /\ c.read = c.wanted
      /\ Decide({q}, {c.ip}, c.wanted, c.since)
      /\ UNCHANGED <<actor, dbLock, attacks, overlaps>>
  BY DEF DecideUnchanged, DecideNow
<1>2. c \in Decisions /\ DecisionOK(c)
  BY <1>1, ActorTypes DEF ActorInv, CallsOK, CallSound
<1> HIDE DEF c
<1>3. c.ip \in ActorIps /\ c.wanted \in Verdicts /\ c.since \in SUBSET Statuses /\ c.wanted # "absent"
  BY <1>2, ActorAssumption DEF Decisions
<1>4. actor[c.ip].status \in {c.wanted} \cup c.since
  BY <1>1, <1>2, <1>3 DEF DecisionOK
<1>5. actor' = actor /\ \A ip \in ActorIps : Known(ip)' <=> Known(ip)
  BY <1>1 DEF Known
<1>6. /\ {q} \in SUBSET ActorCalls /\ {c.ip} \in SUBSET ActorIps
      /\ actor' \in [ActorIps -> ActorRows]
      /\ \A ip \in {c.ip} : actor'[ip].status \in {c.wanted} \cup c.since
  BY <1>3, <1>4, <1>5, ActorTypes
<1>7. \A p \in ActorCalls : actorCall[p].kind = "report" =>
         \A ip \in actorCall[p].fresh : Known(ip)' => Known(ip)
  BY <1>5 DEF Known
<1>8. QED
  BY <1>1, <1>3, <1>5, <1>6, <1>7, DecideInv

LEMMA DecideChangedInv ==
    ASSUME ActorInv, NEW q \in ActorCalls, DecideChanged(q) PROVE ActorInv'
<1> DEFINE c == actorCall[q]
<1>1. /\ c.kind = "decision"
      /\ actor' = [actor EXCEPT ![c.ip].status = c.wanted]
      /\ Decide({q}, {c.ip}, c.wanted, c.since)
      /\ UNCHANGED <<dbLock, attacks, overlaps>>
  BY DEF DecideChanged, DecideNow
<1>2. c \in Decisions
  BY <1>1, ActorTypes
<1> HIDE DEF c
<1>3. c.ip \in ActorIps /\ c.wanted \in Verdicts /\ c.since \in SUBSET Statuses
  BY <1>2 DEF Decisions
<1>4. \A r \in ActorRows : LET s == [r EXCEPT !.status = c.wanted]
                           IN  /\ s \in ActorRows /\ s.status = c.wanted
                               /\ s.count = r.count /\ s.owner = r.owner
  BY <1>3 DEF ActorRows, Statuses
<1>5. /\ actor'[c.ip] = [actor[c.ip] EXCEPT !.status = c.wanted]
      /\ \A ip \in ActorIps \ {c.ip} : actor'[ip] = actor[ip]
      /\ actor[c.ip] \in ActorRows
  BY <1>1, <1>3, ActorTypes
<1>6. /\ actor'[c.ip] \in ActorRows /\ actor'[c.ip].status = c.wanted
      /\ actor'[c.ip].count = actor[c.ip].count /\ actor'[c.ip].owner = actor[c.ip].owner
  BY <1>4, <1>5
<1>7. /\ actor' \in [ActorIps -> ActorRows]
      /\ \A ip \in ActorIps : actor'[ip].count = actor[ip].count
      /\ \A ip \in ActorIps : Known(ip)' <=> Known(ip)
  BY <1>1, <1>5, <1>6, ActorTypes DEF Known
<1>8. \A p \in ActorCalls : actorCall[p].kind = "report" =>
         \A ip \in actorCall[p].fresh : Known(ip)' => Known(ip)
  BY <1>7, ActorTypes DEF Reports
<1>9. /\ \A ip \in {c.ip} : Known(ip)' => actor'[ip].status \in {c.wanted} \cup c.since
      /\ \A ip \in {c.ip} : Known(ip) => actor'[ip].status \in {actor[ip].status, c.wanted}
      /\ {q} \in SUBSET ActorCalls /\ {c.ip} \in SUBSET ActorIps
  BY <1>3, <1>6
<1>10. QED
  BY <1>1, <1>3, <1>5, <1>7, <1>8, <1>9, DecideInv

LEMMA DecideNewInv ==
    ASSUME ActorInv, NEW q \in ActorCalls, DecideNew(q) PROVE ActorInv'
<1> DEFINE c == actorCall[q]
           row == [owner |-> c.tenant, status |-> c.wanted, count |-> 0]
<1>1. /\ c.kind = "decision" /\ ~Known(c.ip) /\ dbLock = NoCaller
      /\ actor' = [actor EXCEPT ![c.ip] = row]
      /\ Decide({q}, {c.ip}, c.wanted, c.since)
      /\ UNCHANGED <<dbLock, attacks, overlaps>>
  BY DEF DecideNew, DecideNow
<1>2. c \in Decisions
  BY <1>1, ActorTypes
<1>3. \A p \in ActorCalls : actorCall[p].kind = "report" => actorCall[p].fresh = {}
  BY <1>1, OneWriter, ActorAssumption
<1> HIDE DEF c
<1>4. /\ c.ip \in ActorIps /\ c.wanted \in Verdicts /\ c.since \in SUBSET Statuses
      /\ c.tenant \in ActorTenants \cup {0}
  BY <1>2 DEF Decisions, AllTenants
<1>5. row \in ActorRows /\ row.status = c.wanted /\ row.count = 0
  BY <1>4 DEF ActorRows, Statuses
<1> HIDE DEF row
<1>6. actor'[c.ip] = row /\ \A ip \in ActorIps \ {c.ip} : actor'[ip] = actor[ip]
  BY <1>1, <1>4, ActorTypes
<1>7. actor' \in [ActorIps -> ActorRows]
  BY <1>1, <1>4, <1>5, ActorTypes
<1>8. \A ip \in ActorIps : actor'[ip].count = actor[ip].count
  BY <1>1, <1>4, <1>5, <1>6 DEF ActorInv
<1>9. \A ip \in ActorIps : Known(ip) => Known(ip)'
  BY <1>1, <1>6 DEF Known
<1>10. \A p \in ActorCalls : actorCall[p].kind = "report" =>
         \A ip \in actorCall[p].fresh : Known(ip)' => Known(ip)
  BY <1>3
<1>11. /\ \A ip \in {c.ip} : Known(ip)' => actor'[ip].status \in {c.wanted} \cup c.since
       /\ \A ip \in {c.ip} : Known(ip) => actor'[ip].status \in {actor[ip].status, c.wanted}
       /\ {q} \in SUBSET ActorCalls /\ {c.ip} \in SUBSET ActorIps
  BY <1>4, <1>5, <1>6
<1>12. QED
  BY <1>1, <1>4, <1>6, <1>7, <1>8, <1>9, <1>10, <1>11, DecideInv

LEMMA DecideInBulkInv ==
    ASSUME ActorInv, NEW ips \in SUBSET ActorIps, NEW wanted \in Verdicts,
           DecideInBulk(ips, wanted)
    PROVE  ActorInv'
<1>1. /\ actor' = [ip \in ActorIps |-> IF ip \in ips THEN [actor[ip] EXCEPT !.status = wanted]
                                       ELSE actor[ip]]
      /\ Decide({}, ips, wanted, {})
      /\ UNCHANGED <<dbLock, attacks, overlaps>>
  BY DEF DecideInBulk
<1>2. ASSUME NEW ip \in ActorIps
      PROVE  /\ actor'[ip] \in ActorRows
             /\ actor'[ip].count = actor[ip].count /\ actor'[ip].owner = actor[ip].owner
             /\ ip \in ips => actor'[ip].status = wanted
             /\ ip \notin ips => actor'[ip] = actor[ip]
  <2>1. actor[ip] \in ActorRows
    BY ActorTypes
  <2>2. QED
    BY <1>1, <2>1 DEF ActorRows, Statuses
<1>3. /\ actor' \in [ActorIps -> ActorRows]
      /\ \A ip \in ActorIps \ ips : actor'[ip] = actor[ip]
      /\ \A ip \in ActorIps : actor'[ip].count = actor[ip].count
      /\ \A ip \in ActorIps : Known(ip)' <=> Known(ip)
  BY <1>1, <1>2 DEF Known
<1>4. \A p \in ActorCalls : actorCall[p].kind = "report" =>
         \A ip \in actorCall[p].fresh : Known(ip)' => Known(ip)
  BY <1>3, ActorTypes DEF Reports
<1>5. /\ \A ip \in ips : Known(ip)' => actor'[ip].status \in {wanted} \cup {}
      /\ \A ip \in ips : Known(ip) => actor'[ip].status \in {actor[ip].status, wanted}
      /\ {} \in SUBSET ActorCalls /\ {} \in SUBSET Statuses
  BY <1>2
<1>6. QED
  BY <1>1, <1>3, <1>4, <1>5, DecideInv

LEMMA NextActorInv == ActorInv /\ [ActorNext]_actorVars => ActorInv'
<1> SUFFICES ASSUME ActorInv, [ActorNext]_actorVars PROVE ActorInv'
  OBVIOUS
<1>1. ASSUME NEW q \in ActorCalls, NEW tenant \in ActorTenants \cup {AllTenants},
             NEW ip \in ActorIps, NEW wanted \in Verdicts, BeginDecision(q, tenant, ip, wanted)
      PROVE  ActorInv'
  <2> DEFINE c == [kind |-> "decision", tenant |-> tenant, ip |-> ip, wanted |-> wanted,
                   read |-> IF Sees(tenant, ip) THEN actor[ip].status ELSE "absent",
                   since |-> {}]
  <2>1. SetCall(q, c) /\ UNCHANGED <<actor, dbLock, attacks, overlaps, decisions>>
    BY <1>1 DEF BeginDecision
  <2>2. c \in Decisions /\ c.kind = "decision"
    <3>1. actor[ip].status \in Statuses
      BY ActorTypes DEF ActorRows
    <3>2. QED
      BY <3>1 DEF Decisions
  <2>3. DecisionOK(c)
    BY DEF DecisionOK, Sees
  <2> HIDE DEF c
  <2>4. QED
    BY <2>1, <2>2, <2>3, ActorTypes, CallMoves
<1>2. ASSUME NEW q \in ActorCalls, ActorCallRaises(q)
      PROVE  ActorInv'
  <2>1. /\ SetCall(q, NoActorCall) /\ dbLock' = IF dbLock = q THEN NoCaller ELSE dbLock
        /\ UNCHANGED <<actor, attacks, overlaps, decisions>>
    BY <1>2 DEF ActorCallRaises
  <2>2. NoActorCall.kind = "none" /\ dbLock' \in ActorCalls \cup {NoCaller}
    BY <2>1, ActorTypes DEF NoActorCall
  <2>3. QED
    BY <2>1, <2>2, CallMoves
<1>3. CASE UNCHANGED actorVars
  BY <1>3 DEF actorVars, ActorInv, ActorTypeOK, CallsOK, CallSound, ReportOK, DecisionOK,
     DecisionIsRecent, CountHasACause, Known
<1>4. QED
  BY <1>1, <1>2, <1>3, BeginReportInv, LookUpInv, AddActorInv, FlushEndpointInv, CommitReportInv,
     DecideUnchangedInv, DecideChangedInv, DecideNewInv, DecideInBulkInv
  DEF ActorNext

(* Actors, the reports and the decisions under way are always well         *)
(* formed.                                                                 *)
THEOREM ActorTypeCorrect == ActorSpec => []ActorTypeOK
<1>1. ActorInv => ActorTypeOK
  BY DEF ActorInv
<1>2. QED
  BY InitActorInv, NextActorInv, <1>1, PTL DEF ActorSpec

(* An actor never shows the status of a decision that was over before      *)
(* another one was begun, whatever reports and decisions overlap.          *)
THEOREM DecisionsStand == ActorSpec => []DecisionIsRecent
<1>1. ActorInv => DecisionIsRecent
  BY DEF ActorInv
<1>2. QED
  BY InitActorInv, NextActorInv, <1>1, PTL DEF ActorSpec

(* What the count of an actor lacks was committed while the count was in   *)
(* the hands of some request; it is never above the attacks committed.     *)
THEOREM CountsHaveACause == ActorSpec => []CountHasACause
<1>1. ActorInv => CountHasACause
  BY DEF ActorInv
<1>2. QED
  BY InitActorInv, NextActorInv, <1>1, PTL DEF ActorSpec
=============================================================================
