---------------------------- MODULE AlertResponse ----------------------------
(***************************************************************************)
(* Stream alerts and the automatic blocks they cause: KafkaAlertConsumer   *)
(* (modules/streaming/kafka_alert_consumer.py) reads events.alerts, stores *)
(* an alert with its evidence, runs the tenant's playbooks                 *)
(* (modules/response/playbook_executor.py) and commits once.  The          *)
(* block-list routes (api/routers/blocklist.py) add and remove blocks of   *)
(* the one account they serve.                                             *)
(*                                                                         *)
(* An IP can be blocked once in the whole database (blocked_ips.ip is      *)
(* unique), yet a playbook looks only for blocks of its own tenant, and    *)
(* the sessions do not flush by themselves, so two matching actions of one *)
(* alert both miss.  An error within an action is caught and logged with   *)
(* it, and the alert is stored without that block.  Kafka is external: it  *)
(* commits the position of the consumer whenever it likes, handled or not. *)
(* The group has a committed offset from the start.                        *)
(***************************************************************************)
EXTENDS Naturals, Sequences, FiniteSets

CONSTANTS
    AlertLog,         \* the messages that can come, in order; see Messages
    RouteTenant,      \* ACCOUNT_ID of the block-list routes
    MaxAlertRestarts, \* bound: restarts of the process
    MaxUnblocks       \* bound: blocks removed by hand

(* account_id (0: none), the IP its playbooks block, and how many matching  *)
(* actions name it: in several playbooks, or twice in one list.             *)
Messages == [tenant : Nat, ip : STRING, times : Nat]

ASSUME AlertAssumption ==
    /\ AlertLog \in Seq(Messages)
    /\ RouteTenant \in Nat \ {0}
    /\ {MaxAlertRestarts, MaxUnblocks} \subseteq Nat

VARIABLES
    produced,       \* messages in the topic
    offset,         \* the committed offset of the group
    consumer,       \* pc, position, blocks to add, whether an action succeeded
    alertRows,      \* how many alerts are stored for each message
    actionLogs,     \* messages with a BLOCK_IP_LIST log of status SUCCESS
    blocked,        \* blocked_ips: the owner of each IP, 0 if not blocked
    released,       \* history: messages whose IP was unblocked after the lookup
    alertFailures,  \* history: messages given up, by an exception or the end of the process
    alertRestarts,
    unblocks

alertVars == <<produced, offset, consumer, alertRows, actionLogs, blocked, released,
               alertFailures, alertRestarts, unblocks>>

MessageIds == 1..Len(AlertLog)
AlertIps == {AlertLog[n].ip : n \in MessageIds}
AlertTenants == {AlertLog[n].tenant : n \in MessageIds} \cup {RouteTenant}
At(pc, position) == [pc |-> pc, position |-> position, adds |-> 0, worked |-> FALSE]
Connected(position) == At("poll", position)

AlertTypeOK ==
    /\ produced \in 0..Len(AlertLog)
    /\ offset \in 0..Len(AlertLog)
    /\ consumer \in [pc : {"poll", "respond", "commit", "dead"},
                     position : 0..Len(AlertLog), adds : Nat, worked : BOOLEAN]
    /\ alertRows \in [MessageIds -> Nat]
    /\ actionLogs \subseteq MessageIds
    /\ blocked \in [AlertIps -> AlertTenants \cup {0}]
    /\ released \subseteq MessageIds
    /\ alertFailures \in Nat
    /\ alertRestarts \in 0..MaxAlertRestarts
    /\ unblocks \in 0..MaxUnblocks

AlertInit ==
    /\ produced = 0
    /\ offset = 0
    /\ consumer = Connected(0)
    /\ alertRows = [n \in MessageIds |-> 0]
    /\ actionLogs = {}
    /\ blocked = [ip \in AlertIps |-> 0]
    /\ released = {}
    /\ alertFailures = 0
    /\ alertRestarts = 0
    /\ unblocks = 0

InHand == consumer.pc \in {"respond", "commit"}
Current == AlertLog[consumer.position]

(* The messages whose playbooks have looked for their blocks. *)
Responded ==
    {n \in MessageIds : alertRows[n] > 0 \/ (InHand /\ n = consumer.position)}

-----------------------------------------------------------------------------
(* Kafka. *)

ProduceAlert ==
    /\ produced < Len(AlertLog)
    /\ produced' = produced + 1
    /\ UNCHANGED <<offset, consumer, alertRows, actionLogs, blocked, released,
                   alertFailures, alertRestarts, unblocks>>

(* Mutant: what has been fetched counts as consumed. *)
AutoCommitFetched ==
    /\ consumer.pc # "dead"
    /\ offset' = produced
    /\ UNCHANGED <<produced, consumer, alertRows, actionLogs, blocked, released,
                   alertFailures, alertRestarts, unblocks>>

AutoCommit ==
    /\ consumer.pc # "dead"
    /\ offset' = consumer.position
    /\ UNCHANGED <<produced, consumer, alertRows, actionLogs, blocked, released,
                   alertFailures, alertRestarts, unblocks>>

-----------------------------------------------------------------------------
(* _loop and _handle_alert. *)

(* Mutant: a payload without an account is not consumed. *)
DeliverUsable ==
    /\ consumer.pc = "poll"
    /\ consumer.position < produced
    /\ LET n == consumer.position + 1
       IN  consumer' = IF AlertLog[n].tenant = 0 THEN consumer ELSE At("respond", n)
    /\ UNCHANGED <<produced, offset, alertRows, actionLogs, blocked, released,
                   alertFailures, alertRestarts, unblocks>>

(* A payload without an account is skipped. *)
DeliverAlert ==
    /\ consumer.pc = "poll"
    /\ consumer.position < produced
    /\ LET n == consumer.position + 1
       IN  consumer' = At(IF AlertLog[n].tenant = 0 THEN "poll" ELSE "respond", n)
    /\ UNCHANGED <<produced, offset, alertRows, actionLogs, blocked, released,
                   alertFailures, alertRestarts, unblocks>>

(* The alert and its evidence are staged; every matching action looks for   *)
(* the tenant's own block and adds one if there is none.  An action whose   *)
(* lookup raises is logged FAILED and adds nothing; n of them succeed.      *)
RunPlaybooks ==
    /\ consumer.pc = "respond"
    /\ \E n \in 0..Current.times :
          consumer' = [consumer EXCEPT
                         !.pc = "commit",
                         !.adds = IF blocked[Current.ip] = Current.tenant THEN 0 ELSE n,
                         !.worked = n > 0]
    /\ UNCHANGED <<produced, offset, alertRows, actionLogs, blocked, released,
                   alertFailures, alertRestarts, unblocks>>

BlockConflict ==
    \/ consumer.adds > 1
    \/ consumer.adds = 1 /\ blocked[Current.ip] # 0

StoreAlert ==
    /\ consumer' = Connected(consumer.position)
    /\ alertRows' = [alertRows EXCEPT ![consumer.position] = @ + 1]
    /\ actionLogs' = IF consumer.worked THEN actionLogs \cup {consumer.position}
                     ELSE actionLogs
    /\ UNCHANGED <<produced, offset, released, alertFailures, alertRestarts, unblocks>>

(* Mutant: a block that cannot be inserted is left out. *)
CommitWithoutBlock ==
    /\ consumer.pc = "commit"
    /\ blocked' = IF consumer.adds > 0 /\ ~BlockConflict
                  THEN [blocked EXCEPT ![Current.ip] = Current.tenant] ELSE blocked
    /\ StoreAlert

CommitAlert ==
    /\ consumer.pc = "commit"
    /\ ~BlockConflict
    /\ blocked' = IF consumer.adds > 0
                  THEN [blocked EXCEPT ![Current.ip] = Current.tenant] ELSE blocked
    /\ StoreAlert

(* An error anywhere but within an action, the commit included: everything  *)
(* is rolled back, the exception leaves the loop, and consumer.stop()       *)
(* commits the position.                                                    *)
ConsumerRaises ==
    /\ consumer.pc # "dead"
    /\ consumer' = At("dead", consumer.position)
    /\ offset' = consumer.position
    /\ alertFailures' = alertFailures + (IF InHand THEN 1 ELSE 0)
    /\ UNCHANGED <<produced, alertRows, actionLogs, blocked, released, alertRestarts, unblocks>>

(* The process ends and starts again: it goes on at the committed offset.   *)
RestartConsumer ==
    /\ alertRestarts < MaxAlertRestarts
    /\ alertRestarts' = alertRestarts + 1
    /\ consumer' = Connected(offset)
    /\ alertFailures' = alertFailures + (IF InHand THEN 1 ELSE 0)
    /\ UNCHANGED <<produced, offset, alertRows, actionLogs, blocked, released, unblocks>>

-----------------------------------------------------------------------------
(* The block-list routes. *)

(* block_ip: 409, or a conflict, if anybody has blocked it. *)
BlockByHand(ip) ==
    /\ blocked[ip] = 0
    /\ blocked' = [blocked EXCEPT ![ip] = RouteTenant]
    /\ UNCHANGED <<produced, offset, consumer, alertRows, actionLogs, released,
                   alertFailures, alertRestarts, unblocks>>

(* auto_block_high_risk: one commit for all, so another tenant's block of   *)
(* one of the IPs fails it for the others.                                  *)
AutoBlock(ips) ==
    /\ \A ip \in ips : blocked[ip] \in {0, RouteTenant}
    /\ blocked' = [ip \in AlertIps |-> IF ip \in ips THEN RouteTenant ELSE blocked[ip]]
    /\ UNCHANGED <<produced, offset, consumer, alertRows, actionLogs, released,
                   alertFailures, alertRestarts, unblocks>>

UnblockIp(ip) ==
    /\ unblocks < MaxUnblocks
    /\ unblocks' = unblocks + 1
    /\ blocked[ip] = RouteTenant
    /\ blocked' = [blocked EXCEPT ![ip] = 0]
    /\ released' = released \cup {n \in Responded : AlertLog[n].ip = ip}
    /\ UNCHANGED <<produced, offset, consumer, alertRows, actionLogs,
                   alertFailures, alertRestarts>>

(* The commit of a block that cannot be inserted raises. *)
CommitConflicts ==
    /\ consumer.pc = "commit"
    /\ BlockConflict
    /\ ConsumerRaises

ConsumerStep == DeliverAlert \/ RunPlaybooks \/ CommitAlert \/ CommitConflicts

AlertNext ==
    \/ ProduceAlert \/ AutoCommit
    \/ ConsumerStep \/ ConsumerRaises
    \/ RestartConsumer
    \/ \E ip \in AlertIps : BlockByHand(ip) \/ UnblockIp(ip)
    \/ \E ips \in SUBSET AlertIps : AutoBlock(ips)

AlertSpec == AlertInit /\ [][AlertNext]_alertVars

(* The event loop keeps running the consumer's task; no error has to happen *)
(* but the conflict.                                                        *)
AlertFairSpec == AlertSpec /\ WF_alertVars(ConsumerStep)

-----------------------------------------------------------------------------
(* Delivered, not stored and not in hand. *)
PassedOver(n) ==
    /\ n <= consumer.position
    /\ alertRows[n] = 0
    /\ ~(InHand /\ n = consumer.position)

(* What the action log says is true: an alert is stored with a block action *)
(* of status SUCCESS only together with its block.  Until somebody unblocks *)
(* the IP by hand it is blocked, by the alert's own tenant, whatever other  *)
(* tenants and the routes block in between.  An alert whose actions failed  *)
(* is stored too, without a block.                                          *)
SuccessMeansBlocked ==
    \A n \in actionLogs \ released :
        alertRows[n] > 0 /\ blocked[AlertLog[n].ip] = AlertLog[n].tenant

(* Each failure costs at most the one alert in hand, although Kafka may     *)
(* have committed past it, and each restart repeats an alert at most once.  *)
FailuresBoundLossAndRepeats ==
    /\ Cardinality({n \in MessageIds : AlertLog[n].tenant # 0 /\ PassedOver(n)})
          <= alertFailures
    /\ \A n \in MessageIds : alertRows[n] <= 1 + alertRestarts

(* Every message that was produced gets its turn unless the task dies: a    *)
(* payload without an account holds up nothing.                             *)
AlertsGetTheirTurn ==
    \A n \in MessageIds :
        n <= produced ~> (alertRows[n] > 0 \/ PassedOver(n) \/ consumer.pc = "dead")
=============================================================================
