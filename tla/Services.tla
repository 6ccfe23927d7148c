------------------------------ MODULE Services ------------------------------
(***************************************************************************)
(* The services beside the ingestion path, side by side: storage (warm     *)
(* export, cold archive), retention policy, quota, view cache, alert       *)
(* response, scans, recon, threat actors, the log shipper; and of two      *)
(* other programs of the repository the sales chat and the log agent's     *)
(* queries.                                                                *)
(*                                                                         *)
(* Each has rows, keys or messages of its own and shares none with another *)
(* (a row that is archived while it waits for its export is not modelled), *)
(* so the system is their sum and not their product: `part` says which of  *)
(* them a behaviour shows, the others stay in their initial states, and    *)
(* each property is about every behaviour of its part.                     *)
(***************************************************************************)
EXTENDS WarmExport, ColdArchive, RetentionPolicy, TenantQuota, ViewCache,
        AlertResponse, ScanRun, ReconSources, ThreatActors, LogShipper,
        SalesChat, EvidenceQueries

CONSTANT Parts  \* bound: the services to look at

ASSUME ServicesAssumption ==
    Parts \subseteq {"warm", "cold", "policy", "quota", "view", "alert", "scan",
                    "recon", "actors", "shipper", "chat", "trading"}

VARIABLE part

serviceVars == <<part, warmVars, coldVars, policyVars, quotaVars, viewVars,
                 alertVars, scanVars, reconVars, actorVars, shipVars,
                 chatVars, breakerVars>>

ServicesTypeOK ==
    /\ part \in Parts
    /\ WarmTypeOK /\ ColdTypeOK /\ PolicyTypeOK /\ QuotaTypeOK /\ ViewTypeOK
    /\ AlertTypeOK /\ ScanTypeOK /\ ReconTypeOK /\ ActorTypeOK
    /\ ShipperTypeOK /\ ChatTypeOK /\ BreakerTypeOK

ServicesInit ==
    /\ part \in Parts
    /\ WarmInit /\ ColdInit /\ PolicyInit /\ QuotaInit /\ ViewInit
    /\ AlertInit /\ ScanInit /\ ReconInit /\ ActorInit /\ ShipperInit
    /\ ChatInit /\ BreakerInit

(* What a step of each part leaves alone. *)
BesideWarm == <<part, coldVars, policyVars, quotaVars, viewVars, alertVars, scanVars,
                reconVars, actorVars, shipVars, chatVars, breakerVars>>
BesideCold == <<part, warmVars, policyVars, quotaVars, viewVars, alertVars, scanVars,
                reconVars, actorVars, shipVars, chatVars, breakerVars>>
BesidePolicy == <<part, warmVars, coldVars, quotaVars, viewVars, alertVars, scanVars,
                  reconVars, actorVars, shipVars, chatVars, breakerVars>>
BesideQuota == <<part, warmVars, coldVars, policyVars, viewVars, alertVars, scanVars,
                 reconVars, actorVars, shipVars, chatVars, breakerVars>>
BesideView == <<part, warmVars, coldVars, policyVars, quotaVars, alertVars, scanVars,
                reconVars, actorVars, shipVars, chatVars, breakerVars>>
BesideAlert == <<part, warmVars, coldVars, policyVars, quotaVars, viewVars, scanVars,
                 reconVars, actorVars, shipVars, chatVars, breakerVars>>
BesideScan == <<part, warmVars, coldVars, policyVars, quotaVars, viewVars, alertVars,
                reconVars, actorVars, shipVars, chatVars, breakerVars>>
BesideRecon == <<part, warmVars, coldVars, policyVars, quotaVars, viewVars, alertVars,
                 scanVars, actorVars, shipVars, chatVars, breakerVars>>
BesideActors == <<part, warmVars, coldVars, policyVars, quotaVars, viewVars, alertVars,
                  scanVars, reconVars, shipVars, chatVars, breakerVars>>
BesideShipper == <<part, warmVars, coldVars, policyVars, quotaVars, viewVars, alertVars,
                   scanVars, reconVars, actorVars, chatVars, breakerVars>>
BesideChat == <<part, warmVars, coldVars, policyVars, quotaVars, viewVars, alertVars,
                scanVars, reconVars, actorVars, shipVars, breakerVars>>
BesideTrading == <<part, warmVars, coldVars, policyVars, quotaVars, viewVars, alertVars,
                   scanVars, reconVars, actorVars, shipVars, chatVars>>

ServicesNext ==
    \/ part = "warm" /\ WarmNext /\ UNCHANGED BesideWarm
    \/ part = "cold" /\ ColdNext /\ UNCHANGED BesideCold
    \/ part = "policy" /\ PolicyNext /\ UNCHANGED BesidePolicy
    \/ part = "quota" /\ QuotaNext /\ UNCHANGED BesideQuota
    \/ part = "view" /\ ViewNext /\ UNCHANGED BesideView
    \/ part = "alert" /\ AlertNext /\ UNCHANGED BesideAlert
    \/ part = "scan" /\ ScanNext /\ UNCHANGED BesideScan
    \/ part = "recon" /\ ReconNext /\ UNCHANGED BesideRecon
    \/ part = "actors" /\ ActorNext /\ UNCHANGED BesideActors
    \/ part = "shipper" /\ ShipperNext /\ UNCHANGED BesideShipper
    \/ part = "chat" /\ ChatNext /\ UNCHANGED BesideChat
    \/ part = "trading" /\ BreakerNext /\ UNCHANGED BesideTrading

ServicesSpec == ServicesInit /\ [][ServicesNext]_serviceVars

(* The event loop keeps running each background task, and the host the      *)
(* agent.                                                                   *)
ServicesFairSpec ==
    /\ ServicesSpec
    /\ WF_serviceVars(part = "warm" /\ ExportStep /\ UNCHANGED BesideWarm)
    /\ WF_serviceVars(part = "cold" /\ RunStep(ArchiveTask) /\ UNCHANGED BesideCold)
    /\ WF_serviceVars(part = "alert" /\ ConsumerStep /\ UNCHANGED BesideAlert)
    /\ WF_serviceVars(part = "recon" /\ SchedulerStep /\ UNCHANGED BesideRecon)
    /\ WF_serviceVars(part = "shipper" /\ ShipperStep /\ UNCHANGED BesideShipper)
=============================================================================
