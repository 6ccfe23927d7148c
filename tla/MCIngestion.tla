---------------------------- MODULE MCIngestion -----------------------------
(* Instances of Ingestion for TLC.  Every run takes its job sets, queue      *)
(* bound and fault points from its .cfg; tenants are assigned here.          *)
EXTENDS Ingestion, TLC

CONSTANTS t1, t2, TenantTwoJobs

(* The second tenant owns TenantTwoJobs, the first one everything else. *)
MCOwner == [j \in StreamJobs \cup HttpJobs \cup BatchJobs |->
                IF j \in TenantTwoJobs THEN t2 ELSE t1]

Symmetry == Permutations(Workers)
=============================================================================
