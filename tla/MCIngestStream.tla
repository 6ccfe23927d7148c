--------------------------- MODULE MCIngestStream ---------------------------
(* Instances of IngestStream for TLC: the second tenant owns TenantTwoJobs,  *)
(* the first one everything else.                                            *)
EXTENDS IngestStream, TLC

CONSTANTS t1, t2, TenantTwoJobs

MCOwner == [j \in StreamJobs \cup HttpJobs \cup BatchJobs |->
                IF j \in TenantTwoJobs THEN t2 ELSE t1]
=============================================================================
