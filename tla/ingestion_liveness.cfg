CONSTANTS
    t1 = t1
    t2 = t2
    Stop = Stop
    NoJob = NoJob
    Owner <- MCOwner
    StreamJobs = {s1}
    HttpJobs = {}
    BatchJobs = {b1, b2}
    TenantTwoJobs = {}
    Tenants = {t1}
    Workers = {w1, w2}
    QueueMax = 3
    TopicMax = 1
    BatchSize = 1
    Faults = {"begin", "process", "complete"}
    MaxRestarts = 0
SPECIFICATION FairSpec
INVARIANTS
    NoSilentLoss
PROPERTIES
    AcceptedJobFinishes
    StopReturnsWhenItFits
CHECK_DEADLOCK FALSE
