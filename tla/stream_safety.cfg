CONSTANTS
    t1 = t1
    t2 = t2
    Stop = Stop
    NoJob = NoJob
    Owner <- MCOwner
    StreamJobs = {}
    HttpJobs = {}
    BatchJobs = {b1, b2}
    TenantTwoJobs = {}
    Tenants = {t1}
    Workers = {w1}
    QueueMax = 1
    TopicMax = 1
    BatchSize = 2
    Faults = {"process"}
    MaxRestarts = 1
    Hours = {0, 1}
    AlertAt = 2
    FlushEvery = 2
    Failing = {t1}
SPECIFICATION SystemSpec
INVARIANTS
    SystemTypeOK
    FlushLag
    NoPhantomSuppression
PROPERTY ImplementsIngestion
CHECK_DEADLOCK FALSE
