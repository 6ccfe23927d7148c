CONSTANTS
    t1 = t1
    t2 = t2
    Stop = Stop
    NoJob = NoJob
    Owner <- MCOwner
    StreamJobs = {}
    HttpJobs = {}
    BatchJobs = {b1, b2, b3}
    TenantTwoJobs = {b3}
    Tenants = {t1, t2}
    Workers = {w1}
    QueueMax = 3
    TopicMax = 1
    BatchSize = 2
    Faults = {}
    MaxRestarts = 0
    Hours = {0}
    AlertAt = 3
    FlushEvery = 3
    Failing = {t1}
SPECIFICATION FairSystemSpec
PROPERTY TenantsDoNotInterfere
CHECK_DEADLOCK FALSE
