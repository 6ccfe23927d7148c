CONSTANTS
    t1 = t1
    t2 = t2
    Stop = Stop
    NoJob = NoJob
    Owner <- MCOwner
    StreamJobs = {}
    HttpJobs = {}
    BatchJobs = {b1, b2}
    TenantTwoJobs = {b2}
    Tenants = {t1, t2}
    Workers = {w1, w2}
    QueueMax = 1
    TopicMax = 1
    BatchSize = 2
    Faults = {"process"}
    MaxRestarts = 0
    Hours = {0}
    AlertAt = 2
    FlushEvery = 2
    Failing = {t1, t2}
SPECIFICATION FairSystemSpec
INVARIANT EventsConserved
PROPERTIES
    JobsFinishUntilConsumerDies
    EventsAreConsumed
    RequestIsAnswered
CHECK_DEADLOCK FALSE
