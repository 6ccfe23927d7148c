CONSTANTS
    t1 = t1
    t2 = t2
    Stop = Stop
    NoJob = NoJob
    StreamJobs = {s1}
    HttpJobs = {h1}
    BatchJobs = {b1}
    TenantTwoJobs = {}
    Tenants = {t1}
    Owner <- MCOwner
    Workers = {w1, w2}
    QueueMax = 1
    TopicMax = 1
    BatchSize = 2
    Faults = {"begin", "process", "complete", "record", "refuse"}
    MaxRestarts = 1
SPECIFICATION Spec
SYMMETRY Symmetry
INVARIANTS
    NoDoubleDelivery
    EffectMatchesStatus
    FailureIsRecordedOnce
PROPERTIES
    ImplementsLifecycle
CHECK_DEADLOCK FALSE
