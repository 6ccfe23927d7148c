CONSTANTS
    t1 = t1
    t2 = t2
    Stop = Stop
    NoJob = NoJob
    Owner <- MCOwner
    StreamJobs = {s1}
    HttpJobs = {h1}
    BatchJobs = {b1}
    TenantTwoJobs = {}
    Tenants = {t1}
    Workers = {w1, w2}
    QueueMax = 4
    TopicMax = 4
    BatchSize = 2
    Faults = {}
    MaxRestarts = 1
SPECIFICATION FairSpec
PROPERTY AcceptedJobSurvivesRestart
CHECK_DEADLOCK FALSE
