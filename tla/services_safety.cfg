SPECIFICATION ServicesSpec
CONSTANTS
    Parts = {"warm", "cold", "policy", "quota", "view", "alert", "scan", "recon", "actors", "shipper", "chat", "trading"}
    WarmTables = 2
    WarmRows <- MCWarmRows
    WarmBatch = 1
    MaxSeconds = 1
    MaxWarmStarts = 1
    MaxRefusals = 1
    Runners = {task, api}
    ArchiveTask = task
    ColdRows <- MCColdRows
    ArchiveAfter = 2
    DefaultKeep = 3
    Retentions = {1}
    ArchiveBatch = 1
    MaxDay = 4
    LastWrite = 1
    MaxRestarts = 1
    PolicyProcs = {p1, p2}
    PolicyCalls = {c1}
    PolicyTTL = 2
    MaxVersion = 2
    MaxTime = 3
    Accounts = {a1}
    Requests = {q1, q2}
    Costs = {1, 2}
    Limit = 2
    WindowLen = 2
    Grace = 1
    KeepKeys = 1
    MaxCount = 2
    LastSecond = 4
    RowWriters = {w1, w2}
    ViewReaders = {q1, q2}
    MaxExpiries = 1
    AlertLog <- MCAlertLog
    RouteTenant = 1
    MaxAlertRestarts = 1
    MaxUnblocks = 1
    ScanTests = 3
    Sources = {s1, s2}
    Edited = {s1}
    ReconTask = task
    ReconCalls = {c1}
    ReconKeys = {k1}
    MaxLines = 3
    ShipBatch = 2
    ShipAttempts = 2
    MaxRotations = 1
    MaxLostAcks = 1
    MaxKills = 1
    ActorIps = {i1, i2}
    ActorTenants = {1}
    DefaultOwner = 2
    ActorCalls = {q1, q2}
    Verdicts = {"BLOCKED"}
    MaxAttacks = 2
    Sellers = {u1, u2}
    ChatCalls = {q1, q2}
    HistoryLimit = 2
    MaxMessages = 2
    AskCalls = {q1, q2}
    EvidenceTasks = {"chosen", "search"}
    Threshold = 2
    Retries = 1
INVARIANTS
    LostOnlyInItsSecond
    CopiesHaveACause
    BatchesSeeReplacement
    AdmittedWithinLimit
    AnnouncedWritesAreSeen
    SuccessMeansBlocked
    FailuresBoundLossAndRepeats
    ScanAddsUp
    DeliveriesHaveACause
    DecisionIsRecent
    CountHasACause
    PauseBoundsReplies
    BreakerBoundsRequests
PROPERTIES
    GoneMeansArchived
    ReviewSurvivesRuns
CHECK_DEADLOCK FALSE
