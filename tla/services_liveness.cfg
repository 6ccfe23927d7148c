SPECIFICATION ServicesFairSpec
CONSTANTS
    Parts = {"warm", "cold", "alert", "recon", "shipper"}
    WarmTables = 2
    WarmRows <- MCWarmRows
    WarmBatch = 1
    MaxSeconds = 1
    MaxWarmStarts = 0
    MaxRefusals = 1
    Runners = {task}
    ArchiveTask = task
    ColdRows <- MCColdRows
    ArchiveAfter = 2
    DefaultKeep = 3
    Retentions = {}
    ArchiveBatch = 1
    MaxDay = 4
    LastWrite = 1
    MaxRestarts = 0
    PolicyProcs = {p1}
    PolicyCalls = {c1}
    PolicyTTL = 2
    MaxVersion = 1
    MaxTime = 3
    Accounts = {a1}
    Requests = {q1}
    Costs = {1}
    Limit = 1
    WindowLen = 2
    Grace = 1
    KeepKeys = 1
    MaxCount = 1
    LastSecond = 4
    RowWriters = {w1}
    ViewReaders = {q1}
    MaxExpiries = 1
    AlertLog <- MCAlertLog
    RouteTenant = 1
    MaxAlertRestarts = 1
    MaxUnblocks = 0
    ScanTests = 1
    Sources = {s1, s2}
    Edited = {s1}
    ReconTask = task
    ReconCalls = {}
    ReconKeys = {k1}
    MaxLines = 3
    ShipBatch = 2
    ShipAttempts = 2
    MaxRotations = 1
    MaxLostAcks = 1
    MaxKills = 0
    ActorIps = {i1}
    ActorTenants = {1}
    DefaultOwner = 1
    ActorCalls = {q1}
    Verdicts = {"BLOCKED"}
    MaxAttacks = 1
    Sellers = {u1, u2}
    ChatCalls = {q1, q2}
    HistoryLimit = 2
    MaxMessages = 2
    AskCalls = {q1, q2}
    EvidenceTasks = {"chosen", "search"}
    Threshold = 2
    Retries = 1
PROPERTIES
    RowsReachWarmStore
    OldRowsLeave
    AlertsGetTheirTurn
    DueSourcesRun
    ReadLinesLeave
CHECK_DEADLOCK FALSE
