CONSTANTS
    NoId = NoId
    NoPath = NoPath
    Paths = {p1, p2}
    Ids = {e1, e2}
    Writers = {w1}
    CandidateLimit = 2
SPECIFICATION FairSpec
INVARIANTS
    ZombiesAreTracked
    ShadowIsReported
    DuplicatesAreBounded
PROPERTIES
    SilentBecomesZombie
    ZombieIsRevived
CHECK_DEADLOCK FALSE
