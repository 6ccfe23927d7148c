CONSTANTS
    NoId = NoId
    NoPath = NoPath
    Paths = {p1}
    Ids = {e1, e2}
    Writers = {w1}
    CandidateLimit = 2
SPECIFICATION FairSpec
PROPERTY ViolationResolves
CHECK_DEADLOCK FALSE
