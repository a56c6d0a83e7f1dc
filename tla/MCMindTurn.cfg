CONSTANTS
    v1 = v1
    v2 = v2
    p1 = p1
    p2 = p2
    t1 = t1
    t2 = t2
    None = None
    Workers = {v1, v2}
    Processes = {p1, p2}
    Placements <- MCPlacements
    Requests <- MCRequests
    Threads = {t1, t2}
    Stamps = {1}
    MaxHead = 2
    MaxCalls = 2
CHECK_DEADLOCK FALSE
SPECIFICATION FairSpec
INVARIANTS AnswersAgree TurnsFollowSessions
PROPERTIES RequestsEnd
