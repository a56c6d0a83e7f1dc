CONSTANTS
    Threads = {c1, c2}
    Worlds = {w1, w2}
    w1 = w1
    w2 = w2
    Standing <- MCStanding
    Requests <- MCRequests
    Puts = {}
    Cited <- MCCited
    Reviews <- MCReviews
    Raw = {}
    Edited <- MCEdited
    MaxCalls = 3
    MaxFailures = 1
    None = None

SPECIFICATION MemorySpec
INVARIANT HeadsResolve
CHECK_DEADLOCK FALSE
