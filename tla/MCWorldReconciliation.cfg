CONSTANTS
    c1 = c1  c2 = c2  w1 = w1  w2 = w2  a1 = a1  a2 = a2  o1 = o1  o2 = o2  n1 = n1  n2 = n2
    Clients = {c1, c2}
    Worlds = {w1, w2}
    Standing <- MCStanding
    Requests <- RebindRequests
    MaxCalls = 4
    None = None
SPECIFICATION Spec
INVARIANT OneRevisionPerOperation
CHECK_DEADLOCK FALSE
