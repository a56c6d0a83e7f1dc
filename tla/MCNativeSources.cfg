SPECIFICATION FairSpec
CONSTANTS
    client1 = client1
    client2 = client2
    space1 = space1
    space2 = space2
    id1 = id1
    id2 = id2
    id3 = id3
    op1 = op1
    op2 = op2
    i1 = i1
    i2 = i2
    legacy1 = legacy1
    span1 = span1
    None = None
    Clients = {client1, client2}
    Spaces = {space1, space2}
    Ids = {id1, id2, id3, op1, op2}
    Intervals = {i1, i2}
    Legacy = {legacy1}
    Spans = {span1}
    Requests <- MCRequests
    MaxCalls = 4
INVARIANTS RegisteredOnce
PROPERTIES PinnedViewsKeep AttestedAsPrepared CallsEnd
CHECK_DEADLOCK FALSE
