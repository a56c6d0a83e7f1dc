SPECIFICATION Spec
CONSTANTS
    client1 = client1
    client2 = client2
    space1 = space1
    space2 = space2
    pid1 = pid1
    pid2 = pid2
    pidG = pidG
    alloc1 = alloc1
    None = None
    Failed = Failed
    Genesis = pidG
    Clients = {client1, client2}
    Spaces = {space1, space2}
    Pids = {pid1, pid2, pidG}
    Ops <- MCOps
    Allocations = {alloc1}
    Requests <- MCPublications
    Provisions <- MCProvisions
    Sealed <- Materializes
    Change <- MCChange
    Readers <- MCReaders
    Policies <- MCPolicies
    Queries <- MCQueries
    Sources <- MCSources
    Epochs = {0, 1, 2}
    MaxCalls = 3
    MaxMints = 2
INVARIANTS LinearHistory RefusalsAreFinal ReceiptsAreTrue
    ReadsServeTheEntitled AnchorsHold ChangesAccountedFor
CHECK_DEADLOCK FALSE
