CONSTANTS
    c1 = c1
    c2 = c2
    w1 = w1
    d1 = d1
    d2 = d2
    Clients <- MCClients
    Runs = {1, 2}
    Worlds = {w1}
    RunWorld <- OneWorld
    Docs = {d1, d2}
    Batches <- MCBatches
    None = None
SPECIFICATION Spec
INVARIANTS ActiveRunServes
PROPERTIES CorpusFrozen SearchSeesWholeRun
