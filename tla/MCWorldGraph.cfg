CONSTANTS
    c1 = c1
    c2 = c2
    w1 = w1
    w2 = w2
    Clients <- MCClients
    Worlds <- MCWorlds
    Ops = {op}
    Contents = {a}
    ProfileIds = {p}
    Descriptors = {d1, d2}
    Policies = {k1}
    None = None
    Nobody = Nobody
    MaxHeadEvents <- MCHeadEvents
SYMMETRY MCSymmetry
SPECIFICATION Spec
INVARIANTS UsesFenced HistoryUnbroken
PROPERTIES PolicyBeforeFirstUse ImplementsVersionedHead
