CONSTANTS
    c1 = c1
    c2 = c2
    w1 = w1
    a = a
    o1 = o1
    o2 = o2
    plan = plan
    prof = prof
    desc = desc
    pol = pol
    Clients <- MCClients
    Worlds = {w1}
    Ops = {o1, o2}
    Contents = {a}
    ProfileIds = {prof}
    Descriptors = {desc}
    Policies = {pol}
    None = None
    Nobody = Nobody
    Profile <- MCProfile
    Reviews <- MCReviews
    Rejected <- MCRejected
    DecisionPool <- MCDecisions
    Guarded <- MCGuarded
    MaxHeadEvents = 3
SYMMETRY MCSymmetry
SPECIFICATION Spec
INVARIANTS PublishedOverReviewedParent
PROPERTIES ProtectedRevisionsAdmitted ImplementsPublishOnce GuardCurrentAtPublish
