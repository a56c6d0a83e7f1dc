CONSTANTS
    Threads = {c1, c2}
    Worlds = {w1, w2}
    w1 = w1
    w2 = w2
    Standing <- MCStanding
    Requests <- MCRequests
    Puts <- MCPuts
    Reviews <- MCReviews
    Raw <- MCRaw
    Edited <- MCEdited
    MaxCalls = 2
    MaxFailures = 2
    None = None
    Readers <- MCReaders
    GraphOf <- MCGraphOf
    ArtifactOf <- MCArtifactOf
    Cited <- MCCited
    ContributionOf <- MCContributionOf
    Producers = {"in1"}
    Questions <- MCQuestions
    PageSizes = {1}
    MaxReads = 1

SPECIFICATION Spec
INVARIANT StoreCoherent
PROPERTY
    FailuresKeepGraphs
    ServedIsEntitled
    NothingLeftOutSilently
    PagesAreOneListing
SYMMETRY MCSymmetry
CHECK_DEADLOCK FALSE
