SPECIFICATION ReviewedSpec
CONSTANTS
    client1 = client1
    client2 = client2
    None = None
    Failed = Failed
    Clients = {client1, client2}
    Contributions <- MCContributions
    Evidence <- MCEvidence
    EvidenceOf <- MCEvidenceOf
    Corrects <- MCCorrects
    Bodies <- MCBodies
    Appends <- MCAppends
    Updates <- MCUpdates
    Reviews <- MCReviews
    Terms <- MCTerms
    MetadataOf <- MCMetadataOf
    SourceArtifacts <- MCArtifacts
    SourceRevisions <- MCRevisions
    Scenarios <- MCScenarios
    Genesis <- MCGenesis
    MaxRevisions = 3
INVARIANT ReviewsReload
PROPERTIES NothingUnreviewed NothingLost ForwardPointerKept
