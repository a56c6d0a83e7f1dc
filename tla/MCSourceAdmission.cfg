SPECIFICATION FairSpec
CONSTANTS
    client1 = client1
    client2 = client2
    world1 = world1
    world2 = world2
    head1 = head1
    head2 = head2
    art = art
    revn = revn
    adm1 = adm1
    adm2 = adm2
    body1 = body1
    body2 = body2
    None = None
    Clients = {client1, client2}
    Worlds = {world1, world2}
    Heads = {head1, head2}
    Artifacts = {art}
    Revisions = {revn}
    Admissions = {adm1, adm2}
    Bodies = {body1, body2}
    Commands <- MCCommands
    Puts <- MCPuts
INVARIANTS ReceiptBacked
PROPERTIES AdmittedUnderHead CallsEnd
