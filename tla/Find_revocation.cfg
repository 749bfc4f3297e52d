\* A query that starts an Owner while its Trust is revoked.
CONSTANTS
    c1 = c1
    c2 = c2
    c3 = c3
    w1 = w1
    w2 = w2
    d1 = d1
    d2 = d2
    d3 = d3
    Client <- TwoClients
    NoClient = NoClient
    Workspace <- OneWorkspace
    Declaration <- OneDeclaration
    NoDeclaration = NoDeclaration
    Home <- HomeOfOne
    Controlled <- OneDeclaration
    InitialProject <- FirstOfOne
    Granted <- OneWorkspace
    Mixes <- QueryAndRevoke
    NoFile = NoFile
    NoRecord = NoRecord
    Denied = Denied
    Free = Free
    MaxDisturbances = 0
SPECIFICATION Spec
INVARIANTS
    RevocationStops
CHECK_DEADLOCK FALSE
