\* Two Workspaces, three CLI processes, and one edit, kill or late answer.
CONSTANTS
    c1 = c1
    c2 = c2
    c3 = c3
    w1 = w1
    w2 = w2
    d1 = d1
    d2 = d2
    d3 = d3
    Client <- ThreeClients
    NoClient = NoClient
    Workspace <- TwoWorkspaces
    Declaration <- ThreeDeclarations
    NoDeclaration = NoDeclaration
    Home <- HomeOfThree
    Controlled <- ControlledOnes
    InitialProject <- FirstOfTwo
    Granted <- TwoWorkspaces
    Mixes <- Meetings
    NoFile = NoFile
    NoRecord = NoRecord
    Denied = Denied
    Free = Free
    MaxDisturbances = 1
SPECIFICATION Spec
INVARIANTS
    TypeOK
    EndpointOfHolder
    SignalledAreStopped
    RestartReplaces
PROPERTIES
    TrustKept
CHECK_DEADLOCK FALSE
