\* Three clients, queues of one request and one frame that answers nothing.
CONSTANTS
    c1 = c1
    c2 = c2
    c3 = c3
    Client <- ThreeClients
    Mixes <- Crowds
    Deadlined <- FirstClient
    NoClient = NoClient
    QueueLimit = 1
    MaxStray = 1
SPECIFICATION FairSpec
INVARIANTS
    TypeOK
    Serial
    OkMeansAnswered
    NotSentByOwner
PROPERTIES
    DrainingSendsNothing
    CallersEnd
    StopEnds
CHECK_DEADLOCK FALSE
