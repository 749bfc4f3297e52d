SPECIFICATION FairFrames
CONSTANTS
    a = a
    b = b
    c = c
    d = d
    e = e
    Ids = {a, b, e}
    NoId = NoId
    Plots <- MCPlots
    RequestLimit = 2
    MaxCallbacks = 2
    MaxEntries = 3
    Uris <- MCUris
    Texts = {"x", "y"}
    First = "x"
    Bytes <- MCBytes
    MaxSnapshots = 3
    MaxBytes = 4
    Clients = {c, d}
    NoClient = NoClient
    NoText = NoText
    Budgets <- MCBudgets
    Scenes <- MCScenes
INVARIANTS
    EachInOnePlace
    
    FreshIsCurrent
PROPERTIES
    AllAnswered
CHECK_DEADLOCK FALSE
