\* Three Documents of one or two bytes in a store that holds two and three bytes.
CONSTANTS
    a = a
    b = b
    c = c
    short = short
    long = long
    Uris <- ThreeUris
    Text = {short, long}
    Size <- Sizes
    Unreadable = Unreadable
    Closed = Closed
    Confused = Confused
    Language = {"rust", "toml"}
    Inputs <- Lists
    MaxOpen = 2
    MaxTotal = 3
    MaxRequests = 2
    MaxChanges = 2
    MaxCallbacks = 1
SPECIFICATION Spec
INVARIANTS
    WithinLimits
    ServerSeesStore
    SentCurrent
    StableAnswer
PROPERTIES
    VersionsGrow
CHECK_DEADLOCK FALSE
