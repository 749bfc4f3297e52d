SPECIFICATION Spec
CONSTANTS
    Paths <- MCPaths
    NoId = NoId
    ByteWidth <- MCByteWidth
    UnitWidth <- MCUnitWidth
    Newline = "n"
    CarriageReturn = "r"
    Scenes <- MCScenes
    MaxEntries = 6
    MaxDepth = 1
    MaxDocument = 20
    MaxText = 5
    MaxRollback = 12
    MaxStaged = 12
    NoDigest = NoDigest
    NoText = NoText
    NoPath = NoPath
    NoVersion = NoVersion
INVARIANTS
    PlanIsExact
    RefusalJustified
    StagedAsPlanned
PROPERTY
    EmitsOnlyLegal
CHECK_DEADLOCK FALSE
