SPECIFICATION Spec
CONSTANTS
    Paths <- MCPaths
    NoId = NoId
    NoDigest = NoDigest
    NoManifest = NoManifest
    NoMove = NoMove
    Plans <- MCPlans
    UndoName <- MCUndoName
    MaxWrites = 2
    MaxCrashes = 1
    MaxFaults = 1
INVARIANTS
    EvidenceIsTrue
PROPERTIES
    EndsAreExact
    StrangerKept
CHECK_DEADLOCK FALSE
