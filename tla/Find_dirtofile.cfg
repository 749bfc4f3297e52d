SPECIFICATION Spec
CONSTANTS
    Paths <- MCPaths
    NoId = NoId
    NoDigest = NoDigest
    NoManifest = NoManifest
    NoMove = NoMove
    Plans <- TreeToFilePlans
    UndoName <- MCUndoName
    MaxWrites = 0
    MaxCrashes = 1
    MaxFaults = 1
INVARIANT
    ObservableRecovery
CHECK_DEADLOCK FALSE
