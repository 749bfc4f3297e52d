SPECIFICATION Spec
CONSTANTS
    Releases = {1, 2}
    Nothing = Nothing
    Mine = Mine
    Part = Part
    NoMarker = NoMarker
    UserDirs <- MCUserDirs
    MaxStages = 3
    MaxEdits = 2
INVARIANT Resumable
PROPERTY ConsentNeeded
CHECK_DEADLOCK FALSE
