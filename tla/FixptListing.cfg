SPECIFICATION FolderSpec
CONSTANTS
    N = 3
    Q = 2
    FROZEN = FALSE
    Start = 2
    MaxTime = 9
    PerPacket = 2
    Room = 4
    Ranges <- Wanted
    MaxCalls = 2
INVARIANTS
    FolderTypeOK
    ListedOnce
    ListsSteadyFiles
PROPERTIES
    ListingEnds
