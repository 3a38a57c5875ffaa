SPECIFICATION FolderSpec
CONSTANTS
    N = 3
    Q = 2
    FROZEN = TRUE
    Start = 2
    MaxTime = 10
    PerPacket = 2
    Room = 4
    Ranges <- WholeFolder
    MaxCalls = 1
INVARIANTS
    ListsAllFiles
