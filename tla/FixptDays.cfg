SPECIFICATION Spec
CONSTANTS
    N = 3
    Q = 3
    FROZEN = FALSE
    Start = 3
    MaxTime = 17
INVARIANTS
    TypeOK
    BootFindsOneFile
    OneDayPerFile
    KeepsDays
PROPERTIES
    OldestGoesFirst
