SPECIFICATION Spec
CONSTANTS
    N = 3
    Q = 3
    FROZEN = TRUE
    Start = 3
    MaxTime = 16
INVARIANTS
    BootFindsOneFile
    OneDayPerFile
    KeepsDays
PROPERTIES
    NothingRefused
