SPECIFICATION Spec
CONSTANTS
    N = 2
    Q = 2
    FROZEN = FALSE
    Start = 2
    MaxTime = 13
INVARIANTS
    SelectsCurrentDay
