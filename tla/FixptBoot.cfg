SPECIFICATION Spec
CONSTANTS
    N = 3
    Q = 2
    FROZEN = FALSE
    Start = 2
    MaxTime = 13
INVARIANTS
    NothingSelectedTwice
