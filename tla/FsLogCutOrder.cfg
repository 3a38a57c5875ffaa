SPECIFICATION Spec
CONSTANTS
    B = 3
    U = 2
    C = 4
    OTP = FALSE
    W = 32
    HeaderLen = 1
    MaxUnits = 10
    CutsAllowed = TRUE
    WordAnd <- BitAnd
INVARIANTS
    NoBadBlockOrder
