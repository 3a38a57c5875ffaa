SPECIFICATION Spec
CONSTANTS
    B = 2
    U = 3
    C = 4
    OTP = TRUE
    W = 32
    HeaderLen = 1
    MaxUnits = 10
    CutsAllowed = FALSE
    WordAnd <- BitAnd
INVARIANTS
    AvailableCount
PROPERTIES
    OtpNeverLoses
    OperationsEnd
