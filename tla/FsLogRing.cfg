SPECIFICATION Spec
CONSTANTS
    B = 3
    U = 2
    C = 4
    OTP = FALSE
    W = 32
    HeaderLen = 1
    MaxUnits = 16
    CutsAllowed = FALSE
    WordAnd <- BitAnd
INVARIANTS
    WindowIsNewest
    KeepsNewest
    PointersConsecutive
PROPERTIES
    ImplementsRingStore
    OperationsEnd
