SPECIFICATION ReadSpec
CONSTANTS
    B = 2
    U = 3
    C = 3
    OTP = FALSE
    W = 32
    HeaderLen = 1
    MaxUnits = 7
    CutsAllowed = FALSE
    WordAnd <- BitAnd
    PerPacket = 2
    MaxRequests = 2
INVARIANTS
    SendsTheFile
    SendsInOrder
PROPERTIES
    FollowAgrees
    TransferEnds
