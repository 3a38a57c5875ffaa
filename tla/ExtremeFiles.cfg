SPECIFICATION Spec
CONSTANTS
    N = 2
    Points = 2
    Values <- Samples
    FltMin = 1
    FltMax = 9
    MaxDay = 4
    MaxSamples = 2
INVARIANTS
    AssertionsHold
    SavesExtremes
    EofMeansWhole
    KeepsExtremes
CHECK_DEADLOCK FALSE
