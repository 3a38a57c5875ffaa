SPECIFICATION Spec
CONSTANTS
    Size = 6
    PerBlock = 2
    Behind = 2
    MaxUploads = 4
    Repeats = FALSE
INVARIANTS
    ImageIsFile
    NoOverprogram
    StaysInRegion
