SPECIFICATION Spec
CONSTANTS
    Size = 4
    PerBlock = 2
    Behind = 2
    MaxUploads = 3
    Repeats = TRUE
INVARIANTS
    WritesFromOffset
