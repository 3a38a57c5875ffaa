SPECIFICATION Spec
CONSTANTS
    Builds <- BothBuilds
    Points <- PointCounts
    TerminalLen = 19
    AddressLen = 3
    ValueLen = 7
    W = 1073741824
    MaxLaps = 2
INVARIANTS
    RegionsApart
    HangsOverDays
    AnnouncedSize
CHECK_DEADLOCK FALSE
