SPECIFICATION TaskSpec
CONSTANTS
    Doubles <- DoublePoints
    Singles <- SinglePoints
    Unknown <- OtherPoints
    Controls <- ControlPoints
    Strangers <- StrangePoints
    MaxEvents = 4
INVARIANTS
    RecordsOfCall
    LastRecordIsCurrent
    ControlsAreTheirOwn
PROPERTIES
    AllRecorded
