SPECIFICATION TaskSpec
CONSTANTS
    Doubles <- DoublePoints
    Singles <- SinglePoints
    Unknown <- OtherPoints
    Controls <- ControlPoints
    Strangers <- StrangePoints
    MaxEvents = 2
INVARIANTS
    OnlyConfiguredControls
