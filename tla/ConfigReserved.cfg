SPECIFICATION Spec
CONSTANTS
    Configs <- OneDevice
    Reserved = {0, 1}
    Areas = {a1, a2}
    Blank = Blank
    Garbled = Garbled
    None = None
PROPERTIES
    ChangedMeansOther
