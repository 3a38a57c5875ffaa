SPECIFICATION Spec
CONSTANTS
    Configs <- NoFrozen
    Reserved = {0}
    Areas = {a1, a2}
    Blank = Blank
    Garbled = Garbled
    None = None
INVARIANTS
    NotChangedMeansSame
