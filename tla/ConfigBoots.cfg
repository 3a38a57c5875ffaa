SPECIFICATION Spec
CONSTANTS
    Configs <- Changes
    Reserved = {0, 1}
    Areas = {a1, a2}
    Blank = Blank
    Garbled = Garbled
    None = None
INVARIANTS
    StoredSpeaksForLogs
    LogsFitConfig
PROPERTIES
    UnchangedKeepsLogs
