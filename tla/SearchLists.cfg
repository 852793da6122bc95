SPECIFICATION Spec
CONSTANTS
    k1 = k1
    k2 = k2
    k3 = k3
    Keys <- ThreeKeys
    Labels <- OneLabel
    Defaults <- OneDefault
    HistoryMax = 2
    MaxBookmarks = 2
CHECK_DEADLOCK FALSE
INVARIANTS TypeOK ListsSound
PROPERTY UnreadableKept
