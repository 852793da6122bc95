SPECIFICATION Spec
CONSTANTS
    k1 = k1
    k2 = k2
    k3 = k3
    Keys <- TwoKeys
    Labels <- OneLabel
    Defaults <- OneDefault
    HistoryMax = 1
    MaxBookmarks = 1
CHECK_DEADLOCK FALSE
PROPERTY SeededOnce
