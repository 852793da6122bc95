SPECIFICATION ProfilesSpec
CONSTANTS
    a = a
    b = b
    c = c
    x = x
    y = y
    none = none
    Names <- ThreeNames
    Hosts <- TwoHosts
    NoName <- none
    MaxDone = 2
    MaxDeletes = 1
SYMMETRY Symmetry
CHECK_DEADLOCK FALSE
INVARIANTS ProfilesTypeOK ListAndFile
PROPERTY OnlyMeant
