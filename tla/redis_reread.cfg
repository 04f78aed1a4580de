SPECIFICATION Spec
CONSTANTS
    Proc = {p1, p2}
    Key = {k1, k2}
    Value = {v1}
    NoValue = NoValue
    NoProc = NoProc
    Same = Same
    Defaults = {}
    Catches = FALSE
    RereadsUnset = TRUE
    MaxDrops = 0
    MaxVersion = 3
PROPERTIES
    UnsetIsGone
