SPECIFICATION Spec
CONSTANTS
    Proc = {p1, p2}
    Key = {k1, k2}
    Value = {v1}
    NoValue = NoValue
    NoProc = NoProc
    Same = Same
    Defaults = {}
    Catches = TRUE
    RereadsUnset = FALSE
    MaxDrops = 0
    MaxVersion = 3
PROPERTIES
    RequestOpens
