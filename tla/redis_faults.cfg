SPECIFICATION Spec
CONSTANTS
    Proc = {p1, p2}
    Key = {k1, k2}
    Value = {v1}
    NoValue = NoValue
    NoProc = NoProc
    Same = Same
    Defaults = {v1}
    Catches = TRUE
    RereadsUnset = TRUE
    MaxDrops = 1
    MaxVersion = 1
INVARIANTS
    TypeOK
    OpenHoldsLock

    
