SPECIFICATION LoopFairSpec
CONSTANTS
    Module = {m1, m2, m3}
    MaxLength = 3
CHECK_DEADLOCK FALSE
INVARIANTS
    LoopTypeOK
    PlacedInOrder
    NoIdleRound
    CyclesNeverEnd
PROPERTIES
    SameModules
    EndsUnlessCyclic
