SPECIFICATION Spec
CONSTANTS
    Keys = {k1, k2}
    Values = {v1, v2}
    Nil = Nil
    Other = Other
    Shareable = TRUE
    CompactThreshold = 2
    MaxSending = 2
    MaxTime = 1
    MaxId = 4
INVARIANTS TypeOK LogOrdered RestoresCache
SYMMETRY Symmetry
CHECK_DEADLOCK FALSE
