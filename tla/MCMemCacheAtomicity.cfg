SPECIFICATION Spec
CONSTANTS
    k1 = k1  k2 = k2
    Threads = {t1, t2}
    Keys = {k1, k2}
    Nil = Nil
    Capacity = 3
    IntHalf = 1000
    UlongMod = 100
    MaxDigits = 2
    Requests <- AtomicityRequests
    MaxRequests = 3
    MaxEventId = 6
    MaxTime = 0
INVARIANTS TypeOK SnapshotCovered EventIdsUnique
PROPERTY Atomicity
SYMMETRY Symmetry
