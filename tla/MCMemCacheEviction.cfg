SPECIFICATION FairSpec
CONSTANTS
    k1 = k1  k2 = k2
    Threads = {t1}
    Keys = {k1, k2}
    Nil = Nil
    Capacity = 2
    IntHalf = 8
    UlongMod = 100
    MaxDigits = 2
    Requests <- MissRequests
    MaxRequests = 4
    MaxEventId = 8
    MaxTime = 0
PROPERTY EvictionEnds
