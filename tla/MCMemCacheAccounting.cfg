SPECIFICATION FairSpec
CONSTANTS
    k1 = k1  k2 = k2
    Threads = {t1, t2}
    Keys = {k1, k2}
    Nil = Nil
    Capacity = 2
    IntHalf = 4
    UlongMod = 100
    MaxDigits = 2
    Requests <- AccountingRequests
    MaxRequests = 3
    MaxEventId = 8
    MaxTime = 1
INVARIANTS UsedAccounted OvershootBounded EntriesAnnounced
PROPERTIES SweepRemovesExpired CallsReturn
