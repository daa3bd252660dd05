SPECIFICATION Spec
CONSTANTS
    k1 = k1  k2 = k2
    Threads = {t1, t2}
    Keys = {k1, k2}
    Nil = Nil
    Capacity = 4
    IntHalf = 8
    UlongMod = 100
    MaxDigits = 2
    Requests <- AddReplaceRequests
    MaxRequests = 3
    MaxEventId = 8
    MaxTime = 0
PROPERTY ReplacesKeepEntries
CONSTRAINT AddsBeforeReplaces
