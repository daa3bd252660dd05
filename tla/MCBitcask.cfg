SPECIFICATION Spec
CONSTANTS
    Keys = {k1, k2}
    Values = {v1, v2}
    Nil = Nil
    Empty = Empty
    Spoilt = Spoilt
    Phantom = Phantom
    ValueSize <- Sizes
    Overhead = 1
    MaxFileSize = 2
    Radix = 10
    MaxFiles = 3
INVARIANTS TypeOK IndexTracksNewest CutShortLast
PROPERTIES AppendOnly Durable
SYMMETRY Symmetry
