SPECIFICATION Spec
CONSTANTS
    Keys = {k1}
    Values = {v1}
    Nil = Nil
    Empty = Empty
    Spoilt = Spoilt
    Phantom = Phantom
    ValueSize <- Sizes
    Overhead = 1
    MaxFileSize = 2
    Radix = 3
    MaxFiles = 3
INVARIANT IndexTracksNewest
