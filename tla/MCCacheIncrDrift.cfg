CONSTANTS
    CompressionRatio = 250
    Threads = {t1}
    Keys = {k1}
    Values <- OnlyShort
    Ttls = {0}
    Ops = {"incr"}
    MaxSize = 4000
    Usize = 4096
    MaxOps = 12
    MaxTime = 0
SPECIFICATION Spec
INVARIANT IncrExact
CHECK_DEADLOCK FALSE
