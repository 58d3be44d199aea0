CONSTANTS
    CompressionRatio = 250
    Threads = {t1, t2}
    Keys = {k1}
    Values <- OnlyShort
    Ttls = {0}
    Ops = {"set", "get", "delete"}
    MaxSize = 4000
    Usize = 4096
    MaxOps = 3
    MaxTime = 0
SPECIFICATION Spec
INVARIANT NoLockCycle
CHECK_DEADLOCK FALSE
