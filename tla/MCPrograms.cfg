CONSTANTS
    CompressionRatio = 2
    Threads = {t1, t2}
    Keys = {k1, k2, k3}
    Values <- LongAndNines
    Ttls = {0, 1}
    Ops = {"set", "get", "delete", "exists", "incr", "stats", "clear"}
    MaxSize = 18
    Usize = 4096
    MaxOps = 3
    MaxTime = 2
    Tasks = {t1, t2}
    Commands <- SomeCommands
    MaxArrivals = 3
    FacadeTasks = {t1, t2}
    Routes = {r1}
    MaxTicks = 2
    max_containers = 2
SPECIFICATION ProgramsSpec
INVARIANTS SizeAccounting OvershootBounded EveryGetCounted LookupsWithinCommands LookupsSeeWholeRoutes ShutdownHeard
PROPERTIES SnapshotCoherent
SYMMETRY CacheSymmetry
CHECK_DEADLOCK FALSE
