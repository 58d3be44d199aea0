CONSTANTS
    AddrBits = 3
    RadixBits = 1
    Tasks = {t1, t2}
    Routes <- ManyRoutes
    Queries <- SomeQueries
    Strategies = {"Phase1Only", "Phase2Only", "Adaptive"}
    MaxInserts = 2
    MaxLookups = 1
    MaxDeletes = 1
    MayCancel = TRUE
    Callers = {t1, t2}
    PlaneRoutes <- ThreeRoutes
    PlaneQueries = {4}
    MaxPlaneInserts = 2
    MaxRequests = 1
    TierRoutes <- FourRoutes
    TierQueries = {1, 4}
    MaxTierCalls = 3
    HotBits = 2
    HotMetric = 3
    Cutoff = 1
    HopIndices = 2
    TensorRank = 1
    Threads = {"x", "y", "z"}
    MaxRecords = 2
SPECIFICATION TablesSpec
INVARIANTS NoRouteVanishes ConfirmedRouteWins ConfirmedRouteFound PhasesAgree RedundantLongest StuckOnlyBySummary
SYMMETRY TcamSymmetry
CHECK_DEADLOCK FALSE
