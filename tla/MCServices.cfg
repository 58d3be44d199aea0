CONSTANTS
    Tasks = {t1, t2}
    Agents = {a1, a2}
    Ids = {i1, i2}
    Sizes = {1, 2}
    Durations = {0}
    DayMs = 9
    MaxTb = 3
    U64 = 16
    Calls = {"allocate", "free", "route", "status"}
    MayCancel = TRUE
    Callers = {t1, t2}
    Keys = {"cf_free_test123", "unknown"}
    FreeLimit = 2
    Minute = 2
    MaxClock = 4
    RpcCalls = {"c1", "c2"}
    Exercised = {"GetCRL", "StreamMemoryStatus", "ServerReflectionInfo", "NoSuchMethod"}
    MaxMessages = 2
    max_concurrent_streams = 2
    Streams = {"s1", "s2"}
    Reporters = {"a", "b"}
    Subscribers = {"u"}
    Capacity = 1
    MaxReports = 3
    HintCapacity = 2
    MaxMetrics = 2
    Requests = {"r1", "r2"}
    GpuAgents = {"a"}
    Files <- TwoFiles
    MaxChunks = 2
    Readers = {"r1", "r2"}
    Regions <- SomeRegions
    MaxRequests = 2
    MaxReads = 2
SPECIFICATION ServicesSpec
INVARIANTS TypeOK CheckStillValid QuotaRespected TotalsMatchRecords BurstBounded KeyedOnly TableAnnounced HintsInOrder TierAnswersAgree CoalescedCovered
PROPERTIES StatusAgreesWithTotal RefinesLedger
SYMMETRY TaskSymmetry
CHECK_DEADLOCK FALSE
