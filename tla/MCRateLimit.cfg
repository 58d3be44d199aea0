CONSTANTS
    Callers = {}
    Keys = {"cf_free_test123"}
    FreeLimit = 2
    Minute = 2
    MaxClock = 1
    RpcCalls = {"c1", "c2", "c3"}
    Exercised = {"GetCRL"}
    MaxMessages = 1
    max_concurrent_streams = 2
SPECIFICATION RpcSpec
INVARIANTS ServedWithinLimit
CHECK_DEADLOCK FALSE
