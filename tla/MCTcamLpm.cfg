CONSTANTS
    AddrBits = 3
    RadixBits = 1
    Tasks = {t1}
    Routes <- TwoRoutes
    Queries <- OneQuery
    Strategies = {"Adaptive"}
    MaxInserts = 2
    MaxLookups = 2
    MaxDeletes = 0
    MayCancel = FALSE
SPECIFICATION Spec
INVARIANTS DefaultLongestMatch
CHECK_DEADLOCK FALSE
