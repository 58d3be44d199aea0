CONSTANTS
    CompressionRatio = 2
    Alphabet = {0, 1}
    MaxLen = 11
    Users = {"u1", "u2"}
    SpaceNodes = {1, 2}
    NodeUnits = 2
    MaxSpaceCalls = 4
    Accessors = {"p1", "p2"}
    MaxAccesses = 3
    Word = 16
    CrtPrimes <- SomePrimes
    FieldPrime = 61
    KernelWord = 256
    CacheSizes <- SomeSizes
    Shapes <- SomeShapes
    Samples <- SomeSamples
    MaxTensors = 1
    Agents = {a1, a2}
    Validators = {a1}
    Capacity = 2
    MaxVersion = 4
SPECIFICATION AlgorithmsSpec
INVARIANTS StreamBehindMatrix VerdictSound CodecMatchesLoops RecompressStable CohomologyFresh ArithmeticExact SnapshotClose
PROPERTIES StreamMonotone UpdateDelivered SamplerEnds
CHECK_DEADLOCK FALSE
