CONSTANTS
    Tasks = {t1, t2}
    Agents = {a1, a2}
    Ids = {i1, i2}
    Sizes = {1}
    Durations = {0}
    DayMs = 9
    MaxTb = 3
    U64 = 16
    Calls = {"allocate", "free"}
    MayCancel = FALSE
SPECIFICATION FairSpec
PROPERTIES CallsAnswered
CHECK_DEADLOCK FALSE
