CONSTANTS
    Agents = {a1}
    Validators = {a1}
    Capacity = 4
    MaxVersion = 3
SPECIFICATION FairSpec
PROPERTIES ServedMatrixRotates
CHECK_DEADLOCK FALSE
