CONSTANTS
    Tasks = {t1}
    Serials = {s1}
    ApiKeys = {k1}
    Validities = {1}
    MaxTime = 1
    MayCancel = FALSE
SPECIFICATION Spec
INVARIANTS RenewalFindsCertificate
CHECK_DEADLOCK FALSE
