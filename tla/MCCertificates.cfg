CONSTANTS
    Tasks = {t1, t2}
    Serials = {s1, s2}
    ApiKeys = {k1}
    Validities = {0}
    MaxTime = 2
    MayCancel = TRUE
SPECIFICATION Spec
INVARIANTS CrlMatchesStore CrlAnswerComplete IssuedIndexed
PROPERTIES StatusForward RefinesRevocations
SYMMETRY CertificateSymmetry
CHECK_DEADLOCK FALSE
