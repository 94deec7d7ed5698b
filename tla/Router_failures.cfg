\* one caller over tiers that all may fail: what it is told about misses,
\* deletes and invalidations, and the end of its operations
SPECIFICATION FairSpec
CONSTANTS
    Clients = {c1}
    Keys = {k1, k2}
    Values = {v1, v2}
    None = None
    Fits <- EntryBound
    Configs <- Failing
INVARIANTS
    HonestMiss
    SurvivorsReported
    Fresh
PROPERTIES
    OperationsEnd
