\* one caller, the store's policy, a top tier that may fail: a put that
\* evicts and then fails
SPECIFICATION Spec
CONSTANTS
    Clients = {c1}
    Keys = {k1, k2}
    Values = {v1, v2}
    None = None
    Fits <- EntryBound
    Configs <- Abort
SYMMETRY Symmetry
INVARIANTS
    LossIsLoud
