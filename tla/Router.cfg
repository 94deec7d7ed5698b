\* routers whose callers interleave, drop futures and overflow the tiers
SPECIFICATION Spec
CONSTANTS
    Clients = {c1, c2}
    Keys = {k1, k2, k3}
    Values = {v1, v2}
    None = None
    Fits <- EntryBound
    Configs <- Routers
SYMMETRY Symmetry
INVARIANTS
    Fresh
    LossIsLoud
    Inclusive
    OriginServes
