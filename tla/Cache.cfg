\* caches with and without single flight: stampedes, dropped leaders, an origin
\* that fails, and keys that displace each other
SPECIFICATION CacheFairSpec
CONSTANTS
    Clients = {c1, c2}
    Keys = {k1, k2}
    Values = {v1}
    None = None
    Fits <- EntryBound
    Configs <- Caches
INVARIANTS
    CacheTypeOK
    LoadOnce
    ColdOnce
PROPERTIES
    GatesHandedOn
