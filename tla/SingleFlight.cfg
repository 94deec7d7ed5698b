\* three callers, one key: safety and progress
SPECIFICATION FairSpec
CONSTANTS
    Tasks = {t1, t2, t3}
    Keys = {k1}
    Gates = {g1, g2, g3}
    NoGate = NoGate
INVARIANTS
    MutualExclusion
    NoDetachedGate
    NoLostWakeup
    HeldByHolder
PROPERTIES
    Progress
