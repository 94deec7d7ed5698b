\* One caller, and two that share keys in several ways: what the disk tiers
\* keep in sync whatever is interleaved, and what a crash leaves
SPECIFICATION Spec
CONSTANTS
    t1 = t1
    t2 = t2
    long = long
    Threads = {t1, t2}
    Keys = {k1, k2}
    Values = {short, long}
    None = None
    Inodes = {i1, i2, i3, i4, i5}
    Size <- ValueSize
    Configs <- AllConfigs
    CompactMin = 3
SYMMETRY Symmetry
INVARIANTS
    InnerInSync
    WithinBudget
    WholeValues
    IndexMatchesDisk
    PutKept
PROPERTIES
    ViewsImmutable
