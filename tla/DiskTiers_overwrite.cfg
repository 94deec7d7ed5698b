\* A reader that maps a file while its key is overwritten
SPECIFICATION Spec
CONSTANTS
    t1 = t1
    t2 = t2
    long = long
    Threads = {t1, t2}
    Keys = {k1, k2}
    Values = {short, long}
    None = None
    Inodes = {i1, i2, i3, i4, i5}
    Size <- ValueSize
    Configs <- OverwriteConfigs
    CompactMin = 3
SYMMETRY Symmetry
INVARIANTS
    ReadsSeeOverwrite
