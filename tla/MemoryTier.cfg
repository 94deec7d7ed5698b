\* FIFO and LRU tiers, bounded by entries or by bytes: the tickets and the
\* weight stay in sync, and the tier displaces what its contract says
SPECIFICATION Spec
CONSTANTS
    Keys = {k1, k2, k3}
    Values = {1, 2, 4}
    None = None
    Weigh <- ValueWeight
    Configs <- AllConfigs
    Calls <- SinglesAndPairs
    CompactMin = 3
    UsizeMax = 7
    MaxStamp = 6
SYMMETRY Symmetry
INVARIANTS
    TicketsInSync
    BooksInSync
    WithinEntries
PROPERTIES
    Implements
