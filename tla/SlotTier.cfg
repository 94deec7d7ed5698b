\* Three keys over two slots, with a value that fits no slot; the process may
\* end anywhere
SPECIFICATION Spec
CONSTANTS
    Keys = {k1, k2, k3}
    Values = {v1, v2, huge}
    None = None
    Torn = Torn
    NSlots = 2
    Oversized = {huge}
SYMMETRY Symmetry
INVARIANTS
    ServesHeld
    SlotsInSync
PROPERTIES
    ViewStable
