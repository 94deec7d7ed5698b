\* four callers, two permits: safety and progress
SPECIFICATION FairSpec
CONSTANTS
    Tasks = {t1, t2, t3, t4}
    Limit = 2
INVARIANTS
    PermitsConserved
    NoLostWakeup
PROPERTIES
    Progress
