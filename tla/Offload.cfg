\* two callers, two workers, a job more than callers, changing wakers, and an
\* operation that may hang
SPECIFICATION FairSpec
CONSTANTS
    Tasks = {t1, t2}
    Workers = {w1, w2}
    Jobs = {j1, j2, j3}
    Wakers = {v1, v2}
    Hung = {j1}
    None = None
INVARIANTS
    JobsAccounted
    NoLostWakeup
PROPERTIES
    Answered
    DropEnds
