SPECIFICATION FairSpec
CONSTANTS
    t1 = t1
    t2 = t2
    Threads <- TwoThreads
    MaxCalls = 3
    MaxLosses = 1
\* The threads rest when MaxCalls calls are over.
CHECK_DEADLOCK FALSE
INVARIANTS
    ConnTypeOK
    AloneExact
    LostNearARaise
    NothingLeftOver
PROPERTIES
    EveryCallEnds
