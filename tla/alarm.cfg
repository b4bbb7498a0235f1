SPECIFICATION ChainFairSpec
CONSTANTS
    t1 = t1
    t2 = t2
    milk = milk
    NoProduct = NoProduct
    NoThread = NoThread
    NoLevel = NoLevel
    Threads <- TwoThreads
    Products <- OneProduct
    Catalogue <- OneProduct
    UniqueItemKey = TRUE
    Commands <- WithObstacles
    MaxLevel = 2
    MaxSignals = 1
    MaxSessions = 1
    MaxQuantity = 1
    MaxFaults = 1
INVARIANTS
    AlarmTypeOK
    LedShowsDanger
PROPERTIES
    DangerReachesLed
