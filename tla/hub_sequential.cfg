SPECIFICATION FairSpec
CONSTANTS
    t1 = t1
    t2 = t2
    milk = milk
    tea = tea
    coffee = coffee
    NoProduct = NoProduct
    Threads <- OneThread
    Products <- ThreeProducts
    Catalogue <- TwoProducts
    UniqueItemKey = TRUE
    Commands <- WithObstacles
    MaxLevel = 1
    MaxSessions = 2
    MaxQuantity = 2
    MaxFaults = 0
INVARIANTS
    TypeOK
    SessionInSync
    QuantityUpdated
PROPERTIES
    
    CheckoutEndsSession
    EventsInOpenSession
