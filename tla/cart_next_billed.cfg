SPECIFICATION CartSpec
CONSTANTS
    t1 = t1
    t2 = t2
    milk = milk
    tea = tea
    NoProduct = NoProduct
    Threads <- TwoThreads
    Products <- OneProduct
    Catalogue <- OneProduct
    UniqueItemKey = TRUE
    Commands <- Selling
    MaxLevel = 0
    MaxSessions = 2
    MaxQuantity = 1
    MaxFaults = 0
    NoThread = NoThread
INVARIANTS
    NoBillWhileShopping
