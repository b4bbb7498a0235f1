SPECIFICATION Spec
CONSTANTS
    t1 = t1
    t2 = t2
    milk = milk
    tea = tea
    coffee = coffee
    NoProduct = NoProduct
    Threads <- TwoThreads
    Products <- OneProduct
    Catalogue <- OneProduct
    UniqueItemKey = TRUE
    Commands <- Selling
    MaxLevel = 0
    MaxSessions = 1
    MaxQuantity = 2
    MaxFaults = 0
INVARIANTS
    ReceiptCoversCart
