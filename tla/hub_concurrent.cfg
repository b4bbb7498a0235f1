SPECIFICATION Spec
CONSTANTS
    t1 = t1
    t2 = t2
    milk = milk
    tea = tea
    coffee = coffee
    NoProduct = NoProduct
    Threads <- TwoThreads
    Products <- OneProduct
    Catalogue <- OneProduct
    UniqueItemKey = FALSE
    Commands <- CartChanges
    MaxLevel = 0
    MaxSessions = 2
    MaxQuantity = 2
    MaxFaults = 0
SYMMETRY ThreadSymmetry
INVARIANTS
    OrdersItemised
PROPERTIES
    LedgerSpec
