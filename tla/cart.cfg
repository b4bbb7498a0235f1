SPECIFICATION CartFairSpec
CONSTANTS
    t1 = t1
    t2 = t2
    milk = milk
    tea = tea
    coffee = coffee
    NoProduct = NoProduct
    Threads <- OneThread
    Products <- OneProduct
    Catalogue <- OneProduct
    UniqueItemKey = FALSE
    Commands <- CartChanges
    MaxLevel = 0
    MaxSessions = 2
    MaxQuantity = 2
    MaxFaults = 2
    NoThread = NoThread
\* In standby the system may stop: nobody has to press START again.
CHECK_DEADLOCK FALSE
INVARIANTS
    CartTypeOK
    SessionIdsAgree
    TableShowsCart
    ShopperHasSession
    ReceiptCoversCart
    NoBillWhileShopping
PROPERTIES
    StartReturnsToCustomer
    BilledAsQuoted
