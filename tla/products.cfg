SPECIFICATION ChainSpec
CONSTANTS
    milk = milk
    tea = tea
    NoProduct = NoProduct
    Products <- TwoProducts
    Catalogue <- OneProduct
    RequiredDuration = 2
    LostAfter = 2
    Cooldown = 3
    DebounceInterval = 3
    AnswerWithin = 4
    DecideWithin = 2
    MaxTime = 8
    MaxFaults = 1
INVARIANTS
    ChainTypeOK
    TrackedAfterCooldown
    NothingDebounced
PROPERTIES
    AdditionsSpaced
