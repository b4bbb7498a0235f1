SPECIFICATION Spec
CONSTANTS
    milk = milk
    tea = tea
    NoProduct = NoProduct
    Products <- TwoProducts
    RequiredDuration = 3
    LostAfter = 4
    Cooldown = 6
    MaxTime = 8
PROPERTIES
    AdditionsReported
