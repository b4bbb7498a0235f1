SPECIFICATION Spec
CONSTANTS
    person = person
    cart = cart
    unknown = unknown
    Objects <- ThreeObjects
    Unidentified <- WithoutId
    StreakWarn = 2
    StreakCaution = 1
    HysteresisFrames = 2
    StaleFrames = 1
    MaxFrames = 5
    MaxBoxes = 2
SYMMETRY ObjectSymmetry
INVARIANTS
    TypeOK
    AlarmNeedsStreak
PROPERTIES
    LoweredAfterHold
    LevelHeldInView
\* MaxFrames ends the behaviour.
CHECK_DEADLOCK FALSE
