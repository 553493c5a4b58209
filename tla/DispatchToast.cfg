CONSTANTS
    Items = {i1, i2}
    MaxAttempts = 2
    Delay = 2
    MaxDrops = 1
    MaxWire = 2
SPECIFICATION Spec
CHECK_DEADLOCK FALSE
INVARIANTS
    OutcomeTrue
    CardMirrors
PROPERTIES
    OnlyLateLost
    CardGoes
