SPECIFICATION Spec
CONSTANTS
    OffsetMax = 15
    ResendMax = 2
    DisconnectMax = 3
    OrphanTimeout = 2
    MaxWrite = 2
    MaxTaken = 6
    MaxConns = 2
    MaxGen = 1
    MaxTime = 3
INVARIANTS
    TakenIsHeldOrMarked
    LiveIffCarried
    OrphanedOnlyAfterTimeout
PROPERTIES
    ReapedIsFinal
    LiveWindowBounded
CHECK_DEADLOCK FALSE
