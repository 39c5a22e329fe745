SPECIFICATION Spec
CONSTANTS
    OffsetMax = 15
    MaxConns = 3
    ResendMax = 1
    PtyQueueMax = 1
    Sizes = {1, 2}
    Plans <- MCSafe
INVARIANTS
    TypeOK
    HonestPeersAgree
    AckedInputWasRead
    NoSilentHole
PROPERTIES
    ImplementsTerminal
CHECK_DEADLOCK FALSE
