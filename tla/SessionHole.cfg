SPECIFICATION Spec
CONSTANTS
    OffsetMax = 15
    MaxConns = 3
    ResendMax = 1
    PtyQueueMax = 1
    Sizes = {1}
    Plans <- MCHole
INVARIANTS
    NoSilentHole
CHECK_DEADLOCK FALSE
