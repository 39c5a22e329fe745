SPECIFICATION Spec
CONSTANTS
    OffsetMax = 15
    MaxConns = 2
    ResendMax = 1
    PtyQueueMax = 1
    Sizes = {1}
    Plans <- MCLate
INVARIANTS
    HonestSessionSurvives
CHECK_DEADLOCK FALSE
