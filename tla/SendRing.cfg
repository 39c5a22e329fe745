SPECIFICATION Spec
CONSTANTS
    Cap = 3
    Bytes = {0, 1}
    MaxChunk = 4
    MaxEnd = 8
    MaxGen = 1
INVARIANTS
    RingHoldsWindow
    CopyOutIsExact
