SPECIFICATION Spec
CONSTANTS
    BypassLimit = 3
    Chunks <- MCChunks
    Addresses = {1, 2}
    StreamMax = 2
    SnapFrames = 2
    QueueMax = 2
    GroundTicks = 1
    GroundBytes = 3
    ResizeTicks = 1
    SupplyTicks = 3
    MaxReads = 2
    MaxOpened = 3
INVARIANTS
    PumpInStep
    TerminalInStep
    GroundWaitEnds
CHECK_DEADLOCK FALSE
