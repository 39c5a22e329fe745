SPECIFICATION Spec
CONSTANTS
    Procs = {1, 2}
    Hashes = {1, 2}
    Noise <- MCNoise
    Stale = {9}
    Me = 1
    StdoutMax = 2
    ReadMax = 1
    SnapSize = 2
    LiveWindow = 1
    DetachedWindow = 1
    Typed <- MCTyped
    MaxOutput = 1
    MaxGen = 2
    MaxAttempts = 2
    MaxConns = 3
INVARIANTS
    InstallersGetAlong
    NeverWaitForEachOther
    OutputIsKept
    QuitIsAsked
PROPERTIES
    ReconnectsInMeasure
CHECK_DEADLOCK FALSE
