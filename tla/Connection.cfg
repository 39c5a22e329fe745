CONSTANTS
    LineMax = 5
    LineWidth = 4
    TextMax = 12
    NoiseMax = 2
    BootVersions <- MCBootVersions
    HeaderSize = 1
    MaxHandshakeFrame = 2
    MaxFrame = 3
    Versions = {1, 2}
    Offsets = {0, 1}
    MaxNonces = 2
    Trials <- MCTrials
    OffsetMax = 100
    LastEpoch = 1
    FrameLimit = 3
    ByteLimit = 4
    AckDelay = 1
    Keepalive = 2
    Silence = 4
    RekeyInterval = 3
    QueueMax = 2
    Loads <- MCLoads
SPECIFICATION Spec
INVARIANTS
    FindsItsAgent
    Agreement
    FreshKeys
    HonestHandshake
    NoFalseSilence
    SilenceIsNoticed
    NoLostWakeup
    EveryFrameOpens
CHECK_DEADLOCK FALSE
