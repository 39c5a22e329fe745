SPECIFICATION FairSpec
CONSTANTS
    OffsetMax = 15
    MaxConns = 2
    ResendMax = 1
    PtyQueueMax = 1
    Sizes = {1}
    Plans <- MCLive
PROPERTIES
    LastingConnectionShows
    LastingConnectionTypes
CHECK_DEADLOCK FALSE
