SPECIFICATION FairSpec
CONSTANTS
    a1 = a1
    a2 = a2
    Agents = {a1}
    Addresses = {1}
    UidOf <- MCUidOf
    Limits <- MCLimits
    MaxPeers = 2
    MaxPeersPerUid = 2
    MaxQueued = 2
    MaxDecoys = 1
    MaxConnections = 1
    SocketRoom = 3
    MaxWaitingDescriptors = 2
    MaxSockets = 3
    MaxClients = 2
    MaxFaults = 1
INVARIANTS
    RouterInStep
    HandedOverOnce
PROPERTIES
    EveryConnectionSettles
    LostLinkReturns
CHECK_DEADLOCK FALSE
