SPECIFICATION Spec
CONSTANTS
    root = root
    data = data
    Mounts <- MCMounts
    Manual <- MCManual
    DiscoveryInterval = 2
    Waits <- MCWaits
    MaxTotal = 1
    None = None
INVARIANTS TypeOK AlertsAnnounced NoByteCountedTwice
PROPERTIES SelectionKept DisksTracked
CHECK_DEADLOCK FALSE
