SPECIFICATION Spec
CONSTANTS
    root = root
    data = data
    Mounts <- MCMounts
    Manual <- MCManual
    DiscoveryInterval = 2
    Waits <- MCWaits
    MaxTotal = 1
    None = None
INVARIANT EveryAlertAnnounced
CHECK_DEADLOCK FALSE
