SPECIFICATION Safety
CONSTANTS
    public = public
    private = private
    cc = cc
    node1 = node1
    node2 = node2
    s1 = s1
    s2 = s2
    Unknown = Unknown
    NoRow = NoRow
    NoReply = NoReply
    Failed = Failed
    Poll = Poll
    Ui = Ui
    NoIp = NoIp
    IPs <- MCBothIps
    Enrichable <- MCPublicOnly
    Countries <- MCCountries
    Urls <- MCTwoUrls
    Slots <- MCTwoSlots
    Clients <- MCClients
    StoreKinds <- MCSqlite
    MayCrash = TRUE
SYMMETRY SlotSymmetry
INVARIANTS TypeOK PanelCurrent PendingExact WritesLandBeforeShutdown
PROPERTIES SnapshotsComplete SuccessesKept
CHECK_DEADLOCK FALSE
