SPECIFICATION Safety
CONSTANTS
    public = public
    private = private
    cc = cc
    node1 = node1
    node2 = node2
    s1 = s1
    s2 = s2
    Unknown = Unknown
    NoRow = NoRow
    NoReply = NoReply
    Failed = Failed
    Poll = Poll
    Ui = Ui
    NoIp = NoIp
    IPs <- MCPublicOnly
    Enrichable <- MCPublicOnly
    Countries <- MCCountries
    Urls <- MCOneUrl
    Slots <- MCOneSlot
    Clients <- MCClients
    StoreKinds <- MCEitherStore
    MayCrash = FALSE
PROPERTY WokenByCommitsOnly
CHECK_DEADLOCK FALSE
