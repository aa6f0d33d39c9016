SPECIFICATION Spec
CONSTANTS
    empty = empty
    full = full
    NoMessage = NoMessage
    Blank = Blank
    Empty <- empty
    Contents <- MCContents
    ManyDisks <- MCManyDisks
    Messages <- MCMessages
    GeoWarning <- MCGeoWarning
    Active <- MCSystemAndDetails
INVARIANTS TypeOK NoLostWakeup LayoutRemembered
PROPERTIES StatusExpires ImplementsDashboard
CHECK_DEADLOCK FALSE
