SPECIFICATION Spec
CONSTANTS
    empty = empty
    full = full
    NoMessage = NoMessage
    Blank = Blank
    Empty <- empty
    Contents <- MCContents
    ManyDisks <- MCManyDisks
    Messages <- MCOneMessage
    GeoWarning <- MCGeoWarning
    Active <- MCSystem
PROPERTY LayoutShiftRedrawn
CHECK_DEADLOCK FALSE
