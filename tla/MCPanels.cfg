SPECIFICATION Spec
CONSTANTS
    Widths <- MCWidths
    MaxHeight = 46
    Contents <- MCContents
INVARIANTS NothingOutside HiddenRowsCounted
PROPERTIES GrowingHidesNothing
