SPECIFICATION FairSpec
CONSTANTS
    Block = {b1, b2, b3, b4, b5, b6, b7, b8, b9}
    Module = {"M1", "M2"}
    Export <- ListingExports
    NULL = NULL
    SCOPED = SCOPED
    NOT_FOUND = NOT_FOUND
INVARIANTS ListingComplete
PROPERTIES ListingEnds
CHECK_DEADLOCK FALSE
