SPECIFICATION Spec
CONSTANTS
    Block = {b1, b2, b3, b4, b5, b6, b7, b8}
    Module = {"M1", "M2"}
    Export <- OwnershipExports
    NULL = NULL
    SCOPED = SCOPED
    NOT_FOUND = NOT_FOUND
INVARIANTS TypeOK WellFormed Ownership
PROPERTIES LeakOnlyOnRefusal NamesStable LastRegistrationWins ImplementsMap
CONSTRAINT NoListing
CHECK_DEADLOCK FALSE
