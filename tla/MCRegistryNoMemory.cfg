SPECIFICATION Spec
CONSTANTS
    Block = {b1, b2, b3, b4, b5, b6, b7}
    Module = {"M1", "M2"}
    Export <- OwnershipExports
    NULL = NULL
    SCOPED = SCOPED
    NOT_FOUND = NOT_FOUND
INVARIANTS NoNullWrite
CHECK_DEADLOCK FALSE
