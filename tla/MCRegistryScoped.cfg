SPECIFICATION Spec
CONSTANTS
    Block = {b1, b2, b3, b4, b5, b6, b7, b8, b9}
    Module = {"M1", "M2"}
    Export <- ScopedExports
    NULL = NULL
    SCOPED = SCOPED
    NOT_FOUND = NOT_FOUND
INVARIANTS ScopedStringsAllowed
CHECK_DEADLOCK FALSE
