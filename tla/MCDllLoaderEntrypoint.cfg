SPECIFICATION Spec
CONSTANTS
    Block = {b1, b2, b3}
    File <- MCFile
    Word = 10
    Export <- MCExport
    NULL = NULL
INVARIANTS EntrypointRebased
CHECK_DEADLOCK FALSE
