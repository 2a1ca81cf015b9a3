SPECIFICATION FairSpec
CONSTANTS
    Block = {b1, b2, b3}
    File <- MCFile
    Word = 10
    Export <- MCExport
    NULL = NULL
INVARIANTS TypeOK ContextOwns FailureFreesAll StatusTells ImageCorrect EntrypointWhenMoved
 
CHECK_DEADLOCK FALSE
