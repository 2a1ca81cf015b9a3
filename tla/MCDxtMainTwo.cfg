SPECIFICATION Spec
CONSTANTS
    Session = {s1, s2}
    MaxSize = 2
    MaxCommands = 4
    ImageStartup <- MCImageStartup
    ToExport <- MCToExport
    Startup <- MCStartup
    Block = {b1, b2, b3, b4, b5, b6, b7, b8, b9, b10, b11}
    Module = {"ddxt", "xbdm"}
    Export <- MCExport
    NULL = NULL
    SCOPED = SCOPED
    NOT_FOUND = NOT_FOUND
INVARIANTS ImageIntact
CHECK_DEADLOCK FALSE
