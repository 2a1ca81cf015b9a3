SPECIFICATION Spec
CONSTANTS
    Block = {b1, b2, b3, b4, b5, b6, b7, b8, b9}
    Char <- MCChar
    Input <- MCInput
    MaxLen = 6
    Reserve = 1
    NULL = NULL
INVARIANTS TypeOK ParamsOwn SlotsFit ParsesText StaysInText
CHECK_DEADLOCK FALSE
