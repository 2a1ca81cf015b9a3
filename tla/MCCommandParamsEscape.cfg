SPECIFICATION Spec
CONSTANTS
    Block = {b1, b2, b3, b4, b5, b6}
    Char <- MCChar
    Input <- MCInput
    MaxLen = 4
    Reserve = 1
    NULL = NULL
INVARIANT UnterminatedRefused
CHECK_DEADLOCK FALSE
