CONSTANTS
    Chars <- MCChars
    Calls <- MCCalls
    BufSizes <- MCBufSizes
SPECIFICATION Spec
INVARIANTS
    WithinBuffer
    RenderedWhole
    OwnArguments
PROPERTY Returns
CHECK_DEADLOCK FALSE
