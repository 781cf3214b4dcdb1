CONSTANTS
    Sources <- EndSources
    Identifiers <- MCIdentifiers
    Literals <- MCLiterals
    OutOfRange <- MCOutOfRange
    NodeCap = 64
    LeftToRight = TRUE
SPECIFICATION Spec
INVARIANT StaysInTokens
CHECK_DEADLOCK FALSE
