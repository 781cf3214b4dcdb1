CONSTANTS
    Sources <- GrammarSources
    Identifiers <- MCIdentifiers
    Literals <- MCLiterals
    OutOfRange <- MCOutOfRange
    NodeCap = 64
    LeftToRight = FALSE
SPECIFICATION Spec
INVARIANT RoundTrip
CHECK_DEADLOCK FALSE
