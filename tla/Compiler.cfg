CONSTANTS
    Sources <- CompilerSources
    Identifiers <- MCIdentifiers
    Literals <- MCLiterals
    OutOfRange <- MCOutOfRange
    NodeCap = 12
    LeftToRight = TRUE
    CodeCap = 72
    NumberValue <- MCNumberValue
    Digits <- MCDigits
    Half = 10
    Garbage <- MCGarbage
SPECIFICATION CompilerSpec
INVARIANTS
    CompilerTypeOK
    RoundTrip
    OperandsKept
    CrashOnlyAfterError
    CodeFollowsTree
    RefusedOnlyFor
    PrintSafe
    CodeOfNodes
PROPERTY Ends
CHECK_DEADLOCK FALSE
