CONSTANTS
    WordMod = 64
    Capacity = 9
    Bases <- MCBases
    Requests <- MCRequests
    NoAnswer = NoAnswer
SPECIFICATION Spec
INVARIANTS
    TypeOK
    BlocksBehindTop
    BlocksApart
PROPERTIES
    RefusedOnlyWhenFull
    BlockSpec
