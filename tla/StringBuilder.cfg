CONSTANTS
    Capacities <- MCCapacities
    MaxLength = 4
    MaxCalls = 4
    TempSize = 3
SPECIFICATION Spec
INVARIANTS
    WithinBuffer
    WholePieces
    LeftOutOnlyWhenTight
CHECK_DEADLOCK FALSE
