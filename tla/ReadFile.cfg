CONSTANTS
    MaxSize = 3
    MaxWrites = 2
    MaxRoom = 4
    MAX_PATH = 2
SPECIFICATION Spec
INVARIANTS
    WholeFile
    WithinBlock
    HandleClosed
CHECK_DEADLOCK FALSE
