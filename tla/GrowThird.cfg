CONSTANTS
    WordMod = 4096
    Capacity = 24
    Taken <- NoneTaken
    ParamWords = 6
    FuncDataWords = 5
    Constructs <- ListsAndFunctions
    MaxDepth = 3
    MaxStored = 4
SPECIFICATION Spec
INVARIANT ElementsIntact
CHECK_DEADLOCK FALSE
