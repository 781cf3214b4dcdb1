CONSTANTS
    WordMod = 4096
    Capacity = 60
    Taken <- MCTaken
    ParamWords = 6
    FuncDataWords = 5
    Constructs <- Everything
    MaxDepth = 3
    MaxStored = 7
SPECIFICATION Spec
INVARIANTS
    TypeOK
    StoreHasRoom
    IntactOrNull
    ThirdOnIntact
    FreshIsZero
    TupleOverrunBounded
PROPERTY FinishedStable
CHECK_DEADLOCK FALSE
