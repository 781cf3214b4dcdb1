CONSTANTS
    Inputs <- MCInputs
    Spaces <- MCSpaces
    Letters <- MCLetters
    Digits <- MCDigits
    HexLetters <- MCHexLetters
    Others <- MCOthers
    Keywords <- MCKeywords
    IntMax = 100
    DigitValue <- MCDigitValue
    InitialCap = 3
    ArenaTokens = 9
SPECIFICATION Spec
INVARIANTS
    TypeOK
    NoCharLost
    LinesCounted
    NewlineFromComment
    DirectiveOnlyFirst
    OnlyEndPastBuffer
    SourceLines
    NumbersExact
PROPERTY Terminates
CHECK_DEADLOCK FALSE
