CONSTANTS
    Inputs <- ShebangInputs
    Spaces <- MCSpaces
    Letters <- MCLetters
    Digits <- MCDigits
    HexLetters <- MCHexLetters
    Others <- MCOthers
    Keywords <- MCKeywords
    IntMax = 100
    DigitValue <- MCDigitValue
    InitialCap = 2
    ArenaTokens = 16
SPECIFICATION Spec
PROPERTY AlwaysTerminates
CHECK_DEADLOCK FALSE
