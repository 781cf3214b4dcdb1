CONSTANTS
    Sources <- ExampleSources
    Identifiers <- ExampleNames
    Literals <- ExampleNumbers
    OutOfRange <- NoLiteral
    NodeCap = 16
    LeftToRight = TRUE
    CodeCap = 96
    NumberValue <- ExampleValue
    Digits <- ExampleDigits
    Half = 100
    Garbage <- MCGarbage
SPECIFICATION CompilerSpec
INVARIANT CodeAsDocumented
CHECK_DEADLOCK FALSE
