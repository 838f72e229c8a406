SPECIFICATION Spec
CONSTANTS
    Byte <- AllBytes
    Items <- AllItems
    Scripts <- AllScripts
    Patterns <- AllPatterns
    Strings <- Keys
    Queries <- SomeQueries
    MaxPattern = 4
    MaxKey = 3
    MaxQuery = 6
    ManyMarks = 13
CHECK_DEADLOCK FALSE
INVARIANT StreamTypeOK
INVARIANT DecodedIsSent
INVARIANT CleanEnd
INVARIANT AnswerIsRight
INVARIANT RewriteIsRight
PROPERTY CommandsArriveInOrder
PROPERTY AllDecoded
PROPERTY Terminates
