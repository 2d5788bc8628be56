SPECIFICATION LinesSpec
CONSTANTS
    Letter = {"a"}
    MaxLength = 7
INVARIANTS
    LinesTypeOK
    HeadersAreLines
    DiesOnBadLine
    PrintedIsFixed
PROPERTY
    LinesEnd
