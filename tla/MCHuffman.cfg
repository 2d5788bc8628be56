SPECIFICATION StringFairSpec
CONSTANTS
    Symbol <- MCSymbol
    Code <- MCCode
    CodeLength <- MCCodeLength
    HpackSymbol = {97, 32, 58, 60, 9}
    OtherSymbol = {48, 124, 92, 199, 10}
    MaxLength = 4
INVARIANTS
    StringTypeOK
    PendingBits
    HuffIsStandard
    DecodesText
PROPERTY
    StringArrives
