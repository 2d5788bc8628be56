SPECIFICATION StringSpec
CONSTANTS
    Symbol <- MCSymbol
    Code <- MCCode
    CodeLength <- MCCodeLength
    HpackSymbol = {}
    OtherSymbol = {22, 97}
    MaxLength = 3
INVARIANT
    NeverAborts
