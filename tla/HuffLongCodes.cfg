SPECIFICATION StringSpec
CONSTANTS
    Symbol <- MCSymbol
    Code <- MCCode
    CodeLength <- MCCodeLength
    HpackSymbol = {97, 199}
    OtherSymbol = {}
    MaxLength = 10
INVARIANT
    RoundTrip
