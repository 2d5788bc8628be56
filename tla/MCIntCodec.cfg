SPECIFICATION IntFairSpec
CONSTANTS
    GroupBits = 4
    UIntBits = 9
    MaxPad = 2
INVARIANTS
    IntTypeOK
    IntegerRoundTrip
    LoopsComputeOctets
    CutFallsShort
PROPERTY
    IntegerArrives
