SPECIFICATION WireSessionSpec
CONSTANTS
    Name <- MCText
    Value <- MCText
    NameLen <- MCLen
    ValueLen <- MCLen
    NameRank <- MCRank
    StaticTable <- MCStaticTable
    UIntRange = 4096
    GroupBits = 5
    UIntBits = 12
    Plain <- MCPlain
    Coded <- MCCoded
    Garbled = "?"
    Overrun <- MCOverrun
    Ways <- MCWays
    Header <- WireHeader
    SizeLimit = 70
    Sizes = {34, 70}
    MaxInstructions = 3
INVARIANTS
    WireTypeOK
    InStep
    CutKeepsPrefix
PROPERTIES
    ImplementsSession
