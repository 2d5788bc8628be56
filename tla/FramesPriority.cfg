SPECIFICATION PrioritySpec
CONSTANTS
    Name <- MCText
    Value <- MCText
    NameLen <- MCLen
    ValueLen <- MCLen
    NameRank <- MCRank
    StaticTable <- MCStaticTable
    UIntRange = 4096
    GroupBits = 5
    UIntBits = 12
    Plain <- MCPlain
    Coded <- MCCoded
    Garbled = "?"
    Overrun <- MCOverrun
    Header <- FrameHeader
    SizeLimit = 70
    Sizes = {}
    MaxInstructions = 2
    Stream = {1, 130}
    OtherType = {0}
    Opaque <- MCOpaque
    MaxFrameSize = 40
    MaxFrames = 2
INVARIANT
    FeedsBlocks
