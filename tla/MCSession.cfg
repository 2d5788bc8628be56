SPECIFICATION SessionFairSpec
CONSTANTS
    Name <- MCName
    Value <- MCValue
    NameLen <- MCNameLen
    ValueLen <- MCValueLen
    NameRank <- MCNameRank
    StaticTable <- MCStaticTable
    UIntRange = 150
    Header <- SessionHeader
    SizeLimit = 128
    Sizes = {0, 64, 128}
    MaxInstructions = 4
INVARIANTS
    SessionTypeOK
    Synchronised
    DecoderAccounting
PROPERTIES
    UpdateEvicts
    DeliversHeaders
    AllDelivered
