SPECIFICATION PipeSpec
CONSTANTS
    Name <- MCName
    Value <- MCValue
    NameLen <- MCNameLen
    ValueLen <- MCValueLen
    NameRank <- MCNameRank
    StaticTable <- MCStaticTable
    UIntRange = 257
    Header <- PipeHeader
    MaxDynamicSize = 128
    MaxHeaders = 5
INVARIANTS
    PipeTypeOK
    EncoderAccounting
    NoDuplicates
PROPERTIES
    NewestSurvives
    ImplementsStandard
    PipeDelivers
