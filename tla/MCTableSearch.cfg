SPECIFICATION SearchSpec
CONSTANTS
    Name <- MCName
    Value <- MCValue
    NameLen <- MCNameLen
    ValueLen <- MCValueLen
    NameRank <- MCNameRank
    StaticTable <- static_table
    UIntRange = 4096
    Entries <- MCEntries
    Searched <- MCSearched
INVARIANTS
    SearchTypeOK
    FindsCode
    FindsStatic
