CONSTANTS
    Items <- MC_NoItems
    Tails <- MC_OverrunTails
    MaxItems = 0
    MaxReads = 1
    UndefBytes = {0, 4}
    AtomicKinds <- MC_AtomicKinds
    ListT <- MC_ListT
    MapT <- MC_MapT
    ErrorT <- MC_ErrorT
    YT_VOID = 0
    YT_BOOLEAN = 1
    YT_INTEGER = 2
    YT_STRING = 4
    YT_LIST = 6
    NullValue = NullValue
    Undef = Undef
SPECIFICATION Spec
INVARIANTS InBounds
