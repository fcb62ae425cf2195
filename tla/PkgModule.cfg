CONSTANTS
    pa = pa
    pb = pb
    pc = pc
    s1 = s1
    s2 = s2
    Order <- MC_Order
    NameOf <- MC_NameOf
    InstProv <- MC_InstProv
    CandProv <- MC_CandProv
    Installed <- MC_Installed
    Candidate <- MC_Candidate
    Names <- MC_Names
    NotString = NotString
    TagLists <- MC_TagLists
    MaxBad = 2
    Garbage <- MC_Garbage
    NoPkg = NoPkg
    NoSave = NoSave
    Uninit = Uninit
    InstOrder <- MC_InstOrder
    SrcRank <- MC_SrcRank
    MediaCount <- MC_MediaCount
    CandRank <- MC_CandRank
    MediaNr <- MC_MediaNr
    Size <- MC_Size
    AvObjs <- MC_AvObjs
    Void = Void
SPECIFICATION Spec
INVARIANTS
    MediaSizesAccount
