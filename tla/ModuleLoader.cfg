CONSTANTS
    Modules <- MC_Modules
    Imports <- MC_Imports
    FileKind <- MC_FileKind
    Corrupt <- MC_Corrupt
    MaxLoads = 2
    MaxNest = 2
    MaxStmts = 2
    MaxCalls = 4
    NoBlock = NoBlock
SPECIFICATION Spec
INVARIANTS
    TypeOK
    RefsResolve
    CacheIdentity
    LoadResultAgrees
