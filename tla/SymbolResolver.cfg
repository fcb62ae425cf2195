CONSTANTS
    Spaces <- MC_Spaces
    MaxDepth = 3
    MaxTares = 2
    NoSpace = NoSpace
    NumLocal = 1
    NumXRefs = 1
    MaxRefs = 1
    NoEntry = NoEntry
SPECIFICATION Spec
INVARIANTS
    TypeOK
    FloorRespected
    RefsRoundTrip
PROPERTIES
    UntareRestoresFloor
    
