CONSTANTS
    Elements <- MC_Elements
    MaxLen = 3
    MaxCount = 4
    LastModes <- MC_LastGiven
    NoNode = NoNode
SPECIFICATION Spec
INVARIANTS TypeOK ListIntact WrittenReadsBack
