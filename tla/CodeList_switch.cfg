CONSTANTS
    Elements <- MC_ElementsSwitch
    MaxLen = 3
    MaxCount = 4
    LastModes <- MC_LastGiven
    NoNode = NoNode
SPECIFICATION Spec
INVARIANTS WrittenReadsBack
