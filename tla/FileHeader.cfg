CONSTANTS
    Header <- MC_Header
    Files <- MC_Files
    H1 = H1
    H2 = H2
    Dot = Dot
    Nul = Nul
    Other = Other
    Undef = Undef
    Major = 1
    Minor = 3
    Release = 2
    Width = 16
SPECIFICATION Spec
INVARIANTS TypeOK GateAgreesWithVersion BodyAligned
PROPERTIES ReadFileTerminates
