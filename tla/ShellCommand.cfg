SPECIFICATION Spec
CONSTANTS
    Commands <- MC_Commands
    CanFail <- MC_CanFail
    Cap = 1
    SigPipe = 13
INVARIANTS
    TypeOK
    StatusFaithful
    LogsComplete
    ExitFileAgrees
    TempdirTruthful
PROPERTIES
    ShellReturns
    DescendantsSettle
    ImplementsShellCall
