SPECIFICATION Spec
CONSTANTS
    Commands <- MC_Commands
    CanFail <- MC_CanFailFork
    Cap = 1
    SigPipe = 13
INVARIANTS
    StatusFaithful
