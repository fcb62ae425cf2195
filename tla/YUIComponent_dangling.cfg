CONSTANTS
    Comps = {c1, c2}
    NoComp = NoComp
    Argvs <- MC_Argvs
    MaxUIs = 2
SPECIFICATION Spec
INVARIANT NoFreedUse
