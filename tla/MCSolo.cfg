SPECIFICATION FairSpec
CONSTANTS
    p1 = p1
    p2 = p2
    p3 = p3
    turbo = turbo
    full = full
    Proc = {p1}
    Modes = {turbo, full}
    NAccounts = 2
    Overlap = FALSE
    Options <- AnyOptions
    Faults <- LiveFaults
INVARIANT TypeOK
PROPERTY Termination
