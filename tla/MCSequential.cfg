SPECIFICATION Spec
CONSTANTS
    p1 = p1
    p2 = p2
    p3 = p3
    turbo = turbo
    full = full
    Proc = {p1, p2}
    Modes = {turbo, full}
    NAccounts = 2
    Overlap = FALSE
    Options <- SequentialOptions
    Faults <- NoticedFaults
PROPERTIES
    FollowsLifecycle
    ServedOnSuccess
    RestartFromScratch
    StopLeavesNothing
SYMMETRY Symmetry
