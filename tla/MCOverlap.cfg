SPECIFICATION Spec
CONSTANTS
    p1 = p1
    p2 = p2
    p3 = p3
    turbo = turbo
    full = full
    Proc = {p1, p2}
    Modes = {turbo, full}
    NAccounts = 1
    Overlap = TRUE
    Options <- OverlapOptions
    Faults <- OverlapFaults
INVARIANTS
    FilesReverted
    AccountsFollowTopic
SYMMETRY Symmetry
