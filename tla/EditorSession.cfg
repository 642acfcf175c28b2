SPECIFICATION Spec

CONSTANTS
    W = W
    T = T
    R = R
    Files = {W, T, R}
    Window = W
    Resources = {R}
    None = None
    Partial = Partial
    Theirs = Theirs
    MaxFaults = 2
    MaxEdits = 2
    MaxCrashes = 1

INVARIANTS
    CommitOutcome
    WorkIsKept
