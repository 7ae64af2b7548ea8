SPECIFICATION Spec
CONSTANTS
    Owner = owner
    Recoverers = {r1, r2}
    NoProc = noProc
    Ticks = {0}
    MaxFaults = 2
SYMMETRY Symmetry
INVARIANTS
    ExclusiveMutation
    LockCoversMissingTarget
    LiveOwnerNeverRecovered
