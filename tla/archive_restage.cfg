SPECIFICATION BothSpec
CONSTANTS
    Attempts = {a1, a2, a3}
    MaxDeaths = 2
    MaxFaults = 1
    LinuxAttempts = {l1, l2, l3}
    LinuxDeaths = 1
    LinuxFaults = 1
SYMMETRY AttemptSymmetry
CHECK_DEADLOCK FALSE
INVARIANTS
    RemainsAreNamed
    RestagedIsIntact
    LeftoversAreNamed
    BuilderIsAlone
PROPERTIES
    LiveWorkSurvives
    RetriesSucceed
