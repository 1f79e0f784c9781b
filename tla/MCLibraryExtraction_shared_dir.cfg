SPECIFICATION Spec
CONSTANTS
    p1 = p1
    p2 = p2
    p3 = p3
    v1 = v1
    v2 = v2
    Processes <- ThreeProcesses
    Versions <- TwoVersions
    VersionOf <- OldAndTwoNew
    Systems = {TRUE, FALSE}
    Size = 2
    MaxFiles = 3
SYMMETRY NewSymmetry
CHECK_DEADLOCK FALSE
INVARIANTS
    LoaderTypeOK
    UndisturbedLoads
    CleanupDeletesOld
PROPERTIES
    MappedIsNotWritten
