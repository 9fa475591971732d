CONSTANTS
    Tests = {1, 2, 3}
    Leader <- TwoGroups
    LastPhase = 7
    Starts <- New
    NoBatch = FALSE
    SerializeSharedlib = TRUE
    ParallelJobs = 2
    ProcPool = 3
    BuildCost = 4
    TotalPes <- Pes
    BuildOnly = {3}
    MayFail <- LaterPhases
    MayFailSilently = {}
    ComparePhases = {}
SPECIFICATION Spec
INVARIANTS
    TypeOK
    ProcsConserved
    LimitsKept
    FailuresReported
    NeverHardAborts
PROPERTIES
    ProgressSpec
