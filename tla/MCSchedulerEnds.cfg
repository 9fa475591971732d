CONSTANTS
    Tests = {1, 2}
    Leader <- OneGroup
    LastPhase = 7
    Starts <- ExistingGroup
    NoBatch = TRUE
    SerializeSharedlib = FALSE
    ParallelJobs = 2
    ProcPool = 2
    BuildCost = 2
    TotalPes <- Pes
    BuildOnly = {}
    MayFail <- LaterPhases
    MayFailSilently <- LaterPhases
    ComparePhases = {}
SPECIFICATION Spec
INVARIANTS
    AllTestsFinished
PROPERTIES
    Termination
