SPECIFICATION FairSpec
CONSTANTS
    NumJobs = 2
    Sandboxed = {1}
    MaxEvents <- TwoThenOne
    RingSize = 1
    QueueSize = 1
    MaxBatch = 2
    SandboxFails = TRUE
    PostFails = TRUE
    LateArrivals = TRUE
    Shutdowns = TRUE
INVARIANTS
    StreamIsHonest
    FailureIsReported
PROPERTIES
    ResultIsLast
    JobEnds
CHECK_DEADLOCK FALSE
