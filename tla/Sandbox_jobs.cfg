SPECIFICATION FairSpec
CONSTANTS
    MaxJobs = 2
    Specs <- MCSpecs
    MaxFaults = 1
    Retries = 2
    Stalls = TRUE
INVARIANTS
    NoStray
    ObservedWhileRunning
PROPERTIES
    JobEnds
CHECK_DEADLOCK FALSE
