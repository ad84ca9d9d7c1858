SPECIFICATION FairSpec
CONSTANTS
    Targets = {soc}
    Thresholds = {"", "low"}
    MaxAttempts = 2
    MaxTriggers = 2
    MaxEdits = 1
    Removals = TRUE
    StoreFaults = TRUE
    Crashes = TRUE
INVARIANTS
    LogTellsAll
    NoEarlyGiveUp
PROPERTIES
    DeliveryEnds
CHECK_DEADLOCK FALSE
