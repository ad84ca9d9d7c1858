SPECIFICATION FairRegistrySpec
CONSTANTS
    Interval = 6
    BeatTimeout = 2
    RegTimeout = 6
    PruneTick = 6
    Cutoff = 18
    MaxLosses = 1
    Restarts = TRUE
    Death = TRUE
PROPERTIES
    HealthyIsKept
    Rejoins
