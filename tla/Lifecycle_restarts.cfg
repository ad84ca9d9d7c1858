SPECIFICATION FairSpec
CONSTANTS
    LastVersion = 2
    CfgAllow = {a1}
    FileTargets = {t1}
    Runs = {r1, r2}
    MaxPosts = 2
    MaxFaults = 1
    MaxCrashes = 1
    MaxCli = 1
    None = None
INVARIANTS
    MigrationsAtomic
    ConfigInForce
    PendingHasJob
    ResultIsFinal
PROPERTIES
    ComesUp
    EveryScanEnds
CHECK_DEADLOCK FALSE
