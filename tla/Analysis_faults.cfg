SPECIFICATION Spec
CONSTANTS
    a = a
    b = b
    r1 = r1
    r2 = r2
    pkg = pkg
    NoPkg = NoPkg
    NoFP = NoFP
    NoRun = NoRun
    Global = Global
    Packages = {pkg}
    FPs = {a, b}
    Runs = {r1, r2}
    Callers = {c1, c2}
    EventLimit = 10
    MaxPosts <- OnePost
    Overlap = TRUE
    PromoteAnytime = TRUE
    Promotable = {r1}
    Retention = TRUE
    StoreFaults = TRUE
    Crashes = TRUE
    Batches <- NoisyBatches
    AllowEntries <- Nothing
    Results = {}
    PkgOf <- OnePackage
SYMMETRY FaultSymmetry
CHECK_DEADLOCK FALSE
PROPERTIES
    KnownOnlyBySeedOrPromote
