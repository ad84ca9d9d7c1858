SPECIFICATION FairSpec
CONSTANTS
    a = a
    b = b
    r1 = r1
    r2 = r2
    pkg = pkg
    NoPkg = NoPkg
    NoFP = NoFP
    NoRun = NoRun
    Global = Global
    Packages = {pkg}
    FPs = {a, b}
    Runs = {r1, r2}
    Callers = {c1}
    EventLimit = 10
    MaxPosts <- TwoThenOne
    Overlap = FALSE
    PromoteAnytime = FALSE
    Promotable = {}
    Retention = FALSE
    StoreFaults = FALSE
    Crashes = FALSE
    Batches <- SmallBatches
    AllowEntries <- PackageEntry
    Results = {"failed"}
    PkgOf <- OneAdHocRun
PROPERTIES
    EveryPostSettles
