SPECIFICATION Spec
CONSTANTS
    a = a
    b = b
    r1 = r1
    r2 = r2
    pkg = pkg
    NoPkg = NoPkg
    NoFP = NoFP
    NoRun = NoRun
    Global = Global
    Packages = {pkg}
    FPs = {a, b}
    Runs = {r1, r2}
    Callers = {c1, c2}
    EventLimit = 10
    MaxPosts <- TwoThenOne
    Overlap = FALSE
    PromoteAnytime = FALSE
    Promotable = {r1, r2}
    Retention = TRUE
    StoreFaults = FALSE
    Crashes = FALSE
    Batches <- MixedBatches
    AllowEntries <- Nothing
    Results = {}
    PkgOf <- OnePackage
SYMMETRY FPSymmetry
INVARIANTS
    NothingUnaccounted
    NotStacked
    EvidenceHolds
    FindingsAreAlerted
PROPERTIES
    FindingsOutliveRetention
    PromotionAcceptsWhatItClears
