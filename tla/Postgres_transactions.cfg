SPECIFICATION FairSpec
CONSTANTS
    Runs = {r1, r2}
    FPs = {f1, f2}
    MaxEvent = 2
    DevIds = {d1, d2}
    Packages = {p1}
    Versions = {v1}
    AllowIds = {a1}
    Targets = {n1}
    None = None
    Callers = {c1, c2}
    Listers = {l1}
    Pool = 2
    MaxBatch = 2
    MaxCalls = 2
    MaxStmts = 3
INVARIANTS
    TablesAgree
PROPERTIES
    ImplementsStore
    EveryCallReturns
