SPECIFICATION FairSpec
CONSTANTS
    c1 = c1
    c2 = c2
    c3 = c3
    p1 = p1
    p2 = p2
    bad = bad
    Cgroups = {c1, c2, c3}
    Paths = {p1, p2}
    BadPaths = {bad}
    PathsOf <- MCPathsOf
    Keys = {k1}
    Names = {n1}
    Attachable = {{}, {"kprobe", "uprobe"}}
    RingCap = 2
    OutCap = 1
    MaxCalls = 2
    MaxFaults = 1
    None = None
INVARIANTS
    MapsFollowJobs
    HiddenIsKnown
    OneEventPerConnect
PROPERTIES
    StreamEnds
CHECK_DEADLOCK FALSE
