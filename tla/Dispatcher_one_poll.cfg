SPECIFICATION FairSpec
CONSTANTS
    r1 = r1
    r2 = r2
    p1 = p1
    p2 = p2
    NoJob = NoJob
    Runners = {r1, r2}
    Jobs = {j1, j2}
    Pollers = {p1, p2}
    RunnerOf <- OnePollEach
INVARIANTS
    NoLostWakeup
    ExactlyOnePlace
PROPERTIES
    ImplementsJobQueue
    QueuedIsTaken
