SPECIFICATION FairSpec
CONSTANTS
    Producers = {p1, p2}
    Worker = w
    Callers = {c1}
    MaxHandlersPerLoop = 1
    WaitForStarted = TRUE
    SpuriousWakeups = FALSE
    MaxPosts <- OnePostEach
    MaxStarts = 2
    MaxClears = 1
INVARIANTS
    NoLostWakeup
    SilentPostCovered
    EveryTaskAccounted
PROPERTIES
    TasksComplete
    StopReturns
CHECK_DEADLOCK FALSE
