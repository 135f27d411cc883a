SPECIFICATION FairSpec
CONSTANTS
    r1 = r1
    r2 = r2
    s1 = s1
    Requests = {r1, r2}
    Sessions = {s1}
    NoSession = NoSession
    Priorities = 2
    Priority <- SamePriority
    SessionOf <- SameSession
    MaxQueueDepth = 0
    MaxInFlight = 1
    CallbackRequests = TRUE
    MaxAuthErrors = 1
    MaxOutsideEvents = 1
INVARIANTS
    OnePlace
    IdsAreFresh
    CloseLeavesOnlyRacers
PROPERTIES
    CallsBackOnce
    RequestsSettle
CHECK_DEADLOCK FALSE
