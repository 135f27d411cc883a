SPECIFICATION FairSpec
CONSTANTS
    Requests = {r1, r2, r3, r4}
    Oversized = {r2}
    EmptyResponse = {r3}
    AutoReconnect = TRUE
INVARIANTS
    BusyHasReason
    ExclusiveUse
PROPERTIES
    RequestsAnsweredOnce
CHECK_DEADLOCK FALSE
