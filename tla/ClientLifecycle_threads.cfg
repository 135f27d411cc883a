SPECIFICATION FairSpec
CONSTANTS
    NetworkThread = TRUE
    MaxCalls = 6
INVARIANTS
    GuardHoldsUnlessOvertaken
PROPERTIES
    ForegroundRecovers
CHECK_DEADLOCK FALSE
