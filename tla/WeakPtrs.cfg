SPECIFICATION Spec
CONSTANTS
    Threads = {t, u, v}
    Creator = t
    Blocks = {a, b}
    None = None
    MaxCalls = 14
    Avoided = {"revived", "firstWeaks"}
INVARIANTS
    HeldIsAlive
    NoUseAfterFree
    NothingLeaks
CHECK_DEADLOCK FALSE
