SPECIFICATION FairSpec
CONSTANTS
    Producers = {p1, p2, p3}
    Items = {i1, i2, i3, i4}
    Null = Null
    Empty = Empty
    ClearSlack = 2
INVARIANTS
    NoUseAfterFree
PROPERTIES
    Linearizable
    SpinEnds
CHECK_DEADLOCK FALSE
