SPECIFICATION GrpcCallsSpec
CONSTANTS
    Unary = {u}
    Streams = {s}
    Addresses = {a, b}
    Readers = {r, q}
    Opener = Opener
    None = None
    MaxMessages = 3
    MaxControls = 2
    Avoided = {"reusedAddress", "readBeforeReset", "readAtEnd", "closeAtEnd", "cleanEnd"}
INVARIANTS
    NothingEscapes
    MessagesReachAReader
PROPERTIES
    WaitersAreReleased
CHECK_DEADLOCK FALSE
