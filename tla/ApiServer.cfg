SPECIFICATION LiveSpec
CONSTANTS
    Conns = {c, d}
    Nobody = Nobody
    UseAuth = TRUE
    Kinds = {"good", "malformed", "empty", "tooBig"}
    MaxMessages = 2
    Avoided = {"lostInAuth", "earlyHandler", "lateRegister", "pipelining", "unreadBody"}
INVARIANTS
    NothingUsedAfterFree
    PatientClientsAreKept
    HeadersBeginMessages
PROPERTIES
    ClosedServerLetsGo
    ServerRequestsEnd
CHECK_DEADLOCK FALSE
