SPECIFICATION ResetSpec
CONSTANTS
    c1 = c1
    Clients = {c1}
    NoClient = NoClient
    MAX_CLIENTS = 2
    SetsockoptMayFail = TRUE
    Requests = {"ftpreset"}
CHECK_DEADLOCK FALSE
PROPERTIES
    ResetRecovers
