SPECIFICATION FairSpec
CONSTANTS
    c1 = c1
    c2 = c2
    Clients = {c1, c2}
    NoClient = NoClient
    MAX_CLIENTS = 2
    SetsockoptMayFail = TRUE
    Requests = {"reboot", "ftpreset"}
CHECK_DEADLOCK FALSE
PROPERTIES
    AbandonedClientsLeave
