SPECIFICATION Spec
CONSTANTS
    c1 = c1
    c2 = c2
    Clients = {c1, c2}
    NoClient = NoClient
    MAX_CLIENTS = 2
    SetsockoptMayFail = FALSE
    Requests = {"reboot", "ftpreset"}
SYMMETRY ClientSymmetry
INVARIANT
    AdmitsOneTransfer
