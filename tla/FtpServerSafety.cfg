SPECIFICATION Spec
CONSTANTS
    c1 = c1
    c2 = c2
    c3 = c3
    Clients = {c1, c2, c3}
    NoClient = NoClient
    MAX_CLIENTS = 2
    SetsockoptMayFail = FALSE
    Requests = {"reboot", "ftpreset"}
SYMMETRY ClientSymmetry
INVARIANTS
    ListConsistent
    SingleFlight
    SingleStream
    GateNotLeaked
    SafeReboot
    GuardNotLeaked
    MutexOutlivesUsers
    OneDeleter
    NoDanglingClient
PROPERTY
    NoClientDropped
