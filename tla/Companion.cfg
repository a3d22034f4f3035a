SPECIFICATION FairSpec
CONSTANTS
    f1 = f1
    f2 = f2
    f3 = f3
    f4 = f4
    Fds = {f1, f2, f3, f4}
    NoFd = NoFd
    MaxEvents = 3
    Faults = {"start_timeout", "getstate"}
CHECK_DEADLOCK FALSE
INVARIANTS
    CommandsRunOnLiveFtp
    SocketOwnership
    ListenerVerified
PROPERTIES
    StopCompletes
    LinkFollowed
