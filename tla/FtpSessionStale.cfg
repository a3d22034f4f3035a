SPECIFICATION Spec
CONSTANTS
    Fds = {0, 1, 2, 3}
    UINT_MAX = 3
    MaxLen = 4
INVARIANT
    StorOverwrites
