SPECIFICATION MCSpec
CONSTANTS
    Fds = {0, 1, 2, 3}
    UINT_MAX = 3
    MaxLen = 4
    Reject = Reject
    Arguments <- MCArguments
    ShortDevices = {"ux0:"}
    PATH_MAX = 8
    Chars = {"0", "9", ",", ".", "/", ":", " ", "tab", "cr", "nl"}
    MaxLine = 0
    CommandSize = 3
    ArgumentSize = 3
    OffsetMax = 95
    Fields = 2
    OctetMax = 95
    ARG_MAX = 2
INVARIANT
    CdupLeadsToParent
