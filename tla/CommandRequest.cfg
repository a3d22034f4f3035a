SPECIFICATION FairSpec
CONSTANTS
    Reject = Reject
    Archives <- MCArchives
    FilePaths <- MCFilePaths
    PARAM_SFO <- S
    HEAD_BIN <- H
    INSTALL_TOTAL_MAX = 3
    ValidTitles = {"T1", "T2", "T0"}
    OldTitle = "T0"
    Requests <- MCRequests
    CMD_REQUEST_BYTES = 6
    ARG_MAX = 2
    VpkPaths <- MCVpkPaths
    TITLE_MAX = 1
    LAUNCH_CONFIRM_ATTEMPTS = 2
    Titles <- MCTitles
INVARIANTS
    PromotedIsArchive
    AnswerHonest
    ModulesReleased
    TotalBounded
    RequestTypeOK
    CmdFramed
    LaunchConfirmed
PROPERTY
    RequestAnswered
