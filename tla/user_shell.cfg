SPECIFICATION FairSpec
CONSTANTS
    MAX_PROCESSES = 6
    FREE_PAGES = 14
    ADDRESS_SPACE_PAGES = 2
    CHILD_STATUS_QUEUE = 2
    Images = {"hello", "windowd-service"}
    ExitCodes = {0}
    Clients = {0, 1, 2, 3, 4, 5, 6, 7}
    MaxPid = 7
    MaxRecords = 7
    ChildCalls = {}
    PsRows = 2
INVARIANTS NothingLeftBehind ServiceStartedOnce
PROPERTIES ShellReturns
CHECK_DEADLOCK FALSE
