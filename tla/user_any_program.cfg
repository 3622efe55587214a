SPECIFICATION Spec
CONSTANTS
    MAX_PROCESSES = 4
    FREE_PAGES = 14
    ADDRESS_SPACE_PAGES = 2
    CHILD_STATUS_QUEUE = 2
    Images = {"hello", "windowd-service"}
    ExitCodes = {0, 1}
    Clients = {0, 1, 2, 3, 4, 5, 6, 7}
    MaxPid = 7
    MaxRecords = 7
    ChildCalls = {"exec", "spawn", "wait"}
    PsRows = 2
INVARIANTS ActivePageTables ShellPidReserved StatusFaithful
PROPERTIES TableSpec
CHECK_DEADLOCK FALSE
