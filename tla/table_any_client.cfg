SPECIFICATION TableSpec
CONSTANTS
    MAX_PROCESSES = 3
    FREE_PAGES = 9
    ADDRESS_SPACE_PAGES = 2
    CHILD_STATUS_QUEUE = 2
    Images = {"hello"}
    ExitCodes = {0}
    Clients = {0, 1, 2}
    MaxPid = 5
    MaxRecords = 3
INVARIANTS TableTypeOK PageOwnership PidsDistinct StatusQueueSound
