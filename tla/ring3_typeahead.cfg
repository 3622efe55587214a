SPECIFICATION Spec
CONSTANTS
    Nodes <- MCNodes
    Root = "root"
    VFS_READ_CHUNK_MAX = 2
    Registered <- MCRegistered
    RING3_USER_CODE_VIRTUAL = 8
    RING3_USER_PAGE_SIZE = 4
    ElfHeaderSize = 1
    ProgramHeaderSize = 2
    WordSize = 32
    PROCESS_MAX_PROCESSES = 2
    PROCESS_MAX_OPEN_FILES = 4
    FD_FIRST_PROCESS_FILE = 3
    PROCESS_MAX_ARGUMENTS = 3
    PROCESS_ARGUMENT_MAX = 3
    SYSCALL_COPY_CHUNK_MAX = 2
    SHELL_INPUT_MAX = 2
    EXEC_INIT_PATH <- InitPath
    ExitCodes = {0, 7}
    ImagePaths <- MCImagePaths
    FilePaths <- MCFilePaths
    ArgumentLines <- MCArgumentLines
    ReadLengths = {3}
INVARIANT
    RunsOwnImage
CHECK_DEADLOCK FALSE
