SPECIFICATION Spec
CONSTANTS
  X86_64_KEYBOARD_BUFFER_CAPACITY = 2
  X86_64_INPUT_EVENT_QUEUE_CAPACITY = 2
  Nul = "nul"
  ShiftPress = "shift"
  ShiftRelease = "unshift"
  BreakCodes = {"una"}
  scancode_ascii_map <- MCAsciiMap
  scancode_shift_ascii_map <- MCShiftAsciiMap
  X86_64_VFS_FD_BASE = 3
  X86_64_VFS_MAX_OPEN_FILES = 2
  X86_64_VFS_RAM_FILE_BYTES = 3
  Nodes <- MCNodes
  SessionPath <- MCSessionPath
  Ram <- MCRam
  AddressSpace = 32
  X86_64_USER_CODE_BASE = 4
  X86_64_USER_CANONICAL_LIMIT = 20
  X86_64_USER_PAGE_BYTES = 2
  X86_64_USER_IMAGE_MAX_PAGES = 3
  X86_64_USER_STACK_BYTES = 16
  Zero = "zero"
  Images <- MCImages
  Addresses = {0, 4, 31}
  Sizes = {0, 1, 2}
  Fds = {0, 1, 3, 4, 5}
  Flags <- MCFlags
  Data <- MCData
  Machines <- MCMachines
  StatusBytes = 9
  ShellModeBytes = 1
  MaxSleep = 2
  EventBytes = 2
  MaxTicks = 5
  MaxEvents = 4
  MaxSerial = 1
INVARIANT NoUnwrittenBytes
INVARIANT LoadedImageSound
INVARIANT PathsSound
PROPERTY InputSpec
PROPERTY ProbeInvisible
CHECK_DEADLOCK FALSE
