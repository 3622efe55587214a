CONSTANTS
    PMM_PAGE_SIZE = 16
    PMM_MAX_FREE_PAGES = 3
    ONE_MIB = 32
    KernelEnd = 57
    AddressLimit = 1024
    PAGE_TABLE_ENTRIES = 2
    IDENTITY_PAGE_TABLE_COUNT = 8
    MemoryMaps <- MCMemoryMaps
    Sizes = {0, 1, 7, 14, 40, 56}
    Pointers <- MCPointers
    HEAP_ALIGNMENT = 2
    HEAP_MIN_SPLIT_SIZE = 4
    HeapHeaderSize = 4
    HEAP_MAX_GROW_PAGES = 3
    HEAP_MAX_AUDIT_BLOCKS = 4
    MEMORY_LAYOUT_KERNEL_HEAP_START = 512
    MEMORY_LAYOUT_KERNEL_HEAP_END = 575
    RING3_USER_CODE_VIRTUAL = 320
    RING3_USER_STACK_VIRTUAL = 336
SPECIFICATION Spec
INVARIANT FramesAccountedFor
INVARIANT HeapTiled
 
PROPERTY AllOrNothing
