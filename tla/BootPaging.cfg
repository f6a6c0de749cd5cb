\* Images whose boot data fits into the first page table of the kernel.
SPECIFICATION Spec
CONSTANTS
    PAGE_ENTRIES = 16
    KERNEL_DIR = 12
    INIT_START = 2
    VGA_PADDR_BUFFER = 1
    VGA_PAGES = 1
    LAPIC_BASE = 999
    Images <- SmallImages
    PROC_TABLE_PAGES = 18
    NPROC = 2
    Ram <- MCRam
    TssAddr <- MCTss
    HandlerAddr <- MCHandlers
INVARIANTS
    BootInvariant
    StrayInvariant
    TypeOK
    SectionsMapped
    TablesReachable
    NoStaleUse
    FramesOwned
    UserReach
    InterruptReady
PROPERTIES
    Boots
