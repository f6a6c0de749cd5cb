\* Images of all sizes, also those whose boot data ends near a table boundary.
SPECIFICATION Spec
CONSTANTS
    PAGE_ENTRIES = 16
    KERNEL_DIR = 12
    INIT_START = 2
    VGA_PADDR_BUFFER = 1
    VGA_PAGES = 1
    LAPIC_BASE = 999
    Images <- AllImages
    PROC_TABLE_PAGES = 18
    NPROC = 2
    Ram <- MCRam
    TssAddr <- MCTss
    HandlerAddr <- MCHandlers
INVARIANTS
    TablesReachable
