\* kmalloc_test: a block of several pages is freed again.
SPECIFICATION Spec
CONSTANTS
    PAGE_SIZE = 32
    HEAP_START = 64
    HEAP_BOUND = 384
    HEAP_LIMIT = 512
    FREE_START = 10
    InitPages <- NoPages
    InitTables = 0
    LAPIC_PMA = 9
    Sizes = {8, 16, 64}
    MaxLive = 4
    Calls = {"kmalloc", "kfree"}
    MayShrink = TRUE
    Junk = 1
CHECK_DEADLOCK FALSE
INVARIANTS
    PageListMapped
