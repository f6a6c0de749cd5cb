\* kmalloc, kfree and page_new in any order, as long as no page is given up.
SPECIFICATION Spec
CONSTANTS
    PAGE_SIZE = 32
    HEAP_START = 64
    HEAP_BOUND = 232
    HEAP_LIMIT = 256
    FREE_START = 10
    InitPages <- TwoPages
    InitTables = 0
    LAPIC_PMA = 9
    Sizes = {1, 12}
    MaxLive = 5
    Calls = {"kmalloc", "kfree", "page_new"}
    MayShrink = FALSE
    Junk = 1
CHECK_DEADLOCK FALSE
INVARIANTS
    PayloadKept
    HeapTiled
    FreeListExact
    Coalesced
    HeapInvariant
