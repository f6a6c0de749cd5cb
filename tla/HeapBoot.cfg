\* The calls the kernel makes, with pages of four cells.
SPECIFICATION Spec
CONSTANTS
    PAGE_SIZE = 32
    HEAP_START = 64
    HEAP_BOUND = 640
    HEAP_LIMIT = 640
    FREE_START = 10
    InitPages <- EightPages
    InitTables = 1
    LAPIC_PMA = 9
    Sizes = {8, 16, 40}
    MaxLive = 6
    Calls = {"kmalloc", "kalloc", "page_new"}
    MayShrink = TRUE
    Junk = 1
CHECK_DEADLOCK FALSE
INVARIANTS
    TypeOK
    NoNestedAlloc
    HeapTiled
    FreeListExact
    HeapMapped
    PagesPartitioned
    HeapInvariant
PROPERTY
    PagesKept
