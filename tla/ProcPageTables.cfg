\* Unwritten memory holds anything.
SPECIFICATION Spec
CONSTANTS
    PID_MAX = 4
    PC_MOD = 8
    Priorities <- MCTwo
    KernelPriority = 2
    Words = {w0, w1}
    EntryPoint = w0
    KERNEL_START_VMA = w1
    RamStates = {0, 3}
    RamPtrs = {"NULL", "WILD"}
INVARIANTS
    PageTablesEnd
