\* Three processes; unwritten memory holds anything, and one pid is to spare.
SPECIFICATION Spec
CONSTANTS
    PID_MAX = 5
    PC_MOD = 8
    Priorities <- MCPriorities
    KernelPriority = 2
    Words = {w0, w1}
    EntryPoint = w0
    KERNEL_START_VMA = w1
    RamStates = {0, 3}
    RamPtrs = {"NULL", "WILD"}
INVARIANTS
    TypeOK
    QueueIsList
    OneRunning
    SlicesBounded
    ProcInvariant
    StackIsolation
    ContextIntegrity
PROPERTIES
    EveryTickCounts
    ImplementsRoundRobin
    EveryoneRuns
