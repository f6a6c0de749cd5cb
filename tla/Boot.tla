-------------------------------- MODULE Boot --------------------------------
(***************************************************************************)
(* From _start to the first processes: init of init.c, kernel_main of      *)
(* kernel.c and what it calls, as far as address translation and the       *)
(* processor's tables go, and the process switches afterwards.             *)
(*                                                                         *)
(* tlb and stray hold every translation the processor may have cached      *)
(* since it was last flushed: all those that were in force at some time    *)
(* since, tlb the ones the code made and stray the ones found in memory    *)
(* that nobody wrote to.  The processor may use any of them.               *)
(***************************************************************************)
EXTENDS Paging, Descriptors, FiniteSets

CONSTANTS
    PROC_TABLE_PAGES,  \* pages of proc_table
    NPROC,             \* processes that proc_init registers
    TssAddr,           \* address of TSS
    HandlerAddr        \* addresses of the interrupt handlers

ASSUME BootAssumption ==
    /\ PROC_TABLE_PAGES \in Nat /\ NPROC \in Nat /\ TssAddr \in Word32
    /\ \A v \in 0 .. IDT_SIZE - 1 : HandlerAddr[Handler(v)] \in Word32

VARIABLES
    img,        \* the image that was loaded
    m,          \* memory
    tlb, stray, \* cached translations
    at, k,      \* what the processor executes, and its loop counter
    todo,       \* the pages init_map_kernel's loops map
    cpu,        \* tables loaded, TSS, interrupt flag, APIC
    user,       \* the page tables registered for each process
    PID

vars == <<img, m, tlb, stray, at, k, todo, cpu, user, PID>>

Halts == {"dead", "fault", "reset"}
Setup == {"map", "tables"}
Cleaning == {"vga_clear", "gdt_init", "int_init", "kmalloc_init", "free"}
Early == {"kernel_tables", "apic_init", "proc_table", "proc_init", "register"}
Phases == Setup \cup Cleaning \cup Early \cup {"proc_loop", "handler"} \cup Halts

Procs == 1 .. NPROC
USER_STACK == KERNEL_START_VMA - 1
USER_DIR == page_get_dir_idx(USER_STACK)

\* Paging is on.
Enabled == at \notin Setup

Init ==
    /\ img \in Images
    /\ m = Memory(img)
    /\ tlb = {} /\ stray = {} /\ at = "map" /\ k = 0 /\ todo = Predictable(img)
    /\ cpu = [gdt |-> FALSE, idt |-> FALSE, esp0 |-> 0, ie |-> 0,
              lapic |-> NULL, regs |-> <<>>]
    /\ user = [p \in Procs |-> [vma |-> NULL, entry |-> NONE]]
    /\ PID = 0

-----------------------------------------------------------------------------
(* init                                                                    *)

\* The next page of the loops of init_map_kernel.
InitMap ==
    /\ at \in Setup /\ k < Len(todo)
    /\ m' = init_page_map(m, todo[k + 1]) /\ k' = k + 1
    /\ UNCHANGED <<img, tlb, stray, at, todo, cpu, user, PID>>

\* The tables allocated so far are mapped too.
InitTables ==
    /\ at = "map" /\ k = Len(todo)
    /\ at' = "tables" /\ k' = 0 /\ todo' = TableRun(m, img)
    /\ UNCHANGED <<img, m, tlb, stray, cpu, user, PID>>

\* The lookup table is completed, paging enabled, kernel_main called.
InitEnable ==
    /\ at = "tables" /\ k = Len(todo)
    /\ m' = LookupAbsolute(m, Len(todo))
    /\ tlb' = Cacheable(m') /\ stray' = Strays(m')
    /\ at' = "vga_clear" /\ k' = 0
    /\ UNCHANGED <<img, todo, cpu, user, PID>>

-----------------------------------------------------------------------------
(* kernel_main                                                             *)

\* A page fault leads to a handler that halts, or resets the machine when
\* there is no interrupt table yet.
Faulted == IF cpu.idt THEN "fault" ELSE "reset"

\* The memory becomes x; the processor may cache what x maps.
Go(x, next) ==
    /\ m' = x /\ at' = IF m'.fault THEN Faulted ELSE next
    /\ tlb' = tlb \cup Cacheable(m') /\ stray' = stray \cup Strays(m')

VgaClear ==
    /\ at = "vga_clear"
    /\ Go([m EXCEPT !.fault = ~Present(Walk(m, BSS_END_VMA(img) + 2))], "gdt_init")
    /\ UNCHANGED <<img, k, todo, cpu, user, PID>>

GdtInit ==
    /\ at = "gdt_init" /\ at' = "int_init"
    /\ cpu' = [cpu EXCEPT !.gdt = TRUE, !.esp0 = 0]
    /\ UNCHANGED <<img, m, tlb, stray, k, todo, user, PID>>

IntInit ==
    /\ at = "int_init" /\ at' = "kmalloc_init"
    /\ cpu' = [cpu EXCEPT !.idt = TRUE]
    /\ UNCHANGED <<img, m, tlb, stray, k, todo, user, PID>>

\* page_init_cleanup, kmalloc_init: the first page of the heap.
KmallocInit ==
    /\ at = "kmalloc_init"
    /\ Go(IF Present(page_get_entry(m, m.heap)) THEN [m EXCEPT !.heap = @ + 1]
          ELSE GrowHeap(m, 1), "free")
    /\ k' = INIT_START
    /\ UNCHANGED <<img, todo, cpu, user, PID>>

StructPages == INIT_STRUCT(img) .. INIT_STRUCT(img) + 2

\* Cached translations that survive page_unmap(vma).
Kept(vma) == {c \in tlb : c.vma # InvlpgPage(vma)}

\* page_clear and page_free of the page k of the init section.  Bound: the
\* nodes of the page list need at most one more page of the heap.
CleanupFree ==
    /\ at = "free" /\ k < INIT_BSS_END(img) /\ k \notin StructPages
    /\ \E grow \in BOOLEAN :
        /\ grow => m.heap = BSS_END_VMA(img) + 2 + VGA_PAGES + Len(todo) + 1
        /\ LET x == page_clear(m, k)
           IN  m' = page_free(IF grow THEN GrowHeap(x, 1) ELSE x, k)
    /\ tlb' = Kept(k) \cup Cacheable(m') /\ stray' = stray \cup Strays(m')
    /\ at' = IF m'.fault THEN Faulted ELSE "free"
    /\ k' = k + 1
    /\ UNCHANGED <<img, todo, cpu, user, PID>>

\* Mutant: init_page_struct is freed like the rest.
StructFreed ==
    /\ at = "free" /\ k \in StructPages
    /\ m' = page_free(m, k)
    /\ tlb' = Kept(k) \cup Cacheable(m') /\ stray' = stray \cup Strays(m')
    /\ at' = IF m'.fault THEN Faulted ELSE "free"
    /\ k' = k + 1
    /\ UNCHANGED <<img, todo, cpu, user, PID>>

\* The three pages of init_page_struct are unmapped, not freed.
CleanupUnmap ==
    /\ at = "free" /\ k \in StructPages
    /\ m' = page_unmap(m, k)
    /\ tlb' = Kept(k) \cup Cacheable(m') /\ stray' = stray \cup Strays(m')
    /\ at' = IF m'.fault THEN Faulted ELSE "free"
    /\ k' = k + 1
    /\ UNCHANGED <<img, todo, cpu, user, PID>>

CleanupDone ==
    /\ at = "free" /\ k = INIT_BSS_END(img)
    /\ at' = "kernel_tables" /\ k' = KERNEL_DIR
    /\ UNCHANGED <<img, m, tlb, stray, todo, cpu, user, PID>>

\* The loop over the kernel's directory entries: absent ones get a table.
CleanupTable ==
    /\ at = "kernel_tables" /\ k < PAGE_ENTRIES
    /\ Go(IF Present(m.dir[k]) THEN m ELSE KernelTable(kalloc(m), k, m.heap),
          "kernel_tables")
    /\ k' = k + 1
    /\ UNCHANGED <<img, todo, cpu, user, PID>>

CleanupEnd ==
    /\ at = "kernel_tables" /\ k = PAGE_ENTRIES
    /\ at' = "apic_init" /\ k' = 0
    /\ UNCHANGED <<img, m, tlb, stray, todo, cpu, user, PID>>

\* Mutant: the registers are mapped where lvt_get_page_pma's second page goes.
SecondPageLapic(x) == MapHeap(AfterNew(x, 1), page_new(x, 1) \o <<LAPIC_BASE>>)

\* kalloc with lvt_get_page_pma: the registers first, then an ordinary page.
LapicPages(x) == MapHeap(AfterNew(x, 1), <<LAPIC_BASE>> \o page_new(x, 1))

\* Mutant: the registers are used at their physical address.
ApicPhysical ==
    /\ at = "apic_init"
    /\ Go(LapicPages(m), "proc_table")
    /\ cpu' = [cpu EXCEPT !.lapic = LAPIC_BASE, !.regs = lapic_timer_init({16})]
    /\ UNCHANGED <<img, k, todo, user, PID>>

\* apic_init: the registers are mapped and the periodic timer is started with
\* the count 0x10000.
ApicInit ==
    /\ at = "apic_init"
    /\ Go(LapicPages(m), "proc_table")
    /\ cpu' = [cpu EXCEPT !.lapic = m.heap, !.regs = lapic_timer_init({16})]
    /\ UNCHANGED <<img, k, todo, user, PID>>

\* apic_init: no APIC, no MSRs, or not the bootstrap processor.
ApicMissing ==
    /\ at = "apic_init" /\ at' = "dead"
    /\ UNCHANGED <<img, m, tlb, stray, k, todo, cpu, user, PID>>

\* proc_init: kmalloc of proc_table, page by page.
ProcTable ==
    /\ at = "proc_table"
    /\ IF k < PROC_TABLE_PAGES
       THEN Go(GrowHeap(m, 1), "proc_table") /\ k' = k + 1
       ELSE Go(m, "proc_init") /\ k' = 0
    /\ UNCHANGED <<img, todo, cpu, user, PID>>

\* proc_init: the scheduler stack goes to TSS.esp0.
ProcInit ==
    /\ at = "proc_init"
    /\ Go(kalloc(m), "register")
    /\ cpu' = [cpu EXCEPT !.esp0 = m.heap + 1]
    /\ UNCHANGED <<img, k, todo, user, PID>>

\* The page table in frame f of a new process, as clean as its frame, with
\* the page of the user stack.
UserTable(x, f) ==
    [AfterNew(x, 1) EXCEPT !.tables = [g \in DOMAIN @ \cup {f} |->
        IF g # f THEN @[g]
        ELSE [i \in Indexes |->
                IF i = page_get_table_idx(USER_STACK)
                THEN [pma |-> page_new(x, 1)[1], flags |-> User]
                ELSE IF f \in x.zero THEN NONE ELSE JUNK]]]

\* proc_register: kalloc, proc_page_table_register, proc_page_register.
ProcRegister ==
    /\ at = "register" /\ k < NPROC
    /\ LET x == kalloc(m) f == page_get_entry(x, m.heap).pma
       IN  /\ Go(UserTable(x, f), "register")
           /\ user' = [user EXCEPT ![k + 1] =
                        [vma |-> m.heap, entry |-> [pma |-> f, flags |-> User]]]
    /\ k' = k + 1
    /\ UNCHANGED <<img, todo, cpu, PID>>

ProcLoop ==
    /\ at = "register" /\ k = NPROC
    /\ at' = "proc_loop" /\ cpu' = [cpu EXCEPT !.ie = 1]
    /\ UNCHANGED <<img, m, tlb, stray, k, todo, user, PID>>

\* The timer interrupts a process or the idle loop.
Tick ==
    /\ at = "proc_loop" /\ cpu.ie = 1 /\ cpu.regs # <<>>
    /\ at' = "handler" /\ cpu' = [cpu EXCEPT !.ie = 0]
    /\ UNCHANGED <<img, m, tlb, stray, k, todo, user, PID>>

\* proc_mem_unmap of process p and proc_mem_map of process q.
Unmap(x, p) == IF p = 0 THEN x ELSE page_set_dir_entry(x, USER_DIR, NULL, NONE)
Map(x, q) == IF q = 0 THEN x
             ELSE page_set_dir_entry(x, USER_DIR, user[q].vma, user[q].entry)

\* Mutant: cr3 is not written.
NotFlushed(x) == tlb \cup Cacheable(x)

\* set_cr3(get_cr3()): only what is in force now can be cached afterwards.
Flushed(x) == Cacheable(x)

\* proc_next with a switch to process q, and the return from the interrupt.
ProcNext ==
    /\ at = "handler" /\ at' = "proc_loop"
    /\ \E q \in ({0} \cup Procs) \ {PID} :
        /\ m' = Map(Unmap(m, PID), q) /\ PID' = q
    /\ tlb' = Flushed(m') /\ stray' = Strays(m')
    /\ cpu' = [cpu EXCEPT !.ie = 1]
    /\ UNCHANGED <<img, k, todo, user>>

\* proc_next without a switch: the slice is not used up.
ProcStay ==
    /\ at = "handler" /\ at' = "proc_loop"
    /\ cpu' = [cpu EXCEPT !.ie = 1]
    /\ UNCHANGED <<img, m, tlb, stray, k, todo, user, PID>>

\* The machine stays halted.
Stopped == at \in Halts /\ UNCHANGED vars

Steps ==
    \/ InitMap \/ InitTables \/ InitEnable \/ VgaClear \/ GdtInit \/ IntInit
    \/ KmallocInit \/ CleanupFree \/ CleanupUnmap \/ CleanupDone
    \/ CleanupTable \/ CleanupEnd \/ ApicInit \/ ApicMissing \/ ProcTable
    \/ ProcInit \/ ProcRegister \/ ProcLoop \/ Tick \/ ProcNext
    \/ ProcStay

Next == Steps \/ Stopped

\* Boot is straight-line code, the timer is periodic.
Spec == Init /\ [][Next]_vars /\ WF_vars(Steps)

-----------------------------------------------------------------------------
(* Properties.                                                             *)

TypeOK ==
    /\ img \in Images /\ at \in Phases /\ k \in 0 .. PAGE_ENTRIES * PAGE_ENTRIES
    /\ m.dir \in [Indexes -> Entries] /\ m.lookup \in [Indexes -> Pages]
    /\ \A f \in DOMAIN m.tables : m.tables[f] \in [Indexes -> Entries]
    /\ m.next_pma \in 0 .. LAPIC_BASE - 1 /\ m.heap \in Pages
    /\ \A c \in tlb \cup stray : c.vma \in Pages /\ c.to \in Entries
    /\ cpu.esp0 \in Pages /\ cpu.lapic \in Pages /\ PID \in 0 .. NPROC

InitPages == INIT_START .. INIT_BSS_END(img) - 1

\* Page v with its frame and rights.
Fixed(v, f, rights) == [vma |-> v, to |-> [pma |-> f, flags |-> rights]]

\* The kernel's own pages as the linker script loads them, the pages of
\* init_page_struct and the text buffer.
Sections(g) ==
    {Fixed(v, INIT_BSS_END(g) + v - KERNEL_START_VMA,
           IF v < RODATA_END_VMA(g) THEN UserRead ELSE User) :
        v \in KERNEL_START_VMA .. BSS_END_VMA(g) - 1}
    \cup {Fixed(BSS_END_VMA(g), INIT_STRUCT(g), Kernel),
          Fixed(BSS_END_VMA(g) + 1, INIT_STRUCT(g) + 1, Kernel),
          Fixed(STACK_VMA, INIT_STRUCT(g) + 2, Kernel)}
    \cup {Fixed(BSS_END_VMA(g) + 2 + j, VGA_PADDR_BUFFER + j, User) :
            j \in 0 .. VGA_PAGES - 1}
Static == Sections(img)

\* init_map_kernel gives every page of the kernel its frame and exactly the
\* rights of its section (text and rodata are read-only, the page structures
\* and the stack private), and no later step of page.c, of the heap or of a
\* process switch takes it away or remaps it.
SectionsMapped == Enabled => \A r \in Static : Walk(m, r.vma) = r.to

\* page_table_lookup agrees with the page directory: through it page.c edits
\* the very table the processor walks, for every directory entry that is
\* present, also after tables were added and processes switched; absent
\* entries have no address.
TablesReachable ==
    Enabled => \A i \in Indexes :
        IF Present(m.dir[i])
        THEN /\ Walk(m, m.lookup[i]).pma = m.dir[i].pma
             /\ Walk(m, m.lookup[i]).flags = Kernel
        ELSE m.lookup[i] = NULL

HeapRange == BSS_END_VMA(img) + 2 + VGA_PAGES .. m.heap - 1

\* Pages that the running code may touch: the kernel's own, the heap with the
\* page tables in it, the init section until kernel_main runs, and the stack
\* of the running process.
Used ==
    {r.vma : r \in Static} \cup HeapRange
    \cup (IF at = "vga_clear" THEN InitPages ELSE {})
    \cup (IF PID # 0 THEN {USER_STACK} ELSE {})

\* Every page the running code may touch is mapped, and no translation of it
\* that the code made and that may still be cached differs from the page
\* tables: neither page_unmap, which invalidates nothing, nor a switch of
\* processes leaves one behind that somebody uses.  (Translations nobody made
\* are the subject of PagesAllocated.)
NoStaleUse ==
    Enabled /\ at \notin Halts =>
        /\ \A v \in Used : Present(Walk(m, v))
        /\ \A c \in tlb : c.to # Walk(m, c.vma) => c.vma \notin Used

\* Frames that translations the code made map, other than the devices'.
Mapped == {c \in Cacheable(m) : c.to.pma # LAPIC_BASE}

\* Frames have one use each: those in the page list are neither mapped nor
\* page tables nor part of init_page_struct, none is listed twice, page_new's
\* next frame is above all in use, and once the init section is gone no frame
\* is mapped at two addresses by the code.
FramesOwned ==
    Enabled /\ at \notin Halts =>
        LET listed == {m.free[j] : j \in DOMAIN m.free}
            used == {c.to.pma : c \in Mapped} \cup DOMAIN m.tables \cup StructPages
        IN  /\ listed \cap used = {} /\ Cardinality(listed) = Len(m.free)
            /\ \A f \in listed \cup used : f < m.next_pma
            /\ at \notin Cleaning => Cardinality(Mapped) = Cardinality({c.to.pma : c \in Mapped})

\* The user pages of process p: the public sections and its own stack.
UserPages(p) ==
    {r \in Static : PUBLIC \in r.to.flags}
    \cup {[vma |-> USER_STACK,
           to |-> m.tables[user[q].entry.pma][page_get_table_idx(USER_STACK)]] :
            q \in {p} \ {0}}

\* What ring 3 reaches, through the page tables and through anything that may
\* be cached.
Reach == {c \in tlb \cup stray : PUBLIC \in c.to.flags}

\* What the memory happens to map below the running process's stack, in the
\* table of which proc_register writes one entry.
Inherited == {c \in Strays(m) : page_get_dir_idx(c.vma) = USER_DIR}

\* Whatever the memory held, ring 3 reaches the sections mapped for it, the
\* stack of the process that runs and, at most, what the other entries of that
\* process's own table say: not the directory, the tables, the heap, the
\* scheduler stack, the APIC or another process's stack or table, and nothing
\* through the kernel tables page_init_cleanup does not clear, at no other
\* address and not through what was cached before a switch.
UserReach == Enabled => Reach \ Inherited = UserPages(PID)

\* Where the frame of an interrupt from ring 3 goes: TaskReady for the
\* segments, and esp0 is the end of a private page of the heap that is no
\* page table.
StackReady ==
    /\ TaskReady(TssAddr)
    /\ cpu.esp0 - 1 \in HeapRange /\ Walk(m, cpu.esp0 - 1).flags = Kernel
    /\ Walk(m, cpu.esp0 - 1).pma \notin DOMAIN m.tables \cup {LAPIC_BASE}

\* When interrupts are enabled everything an interrupt needs is in place,
\* whatever order kernel_main calls its initialisers in: both tables are
\* loaded, every vector has the right gate, the timer keeps delivering a vector
\* that switches processes, its end-of-interrupt register is mapped, and a
\* frame from ring 3 has a stack.
InterruptReady ==
    cpu.ie = 1 =>
        /\ cpu.gdt /\ cpu.idt /\ StackReady
        /\ \A v \in 0 .. IDT_SIZE - 1 : Enters(HandlerAddr, TssAddr, v)
        /\ \E v \in 0 .. IDT_SIZE - 1 :
            Delivers(cpu.regs, v) /\ Handler(v) = "proc_switch"
        /\ Walk(m, cpu.lapic) = [pma |-> LAPIC_BASE, flags |-> Kernel]

\* kernel_main comes to proc_loop, unless apic_init finds no APIC: no access
\* on the way goes through a missing table or page.
Boots == <>(at \in {"proc_loop", "dead"})

-----------------------------------------------------------------------------
(* What comments of the code say of translations, and what becomes of it.  *)

\* "Invalidate TLB entry" (asm.h, invlpg, called by page_unmap): after a page
\* was unmapped, no translation of it is cached.
Invalidated == \A c \in tlb : Present(Walk(m, c.vma))

\* "Map page table for user stack" (proc_register): a process is given its
\* stack, so ring 3 reaches that and the public sections only.
UserConfined == Reach = UserPages(PID)

\* "allocate/map as many new physical pages as needed" (alloc): the processor
\* takes every page of the heap to the frame that was allocated for it, also
\* if it may have cached something else before.
PagesAllocated ==
    \A c \in tlb \cup stray : c.vma \in HeapRange => c.to = Walk(m, c.vma)


=============================================================================
