------------------------------ MODULE BootInv ------------------------------
(***************************************************************************)
(* The inductive invariant of Boot, in named parts, for images that fit.   *)
(*                                                                         *)
(* What a step of page.c does depends on tables that earlier steps built   *)
(* and on the pages through which it reaches them, so the invariant        *)
(* describes the whole address space at every point of boot: which pages   *)
(* are mapped, to which frames, through which tables, and what may be      *)
(* cached.  Its parts are about a memory x and an image g.                 *)
(***************************************************************************)
EXTENDS Boot

InitOf(g) == INIT_START .. INIT_BSS_END(g) - 1
StructOf(g) == INIT_STRUCT(g) .. INIT_STRUCT(g) + 2
StaticOf(g) == {r.vma : r \in Sections(g)}
HeapStart(g) == BSS_END_VMA(g) + 2 + VGA_PAGES
HeapPages(x, g) == HeapStart(g) .. x.heap - 1

\* The directory entries of the pages that init_map_kernel maps, and a bound
\* on their number.
BootDirs(g) ==
    (page_get_dir_idx(INIT_START) .. page_get_dir_idx(INIT_BSS_END(g) - 1))
    \cup {KERNEL_DIR, PAGE_ENTRIES - 1}
BootTables(g) == page_get_dir_idx(INIT_BSS_END(g) - 1) - page_get_dir_idx(INIT_START) + 3

\* Bound on the pages the heap has when kernel_main comes to proc_loop.
HeapSize(g) ==
    BootTables(g) + 2 + 2 * (PAGE_ENTRIES - KERNEL_DIR) + 2 + PROC_TABLE_PAGES + 2 + 2 * NPROC

\* The image fits: the init section lies below the user stack's table, the
\* kernel with its tables and the first pages of the heap in one table, the
\* heap below the stack page, and all frames below the APIC's.
Fits(g) ==
    /\ INIT_BSS_END(g) <= KERNEL_START_VMA - PAGE_ENTRIES
    /\ HeapStart(g) + BootTables(g) + 4 <= KERNEL_START_VMA + PAGE_ENTRIES
    /\ HeapStart(g) + HeapSize(g) <= STACK_VMA
    /\ kernel_end_pma(g) + HeapSize(g) + NPROC < LAPIC_BASE

ASSUME FitsAssumption == \A g \in Images : Fits(g)

-----------------------------------------------------------------------------
(* Memory.                                                                 *)

MemoryOK(x) ==
    /\ x = [dir |-> x.dir, lookup |-> x.lookup, tables |-> x.tables,
            next_pma |-> x.next_pma, heap |-> x.heap, offset |-> x.offset,
            free |-> x.free, zero |-> x.zero, fault |-> x.fault]
    /\ x.dir \in [Indexes -> Entries] /\ x.lookup \in [Indexes -> Pages]
    /\ x.tables \in [DOMAIN x.tables -> [Indexes -> Entries]]
    /\ x.next_pma \in 0 .. LAPIC_BASE - 1 /\ x.heap \in Pages
    /\ x.free \in Seq(Nat) /\ x.fault = FALSE

\* Directory entries lead to different tables, and the lookup table has for
\* each the heap page through which it is reached.
Connected(x, g) ==
    /\ \A i \in Indexes :
        IF Present(x.dir[i])
        THEN /\ x.dir[i].pma \in DOMAIN x.tables /\ x.dir[i].flags \in {Kernel, User}
             /\ x.lookup[i] \in HeapPages(x, g)
             /\ Walk(x, x.lookup[i]) = [pma |-> x.dir[i].pma, flags |-> Kernel]
        ELSE x.lookup[i] = NULL
    /\ \A i, j \in Indexes :
        Present(x.dir[i]) /\ Present(x.dir[j]) /\ x.dir[i].pma = x.dir[j].pma => i = j

\* What is mapped by entries somebody wrote: the sections, the heap, the pages
\* left of the init section, the stack of the running process p, and nothing
\* else.
Layout(x, g, left, p) ==
    /\ \A r \in Sections(g) : Walk(x, r.vma) = r.to
    /\ \A v \in HeapPages(x, g) : Walk(x, v).flags = Kernel
    /\ \A v \in left : Walk(x, v) = [pma |-> v, flags |-> Kernel]
    /\ \A v \in Pages : Present(Walk(x, v)) =>
        \/ v \in StaticOf(g) \cup HeapPages(x, g) \cup left
        \/ p # 0 /\ v = USER_STACK

\* Frames that page_new has returned or may return from the list.
Freed(g, left) == (InitOf(g) \ StructOf(g)) \ left
Frames(x, g, left) == Freed(g, left) \cup (kernel_end_pma(g) .. x.next_pma - 1)

Listed(x) == {x.free[j] : j \in DOMAIN x.free}
HeapFrames(x, g) == {Walk(x, v).pma : v \in HeapPages(x, g)}

\* Frames of the heap, of the user stacks and of the list are apart, and
\* tables lie in the heap.
Apart(x, g, left, stacks) ==
    /\ HeapFrames(x, g) \subseteq Frames(x, g, left) \cup {LAPIC_BASE}
    /\ stacks \subseteq Frames(x, g, left) /\ Listed(x) \subseteq Freed(g, left)
    /\ DOMAIN x.tables \subseteq HeapFrames(x, g) \cap Frames(x, g, left)
    /\ HeapFrames(x, g) \cap stacks = {}
    /\ Listed(x) \cap (HeapFrames(x, g) \cup stacks) = {}
    /\ \A u, v \in HeapPages(x, g) : Walk(x, u).pma = Walk(x, v).pma => u = v
    /\ \A i, j \in DOMAIN x.free : x.free[i] = x.free[j] => i = j

-----------------------------------------------------------------------------
(* init_map_kernel.                                                        *)

First(s, n) == {s[j] : j \in 1 .. n}

\* The tables so far, in consecutive frames, with their offsets.
Numbered(x, g) ==
    /\ x.free = <<>> /\ x.heap = HeapStart(g) /\ x.offset \in Nat \ {0}
    /\ x.next_pma = kernel_end_pma(g) + x.offset - 1
    /\ DOMAIN x.tables = kernel_end_pma(g) .. x.next_pma - 1
    /\ \A i \in Indexes :
        \/ x.dir[i] = NONE /\ x.lookup[i] = NULL
        \/ /\ x.lookup[i] \in 1 .. x.offset - 1 /\ i \in BootDirs(g)
           /\ x.dir[i] = [pma |-> kernel_end_pma(g) + x.lookup[i] - 1, flags |-> User]
    /\ \A i, j \in Indexes : x.lookup[i] = x.lookup[j] /\ x.lookup[i] # NULL => i = j
    /\ Cardinality({i \in Indexes : Present(x.dir[i])}) = x.offset - 1

\* The pages in done are mapped, no others.
MapsExactly(x, done) ==
    /\ \A r \in done : Walk(x, r.vma) = [pma |-> r.pma, flags |-> r.flags]
    /\ \A v \in Pages : (\A r \in done : r.vma # v) => Walk(x, v).flags = {}

SetupPhase ==
    at \in Setup =>
        /\ Numbered(m, img) /\ k \in 0 .. Len(todo) /\ tlb = {} /\ PID = 0
        /\ at = "map" =>
            todo = Predictable(img) /\ MapsExactly(m, First(todo, k))
        /\ at = "tables" =>
            /\ todo = PageRun(m.offset - 1, HeapStart(img), kernel_end_pma(img), Kernel)
            /\ MapsExactly(m, First(Predictable(img), Len(Predictable(img))) \cup First(todo, k))

-----------------------------------------------------------------------------
(* kernel_main.                                                            *)

\* The init section, as far as page_init_cleanup has not unmapped it.
InitLeft ==
    IF at = "free" THEN k .. INIT_BSS_END(img) - 1
    ELSE IF at \in Cleaning THEN InitOf(img) ELSE {}

Registered ==
    IF at = "register" THEN k ELSE IF at \in {"proc_loop", "handler"} THEN NPROC ELSE 0

\* The entry of the user stack in the table of a process.
StackEntry(x, u) == x.tables[u.entry.pma][page_get_table_idx(USER_STACK)]
StackFrames == {StackEntry(m, user[p]).pma : p \in 1 .. Registered}

\* How far boot has come: pages of the heap, frames taken, kernel tables.
Progress ==
    /\ at \in Cleaning \ {"free"} => m.heap = HeapStart(img) + Len(todo)
    /\ at = "free" =>
        /\ k \in INIT_START .. INIT_BSS_END(img)
        /\ m.heap - HeapStart(img) - Len(todo) \in {1, 2}
    /\ at = "kernel_tables" =>
        /\ k \in KERNEL_DIR .. PAGE_ENTRIES
        /\ m.heap <= HeapStart(img) + BootTables(img) + 2 + 2 * (k - KERNEL_DIR)
        /\ k > KERNEL_DIR => m.heap + 2 <= k * PAGE_ENTRIES
    /\ at \in {"apic_init", "dead"} =>
        m.heap <= HeapStart(img) + BootTables(img) + 2 + 2 * (PAGE_ENTRIES - KERNEL_DIR)
    /\ at = "proc_table" =>
        /\ k \in 0 .. PROC_TABLE_PAGES
        /\ m.heap <= HeapStart(img) + BootTables(img) + 2 + 2 * (PAGE_ENTRIES - KERNEL_DIR) + 2 + k
    /\ at = "proc_init" =>
        m.heap <= HeapStart(img) + HeapSize(img) - 2 - 2 * NPROC
    /\ at = "register" =>
        k \in 0 .. NPROC /\ m.heap <= HeapStart(img) + HeapSize(img) - 2 * (NPROC - k)
    /\ at \in {"proc_loop", "handler"} => m.heap <= HeapStart(img) + HeapSize(img)
    /\ at \in {"apic_init", "proc_init"} => k = 0
    /\ Len(todo) \in 0 .. BootTables(img) /\ k \in 0 .. PAGE_ENTRIES * PAGE_ENTRIES
    /\ m.heap >= HeapStart(img) + Len(todo)
    /\ m.next_pma >= kernel_end_pma(img)
    /\ m.next_pma - kernel_end_pma(img) <= m.heap - HeapStart(img) + Registered
    /\ \A i \in KERNEL_DIR .. (IF at \in Cleaning THEN KERNEL_DIR
                               ELSE IF at = "kernel_tables" THEN k - 1 ELSE PAGE_ENTRIES - 1) :
            i \in Indexes => Present(m.dir[i])
    /\ Present(m.dir[KERNEL_DIR]) /\ Present(m.dir[PAGE_ENTRIES - 1])

\* The table u of a process: a page of the heap in which the user stack's entry
\* is written and no other, and that no other directory entry leads to.
ProcessTable(x, g, u) ==
    /\ u.vma \in HeapPages(x, g)
    /\ u.entry = [pma |-> Walk(x, u.vma).pma, flags |-> User]
    /\ u.entry.pma \in DOMAIN x.tables /\ StackEntry(x, u).flags = User
    /\ \A i \in Indexes : i # page_get_table_idx(USER_STACK) =>
            ~Present(x.tables[u.entry.pma][i])
    /\ \A i \in Indexes \ {USER_DIR} : Present(x.dir[i]) => x.dir[i].pma # u.entry.pma

\* The tables registered for processes, and the one in force.
UserTables ==
    /\ \A p \in 1 .. Registered : ProcessTable(m, img, user[p])
    /\ at \notin {"proc_loop", "handler"} => PID = 0
    /\ PID \in 0 .. Registered
    /\ IF PID = 0 THEN ~Present(m.dir[USER_DIR])
       ELSE m.dir[USER_DIR] = user[PID].entry /\ m.lookup[USER_DIR] = user[PID].vma

\* Everything written that is in force may be cached; anything else that is
\* comes from a page of the init section that was unmapped.
Cached ==
    /\ Cacheable(m) \subseteq tlb
    /\ \A c \in tlb : c \notin Cacheable(m) =>
        /\ c.vma \in InitOf(img) \ InitLeft
        /\ c.to = [pma |-> c.vma, flags |-> Kernel]

\* The processor's own state.
CpuSet ==
    /\ cpu = [gdt |-> cpu.gdt, idt |-> cpu.idt, esp0 |-> cpu.esp0, ie |-> cpu.ie,
              lapic |-> cpu.lapic, regs |-> cpu.regs]
    /\ cpu.esp0 \in Pages /\ cpu.lapic \in Pages
    /\ at \notin Setup \cup {"vga_clear", "gdt_init"} => cpu.gdt = TRUE
    /\ at \notin Setup \cup {"vga_clear", "gdt_init", "int_init"} => cpu.idt = TRUE
    /\ cpu.ie = IF at = "proc_loop" THEN 1 ELSE 0

\* The APIC's registers and the stack for interrupts, in the heap.
Devices ==
    /\ IF at \in {"proc_table", "proc_init", "register", "proc_loop", "handler"}
       THEN /\ cpu.lapic \in HeapPages(m, img) /\ Walk(m, cpu.lapic).pma = LAPIC_BASE
            /\ cpu.regs = lapic_timer_init({16})
       ELSE LAPIC_BASE \notin HeapFrames(m, img)
    /\ at \in {"register", "proc_loop", "handler"} =>
        /\ cpu.esp0 - 1 \in HeapPages(m, img)
        /\ Walk(m, cpu.esp0 - 1).pma \notin DOMAIN m.tables \cup {LAPIC_BASE}

KernelPhase ==
    Enabled =>
        /\ Connected(m, img) /\ Layout(m, img, InitLeft, PID)
        /\ Apart(m, img, InitLeft, StackFrames)
        /\ Progress /\ UserTables /\ Cached /\ Devices

\* The inductive invariant: at every point of init, kernel_main and proc_next
\* the address space is the one described above.  In particular no access that
\* init_map_kernel, page.c, the heap or a process switch makes through
\* page_table_lookup faults, because whatever it goes through is mapped by then.
BootInvariant ==
    /\ img \in Images /\ at \in Phases \ {"fault", "reset"}
    /\ user \in [Procs -> [vma : Pages, entry : Entries]]
    /\ MemoryOK(m) /\ CpuSet /\ SetupPhase /\ KernelPhase

-----------------------------------------------------------------------------
(* Memory that nobody wrote to.                                            *)

\* The tables that ring 3 may walk have no entry nobody wrote, but for the one
\* of the running process.
Swept(x) ==
    \A i \in Indexes \ {USER_DIR} : Present(x.dir[i]) /\ PUBLIC \in x.dir[i].flags =>
        \A j \in Indexes : x.tables[x.dir[i].pma][j] # JUNK

\* What the processor may have found there is private, or comes from the table
\* of the process that runs.
StraysPrivate ==
    \A c \in stray : /\ Enabled /\ c.vma \in Pages /\ c.to \in Entries
                     /\ PUBLIC \in c.to.flags => c \in Inherited

\* Whatever the memory held when kalloc returned it for a page table: the
\* tables page_init_cleanup adds and does not clear are private, the public
\* ones were cleared by init_page_table_new, and of the tables proc_register
\* does not clear the one in force is the running process's, so nothing that
\* was ever found in such memory lets ring 3 reach a page elsewhere.
StrayInvariant == Swept(m) /\ StraysPrivate

=============================================================================
