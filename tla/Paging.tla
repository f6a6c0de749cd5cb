------------------------------- MODULE Paging -------------------------------
(***************************************************************************)
(* Address translation: the page tables that init.c builds before paging   *)
(* is switched on, and page.c, which edits them afterwards through the     *)
(* virtual addresses in page_table_lookup.                                 *)
(*                                                                         *)
(* Addresses are page numbers, virtual (vma) or physical (pma).  A page    *)
(* table is a function in the frame that holds it.  The memory state x is  *)
(* one record; the operators keep the names of the C functions and take    *)
(* and return it.                                                          *)
(*                                                                         *)
(* A table in a frame that nobody cleared holds JUNK wherever nothing was  *)
(* written.  There the processor finds whatever the memory held, Ram, and  *)
(* that may well be present: Walk is the translation through entries that  *)
(* somebody wrote, Strays are the ones through all others.                 *)
(*                                                                         *)
(* The heap is seen by pages only: which ones alloc maps, in which order   *)
(* and from where.  Module Heap has the rest.                              *)
(***************************************************************************)
EXTENDS Integers, Sequences

CONSTANTS
    PAGE_ENTRIES,      \* entries of a page table and of the directory: 1024
    KERNEL_DIR,        \* directory index of KERNEL_START_VMA
    INIT_START,        \* first frame of the image
    VGA_PADDR_BUFFER, LAPIC_BASE,  \* frames of the two devices
    VGA_PAGES,         \* pages of the text buffer
    Images,            \* section sizes in pages: init section before and
                       \* after init_page_struct, text + rodata, data + bss
    Ram                \* the entries that a frame nobody wrote to reads as

ASSUME PagingAssumption ==
    /\ PAGE_ENTRIES \in Nat \ {0, 1} /\ KERNEL_DIR \in 1 .. PAGE_ENTRIES - 1
    /\ INIT_START \in Nat \ {0} /\ VGA_PAGES \in Nat \ {0}
    /\ VGA_PADDR_BUFFER \in Nat /\ LAPIC_BASE \in Nat
    /\ VGA_PADDR_BUFFER + VGA_PAGES <= INIT_START
    /\ Images \subseteq [before : Nat, after : Nat, ro : Nat \ {0}, rw : Nat \ {0}]

PRESENT == "PRESENT"
WRITE == "WRITE"
PUBLIC == "PUBLIC"
Kernel == {WRITE, PRESENT}
User == {PUBLIC, WRITE, PRESENT}
UserRead == {PUBLIC, PRESENT}

NULL == 0
NONE == [pma |-> 0, flags |-> {}]
\* An entry nobody wrote.
JUNK == [pma |-> -1, flags |-> {}]

Indexes == 0 .. PAGE_ENTRIES - 1
Pages == 0 .. PAGE_ENTRIES * PAGE_ENTRIES - 1
KERNEL_START_VMA == KERNEL_DIR * PAGE_ENTRIES
STACK_VMA == PAGE_ENTRIES * PAGE_ENTRIES - 1

Entries == [pma : -1 .. LAPIC_BASE, flags : SUBSET User]

ASSUME RamAssumption == Ram \in [0 .. LAPIC_BASE - 1 -> [Indexes -> Entries]]

page_get_dir_idx(vma) == vma \div PAGE_ENTRIES
page_get_table_idx(vma) == vma % PAGE_ENTRIES

Present(entry) == PRESENT \in entry.flags

\* Addresses of the linker script for the image g.
INIT_STRUCT(g) == INIT_START + g.before
INIT_BSS_END(g) == INIT_STRUCT(g) + 3 + g.after
RODATA_END_VMA(g) == KERNEL_START_VMA + g.ro
BSS_END_VMA(g) == KERNEL_START_VMA + g.ro + g.rw
kernel_end_pma(g) == INIT_BSS_END(g) + g.ro + g.rw

-----------------------------------------------------------------------------
(* init.c                                                                  *)

\* The memory before init: next_pma is init_page_next_pma, later
\* kernel_heap_end_pma; heap is init_page_next_vma, later the first page
\* behind the heap; offset is page_table_vma_offset.
Memory(g) ==
    [dir |-> [i \in Indexes |-> NONE],
     lookup |-> [i \in Indexes |-> NULL],
     tables |-> [f \in {} |-> NONE],
     next_pma |-> kernel_end_pma(g), heap |-> BSS_END_VMA(g) + 2 + VGA_PAGES,
     offset |-> 1, free |-> <<>>, zero |-> {}, fault |-> FALSE]

\* The memory with a table in frame f, all of whose entries are e.
WithTable(x, f, e) ==
    [g \in DOMAIN x.tables \cup {f} |->
        IF g = f THEN [i \in Indexes |-> e] ELSE x.tables[g]]

\* Mutant: the lookup table is not told of the new table.
NotLookedUp(x, i) ==
    [x EXCEPT !.tables = WithTable(x, x.next_pma, NONE),
              !.dir[i] = [pma |-> x.next_pma, flags |-> User],
              !.next_pma = @ + 1]

\* init_page_table_new, for directory index i.
init_page_table_new(x, i) ==
    [x EXCEPT !.tables = WithTable(x, x.next_pma, NONE),
              !.dir[i] = [pma |-> x.next_pma, flags |-> User],
              !.next_pma = @ + 1,
              !.lookup[i] = x.offset, !.offset = @ + 1]

\* The entry for page r.vma of a table that is there.
SetEntry(x, r) ==
    [x EXCEPT !.tables[x.dir[page_get_dir_idx(r.vma)].pma][page_get_table_idx(r.vma)] =
        [pma |-> r.pma, flags |-> @.flags \cup r.flags]]

init_page_map(x, r) ==
    IF Present(x.dir[page_get_dir_idx(r.vma)]) THEN SetEntry(x, r)
    ELSE SetEntry(init_page_table_new(x, page_get_dir_idx(r.vma)), r)

\* n pages from vma on, mapped to the frames from pma on.
PageRun(n, vma, pma, flags) ==
    [i \in 1 .. n |-> [vma |-> vma + i - 1, pma |-> pma + i - 1, flags |-> flags]]

\* Mutant: the read-only sections are mapped like the others.
AllWritable(g) ==
    PageRun(INIT_BSS_END(g) - INIT_START, INIT_START, INIT_START, Kernel)
    \o PageRun(g.ro + g.rw, KERNEL_START_VMA, INIT_BSS_END(g), User)
    \o PageRun(1, BSS_END_VMA(g), INIT_STRUCT(g), Kernel)
    \o PageRun(1, BSS_END_VMA(g) + 1, INIT_STRUCT(g) + 1, Kernel)
    \o PageRun(1, STACK_VMA, INIT_STRUCT(g) + 2, Kernel)
    \o PageRun(VGA_PAGES, BSS_END_VMA(g) + 2, VGA_PADDR_BUFFER, User)

\* What init_map_kernel maps first, in this order: the init section where it
\* is, text and rodata, data and bss, the page directory, the lookup table,
\* the stack page, the text buffer.
Predictable(g) ==
    PageRun(INIT_BSS_END(g) - INIT_START, INIT_START, INIT_START, Kernel)
    \o PageRun(g.ro, KERNEL_START_VMA, INIT_BSS_END(g), UserRead)
    \o PageRun(g.rw, RODATA_END_VMA(g), INIT_BSS_END(g) + g.ro, User)
    \o PageRun(1, BSS_END_VMA(g), INIT_STRUCT(g), Kernel)
    \o PageRun(1, BSS_END_VMA(g) + 1, INIT_STRUCT(g) + 1, Kernel)
    \o PageRun(1, STACK_VMA, INIT_STRUCT(g) + 2, Kernel)
    \o PageRun(VGA_PAGES, BSS_END_VMA(g) + 2, VGA_PADDR_BUFFER, User)

\* align of mem.h, for pages.
align(page, n) == ((page + n - 1) \div n) * n

\* Tables that mapping the tables needs in addition, as init_map_kernel
\* determines it from physical addresses.
n_new_tables(x, g) ==
    LET aligned == align(kernel_end_pma(g), PAGE_ENTRIES)
    IN  IF x.next_pma < aligned THEN 0 ELSE (x.next_pma - aligned) \div PAGE_ENTRIES

init_alloc_size(x, g) == x.next_pma - kernel_end_pma(g)

\* The tables themselves are mapped behind all that.
TableRun(x, g) ==
    PageRun(init_alloc_size(x, g) + n_new_tables(x, g), x.heap, kernel_end_pma(g), Kernel)

\* Mutant: the first offset is not taken off again.
OffsetKept(x, n) ==
    [x EXCEPT !.lookup = [i \in Indexes |-> IF @[i] = NULL THEN NULL ELSE @[i] + x.heap],
              !.heap = @ + n]

\* The end of init_map_kernel: offsets become addresses.
LookupAbsolute(x, n) ==
    [x EXCEPT !.lookup = [i \in Indexes |-> IF @[i] = NULL THEN NULL
                                            ELSE @[i] + x.heap - 1],
              !.heap = @ + n]

-----------------------------------------------------------------------------
(* The processor's translation, and page.c on top of it.                   *)

\* The entry for vma, as far as somebody wrote it; the rights of both levels
\* are combined.
Walk(x, vma) ==
    LET d == x.dir[page_get_dir_idx(vma)]
    IN  IF ~Present(d) THEN NONE
        ELSE [x.tables[d.pma][page_get_table_idx(vma)] EXCEPT !.flags = @ \cap d.flags]

\* All translations through entries somebody wrote that the processor may
\* have cached after x was in force.
Cacheable(x) ==
    {[vma |-> v, to |-> Walk(x, v)] : v \in {u \in Pages : Present(Walk(x, u))}}

\* Pages whose table is there but does not have an entry for them.
Unwritten(x) ==
    {v \in Pages : LET d == x.dir[page_get_dir_idx(v)]
                   IN  Present(d) /\ x.tables[d.pma][page_get_table_idx(v)] = JUNK}

\* What the processor finds there instead.
Found(x, vma) ==
    LET d == x.dir[page_get_dir_idx(vma)]
    IN  [Ram[d.pma][page_get_table_idx(vma)] EXCEPT !.flags = @ \cap d.flags]

\* The translations nobody made that it may have cached after x was in force.
Strays(x) ==
    {[vma |-> v, to |-> Found(x, v)] : v \in {u \in Unwritten(x) : Present(Found(x, u))}}

\* page_get_table: the frame that page.c reads or writes for vma.
page_get_table(x, vma) == Walk(x, x.lookup[page_get_dir_idx(vma)])

\* The access through the lookup table finds a page table.
Reachable(x, vma) ==
    /\ Present(page_get_table(x, vma))
    /\ page_get_table(x, vma).pma \in DOMAIN x.tables

page_get_entry(x, vma) ==
    IF Reachable(x, vma)
    THEN x.tables[page_get_table(x, vma).pma][page_get_table_idx(vma)]
    ELSE NONE

page_set_entry(x, vma, entry) ==
    IF Reachable(x, vma)
    THEN [x EXCEPT !.tables[page_get_table(x, vma).pma][page_get_table_idx(vma)] = entry]
    ELSE [x EXCEPT !.fault = TRUE]

\* page_unmap, up to its invlpg: the frame stays in the entry.
page_unmap(x, vma) ==
    page_set_entry(x, vma, [page_get_entry(x, vma) EXCEPT !.flags = @ \ {PRESENT}])

\* invlpg is given the memory operand that holds its argument, so the page
\* whose cached translation goes is the one the stack slot lies on.
InvlpgPage(vma) == STACK_VMA

\* page_clear
page_clear(x, vma) ==
    IF Present(Walk(x, vma)) THEN [x EXCEPT !.zero = @ \cup {Walk(x, vma).pma}]
    ELSE [x EXCEPT !.fault = TRUE]

\* What n calls of page_new return: the frames of the list, then the next ones.
page_new(x, n) == SubSeq(x.free \o [i \in 1 .. n |-> x.next_pma + i - 1], 1, n)

\* The memory after n calls of page_new.
AfterNew(x, n) ==
    [x EXCEPT !.free = SubSeq(@, n + 1, Len(@)),
              !.next_pma = IF n <= Len(x.free) THEN @ ELSE @ + n - Len(x.free)]

\* alloc: the next pages of the heap are mapped to the frames.
MapHeap(x, frames) ==
    IF \E j \in DOMAIN frames : ~Reachable(x, x.heap + j - 1)
    THEN [x EXCEPT !.fault = TRUE]
    ELSE [x EXCEPT
            !.heap = @ + Len(frames),
            !.tables = [f \in DOMAIN @ |-> [i \in Indexes |->
                LET here == {j \in DOMAIN frames :
                                /\ page_get_table(x, x.heap + j - 1).pma = f
                                /\ page_get_table_idx(x.heap + j - 1) = i}
                IN  IF here = {} THEN @[f][i]
                    ELSE [pma |-> frames[CHOOSE j \in here : TRUE], flags |-> Kernel]]]]

\* n pages more for the heap, from PAGE_GET_DEFAULT.
GrowHeap(x, n) == MapHeap(AfterNew(x, n), page_new(x, n))

\* kalloc of an aligned page at x.heap: the descriptor behind it needs a
\* second page.
kalloc(x) == GrowHeap(x, 2)

\* Mutant: only the list is changed.
ListedOnly(x, vma) == [x EXCEPT !.free = <<page_get_entry(x, vma).pma>> \o @]

\* page_free, after its kmalloc: the frame goes to the front of the list.
page_free(x, vma) ==
    [page_unmap(x, vma) EXCEPT !.free = <<page_get_entry(x, vma).pma>> \o @]

\* Mutant: the directory entry is public, like those of init_page_table_new.
PublicTable(x, i, vma) ==
    [x EXCEPT !.lookup[i] = vma,
              !.dir[i] = [pma |-> page_get_entry(x, vma).pma, flags |-> User],
              !.tables = WithTable(x, page_get_entry(x, vma).pma,
                                   IF page_get_entry(x, vma).pma \in x.zero
                                   THEN NONE ELSE JUNK)]

\* A table for directory index i of the kernel, in the heap page vma.  It is
\* as clean as its frame.
KernelTable(x, i, vma) ==
    [x EXCEPT !.lookup[i] = vma,
              !.dir[i] = [pma |-> page_get_entry(x, vma).pma, flags |-> Kernel],
              !.tables = WithTable(x, page_get_entry(x, vma).pma,
                                   IF page_get_entry(x, vma).pma \in x.zero
                                   THEN NONE ELSE JUNK)]

\* page_set_dir_entry
page_set_dir_entry(x, i, vma, entry) == [x EXCEPT !.lookup[i] = vma, !.dir[i] = entry]

=============================================================================
