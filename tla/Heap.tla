-------------------------------- MODULE Heap --------------------------------
(***************************************************************************)
(* The kernel heap: alloc.c with the physical page list of page.c it calls *)
(* and is called by.                                                       *)
(*                                                                         *)
(* Memory is a function from 8-byte cells to pairs of words, because every *)
(* structure the allocator keeps in the heap is one such pair: a chunk     *)
(* descriptor (size_prev, size), a free list node (prev, next) and a page  *)
(* list node (pma, next).  Sizes and addresses are in bytes, bit 0 of a    *)
(* size is KM_CHUNK_FREE, 0 is NULL.  Page table entries map a page of the *)
(* heap to a physical page, with the Present bit apart.                    *)
(*                                                                         *)
(* alloc, free, page_new and page_free call each other.  They are written  *)
(* as operators on the allocator's state h, layered by the calls that can  *)
(* happen: page_new inside alloc frees a node of the page list, and that   *)
(* call of free must not shrink the heap (h.nested records that it would). *)
(***************************************************************************)
EXTENDS Integers, Sequences, FiniteSets

CONSTANTS
    PAGE_SIZE,   \* bytes per page, 4096 in the code
    HEAP_START,  \* kernel_heap_end_vma when kmalloc_init is called
    HEAP_BOUND,  \* bound: the heap does not grow past this address
    HEAP_LIMIT,  \* end of the memory modelled, with room for free's own needs
    FREE_START,  \* kernel_heap_end_pma, first physical page never used
    InitPages,   \* physical pages that page_init_cleanup frees, in order
    InitTables,  \* page tables that page_init_cleanup allocates
    LAPIC_PMA,   \* physical page of the APIC registers
    Sizes,       \* bytes asked of kmalloc by the rest of the kernel
    MaxLive,     \* bound: blocks and pages the rest of the kernel holds
    Calls,       \* what the rest of the kernel calls
    MayShrink,   \* bound: FALSE leaves out calls of free that give pages up
    Junk         \* word found in memory that was not written

DESC == 8                \* sizeof(alloc_chunk_desc_t)
KM_MIN_ALLOC_SIZE == 8   \* sizeof(alloc_node_t)
KM_CHUNK_FREE == 1
NULL == 0

Cells == {a \in HEAP_START .. HEAP_LIMIT - 1 : a % 8 = 0}
Pages == {a \in Cells : a % PAGE_SIZE = 0}

ASSUME PageAssumption ==
    /\ PAGE_SIZE \in Nat /\ PAGE_SIZE % 8 = 0 /\ PAGE_SIZE > 16
    /\ HEAP_START \in Nat /\ HEAP_START % PAGE_SIZE = 0 /\ HEAP_START > 0
    /\ HEAP_LIMIT \in Nat /\ HEAP_LIMIT % PAGE_SIZE = 0
    /\ HEAP_LIMIT > HEAP_START /\ HEAP_BOUND \in HEAP_START .. HEAP_LIMIT
ASSUME CallAssumption ==
    /\ Calls \subseteq {"kmalloc", "kfree", "kalloc", "page_new"}
    /\ Sizes \subseteq Nat /\ MaxLive \in Nat /\ InitTables \in Nat /\ Junk \in Int
ASSUME ShrinkAssumption == MayShrink \in BOOLEAN
ASSUME FrameAssumption ==
    /\ FREE_START \in Nat
    /\ InitPages \in Seq(1 .. FREE_START - 1)
    /\ \A j, k \in DOMAIN InitPages : InitPages[j] = InitPages[k] => j = k
    /\ LAPIC_PMA \in Nat /\ \A k \in DOMAIN InitPages : InitPages[k] # LAPIC_PMA
    /\ \/ LAPIC_PMA < FREE_START
       \/ LAPIC_PMA >= FREE_START + (HEAP_LIMIT - HEAP_START) \div PAGE_SIZE + MaxLive

\* The allocator's state: mem, kernel_ctxt (free_list, end), page_free_list,
\* kernel_heap_end_pma, the heap's page table entries, get_page_first_run.
VARIABLES
    h,
    phase,   \* "kmalloc_init", "free" (page_init_cleanup), "run", "dead"
    done,    \* steps of page_init_cleanup done
    live,    \* history: blocks handed out, as start address |-> bytes
    taken    \* history: physical pages page_new handed to the kernel directly

vars == <<h, phase, done, live, taken>>

align(addr, byte) == addr - (addr % byte) + (IF addr % byte = 0 THEN 0 ELSE byte)

NoFlags(w) == w - (w % 8)
IsFree(w) == w % 2 = KM_CHUNK_FREE
WithFree(w) == IF IsFree(w) THEN w ELSE w + KM_CHUNK_FREE
WithoutFree(w) == IF IsFree(w) THEN w - KM_CHUNK_FREE ELSE w

\* The accessors of a chunk by its address (its descriptor lies before it).
alloc_get_desc(vma) == vma - DESC
alloc_get_size(x, n) == NoFlags(x.mem[alloc_get_desc(n)].hi)
alloc_get_size_prev(x, n) == NoFlags(x.mem[alloc_get_desc(n)].lo)
alloc_get_next_desc(x, n) == n + alloc_get_size(x, n)
alloc_get_prev_desc(x, n) == n - alloc_get_size_prev(x, n) - 2 * DESC
alloc_get_node(chunk) == chunk + DESC

\* Stores into one word of a cell, or into both.
SetLo(x, a, w) == [x EXCEPT !.mem[a].lo = w]
SetHi(x, a, w) == [x EXCEPT !.mem[a].hi = w]
Put(x, a, lo, hi) == [x EXCEPT !.mem[a] = [lo |-> lo, hi |-> hi]]
SetHead(x, n) == [x EXCEPT !.free_list = n]
SetEnd(x, a) == [x EXCEPT !.end = a]

\* What leads to a node from in front, and what leads back to it from behind.
PointForward(x, prev, n) == IF prev # NULL THEN SetHi(x, prev, n) ELSE SetHead(x, n)
PointBack(x, next, n) == IF next # NULL THEN SetLo(x, next, n) ELSE x

\* Mutant: the next node keeps its back pointer.
UnlinkForward(x, n) == PointForward(x, x.mem[n].lo, x.mem[n].hi)

alloc_node_unlink(x, n) ==
    PointBack(PointForward(x, x.mem[n].lo, x.mem[n].hi), x.mem[n].hi, x.mem[n].lo)

alloc_node_add(x, n) ==
    SetHead(PointBack(Put(x, n, NULL, x.free_list), x.free_list, n), n)

\* Both copies of the size of chunk n.
SetSize(x, n, size) ==
    SetLo(SetHi(x, alloc_get_desc(n), size), n + NoFlags(size), size)

alloc_clear_free(x, n) ==
    LET y == SetHi(x, alloc_get_desc(n), WithoutFree(x.mem[alloc_get_desc(n)].hi))
        next == alloc_get_next_desc(y, n)
    IN  SetLo(y, next, WithoutFree(y.mem[next].lo))
alloc_set_free(x, n) ==
    LET y == SetHi(x, alloc_get_desc(n), WithFree(x.mem[alloc_get_desc(n)].hi))
        next == alloc_get_next_desc(y, n)
    IN  SetLo(y, next, WithFree(y.mem[next].lo))

-----------------------------------------------------------------------------
(* free.                                                                   *)

\* Mutant: the next chunk is left alone.
NoMergeNext(x, vma) == x

\* The chunk at vma takes in the one whose descriptor is at next.
JoinNext(x, vma, next) ==
    SetSize(x, vma, x.mem[alloc_get_desc(vma)].hi + NoFlags(x.mem[next].hi) + DESC)

\* Combine the chunk with the next one if that is free.
MergeNext(x, vma) ==
    LET next == alloc_get_next_desc(x, vma)
    IN  IF IsFree(x.mem[next].hi)
        THEN JoinNext(alloc_node_unlink(x, alloc_get_node(next)), vma, next) ELSE x

\* The address of the chunk after it is combined with the previous one.
MergedAt(x, vma) ==
    IF IsFree(x.mem[alloc_get_desc(vma)].lo)
    THEN alloc_get_node(alloc_get_prev_desc(x, vma)) ELSE vma

\* Mutant: the descriptor between the two chunks is not counted.
JoinPrevShort(x, vma, prev) ==
    SetSize(x, prev, alloc_get_size_prev(x, vma) + alloc_get_size(x, vma))

\* The chunk at prev takes in the one at vma.
JoinPrev(x, vma, prev) ==
    SetSize(x, prev, alloc_get_size_prev(x, vma) + alloc_get_size(x, vma) + DESC)

\* Combine the chunk with the previous one if that is free.
MergePrev(x, vma) ==
    LET prev == MergedAt(x, vma)
    IN  IF prev # vma THEN JoinPrev(alloc_node_unlink(x, prev), vma, prev) ELSE x

AtHeapEnd(x, vma) == vma + alloc_get_size(x, vma) + DESC = x.end

AddFree(x, vma) == alloc_node_add(alloc_set_free(x, vma), vma)

\* free of a chunk that is not the last of the heap.
LeaveInside(x, vma) ==
    IF AtHeapEnd(x, vma) THEN [x EXCEPT !.nested = TRUE] ELSE AddFree(x, vma)

FreeInside(x, vma) ==
    LET y == MergeNext(x, vma) IN LeaveInside(MergePrev(y, vma), MergedAt(y, vma))

-----------------------------------------------------------------------------
(* page_new, alloc.                                                        *)

\* Mutant: kernel_heap_end_pma is not moved.
TakePageStuck(x) ==
    LET node == x.page_free_list
    IN  IF node # NULL
        THEN [h |-> [x EXCEPT !.page_free_list = x.mem[node].hi],
              pma |-> x.mem[node].lo, node |-> node]
        ELSE [h |-> x, pma |-> x.heap_end_pma, node |-> NULL]

\* page_new up to its call of kfree: the physical page, from the page list or
\* from kernel_heap_end_pma, and the list node that is to be freed, or NULL.
TakePage(x) ==
    LET node == x.page_free_list
    IN  IF node # NULL
        THEN [h |-> [x EXCEPT !.page_free_list = x.mem[node].hi],
              pma |-> x.mem[node].lo, node |-> node]
        ELSE [h |-> [x EXCEPT !.heap_end_pma = @ + 1],
              pma |-> x.heap_end_pma, node |-> NULL]

\* page_new as alloc calls it.
PageNewInside(x) ==
    LET got == TakePage(x)
    IN  [h |-> IF got.node = NULL THEN got.h ELSE FreeInside(got.h, got.node),
         pma |-> got.pma]

\* lvt_get_page_pma: the APIC's page the first time, then page_new.
lvt_get_page_pma(x) ==
    IF x.first_run THEN [h |-> [x EXCEPT !.first_run = FALSE], pma |-> LAPIC_PMA]
                   ELSE PageNewInside(x)

GetPage(x, src) == IF src = "lvt" THEN lvt_get_page_pma(x) ELSE PageNewInside(x)

\* page_set_entry of a page of the heap: other memory appears there.
MapPage(got, page) ==
    [got.h EXCEPT !.pte[page] = [pma |-> got.pma, present |-> TRUE],
                  !.mem = [a \in Cells |-> IF page <= a /\ a < page + PAGE_SIZE
                                           THEN [lo |-> Junk, hi |-> Junk] ELSE @[a]]]

\* The state after the first k passes of alloc's loop over new pages.
Mapping(x, page, n, src) ==
    LET after[k \in 0 .. n] ==
            IF k = 0 THEN x
            ELSE MapPage(GetPage(after[k - 1], src), page + (k - 1) * PAGE_SIZE)
    IN  after

\* The number of pages that start at page or later and below new.
PagesUpTo(page, new) == align(new, PAGE_SIZE) \div PAGE_SIZE - page \div PAGE_SIZE

\* Mutant: no page is mapped for the descriptor at the end.
MapPagesShort(x, page, new, src) ==
    LET n == PagesUpTo(page, new - DESC) IN Mapping(x, page, n, src)[n]

\* The pages that alloc maps for the bytes from old to new.
MapPages(x, page, new, src) ==
    LET n == PagesUpTo(page, new) IN Mapping(x, page, n, src)[n]

Last(s) == s[Len(s)]
\* A chunk takes at least two cells: no more fit.
MaxChunks == (HEAP_LIMIT - HEAP_START) \div 16

\* The way along the second words of cells, from n on: it ends at NULL, or
\* wherever there is no cell.  A list that does not end is cut off.
ListStep(x, way) == IF Last(way) \in Cells THEN Append(way, x.mem[Last(way)].hi) ELSE way
ListWay(x, n) ==
    LET way[k \in 0 .. MaxChunks] == IF k = 0 THEN <<n>> ELSE ListStep(x, way[k - 1])
    IN  way[MaxChunks]

\* The chunk has the size asked for, or can be split.
Suits(x, n, bytes) ==
    alloc_get_size(x, n) = bytes \/ alloc_get_size(x, n) > bytes + DESC

\* The first chunk of the free list that is large enough, or NULL.
FirstFit(x, bytes) ==
    LET way == ListWay(x, x.free_list)
        Stops(k) == way[k] = NULL \/ Suits(x, way[k], bytes)
    IN  way[CHOOSE k \in DOMAIN way : Stops(k) /\ \A j \in 1 .. k - 1 : ~Stops(j)]

\* Split the free chunk n: its first bytes are used, the rest takes its place
\* in the free list.
Split(x, n, bytes) ==
    LET rest == WithFree(x.mem[alloc_get_desc(n)].hi - bytes - DESC)
        node == n + bytes + DESC
        tagged == SetHi(SetLo(Put(x, alloc_get_desc(node), bytes, rest),
                              alloc_get_next_desc(x, n), rest),
                        alloc_get_desc(n), bytes)
        copied == Put(tagged, node, x.mem[n].lo, x.mem[n].hi)
    IN  PointBack(PointForward(copied, x.mem[n].lo, node), x.mem[n].hi, node)

TakeChunk(x, n, bytes) ==
    IF alloc_get_size(x, n) = bytes THEN alloc_clear_free(alloc_node_unlink(x, n), n)
    ELSE Split(x, n, bytes)

\* Unused bytes before an aligned chunk.
Gap(x, alignment) == align(x.end, alignment) - x.end

\* Mutant: the chunk behind the gap is not told that the gap is free.
GapUntold(x, alignment) ==
    LET gap == Gap(x, alignment)
        tagged == SetLo(SetHi(x, alloc_get_desc(x.end), WithFree(gap - DESC)),
                        x.end + gap - DESC, gap - DESC)
    IN  IF gap = 0 THEN x ELSE SetEnd(alloc_node_add(tagged, x.end), x.end + gap)

\* The gap becomes a free chunk.
PushGap(x, alignment) ==
    LET gap == Gap(x, alignment)
        tagged == SetSize(x, x.end, WithFree(gap - DESC))
    IN  IF gap = 0 THEN x ELSE SetEnd(alloc_node_add(tagged, x.end), x.end + gap)

\* The descriptors of the new last chunk, at vma.
NewChunk(x, vma, bytes) ==
    Put(SetHi(x, alloc_get_desc(vma), bytes), vma + bytes, bytes, 0)

\* Mutant: the end is moved after the pages are mapped.
ExtendLate(x, bytes, src) ==
    LET new == x.end + bytes + DESC
    IN  NewChunk(SetEnd(MapPages(x, align(x.end, PAGE_SIZE), new, src), new), x.end, bytes)

\* extend_heap: the end is moved before get_page_pma is called.
Extend(x, bytes, src) ==
    LET new == x.end + bytes + DESC
    IN  NewChunk(MapPages(SetEnd(x, new), align(x.end, PAGE_SIZE), new, src), x.end, bytes)

\* Mutant: sizes are rounded down.
RoundedDown(bytes) == IF bytes < 8 THEN KM_MIN_ALLOC_SIZE ELSE NoFlags(bytes)

\* The bytes a chunk is made of: a multiple of KM_MIN_ALLOC_SIZE, never 0.
Rounded(bytes) == IF bytes = 0 THEN KM_MIN_ALLOC_SIZE ELSE align(bytes, KM_MIN_ALLOC_SIZE)

\* Where alloc finds its chunk: in the free list (not for other alignments),
\* else NULL.
Found(x, alignment, bytes) ==
    IF alignment # KM_MIN_ALLOC_SIZE THEN NULL ELSE FirstFit(x, bytes)

\* alloc stops the system when the gap cannot hold a chunk.
Dies(x, alignment, asked) ==
    /\ Found(x, alignment, Rounded(asked)) = NULL
    /\ Gap(x, alignment) \in 1 .. DESC

\* alloc: the state after it and the address it returns.
alloc(x, src, alignment, asked) ==
    LET bytes == Rounded(asked)
        n == Found(x, alignment, bytes)
    IN  IF n # NULL THEN [h |-> TakeChunk(x, n, bytes), vma |-> n]
        ELSE [h |-> Extend(PushGap(x, alignment), bytes, src),
              vma |-> x.end + Gap(x, alignment)]

kmalloc(x, asked) == alloc(x, "page_new", KM_MIN_ALLOC_SIZE, asked)

-----------------------------------------------------------------------------
(* page_free, and free where it may shrink the heap.                       *)

\* The node got is put in front of the page list, which is read only now.
ListPage(got, pma) ==
    [got.h EXCEPT !.mem[got.vma] = [lo |-> pma, hi |-> got.h.page_free_list],
                  !.page_free_list = got.vma]

\* page_unmap of a page of the heap: its entry keeps the pma, not Present.
Unmapped(got, page) ==
    [ListPage(got, got.h.pte[page].pma) EXCEPT !.pte[page].present = FALSE]

\* page_free of a page outside the heap that maps pma, and of one of its own:
\* the node is allocated first.
PushPage(x, pma) == ListPage(kmalloc(x, 8), pma)
page_free(x, page) == Unmapped(kmalloc(x, 8), page)

\* The page the heap ends in; the loop goes from there down to vma.
EndPage(x) == x.end - (x.end % PAGE_SIZE)
FreePages(x, vma) ==
    LET page == EndPage(x)
        n == IF page < vma THEN 0 ELSE (page - vma) \div PAGE_SIZE + 1
        after[k \in 0 .. n] ==
            IF k = 0 THEN x ELSE page_free(after[k - 1], page - (k - 1) * PAGE_SIZE)
    IN  after[n]

Leave(x, vma) ==
    IF AtHeapEnd(x, vma) THEN SetEnd(FreePages(x, vma), vma) ELSE AddFree(x, vma)

free(x, vma) ==
    LET y == MergeNext(x, vma) IN Leave(MergePrev(y, vma), MergedAt(y, vma))

\* free(x, vma) gives pages of the heap up.
GivesPages(x, vma) ==
    LET y == MergeNext(x, vma)
        z == MergePrev(y, vma)
    IN  AtHeapEnd(z, MergedAt(y, vma)) /\ MergedAt(y, vma) <= EndPage(z)

\* page_new as the rest of the kernel calls it.
page_new(x) ==
    LET got == TakePage(x)
    IN  [h |-> IF got.node = NULL THEN got.h ELSE free(got.h, got.node),
         pma |-> got.pma]

-----------------------------------------------------------------------------
(* The kernel's use of the heap.                                           *)

InitialHeap ==
    [mem |-> [a \in Cells |-> [lo |-> Junk, hi |-> Junk]],
     free_list |-> NULL, end |-> HEAP_START, page_free_list |-> NULL,
     heap_end_pma |-> FREE_START,
     pte |-> [p \in Pages |-> [pma |-> 0, present |-> FALSE]],
     first_run |-> TRUE, nested |-> FALSE]

Init ==
    /\ h = InitialHeap
    /\ phase = "kmalloc_init" /\ done = 0
    /\ live = <<>> /\ taken = {}

\* The words a caller keeps in the block at vma.
Payload(vma) == [lo |-> 0 - vma, hi |-> 0 - vma]

\* The caller gets the block x.vma and writes all of it.
Granted(x, asked) ==
    /\ h' = [x.h EXCEPT !.mem = [a \in Cells |-> IF x.vma <= a /\ a < x.vma + asked
                                                THEN Payload(x.vma) ELSE @[a]]]
    /\ live' = [v \in DOMAIN live \cup {x.vma} |->
                    IF v = x.vma THEN asked ELSE live[v]]

\* alloc as the kernel calls it.  It may stop the system.
Call(src, alignment, asked, next, n) ==
    IF Dies(h, alignment, asked)
    THEN phase' = "dead" /\ UNCHANGED <<h, done, live>>
    ELSE phase' = next /\ done' = n /\ Granted(alloc(h, src, alignment, asked), asked)

\* Bound: no call makes the heap reach HEAP_BOUND.
Room(alignment, asked) ==
    h.end + Gap(h, alignment) + Rounded(asked) + DESC < HEAP_BOUND

\* kmalloc_init, alloc_new_heap: the heap's first page is not mapped yet, and
\* only half of the first descriptor is written.
KmallocInit ==
    /\ phase = "kmalloc_init" /\ phase' = "free"
    /\ h' = [MapPage(PageNewInside(h), HEAP_START) EXCEPT
                !.mem[HEAP_START].lo = 0, !.end = HEAP_START + DESC]
    /\ UNCHANGED <<done, live, taken>>

\* page_init_cleanup: page_free of the next page of the init section.
CleanupFree ==
    /\ phase = "free" /\ done < Len(InitPages)
    /\ Room(KM_MIN_ALLOC_SIZE, 8)
    /\ h' = PushPage(h, InitPages[done + 1])
    /\ done' = done + 1
    /\ UNCHANGED <<phase, live, taken>>

\* Mutant: one table too many.
CleanupTableOver ==
    /\ phase = "free" /\ done \in Len(InitPages) .. Len(InitPages) + InitTables
    /\ Room(PAGE_SIZE, PAGE_SIZE)
    /\ Call("page_new", PAGE_SIZE, PAGE_SIZE, "free", done + 1)
    /\ UNCHANGED taken

\* page_init_cleanup: kalloc of the next kernel page table.
CleanupTable ==
    /\ phase = "free" /\ done \in Len(InitPages) .. Len(InitPages) + InitTables - 1
    /\ Room(PAGE_SIZE, PAGE_SIZE)
    /\ Call("page_new", PAGE_SIZE, PAGE_SIZE, "free", done + 1)
    /\ UNCHANGED taken

\* Mutant: the kernel goes on without page tables and APIC.
LapicSkipped == phase = "free" /\ phase' = "run" /\ UNCHANGED <<h, done, live, taken>>

\* apic_init: the APIC's registers get a page of the heap.
LapicMap ==
    /\ phase = "free" /\ done = Len(InitPages) + InitTables
    /\ Room(PAGE_SIZE, PAGE_SIZE)
    /\ Call("lvt", PAGE_SIZE, PAGE_SIZE, "run", done)
    /\ UNCHANGED taken

Kmalloc ==
    /\ phase = "run" /\ "kmalloc" \in Calls
    /\ Cardinality(DOMAIN live) < MaxLive
    /\ \E asked \in Sizes : /\ Room(KM_MIN_ALLOC_SIZE, asked)
                            /\ Call("page_new", KM_MIN_ALLOC_SIZE, asked, "run", done)
    /\ UNCHANGED taken

\* kalloc(PAGE_GET_DEFAULT, PAGE_SIZE, PAGE_SIZE)
Kalloc ==
    /\ phase = "run" /\ "kalloc" \in Calls
    /\ Cardinality(DOMAIN live) < MaxLive
    /\ Room(PAGE_SIZE, PAGE_SIZE)
    /\ Call("page_new", PAGE_SIZE, PAGE_SIZE, "run", done)
    /\ UNCHANGED taken

\* proc_register calls page_new for the user stack itself: here free may
\* shrink the heap.
PageNew ==
    /\ phase = "run" /\ "page_new" \in Calls
    /\ Cardinality(taken) < MaxLive
    /\ ~MayShrink /\ h.page_free_list # NULL =>
        ~GivesPages(TakePage(h).h, h.page_free_list)
    /\ LET got == page_new(h) IN h' = got.h /\ taken' = taken \cup {got.pma}
    /\ UNCHANGED <<phase, done, live>>

\* The block at vma with nothing of its owner left in it.
Scrubbed(vma) ==
    [h EXCEPT !.mem = [a \in Cells |-> IF @[a] = Payload(vma)
                                       THEN [lo |-> Junk, hi |-> Junk] ELSE @[a]]]

\* kfree of a block that kmalloc returned.
Kfree ==
    /\ phase = "run" /\ "kfree" \in Calls
    /\ \E vma \in DOMAIN live :
        /\ live[vma] \in Sizes
        /\ ~MayShrink => ~GivesPages(Scrubbed(vma), vma)
        /\ h' = free(Scrubbed(vma), vma)
        /\ live' = [v \in DOMAIN live \ {vma} |-> live[v]]
    /\ UNCHANGED <<phase, done, taken>>

Next == KmallocInit \/ CleanupFree \/ CleanupTable \/ LapicMap
        \/ Kmalloc \/ Kalloc \/ PageNew \/ Kfree

Spec == Init /\ [][Next]_vars

-----------------------------------------------------------------------------
(* Properties.                                                             *)

TypeOK ==
    /\ h \in [mem : [Cells -> [lo : Int, hi : Int]],
              free_list : Cells \cup {NULL}, end : HEAP_START .. HEAP_LIMIT,
              page_free_list : Cells \cup {NULL}, heap_end_pma : Nat,
              pte : [Pages -> [pma : Nat, present : BOOLEAN]],
              first_run : BOOLEAN, nested : BOOLEAN]
    /\ phase \in {"kmalloc_init", "free", "run", "dead"}
    /\ done \in 0 .. Len(InitPages) + InitTables
    /\ live \in [DOMAIN live -> Nat] /\ DOMAIN live \subseteq Cells
    /\ taken \subseteq Nat

\* The chunks as their sizes lead from the first one on: to the end of the
\* heap, or astray.
ChunkStep(x, way) ==
    LET n == Last(way)
    IN  IF n \in Cells /\ n < x.end /\ alloc_get_size(x, n) > 0
        THEN Append(way, n + alloc_get_size(x, n) + DESC) ELSE way
ChunkWay(x) ==
    LET way[k \in 0 .. MaxChunks] ==
            IF k = 0 THEN <<HEAP_START + DESC>> ELSE ChunkStep(x, way[k - 1])
    IN  way[MaxChunks]

\* What lies on the way before its end.
Passed(way) == {way[k] : k \in 1 .. Len(way) - 1}

Chunks == IF phase = "kmalloc_init" THEN {} ELSE Passed(ChunkWay(h))
FreeChunks == {n \in Chunks : IsFree(h.mem[alloc_get_desc(n)].hi)}
PageNodes == Passed(ListWay(h, h.page_free_list))

\* alloc and free keep the heap tiled: following the sizes from the first
\* chunk leads exactly to ctxt->end, every chunk's size and free flag agree
\* with the copy in the next descriptor, and the chunks in use are exactly
\* the blocks handed out and the nodes of the page list.
HeapTiled ==
    /\ phase # "kmalloc_init" => Last(ChunkWay(h)) = h.end
    /\ \A n \in Chunks :
        /\ alloc_get_size_prev(h, n + alloc_get_size(h, n) + DESC) = alloc_get_size(h, n)
        /\ IsFree(h.mem[alloc_get_next_desc(h, n)].lo)
            <=> IsFree(h.mem[alloc_get_desc(n)].hi)
    /\ Chunks \ FreeChunks = DOMAIN live \cup PageNodes
    /\ \A v \in DOMAIN live : alloc_get_size(h, v) >= live[v]

\* The free list ends, links exactly the chunks that are flagged free, and its
\* back pointers are right: alloc never finds a chunk in use, and none is lost.
FreeListExact ==
    LET way == ListWay(h, h.free_list)
    IN  /\ Last(way) = NULL /\ Passed(way) = FreeChunks
        /\ \A n \in FreeChunks :
            /\ h.mem[n].hi # NULL => h.mem[h.mem[n].hi].lo = n
            /\ h.mem[n].lo = NULL <=> n = h.free_list

\* What a caller wrote into its block is never overwritten by descriptors,
\* free list nodes, page list nodes or another block.
PayloadKept ==
    \A v \in DOMAIN live : \A a \in Cells :
        v <= a /\ a < v + live[v] => h.mem[a] = Payload(v)

\* free merges with both neighbours: no two free chunks are adjacent.
Coalesced ==
    \A n \in FreeChunks : n + alloc_get_size(h, n) + DESC \notin FreeChunks

\* Every byte of the heap lies on a page that is present.
HeapMapped ==
    \A p \in Pages : p < h.end => h.pte[p].present

\* Every physical page the kernel knows of has exactly one place: one node of
\* the page list, one present page of the heap, or a caller of page_new.  None
\* is lost and none is handed out twice by page_new.
PagesPartitioned ==
    LET mapped == {p \in Pages : h.pte[p].present}
        listed == {h.mem[n].lo : n \in PageNodes}
        inHeap == {h.pte[p].pma : p \in mapped}
        freed == IF done < Len(InitPages) THEN done ELSE Len(InitPages)
        known == {InitPages[k] : k \in 1 .. freed} \cup FREE_START .. h.heap_end_pma - 1
    IN  /\ Last(ListWay(h, h.page_free_list)) = NULL
        /\ \A m, n \in PageNodes : h.mem[m].lo = h.mem[n].lo => m = n
        /\ \A p, q \in mapped : h.pte[p].pma = h.pte[q].pma => p = q
        /\ listed \cap inHeap = {} /\ (listed \cup inHeap) \cap taken = {}
        /\ listed \cup inHeap \cup taken = known \cup (IF h.first_run THEN {} ELSE {LAPIC_PMA})

\* The call of kfree that page_new makes while alloc extends the heap never
\* finds its chunk at the end of the heap: alloc is not entered a second time.
NoNestedAlloc == ~h.nested

\* No call of free gives pages of the heap up (alloc.c, free: "Free as many
\* pages as necessary").  It must not as long as PageListMapped fails when it
\* does, and in the kernel as it boots it never does, because the last chunk is
\* never a node of the page list when page_new frees one.
Keeps ==
    /\ PageNew /\ h.page_free_list # NULL =>
        ~GivesPages(TakePage(h).h, h.page_free_list)
    /\ Kfree => \A vma \in DOMAIN live \ DOMAIN live' : ~GivesPages(Scrubbed(vma), vma)
PagesKept == [][Keeps]_vars

\* "Unmap page and add its PMA to the free list" (page.c, page_free): a node of
\* the page list lies inside the heap, on a page that is present.  The nodes
\* that free's own page_free calls allocate lie behind the block being freed,
\* on the pages it unmaps and past the end it then sets.
PageListMapped ==
    \A n \in PageNodes :
        n \in Cells /\ n < h.end /\ h.pte[n - (n % PAGE_SIZE)].present

=============================================================================
