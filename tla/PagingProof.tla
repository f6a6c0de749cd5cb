---------------------------- MODULE PagingProof ----------------------------
(***************************************************************************)
(* What the operations of init.c and page.c do to the address space, for   *)
(* every size of page tables and every image that fits.                    *)
(***************************************************************************)
EXTENDS BootInv, FiniteSetTheorems, SequenceTheorems, TLAPS

\* A product of naturals, as the provers need it.
LEMMA Product ==
    ASSUME NEW a \in Nat, NEW b \in Nat, NEW n \in Nat
    PROVE  a * n \in Nat /\ (a <= b => a * n <= b * n) /\ (a + 1) * n = a * n + n
OBVIOUS

\* The parts of a page number.
LEMMA Split ==
    ASSUME NEW v \in Nat
    PROVE  /\ page_get_dir_idx(v) \in Nat /\ page_get_table_idx(v) \in Indexes
           /\ v = page_get_dir_idx(v) * PAGE_ENTRIES + page_get_table_idx(v)
<1>1. PAGE_ENTRIES \in Nat /\ PAGE_ENTRIES > 0
  BY PagingAssumption
<1>2. v \div PAGE_ENTRIES \in Nat /\ v % PAGE_ENTRIES \in 0 .. PAGE_ENTRIES - 1
  BY <1>1
<1>3. v = (v \div PAGE_ENTRIES) * PAGE_ENTRIES + (v % PAGE_ENTRIES)
  BY <1>1
<1> QED
  BY <1>2, <1>3 DEF page_get_dir_idx, page_get_table_idx, Indexes

\* Pages below a table boundary have smaller directory indexes.
LEMMA DirBelow ==
    ASSUME NEW v \in Nat, NEW i \in Nat
    PROVE  v < i * PAGE_ENTRIES <=> page_get_dir_idx(v) < i
<1>1. PAGE_ENTRIES \in Nat /\ PAGE_ENTRIES > 0
  BY PagingAssumption
<1> DEFINE d == page_get_dir_idx(v)
           t == page_get_table_idx(v)
<1>2. d \in Nat /\ t \in 0 .. PAGE_ENTRIES - 1 /\ v = d * PAGE_ENTRIES + t
  BY Split DEF Indexes
<1> HIDE DEF d, t
<1>3. ASSUME d < i PROVE v < i * PAGE_ENTRIES
  <2>1. (d + 1) * PAGE_ENTRIES <= i * PAGE_ENTRIES
    BY <1>1, <1>2, <1>3, Product
  <2>2. (d + 1) * PAGE_ENTRIES = d * PAGE_ENTRIES + PAGE_ENTRIES
    BY <1>1, <1>2
  <2>3. d * PAGE_ENTRIES \in Nat /\ i * PAGE_ENTRIES \in Nat
    BY <1>1, <1>2, Product
  <2> QED
    BY <1>1, <1>2, <2>1, <2>2, <2>3
<1>4. ASSUME i <= d PROVE v >= i * PAGE_ENTRIES
  <2>1. i * PAGE_ENTRIES <= d * PAGE_ENTRIES
    BY <1>1, <1>2, <1>4, Product
  <2>2. d * PAGE_ENTRIES \in Nat /\ i * PAGE_ENTRIES \in Nat
    BY <1>1, <1>2, Product
  <2> QED
    BY <1>1, <1>2, <2>1, <2>2
<1>5. i * PAGE_ENTRIES \in Nat
  BY <1>1, Product
<1>6. v < i * PAGE_ENTRIES <=> d < i
  BY <1>2, <1>3, <1>4, <1>5
<1> QED
  BY <1>6 DEF d

\* Pages.
LEMMA PageParts ==
    ASSUME NEW v \in Pages
    PROVE  v \in Nat /\ page_get_dir_idx(v) \in Indexes /\ page_get_table_idx(v) \in Indexes
<1>1. PAGE_ENTRIES \in Nat /\ PAGE_ENTRIES > 0
  BY PagingAssumption
<1>2. v \in Nat /\ v < PAGE_ENTRIES * PAGE_ENTRIES
  <2>1. PAGE_ENTRIES * PAGE_ENTRIES \in Nat
    BY <1>1, Product
  <2> QED
    BY <2>1 DEF Pages
<1> QED
  BY <1>1, <1>2, Split, DirBelow DEF Indexes

\* A page is known by its parts.
LEMMA SamePage ==
    ASSUME NEW u \in Nat, NEW v \in Nat, page_get_dir_idx(u) = page_get_dir_idx(v),
           page_get_table_idx(u) = page_get_table_idx(v)
    PROVE  u = v
BY Split

\* The constants of the layout.
LEMMA Constants ==
    /\ PAGE_ENTRIES \in Nat /\ PAGE_ENTRIES >= 2 /\ KERNEL_DIR \in Indexes /\ KERNEL_DIR >= 1
    /\ INIT_START \in Nat /\ INIT_START > 0 /\ VGA_PAGES \in Nat /\ VGA_PAGES > 0
    /\ VGA_PADDR_BUFFER \in Nat /\ LAPIC_BASE \in Nat /\ VGA_PADDR_BUFFER + VGA_PAGES <= INIT_START
    /\ PROC_TABLE_PAGES \in Nat /\ NPROC \in Nat
    /\ KERNEL_START_VMA \in Nat /\ STACK_VMA \in Nat /\ STACK_VMA \in Pages
    /\ KERNEL_START_VMA >= PAGE_ENTRIES /\ KERNEL_START_VMA + PAGE_ENTRIES <= STACK_VMA + 1
    /\ Pages = 0 .. STACK_VMA
    /\ USER_DIR = KERNEL_DIR - 1 /\ USER_DIR \in Indexes /\ USER_STACK \in Pages
    /\ USER_STACK = KERNEL_START_VMA - 1
    /\ page_get_dir_idx(USER_STACK) = USER_DIR
    /\ page_get_dir_idx(KERNEL_START_VMA) = KERNEL_DIR
    /\ page_get_dir_idx(STACK_VMA) = PAGE_ENTRIES - 1
<1>1. /\ PAGE_ENTRIES \in Nat /\ PAGE_ENTRIES >= 2 /\ KERNEL_DIR \in 1 .. PAGE_ENTRIES - 1
      /\ INIT_START \in Nat /\ INIT_START > 0 /\ VGA_PAGES \in Nat /\ VGA_PAGES > 0
      /\ VGA_PADDR_BUFFER \in Nat /\ LAPIC_BASE \in Nat /\ VGA_PADDR_BUFFER + VGA_PAGES <= INIT_START
      /\ PROC_TABLE_PAGES \in Nat /\ NPROC \in Nat
  BY PagingAssumption, BootAssumption
<1>2. /\ KERNEL_DIR * PAGE_ENTRIES \in Nat /\ PAGE_ENTRIES * PAGE_ENTRIES \in Nat
      /\ 1 * PAGE_ENTRIES <= KERNEL_DIR * PAGE_ENTRIES
      /\ (KERNEL_DIR + 1) * PAGE_ENTRIES <= PAGE_ENTRIES * PAGE_ENTRIES
      /\ (KERNEL_DIR + 1) * PAGE_ENTRIES = KERNEL_DIR * PAGE_ENTRIES + PAGE_ENTRIES
      /\ KERNEL_DIR * PAGE_ENTRIES = (KERNEL_DIR - 1) * PAGE_ENTRIES + PAGE_ENTRIES
      /\ PAGE_ENTRIES * PAGE_ENTRIES = (PAGE_ENTRIES - 1) * PAGE_ENTRIES + PAGE_ENTRIES
      /\ (KERNEL_DIR - 1) * PAGE_ENTRIES \in Nat /\ (PAGE_ENTRIES - 1) * PAGE_ENTRIES \in Nat
  <2>1. KERNEL_DIR \in Nat /\ KERNEL_DIR - 1 \in Nat /\ PAGE_ENTRIES - 1 \in Nat /\ KERNEL_DIR + 1 \in Nat
    BY <1>1
  <2>2. (KERNEL_DIR - 1) + 1 = KERNEL_DIR /\ (PAGE_ENTRIES - 1) + 1 = PAGE_ENTRIES
    BY <1>1
  <2>3. 1 <= KERNEL_DIR /\ KERNEL_DIR + 1 <= PAGE_ENTRIES
    BY <1>1
  <2>4. /\ KERNEL_DIR * PAGE_ENTRIES = (KERNEL_DIR - 1) * PAGE_ENTRIES + PAGE_ENTRIES
        /\ PAGE_ENTRIES * PAGE_ENTRIES = (PAGE_ENTRIES - 1) * PAGE_ENTRIES + PAGE_ENTRIES
    BY <1>1, <2>1, <2>2, Product
  <2> QED
    BY <1>1, <2>1, <2>3, <2>4, Product
<1>3. page_get_dir_idx(KERNEL_START_VMA) = KERNEL_DIR
  <2>1. KERNEL_START_VMA < (KERNEL_DIR + 1) * PAGE_ENTRIES /\ ~(KERNEL_START_VMA < KERNEL_DIR * PAGE_ENTRIES)
    BY <1>1, <1>2 DEF KERNEL_START_VMA
  <2>2. KERNEL_START_VMA \in Nat /\ KERNEL_DIR \in Nat /\ KERNEL_DIR + 1 \in Nat
    BY <1>1, <1>2 DEF KERNEL_START_VMA
  <2> QED
    BY <2>1, <2>2, DirBelow, Split
<1>4. page_get_dir_idx(USER_STACK) = KERNEL_DIR - 1 /\ USER_STACK = KERNEL_START_VMA - 1
  <2>1. USER_STACK < KERNEL_DIR * PAGE_ENTRIES /\ ~(USER_STACK < (KERNEL_DIR - 1) * PAGE_ENTRIES)
    BY <1>1, <1>2 DEF KERNEL_START_VMA, USER_STACK
  <2>2. USER_STACK \in Nat /\ KERNEL_DIR \in Nat /\ KERNEL_DIR - 1 \in Nat
    BY <1>1, <1>2 DEF KERNEL_START_VMA, USER_STACK
  <2> QED
    BY <2>1, <2>2, DirBelow, Split DEF USER_STACK
<1>5. page_get_dir_idx(STACK_VMA) = PAGE_ENTRIES - 1
  <2>1. STACK_VMA < PAGE_ENTRIES * PAGE_ENTRIES /\ ~(STACK_VMA < (PAGE_ENTRIES - 1) * PAGE_ENTRIES)
    BY <1>1, <1>2 DEF STACK_VMA
  <2>2. STACK_VMA \in Nat /\ PAGE_ENTRIES - 1 \in Nat
    BY <1>1, <1>2 DEF STACK_VMA
  <2> QED
    BY <1>1, <2>1, <2>2, DirBelow, Split
<1> QED
  BY <1>1, <1>2, <1>3, <1>4, <1>5 DEF KERNEL_START_VMA, STACK_VMA, Pages, Indexes, USER_DIR

\* Those of them that are numbers.
LEMMA Numbers ==
    /\ PAGE_ENTRIES \in Nat /\ PAGE_ENTRIES >= 2 /\ KERNEL_DIR \in Nat /\ KERNEL_DIR >= 1
    /\ KERNEL_DIR < PAGE_ENTRIES /\ INIT_START \in Nat /\ INIT_START > 0
    /\ VGA_PAGES \in Nat /\ VGA_PAGES > 0
    /\ PROC_TABLE_PAGES \in Nat /\ NPROC \in Nat /\ LAPIC_BASE \in Nat
    /\ VGA_PADDR_BUFFER \in Nat /\ VGA_PADDR_BUFFER + VGA_PAGES <= INIT_START
    /\ KERNEL_START_VMA \in Nat /\ STACK_VMA \in Nat
    /\ KERNEL_START_VMA >= PAGE_ENTRIES /\ KERNEL_START_VMA + PAGE_ENTRIES <= STACK_VMA + 1
BY Constants DEF Indexes

\* The page numbers.
LEMMA PageRange == \A v : v \in Pages <=> v \in Nat /\ v <= STACK_VMA
<1>1. Pages = 0 .. STACK_VMA /\ STACK_VMA \in Nat
  BY Constants
<1> QED
  BY <1>1

\* The addresses of an image that fits.
LEMMA ImageFacts ==
    ASSUME NEW g \in Images
    PROVE  /\ INIT_STRUCT(g) \in Nat /\ INIT_BSS_END(g) \in Nat /\ RODATA_END_VMA(g) \in Nat
           /\ BSS_END_VMA(g) \in Nat /\ HeapStart(g) \in Nat /\ kernel_end_pma(g) \in Nat
           /\ INIT_START <= INIT_STRUCT(g) /\ INIT_STRUCT(g) + 3 <= INIT_BSS_END(g)
           /\ INIT_BSS_END(g) <= KERNEL_START_VMA - PAGE_ENTRIES
           /\ KERNEL_START_VMA < RODATA_END_VMA(g) /\ RODATA_END_VMA(g) < BSS_END_VMA(g)
           /\ HeapStart(g) = BSS_END_VMA(g) + 2 + VGA_PAGES
           /\ kernel_end_pma(g) = INIT_BSS_END(g) + (BSS_END_VMA(g) - KERNEL_START_VMA)
           /\ BootTables(g) \in Nat /\ BootTables(g) >= 3
           /\ HeapStart(g) + BootTables(g) + 4 <= KERNEL_START_VMA + PAGE_ENTRIES
           /\ HeapSize(g) \in Nat
           /\ HeapSize(g) = BootTables(g) + 2 + 2 * (PAGE_ENTRIES - KERNEL_DIR) + 2
                            + PROC_TABLE_PAGES + 2 + 2 * NPROC
           /\ HeapStart(g) + HeapSize(g) <= STACK_VMA
           /\ kernel_end_pma(g) + HeapSize(g) + NPROC < LAPIC_BASE
<1>1. g.before \in Nat /\ g.after \in Nat /\ g.ro \in Nat /\ g.ro > 0 /\ g.rw \in Nat /\ g.rw > 0
  BY PagingAssumption
<1>2. Fits(g)
  BY FitsAssumption
<1>3. /\ INIT_STRUCT(g) \in Nat /\ INIT_BSS_END(g) \in Nat /\ RODATA_END_VMA(g) \in Nat
      /\ BSS_END_VMA(g) \in Nat /\ HeapStart(g) \in Nat /\ kernel_end_pma(g) \in Nat
      /\ INIT_START <= INIT_STRUCT(g) /\ INIT_STRUCT(g) + 3 <= INIT_BSS_END(g)
      /\ KERNEL_START_VMA < RODATA_END_VMA(g) /\ RODATA_END_VMA(g) < BSS_END_VMA(g)
      /\ HeapStart(g) = BSS_END_VMA(g) + 2 + VGA_PAGES
      /\ kernel_end_pma(g) = INIT_BSS_END(g) + (BSS_END_VMA(g) - KERNEL_START_VMA)
  BY <1>1, Numbers DEF INIT_STRUCT, INIT_BSS_END, RODATA_END_VMA, BSS_END_VMA, kernel_end_pma,
     HeapStart
<1>4. BootTables(g) \in Nat /\ BootTables(g) >= 3
  <2> DEFINE a == page_get_dir_idx(INIT_START)
             b == page_get_dir_idx(INIT_BSS_END(g) - 1)
  <2>1. INIT_BSS_END(g) - 1 \in Nat /\ INIT_START <= INIT_BSS_END(g) - 1
    BY <1>3, Numbers
  <2>2. a \in Nat /\ b \in Nat
    BY <2>1, Split, Numbers
  <2>3. ~(INIT_START < a * PAGE_ENTRIES)
    BY <2>2, DirBelow, Numbers
  <2>4. ~(INIT_BSS_END(g) - 1 < a * PAGE_ENTRIES)
    <3>1. a * PAGE_ENTRIES \in Nat
      BY <2>2, Product, Numbers
    <3> HIDE DEF a
    <3> QED
      BY <2>1, <2>3, <3>1, Numbers
  <2>5. ~(b < a)
    BY <2>1, <2>2, <2>4, DirBelow
  <2> QED
    BY <2>2, <2>5 DEF BootTables
<1>5. /\ HeapSize(g) \in Nat
      /\ HeapSize(g) = BootTables(g) + 2 + 2 * (PAGE_ENTRIES - KERNEL_DIR) + 2
                            + PROC_TABLE_PAGES + 2 + 2 * NPROC
  BY <1>4, Numbers DEF HeapSize
<1> QED
  BY <1>2, <1>3, <1>4, <1>5 DEF Fits

\* Where the parts of the address space lie.
LEMMA Regions ==
    ASSUME NEW g \in Images
    PROVE  /\ InitOf(g) \subseteq Pages /\ StructOf(g) \subseteq InitOf(g)
           /\ \A v \in InitOf(g) : v < KERNEL_START_VMA /\ page_get_dir_idx(v) < USER_DIR
           /\ \A v \in Nat : v >= KERNEL_START_VMA => page_get_dir_idx(v) >= KERNEL_DIR
           /\ StaticOf(g) = (KERNEL_START_VMA .. HeapStart(g) - 1) \cup {STACK_VMA}
           /\ StaticOf(g) \subseteq Pages
<1>0. /\ INIT_STRUCT(g) \in Nat /\ INIT_BSS_END(g) \in Nat
      /\ BSS_END_VMA(g) \in Nat /\ HeapStart(g) \in Nat
      /\ INIT_START <= INIT_STRUCT(g) /\ INIT_STRUCT(g) + 3 <= INIT_BSS_END(g)
      /\ INIT_BSS_END(g) <= KERNEL_START_VMA - PAGE_ENTRIES
      /\ KERNEL_START_VMA < BSS_END_VMA(g) /\ HeapStart(g) = BSS_END_VMA(g) + 2 + VGA_PAGES
      /\ HeapStart(g) + 4 <= KERNEL_START_VMA + PAGE_ENTRIES
  BY ImageFacts, Numbers
<1>1. \A v \in InitOf(g) : v \in Nat /\ v < KERNEL_START_VMA - PAGE_ENTRIES /\ v \in Pages
  BY <1>0, Numbers, PageRange DEF InitOf
<1>2. StructOf(g) \subseteq InitOf(g)
  BY <1>0, Numbers DEF InitOf, StructOf
<1>3. KERNEL_START_VMA - PAGE_ENTRIES = USER_DIR * PAGE_ENTRIES
  <2>1. KERNEL_DIR - 1 \in Nat /\ (KERNEL_DIR - 1) + 1 = KERNEL_DIR
    BY Constants DEF Indexes
  <2>2. KERNEL_DIR * PAGE_ENTRIES = (KERNEL_DIR - 1) * PAGE_ENTRIES + PAGE_ENTRIES
        /\ (KERNEL_DIR - 1) * PAGE_ENTRIES \in Nat
    BY <2>1, Product, Numbers
  <2> QED
    BY <2>2, Numbers, Constants DEF KERNEL_START_VMA
<1>4. \A v \in InitOf(g) : v < KERNEL_START_VMA /\ page_get_dir_idx(v) < USER_DIR
  <2> SUFFICES ASSUME NEW v \in InitOf(g)
               PROVE  v < KERNEL_START_VMA /\ page_get_dir_idx(v) < USER_DIR
    OBVIOUS
  <2>1. v \in Nat /\ v < USER_DIR * PAGE_ENTRIES /\ v < KERNEL_START_VMA /\ USER_DIR \in Nat
    BY <1>1, <1>3, Constants DEF Indexes
  <2> QED
    BY <2>1, DirBelow
<1>5. ASSUME NEW v \in Nat, v >= KERNEL_START_VMA PROVE page_get_dir_idx(v) >= KERNEL_DIR
  <2>1. KERNEL_DIR \in Nat /\ ~(v < KERNEL_DIR * PAGE_ENTRIES)
    BY <1>5, Constants DEF KERNEL_START_VMA, Indexes
  <2> QED
    BY <2>1, DirBelow, Split
<1>6. StaticOf(g) = (KERNEL_START_VMA .. HeapStart(g) - 1) \cup {STACK_VMA}
  <2>1. StaticOf(g) = (KERNEL_START_VMA .. BSS_END_VMA(g) - 1)
                      \cup {BSS_END_VMA(g), BSS_END_VMA(g) + 1, STACK_VMA}
                      \cup {BSS_END_VMA(g) + 2 + j : j \in 0 .. VGA_PAGES - 1}
    <3> DEFINE A == {Fixed(v, INIT_BSS_END(g) + v - KERNEL_START_VMA,
                           IF v < RODATA_END_VMA(g) THEN UserRead ELSE User) :
                        v \in KERNEL_START_VMA .. BSS_END_VMA(g) - 1}
               B == {Fixed(BSS_END_VMA(g), INIT_STRUCT(g), Kernel),
                     Fixed(BSS_END_VMA(g) + 1, INIT_STRUCT(g) + 1, Kernel),
                     Fixed(STACK_VMA, INIT_STRUCT(g) + 2, Kernel)}
               C == {Fixed(BSS_END_VMA(g) + 2 + j, VGA_PADDR_BUFFER + j, User) :
                        j \in 0 .. VGA_PAGES - 1}
    <3>1. \A v, f, e : Fixed(v, f, e).vma = v
      BY DEF Fixed
    <3>2. \A v \in KERNEL_START_VMA .. BSS_END_VMA(g) - 1 : \E r \in A : r.vma = v
      <4> SUFFICES ASSUME NEW v \in KERNEL_START_VMA .. BSS_END_VMA(g) - 1 PROVE \E r \in A : r.vma = v
        OBVIOUS
      <4> WITNESS Fixed(v, INIT_BSS_END(g) + v - KERNEL_START_VMA,
                        IF v < RODATA_END_VMA(g) THEN UserRead ELSE User) \in A
      <4> QED
        BY <3>1
    <3>3. \A r \in A : r.vma \in KERNEL_START_VMA .. BSS_END_VMA(g) - 1
      BY <3>1
    <3>4. {r.vma : r \in B} = {BSS_END_VMA(g), BSS_END_VMA(g) + 1, STACK_VMA}
      BY <3>1
    <3>6. \A j \in 0 .. VGA_PAGES - 1 : \E r \in C : r.vma = BSS_END_VMA(g) + 2 + j
      BY <3>1
    <3>7. \A r \in C : \E j \in 0 .. VGA_PAGES - 1 : r.vma = BSS_END_VMA(g) + 2 + j
      BY <3>1
    <3>5. Sections(g) = A \cup B \cup C
      BY DEF Sections
    <3> HIDE DEF A, B, C
    <3> QED
      BY <3>2, <3>3, <3>4, <3>5, <3>6, <3>7 DEF StaticOf
  <2>2. ASSUME NEW v \in BSS_END_VMA(g) + 2 .. HeapStart(g) - 1
        PROVE  v \in {BSS_END_VMA(g) + 2 + j : j \in 0 .. VGA_PAGES - 1}
    <3>1. v - BSS_END_VMA(g) - 2 \in 0 .. VGA_PAGES - 1
          /\ v = BSS_END_VMA(g) + 2 + (v - BSS_END_VMA(g) - 2)
      BY <1>0, Numbers
    <3> QED
      BY <3>1
  <2>3. ASSUME NEW v, v \in (KERNEL_START_VMA .. HeapStart(g) - 1) \cup {STACK_VMA}
        PROVE v \in StaticOf(g)
    <3>1. \/ v \in BSS_END_VMA(g) + 2 .. HeapStart(g) - 1
          \/ v \in KERNEL_START_VMA .. BSS_END_VMA(g) - 1
          \/ v \in {BSS_END_VMA(g), BSS_END_VMA(g) + 1, STACK_VMA}
      BY <2>3, <1>0, Numbers
    <3> QED
      BY <2>1, <2>2, <3>1
  <2>4. ASSUME NEW v, v \in StaticOf(g)
        PROVE v \in (KERNEL_START_VMA .. HeapStart(g) - 1) \cup {STACK_VMA}
    <3>1. CASE v \in {BSS_END_VMA(g) + 2 + j : j \in 0 .. VGA_PAGES - 1}
      BY <3>1, <1>0, Numbers
    <3>2. CASE v \in (KERNEL_START_VMA .. BSS_END_VMA(g) - 1)
                      \cup {BSS_END_VMA(g), BSS_END_VMA(g) + 1, STACK_VMA}
      BY <3>2, <1>0, Numbers
    <3> QED
      BY <2>1, <2>4, <3>1, <3>2
  <2> QED
    BY <2>3, <2>4
<1>7. StaticOf(g) \subseteq Pages
  BY <1>0, <1>6, Numbers, PageRange
<1> QED
  BY <1>1, <1>2, <1>4, <1>5, <1>6, <1>7

\* The frames of the sections, of init_page_struct and of the text buffer.
SectionFrames(g) ==
    (VGA_PADDR_BUFFER .. VGA_PADDR_BUFFER + VGA_PAGES - 1) \cup StructOf(g)
    \cup (INIT_BSS_END(g) .. kernel_end_pma(g) - 1)

\* The frame and the rights of each page of the sections.
SectionKind(r, g) ==
    \/ /\ r.vma \in KERNEL_START_VMA .. BSS_END_VMA(g) - 1
       /\ r.to.pma = INIT_BSS_END(g) + r.vma - KERNEL_START_VMA
       /\ r.to.flags = IF r.vma < RODATA_END_VMA(g) THEN UserRead ELSE User
    \/ r.vma = BSS_END_VMA(g) /\ r.to.pma = INIT_STRUCT(g) /\ r.to.flags = Kernel
    \/ r.vma = BSS_END_VMA(g) + 1 /\ r.to.pma = INIT_STRUCT(g) + 1 /\ r.to.flags = Kernel
    \/ r.vma = STACK_VMA /\ r.to.pma = INIT_STRUCT(g) + 2 /\ r.to.flags = Kernel
    \/ /\ r.vma \in BSS_END_VMA(g) + 2 .. HeapStart(g) - 1
       /\ r.to.pma = VGA_PADDR_BUFFER + (r.vma - BSS_END_VMA(g) - 2) /\ r.to.flags = User

\* A section record is of one of five kinds.
LEMMA SectionKinds ==
    ASSUME NEW g \in Images, NEW r \in Sections(g)
    PROVE  /\ r = [vma |-> r.vma, to |-> [pma |-> r.to.pma, flags |-> r.to.flags]]
           /\ SectionKind(r, g)
<1>0. /\ BSS_END_VMA(g) \in Nat /\ HeapStart(g) = BSS_END_VMA(g) + 2 + VGA_PAGES
  BY ImageFacts
<1>1. CASE \E v \in KERNEL_START_VMA .. BSS_END_VMA(g) - 1 :
             r = Fixed(v, INIT_BSS_END(g) + v - KERNEL_START_VMA,
                       IF v < RODATA_END_VMA(g) THEN UserRead ELSE User)
  BY <1>1 DEF Fixed, SectionKind
<1>2. CASE r \in {Fixed(BSS_END_VMA(g), INIT_STRUCT(g), Kernel),
                  Fixed(BSS_END_VMA(g) + 1, INIT_STRUCT(g) + 1, Kernel),
                  Fixed(STACK_VMA, INIT_STRUCT(g) + 2, Kernel)}
  BY <1>2 DEF Fixed, SectionKind
<1>3. CASE \E j \in 0 .. VGA_PAGES - 1 :
             r = Fixed(BSS_END_VMA(g) + 2 + j, VGA_PADDR_BUFFER + j, User)
  <2>1. PICK j \in 0 .. VGA_PAGES - 1 :
             r = Fixed(BSS_END_VMA(g) + 2 + j, VGA_PADDR_BUFFER + j, User)
    BY <1>3
  <2>2. /\ BSS_END_VMA(g) + 2 + j \in BSS_END_VMA(g) + 2 .. HeapStart(g) - 1
        /\ (BSS_END_VMA(g) + 2 + j) - BSS_END_VMA(g) - 2 = j
    BY <1>0, Numbers
  <2>3. /\ r.vma = BSS_END_VMA(g) + 2 + j /\ r.to.pma = VGA_PADDR_BUFFER + j /\ r.to.flags = User
        /\ r = [vma |-> r.vma, to |-> [pma |-> r.to.pma, flags |-> r.to.flags]]
    BY <2>1 DEF Fixed
  <2> QED
    BY <2>2, <2>3 DEF SectionKind
<1> QED
  BY <1>1, <1>2, <1>3 DEF Sections

\* The kernel's rights, and the others.
LEMMA Rights ==
    /\ Kernel \subseteq User /\ UserRead \subseteq User
    /\ PRESENT \in Kernel /\ PRESENT \in User /\ PRESENT \in UserRead
    /\ PUBLIC \notin Kernel /\ PUBLIC \in User /\ PUBLIC \in UserRead
    /\ Kernel \cap User = Kernel /\ Kernel \cap Kernel = Kernel /\ User \cap User = User
    /\ NONE \in Entries /\ JUNK \in Entries /\ ~Present(NONE) /\ ~Present(JUNK)
    /\ NONE.flags = {} /\ JUNK.flags = {}
BY Numbers DEF Kernel, User, UserRead, PRESENT, PUBLIC, WRITE, NONE, JUNK, Entries, Present

\* Sections have frames of their own, each page one.
LEMMA SectionFacts ==
    ASSUME NEW g \in Images
    PROVE  /\ \A r \in Sections(g) :
                /\ r = [vma |-> r.vma, to |-> r.to] /\ r.to \in Entries /\ Present(r.to)
                /\ r.to = [pma |-> r.to.pma, flags |-> r.to.flags]
                /\ r.vma \in StaticOf(g) /\ r.to.pma \in SectionFrames(g)
           /\ \A r, s \in Sections(g) : r.vma = s.vma => r = s
           /\ \A r, s \in Sections(g) : r.to.pma = s.to.pma => r = s
<1>0. /\ INIT_STRUCT(g) \in Nat /\ INIT_BSS_END(g) \in Nat /\ kernel_end_pma(g) \in Nat
      /\ BSS_END_VMA(g) \in Nat /\ HeapStart(g) \in Nat
      /\ INIT_START <= INIT_STRUCT(g) /\ INIT_STRUCT(g) + 3 <= INIT_BSS_END(g)
      /\ KERNEL_START_VMA < BSS_END_VMA(g) /\ HeapStart(g) = BSS_END_VMA(g) + 2 + VGA_PAGES
      /\ HeapStart(g) + 4 <= KERNEL_START_VMA + PAGE_ENTRIES
      /\ kernel_end_pma(g) = INIT_BSS_END(g) + (BSS_END_VMA(g) - KERNEL_START_VMA)
      /\ kernel_end_pma(g) < LAPIC_BASE
  BY ImageFacts, Numbers
<1>1. ASSUME NEW r \in Sections(g)
      PROVE  /\ r.to.pma \in SectionFrames(g) /\ r.to.pma \in 0 .. LAPIC_BASE
             /\ r.to.flags \in {UserRead, User, Kernel} /\ r.vma \in StaticOf(g)
  <2>1. SectionKind(r, g)
    BY SectionKinds
  <2>2. r.vma \in StaticOf(g)
    BY DEF StaticOf
  <2>3. r.to.pma \in SectionFrames(g) /\ r.to.pma \in 0 .. LAPIC_BASE
    BY <1>0, <2>1, Numbers DEF SectionKind, SectionFrames, StructOf
  <2>4. r.to.flags \in {UserRead, User, Kernel}
    BY <2>1 DEF SectionKind
  <2> QED
    BY <2>2, <2>3, <2>4
<1>2. ASSUME NEW r \in Sections(g)
      PROVE  /\ r = [vma |-> r.vma, to |-> r.to] /\ r.to \in Entries /\ Present(r.to)
             /\ r.to = [pma |-> r.to.pma, flags |-> r.to.flags]
  <2>1. r = [vma |-> r.vma, to |-> [pma |-> r.to.pma, flags |-> r.to.flags]]
    BY SectionKinds
  <2>2. r.to.pma \in -1 .. LAPIC_BASE /\ r.to.flags \in SUBSET User /\ PRESENT \in r.to.flags
    BY <1>1, Rights, Numbers
  <2> QED
    BY <2>1, <2>2 DEF Entries, Present
<1>3. ASSUME NEW r \in Sections(g), NEW s \in Sections(g),
             r.vma = s.vma \/ r.to.pma = s.to.pma
      PROVE  r = s
  <2>1. SectionKind(r, g) /\ SectionKind(s, g)
    BY SectionKinds
  <2>2. r.vma = s.vma /\ r.to.pma = s.to.pma
    BY <1>0, <1>3, <2>1, Numbers DEF SectionKind
  <2>3. r.to.flags = s.to.flags
    BY <1>0, <2>1, <2>2, Numbers DEF SectionKind
  <2> QED
    BY <2>2, <2>3, SectionKinds
<1> QED
  BY <1>1, <1>2, <1>3

-----------------------------------------------------------------------------
(* Translation.                                                            *)

\* Directory entries that are present lead to tables.
Rooted(x) == \A i \in Indexes : Present(x.dir[i]) => x.dir[i].pma \in DOMAIN x.tables

\* The entry for page v, if its table is there.
EntryOf(x, v) == x.tables[x.dir[page_get_dir_idx(v)].pma][page_get_table_idx(v)]

\* What the processor finds for a page.
LEMMA WalkIs ==
    ASSUME NEW x, MemoryOK(x), Rooted(x), NEW v \in Pages
    PROVE  LET d == x.dir[page_get_dir_idx(v)]
           IN  /\ Present(d) => /\ EntryOf(x, v) \in Entries
                                /\ Walk(x, v) = [pma |-> EntryOf(x, v).pma,
                                                 flags |-> EntryOf(x, v).flags \cap d.flags]
               /\ ~Present(d) => Walk(x, v) = NONE
               /\ Walk(x, v) \in Entries
               /\ d \in Entries
<1> DEFINE d == x.dir[page_get_dir_idx(v)]
<1>1. page_get_dir_idx(v) \in Indexes /\ page_get_table_idx(v) \in Indexes
  BY PageParts
<1>2. d \in Entries
  BY <1>1 DEF MemoryOK
<1>3. ASSUME Present(d)
      PROVE  /\ EntryOf(x, v) \in Entries
             /\ Walk(x, v) = [pma |-> EntryOf(x, v).pma, flags |-> EntryOf(x, v).flags \cap d.flags]
             /\ Walk(x, v) \in Entries
  <2>1. x.tables[d.pma] \in [Indexes -> Entries]
    BY <1>1, <1>3 DEF Rooted, MemoryOK
  <2>2. EntryOf(x, v) \in Entries
    BY <1>1, <2>1 DEF EntryOf
  <2>3. Walk(x, v) = [EntryOf(x, v) EXCEPT !.flags = @ \cap d.flags]
    BY <1>3 DEF Walk, EntryOf
  <2> HIDE DEF d
  <2>4. Walk(x, v) = [pma |-> EntryOf(x, v).pma, flags |-> EntryOf(x, v).flags \cap d.flags]
    BY <2>2, <2>3 DEF Entries
  <2>5. Walk(x, v) \in Entries
    BY <2>2, <2>4 DEF Entries
  <2> QED
    BY <2>2, <2>4, <2>5
<1>4. ~Present(d) => Walk(x, v) = NONE
  BY DEF Walk
<1> QED
  BY <1>2, <1>3, <1>4, Rights

\* Memories with the same entry for a page translate it alike.
LEMMA SameWalk ==
    ASSUME NEW x, NEW y, NEW v,
           y.dir[page_get_dir_idx(v)] = x.dir[page_get_dir_idx(v)],
           Present(x.dir[page_get_dir_idx(v)]) =>
             y.tables[x.dir[page_get_dir_idx(v)].pma] = x.tables[x.dir[page_get_dir_idx(v)].pma]
    PROVE  Walk(y, v) = Walk(x, v)
BY DEF Walk

\* In a connected memory page.c reaches the table the processor walks.
LEMMA ReachIs ==
    ASSUME NEW x, NEW g \in Images, MemoryOK(x), Connected(x, g),
           NEW v \in Pages, Present(x.dir[page_get_dir_idx(v)])
    PROVE  /\ Reachable(x, v)
           /\ page_get_table(x, v).pma = x.dir[page_get_dir_idx(v)].pma
           /\ page_get_entry(x, v) = EntryOf(x, v)
           /\ EntryOf(x, v) \in Entries
           /\ EntryOf(x, v).pma = Walk(x, v).pma
           /\ Present(EntryOf(x, v)) <=> Present(Walk(x, v))
<1> DEFINE d == x.dir[page_get_dir_idx(v)]
<1>1. page_get_dir_idx(v) \in Indexes
  BY PageParts
<1>2. /\ d.pma \in DOMAIN x.tables /\ d.flags \in {Kernel, User}
      /\ page_get_table(x, v) = [pma |-> d.pma, flags |-> Kernel]
  BY <1>1 DEF Connected, page_get_table
<1>3. Rooted(x)
  BY DEF Connected, Rooted
<1>4. page_get_table(x, v).pma = d.pma /\ Reachable(x, v)
  BY <1>2, Rights DEF Reachable, Present
<1>5. page_get_entry(x, v) = EntryOf(x, v)
  BY <1>4 DEF page_get_entry, EntryOf
<1>6. /\ EntryOf(x, v) \in Entries
      /\ Walk(x, v) = [pma |-> EntryOf(x, v).pma, flags |-> EntryOf(x, v).flags \cap d.flags]
  BY <1>3, WalkIs
<1>7. PRESENT \in d.flags
  BY <1>2, Rights
<1>8. EntryOf(x, v).pma = Walk(x, v).pma /\ Walk(x, v).flags = EntryOf(x, v).flags \cap d.flags
  BY <1>6
<1> QED
  BY <1>4, <1>5, <1>6, <1>7, <1>8 DEF Present

\* Connected memories are rooted.
LEMMA ConnectedRooted ==
    ASSUME NEW x, NEW g, Connected(x, g)
    PROVE  Rooted(x)
BY DEF Connected, Rooted

-----------------------------------------------------------------------------
(* The heap grows.                                                         *)

\* The memory y is x with the frames mapped behind the heap.
Grown(x, y, frames) ==
    /\ MemoryOK(y) /\ y.heap = x.heap + Len(frames)
    /\ y.dir = x.dir /\ y.lookup = x.lookup /\ y.next_pma = x.next_pma
    /\ y.free = x.free /\ y.zero = x.zero /\ DOMAIN y.tables = DOMAIN x.tables
    /\ \A v \in Pages : v \notin x.heap .. y.heap - 1 => Walk(y, v) = Walk(x, v)
    /\ \A v \in x.heap .. y.heap - 1 :
        Walk(y, v) = [pma |-> frames[v - x.heap + 1], flags |-> Kernel]
    /\ \A f \in DOMAIN x.tables :
        (\A i \in Indexes : i >= KERNEL_DIR /\ Present(x.dir[i]) => x.dir[i].pma # f)
            => y.tables[f] = x.tables[f]

\* The n pages behind the heap lie below the stack page and have tables.
Room(x, n) ==
    /\ x.heap + n <= STACK_VMA
    /\ \A v \in x.heap .. x.heap + n - 1 : Present(x.dir[page_get_dir_idx(v)])

FrameSeq(frames) == frames \in Seq(-1 .. LAPIC_BASE)

\* The parts of a sequence.
LEMMA SeqParts ==
    ASSUME NEW S, NEW s \in Seq(S)
    PROVE  Len(s) \in Nat /\ DOMAIN s = 1 .. Len(s) /\ \A j \in 1 .. Len(s) : s[j] \in S
OBVIOUS

\* A sequence with other elements.
LEMMA SeqOf ==
    ASSUME NEW S, NEW T, NEW s \in Seq(S), \A j \in 1 .. Len(s) : s[j] \in T
    PROVE  s \in Seq(T)
<1>1. Len(s) \in Nat /\ s = [j \in 1 .. Len(s) |-> s[j]]
  OBVIOUS
<1> QED
  BY <1>1

\* A sequence of two.
LEMMA SeqTwo ==
    ASSUME NEW S, NEW e \in S, NEW s \in Seq(S), Len(s) = 1
    PROVE  LET t == <<e>> \o s
           IN  t \in Seq(S) /\ Len(t) = 2 /\ t[1] = e /\ t[2] = s[1]
<1> DEFINE a == <<e>>
           t == a \o s
<1>1. a \in Seq(S) /\ Len(a) = 1 /\ a[1] = e
  OBVIOUS
<1> HIDE DEF a
<1>2. /\ t \in Seq(S) /\ Len(t) = Len(a) + Len(s)
      /\ \A i \in 1 .. Len(a) + Len(s) : t[i] = IF i <= Len(a) THEN a[i] ELSE s[i - Len(a)]
  BY <1>1, ConcatProperties
<1> HIDE DEF t
<1>3. t[1] = e /\ t[2] = s[1] /\ Len(t) = 2
  BY <1>1, <1>2
<1> QED
  BY <1>2, <1>3 DEF a, t

\* Where the heap begins.
LEMMA HeapNumbers ==
    ASSUME NEW g \in Images
    PROVE  /\ HeapStart(g) \in Nat /\ KERNEL_START_VMA < HeapStart(g)
           /\ HeapStart(g) < STACK_VMA /\ KERNEL_START_VMA \in Nat /\ STACK_VMA \in Nat
BY ImageFacts, Numbers

\* alloc maps exactly the pages behind the heap.
LEMMA MapHeapGrows ==
    ASSUME NEW x, NEW g \in Images, MemoryOK(x), Connected(x, g),
           NEW frames, FrameSeq(frames), HeapStart(g) <= x.heap, Room(x, Len(frames))
    PROVE  Grown(x, MapHeap(x, frames), frames)
<1> DEFINE n == Len(frames)
           y == MapHeap(x, frames)
           Here(f, i) == {j \in DOMAIN frames : /\ page_get_table(x, x.heap + j - 1).pma = f
                                               /\ page_get_table_idx(x.heap + j - 1) = i}
           NewTables == [f \in DOMAIN x.tables |-> [i \in Indexes |->
                           IF Here(f, i) = {} THEN x.tables[f][i]
                           ELSE [pma |-> frames[CHOOSE j \in Here(f, i) : TRUE], flags |-> Kernel]]]
<1>1. /\ n \in Nat /\ DOMAIN frames = 1 .. n /\ x.heap \in Nat /\ HeapStart(g) \in Nat
      /\ KERNEL_START_VMA < HeapStart(g)
      /\ \A j \in 1 .. n : frames[j] \in -1 .. LAPIC_BASE
  <2>1. x.heap \in Nat
    BY PageRange DEF MemoryOK
  <2>2. n \in Nat /\ DOMAIN frames = 1 .. n /\ \A j \in 1 .. n : frames[j] \in -1 .. LAPIC_BASE
    BY SeqParts DEF FrameSeq
  <2> QED
    BY <2>1, <2>2, HeapNumbers
<1>2. ASSUME NEW j \in 1 .. n
      PROVE  LET v == x.heap + j - 1 IN
             /\ v \in Pages /\ v \in x.heap .. x.heap + n - 1 /\ v >= KERNEL_START_VMA
             /\ Present(x.dir[page_get_dir_idx(v)]) /\ Reachable(x, v)
             /\ page_get_table(x, v).pma = x.dir[page_get_dir_idx(v)].pma
             /\ page_get_dir_idx(v) \in Indexes /\ page_get_dir_idx(v) >= KERNEL_DIR
  <2> DEFINE v == x.heap + j - 1
  <2>1. v \in Nat /\ v \in x.heap .. x.heap + n - 1 /\ v >= KERNEL_START_VMA /\ v <= STACK_VMA
    BY <1>1, HeapNumbers DEF Room
  <2> HIDE DEF v
  <2>2. v \in Pages /\ page_get_dir_idx(v) \in Indexes /\ page_get_dir_idx(v) >= KERNEL_DIR
    BY <2>1, PageRange, PageParts, Regions
  <2>3. Present(x.dir[page_get_dir_idx(v)])
    BY <2>1 DEF Room
  <2>4. Reachable(x, v) /\ page_get_table(x, v).pma = x.dir[page_get_dir_idx(v)].pma
    BY <2>2, <2>3, ReachIs
  <2> QED
    BY <2>1, <2>2, <2>3, <2>4 DEF v
<1>3. y = [x EXCEPT !.heap = x.heap + n, !.tables = NewTables]
  <2>1. ~(\E j \in DOMAIN frames : ~Reachable(x, x.heap + j - 1))
    BY <1>1, <1>2
  <2> QED
    BY <2>1 DEF MapHeap
<1> HIDE DEF y, NewTables
<1>4. /\ y.heap = x.heap + n /\ y.tables = NewTables /\ y.dir = x.dir /\ y.lookup = x.lookup
      /\ y.next_pma = x.next_pma /\ y.free = x.free /\ y.zero = x.zero /\ y.fault = x.fault
      /\ y.offset = x.offset
      /\ y = [dir |-> y.dir, lookup |-> y.lookup, tables |-> y.tables,
              next_pma |-> y.next_pma, heap |-> y.heap, offset |-> y.offset,
              free |-> y.free, zero |-> y.zero, fault |-> y.fault]
  BY <1>3 DEF MemoryOK
<1>5. /\ DOMAIN NewTables = DOMAIN x.tables
      /\ NewTables \in [DOMAIN NewTables -> [Indexes -> Entries]]
  <2> SUFFICES ASSUME NEW f \in DOMAIN x.tables, NEW i \in Indexes
               PROVE  (IF Here(f, i) = {} THEN x.tables[f][i]
                       ELSE [pma |-> frames[CHOOSE j \in Here(f, i) : TRUE], flags |-> Kernel])
                      \in Entries
    BY DEF NewTables
  <2>1. CASE Here(f, i) = {}
    BY <2>1 DEF MemoryOK
  <2>2. CASE Here(f, i) # {}
    <3>1. (CHOOSE j \in Here(f, i) : TRUE) \in 1 .. n
      BY <1>1, <2>2
    <3>2. frames[CHOOSE j \in Here(f, i) : TRUE] \in -1 .. LAPIC_BASE
      BY <1>1, <3>1
    <3> HIDE DEF Here
    <3> QED
      BY <2>2, <3>2, Rights DEF Entries
  <2> QED
    BY <2>1, <2>2
<1>6. MemoryOK(y)
  <2>1. y.heap \in Pages
    <3>1. y.heap \in Nat /\ y.heap <= STACK_VMA
      BY <1>1, <1>4 DEF Room
    <3> QED
      BY <3>1, PageRange
  <2> QED
    BY <1>4, <1>5, <2>1 DEF MemoryOK
<1>7. Rooted(x) /\ Rooted(y)
  BY <1>4, <1>5, ConnectedRooted DEF Rooted
<1>8. ASSUME NEW v \in Pages, Present(x.dir[page_get_dir_idx(v)])
      PROVE  LET f == x.dir[page_get_dir_idx(v)].pma
                 i == page_get_table_idx(v)
             IN  /\ f \in DOMAIN x.tables /\ i \in Indexes
                 /\ \A j \in 1 .. n : j \in Here(f, i) <=> x.heap + j - 1 = v
  <2> DEFINE f == x.dir[page_get_dir_idx(v)].pma
             i == page_get_table_idx(v)
  <2>1. f \in DOMAIN x.tables /\ i \in Indexes /\ page_get_dir_idx(v) \in Indexes /\ v \in Nat
    BY <1>7, <1>8, PageParts DEF Rooted
  <2>2. ASSUME NEW j \in 1 .. n PROVE j \in Here(f, i) <=> x.heap + j - 1 = v
    <3> DEFINE u == x.heap + j - 1
    <3>1. /\ page_get_dir_idx(u) \in Indexes /\ Present(x.dir[page_get_dir_idx(u)])
          /\ page_get_table(x, u).pma = x.dir[page_get_dir_idx(u)].pma /\ u \in Nat
      BY <1>2, PageParts
    <3>2. j \in Here(f, i) <=> /\ x.dir[page_get_dir_idx(u)].pma = f
                               /\ page_get_table_idx(u) = i
      BY <1>1, <3>1
    <3>3. x.dir[page_get_dir_idx(u)].pma = f => page_get_dir_idx(u) = page_get_dir_idx(v)
      BY <1>8, <2>1, <3>1 DEF Connected
    <3>4. page_get_dir_idx(u) = page_get_dir_idx(v) /\ page_get_table_idx(u) = i => u = v
      BY <2>1, <3>1, SamePage
    <3> HIDE DEF u, Here
    <3>5. j \in Here(f, i) <=> u = v
      BY <3>2, <3>3, <3>4
    <3> QED
      BY <3>5 DEF u
  <2> QED
    BY <2>1, <2>2
<1>9. ASSUME NEW v \in Pages, v \notin x.heap .. y.heap - 1
      PROVE  Walk(y, v) = Walk(x, v)
  <2> DEFINE f == x.dir[page_get_dir_idx(v)].pma
             i == page_get_table_idx(v)
  <2>1. CASE ~Present(x.dir[page_get_dir_idx(v)])
    BY <1>4, <2>1, SameWalk
  <2>2. CASE Present(x.dir[page_get_dir_idx(v)])
    <3>1. f \in DOMAIN x.tables /\ i \in Indexes
      BY <1>8, <2>2
    <3>2. \A j \in 1 .. n : x.heap + j - 1 # v
      BY <1>1, <1>4, <1>9
    <3>3. Here(f, i) = {}
      BY <1>1, <1>8, <2>2, <3>2
    <3>4. NewTables[f][i] = x.tables[f][i]
      BY <3>1, <3>3 DEF NewTables
    <3>5. EntryOf(y, v) = EntryOf(x, v)
      BY <1>4, <3>4 DEF EntryOf
    <3> QED
      BY <1>4, <1>6, <1>7, <2>2, <3>5, WalkIs
  <2> QED
    BY <2>1, <2>2
<1>10. ASSUME NEW j \in 1 .. n
       PROVE  Walk(y, x.heap + j - 1) = [pma |-> frames[j], flags |-> Kernel]
  <2> DEFINE v == x.heap + j - 1
             f == x.dir[page_get_dir_idx(v)].pma
             i == page_get_table_idx(v)
  <2>1. v \in Pages /\ Present(x.dir[page_get_dir_idx(v)]) /\ page_get_dir_idx(v) \in Indexes
    BY <1>2
  <2>2. f \in DOMAIN x.tables /\ i \in Indexes /\ \A l \in 1 .. n : l \in Here(f, i) <=> x.heap + l - 1 = v
    BY <1>8, <2>1
  <2>3. Here(f, i) = {j}
    <3>1. \A l \in 1 .. n : x.heap + l - 1 = v <=> l = j
      BY <1>1
    <3>2. Here(f, i) \subseteq 1 .. n
      BY <1>1
    <3> HIDE DEF Here, v, f, i
    <3> QED
      BY <2>2, <3>1, <3>2
  <2>4. NewTables[f][i] = [pma |-> frames[j], flags |-> Kernel]
    <3>1. Here(f, i) # {} /\ (CHOOSE l \in Here(f, i) : TRUE) = j
      BY <2>3
    <3> QED
      BY <2>2, <3>1 DEF NewTables
  <2>5. EntryOf(y, v) = [pma |-> frames[j], flags |-> Kernel]
    BY <1>4, <2>4 DEF EntryOf
  <2>6. x.dir[page_get_dir_idx(v)].flags \in {Kernel, User}
    BY <2>1 DEF Connected
  <2> HIDE DEF v
  <2>7. Walk(y, v) = [pma |-> frames[j], flags |-> Kernel \cap x.dir[page_get_dir_idx(v)].flags]
    BY <1>4, <1>6, <1>7, <2>1, <2>5, WalkIs
  <2> QED
    BY <2>6, <2>7, Rights DEF v
<1>11. ASSUME NEW f \in DOMAIN x.tables,
              \A i \in Indexes : i >= KERNEL_DIR /\ Present(x.dir[i]) => x.dir[i].pma # f
       PROVE  y.tables[f] = x.tables[f]
  <2>1. ASSUME NEW i \in Indexes PROVE Here(f, i) = {}
    BY <1>1, <1>2, <1>11
  <2>2. x.tables[f] \in [Indexes -> Entries]
    BY DEF MemoryOK
  <2>3. NewTables[f] = [i \in Indexes |-> x.tables[f][i]]
    BY <2>1 DEF NewTables
  <2> QED
    BY <1>4, <2>2, <2>3
<1>12. ASSUME NEW v \in x.heap .. y.heap - 1
       PROVE  Walk(y, v) = [pma |-> frames[v - x.heap + 1], flags |-> Kernel]
  <2>1. v - x.heap + 1 \in 1 .. n /\ x.heap + (v - x.heap + 1) - 1 = v
    BY <1>1, <1>4
  <2> QED
    BY <1>10, <2>1
<1> QED
  BY <1>4, <1>5, <1>6, <1>9, <1>11, <1>12 DEF Grown, y

\* The whole description of the address space.
Space(x, g, left, p, stacks) ==
    /\ MemoryOK(x) /\ Connected(x, g) /\ Layout(x, g, left, p) /\ Apart(x, g, left, stacks)
    /\ HeapStart(g) <= x.heap /\ left \subseteq InitOf(g) /\ kernel_end_pma(g) <= x.next_pma

\* What a well-formed address space gives, part by part.
LEMMA SpaceParts ==
    ASSUME NEW x, NEW g \in Images, NEW left, NEW p, NEW stacks, Space(x, g, left, p, stacks)
    PROVE  /\ MemoryOK(x) /\ Connected(x, g) /\ Layout(x, g, left, p) /\ Apart(x, g, left, stacks)
           /\ HeapStart(g) <= x.heap /\ left \subseteq InitOf(g) /\ kernel_end_pma(g) <= x.next_pma
           /\ x.next_pma \in Nat /\ x.heap \in Nat /\ x.heap <= STACK_VMA
           /\ kernel_end_pma(g) \in Nat /\ LAPIC_BASE \in Nat
<1>1. /\ MemoryOK(x) /\ Connected(x, g) /\ Layout(x, g, left, p) /\ Apart(x, g, left, stacks)
      /\ HeapStart(g) <= x.heap /\ left \subseteq InitOf(g) /\ kernel_end_pma(g) <= x.next_pma
  BY DEF Space
<1>2. kernel_end_pma(g) \in Nat /\ LAPIC_BASE \in Nat
  BY ImageFacts, Numbers
<1>3. x.next_pma \in Nat
  BY <1>1, <1>2 DEF MemoryOK
<1>4. x.heap \in Nat /\ x.heap <= STACK_VMA
  BY <1>1, PageRange DEF MemoryOK
<1> QED
  BY <1>1, <1>2, <1>3, <1>4

\* Frames that nobody uses.
Fresh(x, g, left, stacks, frames) ==
    /\ \A j \in 1 .. Len(frames) :
        /\ frames[j] \in Frames(x, g, left) \cup {LAPIC_BASE}
        /\ frames[j] \notin HeapFrames(x, g) \cup stacks \cup Listed(x)
    /\ \A i, j \in 1 .. Len(frames) : frames[i] = frames[j] => i = j

\* The pages of the heap after it has grown, and what has not changed.
HeapGrown(x, y, g, left, frames) ==
    /\ x.heap \in Nat /\ Len(frames) \in Nat /\ y.heap = x.heap + Len(frames)
    /\ HeapPages(x, g) \subseteq HeapPages(y, g)
    /\ \A v \in HeapPages(y, g) : v \in HeapPages(x, g) \/
        /\ v \in Int /\ v - x.heap + 1 \in 1 .. Len(frames)
        /\ Walk(y, v).pma = frames[v - x.heap + 1] /\ Walk(y, v).flags = Kernel
    /\ \A v \in HeapPages(x, g) : v \in Pages /\ Walk(y, v) = Walk(x, v)
    /\ \A v \in StaticOf(g) \cup left : v \in Pages /\ Walk(y, v) = Walk(x, v)
    /\ y.heap >= HeapStart(g)

\* A grown heap has its old pages and the new ones, in order.
LEMMA GrownHeap ==
    ASSUME NEW x, NEW y, NEW g \in Images, NEW left, NEW p, NEW stacks, NEW frames,
           Space(x, g, left, p, stacks), Grown(x, y, frames), FrameSeq(frames),
           Room(x, Len(frames))
    PROVE  HeapGrown(x, y, g, left, frames)
<1>1. x.heap \in Nat /\ Len(frames) \in Nat /\ y.heap = x.heap + Len(frames)
  BY PageRange, SeqParts DEF Space, MemoryOK, Grown, FrameSeq
<1>2. HeapStart(g) <= x.heap /\ x.heap + Len(frames) <= STACK_VMA
  BY DEF Space, Room
<1>3. HeapPages(x, g) \subseteq HeapPages(y, g)
  BY <1>1, <1>2, HeapNumbers DEF HeapPages
<1>4. ASSUME NEW v \in HeapPages(y, g), v \notin HeapPages(x, g)
      PROVE  /\ v \in Int /\ v - x.heap + 1 \in 1 .. Len(frames)
             /\ Walk(y, v).pma = frames[v - x.heap + 1] /\ Walk(y, v).flags = Kernel
  <2>1. v \in HeapStart(g) .. y.heap - 1 /\ v \notin HeapStart(g) .. x.heap - 1
    BY <1>4 DEF HeapPages
  <2>2. v \in Int /\ v - x.heap + 1 \in 1 .. Len(frames) /\ v \in x.heap .. y.heap - 1
    BY <1>1, <1>2, <2>1, HeapNumbers
  <2> QED
    BY <2>2 DEF Grown
<1>5. ASSUME NEW v \in HeapPages(x, g) PROVE v \in Pages /\ Walk(y, v) = Walk(x, v)
  <2>1. v \in Nat /\ v <= STACK_VMA /\ v \notin x.heap .. y.heap - 1
    BY <1>1, <1>2, HeapNumbers DEF HeapPages
  <2>2. v \in Pages
    BY <2>1, PageRange
  <2> QED
    BY <2>1, <2>2 DEF Grown
<1>6. ASSUME NEW v \in StaticOf(g) \cup left PROVE v \in Pages /\ Walk(y, v) = Walk(x, v)
  <2>1. v \in Pages
    BY Regions DEF Space
  <2>2. v < HeapStart(g) \/ v = STACK_VMA
    <3>1. CASE v \in StaticOf(g)
      <4>1. v \in (KERNEL_START_VMA .. HeapStart(g) - 1) \cup {STACK_VMA}
        BY <3>1, Regions
      <4> QED
        BY <4>1, HeapNumbers
    <3>2. CASE v \in left
      <4>1. v < KERNEL_START_VMA /\ v \in Nat
        BY <2>1, <3>2, Regions, PageRange DEF Space
      <4> QED
        BY <4>1, HeapNumbers
    <3> QED
      BY <3>1, <3>2
  <2>3. v \in Nat
    BY <2>1, PageRange
  <2>4. v \notin x.heap .. y.heap - 1
    BY <1>1, <1>2, <2>2, <2>3, HeapNumbers
  <2> QED
    BY <2>1, <2>4 DEF Grown
<1>8. y.heap >= HeapStart(g)
  BY <1>1, <1>2, HeapNumbers
<1> QED
  BY <1>1, <1>3, <1>4, <1>5, <1>6, <1>8 DEF HeapGrown

\* Growing keeps the description.
LEMMA GrownSpace ==
    ASSUME NEW x, NEW y, NEW g \in Images, NEW left, NEW p, NEW stacks, NEW frames,
           Space(x, g, left, p, stacks), Grown(x, y, frames), FrameSeq(frames),
           Room(x, Len(frames)), Fresh(x, g, left, stacks, frames)
    PROVE  Space(y, g, left, p, stacks)
<1> DEFINE n == Len(frames)
<1>1. /\ HeapPages(x, g) \subseteq HeapPages(y, g)
      /\ \A v \in HeapPages(y, g) : v \in HeapPages(x, g) \/
            /\ v \in Int /\ v - x.heap + 1 \in 1 .. n
            /\ Walk(y, v).pma = frames[v - x.heap + 1] /\ Walk(y, v).flags = Kernel
      /\ \A v \in HeapPages(x, g) : v \in Pages /\ Walk(y, v) = Walk(x, v)
      /\ \A v \in StaticOf(g) \cup left : v \in Pages /\ Walk(y, v) = Walk(x, v)
      /\ y.heap >= HeapStart(g) /\ y.heap = x.heap + n /\ x.heap \in Nat /\ n \in Nat
  BY GrownHeap DEF HeapGrown
<1>2. /\ y.dir = x.dir /\ y.lookup = x.lookup /\ y.next_pma = x.next_pma
      /\ y.free = x.free /\ DOMAIN y.tables = DOMAIN x.tables /\ MemoryOK(y)
      /\ \A v \in Pages : v \notin x.heap .. y.heap - 1 => Walk(y, v) = Walk(x, v)
  BY DEF Grown
<1>3. Connected(y, g)
  <2>1. Connected(x, g)
    BY DEF Space
  <2> QED
    BY <1>1, <1>2, <2>1 DEF Connected
<1>4. Layout(y, g, left, p)
  <2>1. Layout(x, g, left, p)
    BY DEF Space
  <2>2. \A r \in Sections(g) : Walk(y, r.vma) = r.to
    BY <1>1, <2>1, SectionFacts DEF Layout
  <2>3. \A v \in HeapPages(y, g) : Walk(y, v).flags = Kernel
    BY <1>1, <1>2, <2>1 DEF Layout
  <2>4. \A v \in left : Walk(y, v) = [pma |-> v, flags |-> Kernel]
    BY <1>1, <2>1 DEF Layout
  <2>5. ASSUME NEW v \in Pages, Present(Walk(y, v))
        PROVE  \/ v \in StaticOf(g) \cup HeapPages(y, g) \cup left
               \/ p # 0 /\ v = USER_STACK
    <3>1. CASE v \in x.heap .. y.heap - 1
      <4>1. HeapStart(g) <= x.heap
        BY DEF Space
      <4>2. v \in HeapPages(y, g)
        BY <1>1, <3>1, <4>1, HeapNumbers DEF HeapPages
      <4> QED
        BY <4>2
    <3>2. CASE v \notin x.heap .. y.heap - 1
      BY <1>1, <1>2, <2>1, <2>5, <3>2 DEF Layout
    <3> QED
      BY <3>1, <3>2
  <2> QED
    BY <2>2, <2>3, <2>4, <2>5 DEF Layout
<1>5. Apart(y, g, left, stacks)
  <2>1. Apart(x, g, left, stacks)
    BY DEF Space
  <2>2. Frames(y, g, left) = Frames(x, g, left) /\ Listed(y) = Listed(x)
    BY <1>2 DEF Frames, Listed
  <2>3. ASSUME NEW f \in HeapFrames(y, g)
        PROVE  f \in HeapFrames(x, g) \/ \E j \in 1 .. n : f = frames[j]
    BY <1>1, <1>2 DEF HeapFrames
  <2>4. HeapFrames(x, g) \subseteq HeapFrames(y, g)
    BY <1>1 DEF HeapFrames
  <2>5. \A j \in 1 .. n : /\ frames[j] \in Frames(x, g, left) \cup {LAPIC_BASE}
                          /\ frames[j] \notin HeapFrames(x, g) \cup stacks \cup Listed(x)
    BY DEF Fresh
  <2>6. HeapFrames(y, g) \subseteq Frames(y, g, left) \cup {LAPIC_BASE}
    BY <2>1, <2>2, <2>3, <2>5 DEF Apart
  <2>7. /\ stacks \subseteq Frames(y, g, left) /\ Listed(y) \subseteq Freed(g, left)
        /\ DOMAIN y.tables \subseteq HeapFrames(y, g) \cap Frames(y, g, left)
    BY <1>2, <2>1, <2>2, <2>4 DEF Apart
  <2>8. HeapFrames(y, g) \cap stacks = {} /\ Listed(y) \cap (HeapFrames(y, g) \cup stacks) = {}
    BY <2>1, <2>2, <2>3, <2>5 DEF Apart
  <2>9. ASSUME NEW u \in HeapPages(y, g), NEW v \in HeapPages(y, g), Walk(y, u).pma = Walk(y, v).pma
        PROVE  u = v
    <3>1. ASSUME NEW w \in HeapPages(x, g)
          PROVE  Walk(y, w).pma = Walk(x, w).pma /\ Walk(x, w).pma \in HeapFrames(x, g)
      BY <1>1 DEF HeapFrames
    <3>3. CASE u \in HeapPages(x, g) /\ v \in HeapPages(x, g)
      BY <2>1, <2>9, <3>1, <3>3 DEF Apart
    <3>4. CASE u \in HeapPages(x, g) /\ v \notin HeapPages(x, g)
      BY <1>1, <2>5, <2>9, <3>1, <3>4
    <3>5. CASE u \notin HeapPages(x, g) /\ v \in HeapPages(x, g)
      BY <1>1, <2>5, <2>9, <3>1, <3>5
    <3>6. CASE u \notin HeapPages(x, g) /\ v \notin HeapPages(x, g)
      <4>1. /\ u \in Int /\ u - x.heap + 1 \in 1 .. n /\ Walk(y, u).pma = frames[u - x.heap + 1]
            /\ v \in Int /\ v - x.heap + 1 \in 1 .. n /\ Walk(y, v).pma = frames[v - x.heap + 1]
        BY <1>1, <3>6
      <4>2. u - x.heap + 1 = v - x.heap + 1
        BY <2>9, <4>1 DEF Fresh
      <4> QED
        BY <1>1, <4>1, <4>2
    <3> QED
      BY <3>3, <3>4, <3>5, <3>6
  <2>10. \A i, j \in DOMAIN y.free : y.free[i] = y.free[j] => i = j
    BY <1>2, <2>1 DEF Apart
  <2> QED
    BY <2>6, <2>7, <2>8, <2>9, <2>10 DEF Apart
<1> QED
  BY <1>1, <1>2, <1>3, <1>4, <1>5 DEF Space

\* The memory y is x after n calls of page_new.
Taken(x, y, n) ==
    /\ MemoryOK(y) /\ y.dir = x.dir /\ y.lookup = x.lookup /\ y.tables = x.tables
    /\ y.heap = x.heap /\ y.zero = x.zero
    /\ x.next_pma <= y.next_pma /\ y.next_pma <= x.next_pma + n

\* The frames page_new returns.
LEMMA NewFrames ==
    ASSUME NEW s \in Seq(Nat), NEW a \in Nat, NEW n \in Nat
    PROVE  LET more == [i \in 1 .. n |-> a + i - 1]
               new == SubSeq(s \o more, 1, n)
           IN  /\ new \in Seq(Nat) /\ Len(new) = n
               /\ \A j \in 1 .. n :
                    new[j] = IF j <= Len(s) THEN s[j] ELSE a + (j - Len(s)) - 1
<1> DEFINE more == [i \in 1 .. n |-> a + i - 1]
           all == s \o more
           L == Len(s)
<1>1. more \in Seq(Nat) /\ Len(more) = n /\ L \in Nat
  OBVIOUS
<1>2. \A i \in 1 .. n : more[i] = a + i - 1
  OBVIOUS
<1> HIDE DEF more
<1>3. all \in Seq(Nat) /\ Len(all) = L + n
  BY <1>1
<1>4. ASSUME NEW j \in 1 .. n PROVE all[j] = IF j <= L THEN s[j] ELSE a + (j - L) - 1
  <2>1. j \in 1 .. L + n /\ L \in Nat
    BY <1>1
  <2>2. CASE j <= L
    BY <1>1, <2>1, <2>2
  <2>3. CASE ~(j <= L)
    <3>1. all[j] = more[j - L]
      BY <1>1, <2>1, <2>3
    <3>2. j - L \in 1 .. n
      BY <2>1, <2>3
    <3> QED
      BY <1>2, <3>1, <3>2, <2>3
  <2> QED
    BY <2>2, <2>3
<1> HIDE DEF all
<1>5. /\ SubSeq(all, 1, n) \in Seq(Nat) /\ Len(SubSeq(all, 1, n)) = n
      /\ \A j \in 1 .. n : SubSeq(all, 1, n)[j] = all[j]
  BY <1>1, <1>3
<1> QED
  BY <1>4, <1>5 DEF all, more

\* What is left of the list.
LEMMA RestFrames ==
    ASSUME NEW s \in Seq(Nat), NEW n \in Nat
    PROVE  LET r == SubSeq(s, n + 1, Len(s))
           IN  /\ r \in Seq(Nat) /\ Len(s) \in Nat
               /\ \A j \in DOMAIN r : j \in Nat /\ j + n \in DOMAIN s /\ j + n > n /\ r[j] = s[j + n]
<1>1. Len(s) \in Nat /\ DOMAIN s = 1 .. Len(s)
  OBVIOUS
<1> QED
  BY <1>1

\* The bound of the frames taken.
LEMMA TakeNumbers ==
    ASSUME NEW L \in Nat, NEW n \in Nat, NEW a \in Nat, NEW c \in Nat, a + n < c
    PROVE  LET b == IF n <= L THEN a ELSE a + n - L
           IN  /\ b \in 0 .. c - 1 /\ a <= b /\ b <= a + n
               /\ \A j \in 1 .. n : ~(j <= L) =>
                    a + (j - L) - 1 \in Nat /\ a <= a + (j - L) - 1 /\ a + (j - L) - 1 < b
OBVIOUS

\* The frames new are the first of the list, then the next ones, and the list
\* keeps its rest.
Fetched(x, y, new, n) ==
    /\ new \in Seq(Nat) /\ Len(new) = n
    /\ \A j \in 1 .. n : \/ j \in DOMAIN x.free /\ new[j] = x.free[j]
                         \/ new[j] \in x.next_pma .. y.next_pma - 1
    /\ \A i, j \in 1 .. n : new[i] = new[j] /\ new[i] >= x.next_pma => i = j
    /\ \A j \in DOMAIN y.free :
        j \in Nat /\ j + n \in DOMAIN x.free /\ j + n > n /\ y.free[j] = x.free[j + n]

\* page_new takes frames from the list or behind the others.
LEMMA TakeFetches ==
    ASSUME NEW x, NEW n \in Nat, MemoryOK(x), x.next_pma + n < LAPIC_BASE,
           \A j \in DOMAIN x.free : x.free[j] < x.next_pma
    PROVE  Taken(x, AfterNew(x, n), n) /\ Fetched(x, AfterNew(x, n), page_new(x, n), n)
<1> DEFINE y == AfterNew(x, n)
           new == page_new(x, n)
           L == Len(x.free)
           a == x.next_pma
           b == IF n <= L THEN a ELSE a + n - L
<1>1. x.free \in Seq(Nat) /\ a \in Nat /\ LAPIC_BASE \in Nat
  BY Numbers DEF MemoryOK
<1>2. L \in Nat /\ DOMAIN x.free = 1 .. L
  BY <1>1, SeqParts
<1>3. /\ y.free = SubSeq(x.free, n + 1, L) /\ y.next_pma = b
      /\ y.dir = x.dir /\ y.lookup = x.lookup /\ y.tables = x.tables /\ y.heap = x.heap
      /\ y.zero = x.zero /\ y.offset = x.offset /\ y.fault = x.fault
      /\ y = [dir |-> y.dir, lookup |-> y.lookup, tables |-> y.tables,
              next_pma |-> y.next_pma, heap |-> y.heap, offset |-> y.offset,
              free |-> y.free, zero |-> y.zero, fault |-> y.fault]
  <2>1. x = [dir |-> x.dir, lookup |-> x.lookup, tables |-> x.tables,
             next_pma |-> x.next_pma, heap |-> x.heap, offset |-> x.offset,
             free |-> x.free, zero |-> x.zero, fault |-> x.fault]
    BY DEF MemoryOK
  <2>2. y = [x EXCEPT !.free = SubSeq(x.free, n + 1, L), !.next_pma = b]
    BY DEF AfterNew
  <2> HIDE DEF y, L, b
  <2> QED
    BY <2>1, <2>2
<1>4. /\ y.free \in Seq(Nat)
      /\ \A j \in DOMAIN y.free :
            j \in Nat /\ j + n \in DOMAIN x.free /\ j + n > n /\ y.free[j] = x.free[j + n]
  <2> DEFINE r == SubSeq(x.free, n + 1, L)
  <2>1. /\ r \in Seq(Nat)
        /\ \A j \in DOMAIN r : j \in Nat /\ j + n \in DOMAIN x.free /\ j + n > n /\ r[j] = x.free[j + n]
    BY <1>1, RestFrames
  <2>2. y.free = r
    BY <1>3
  <2> HIDE DEF r, y
  <2> QED
    BY <2>1, <2>2
<1>5. /\ new \in Seq(Nat) /\ Len(new) = n
      /\ \A j \in 1 .. n : new[j] = IF j <= L THEN x.free[j] ELSE a + (j - L) - 1
  BY <1>1, NewFrames DEF page_new
<1>6. /\ b \in 0 .. LAPIC_BASE - 1 /\ a <= b /\ b <= a + n
      /\ \A j \in 1 .. n : ~(j <= L) =>
            a + (j - L) - 1 \in Nat /\ a <= a + (j - L) - 1 /\ a + (j - L) - 1 < b
  BY <1>1, <1>2, TakeNumbers
<1> HIDE DEF y, new, L, a, b
<1>7. MemoryOK(y)
  BY <1>3, <1>4, <1>6 DEF MemoryOK
<1>8. Taken(x, y, n)
  BY <1>3, <1>6, <1>7 DEF Taken, a
<1>9. ASSUME NEW j \in 1 .. n
      PROVE  \/ j \in DOMAIN x.free /\ new[j] = x.free[j]
             \/ new[j] \in a .. b - 1
  <2>1. CASE j <= L
    BY <1>2, <1>5, <2>1
  <2>2. CASE ~(j <= L)
    <3>1. /\ new[j] = a + (j - L) - 1 /\ a + (j - L) - 1 \in Nat
          /\ a <= a + (j - L) - 1 /\ a + (j - L) - 1 < b
      BY <1>5, <1>6, <2>2
    <3>2. new[j] \in Nat /\ a <= new[j] /\ new[j] < b
      BY <3>1
    <3> QED
      BY <1>1, <1>6, <3>2
  <2> QED
    BY <2>1, <2>2
<1>10. ASSUME NEW i \in 1 .. n, NEW j \in 1 .. n, new[i] = new[j], new[i] >= a
       PROVE  i = j
  <2>1. \A l \in 1 .. n : new[l] >= a => ~(l <= L)
    <3> SUFFICES ASSUME NEW l \in 1 .. n, new[l] >= a, l <= L PROVE FALSE
      OBVIOUS
    <3>1. l \in DOMAIN x.free /\ new[l] = x.free[l]
      BY <1>2, <1>5
    <3>2. x.free[l] < a /\ x.free[l] \in Nat
      BY <1>1, <3>1, SeqParts DEF a
    <3> QED
      BY <1>1, <3>1, <3>2
  <2>2. a + (i - L) - 1 = a + (j - L) - 1
    BY <1>5, <1>10, <2>1
  <2> QED
    BY <1>1, <1>2, <2>2
<1>11. Fetched(x, y, new, n)
  BY <1>3, <1>4, <1>5, <1>9, <1>10 DEF Fetched, a
<1> QED
  BY <1>8, <1>11 DEF y, new

\* Where the frames of the description lie.
LEMMA FrameRange ==
    ASSUME NEW x, NEW g \in Images, NEW left, x.next_pma \in Nat, kernel_end_pma(g) <= x.next_pma,
           NEW f
    PROVE  /\ f \in Frames(x, g, left) => f \in Nat /\ f < x.next_pma
           /\ f \in Freed(g, left) => f \in Frames(x, g, left) /\ f \in Nat /\ f < kernel_end_pma(g)
<1>1. /\ INIT_BSS_END(g) \in Nat /\ INIT_START \in Nat /\ INIT_BSS_END(g) <= kernel_end_pma(g)
      /\ kernel_end_pma(g) \in Nat
  BY ImageFacts, Numbers
<1>2. f \in Freed(g, left) => f \in Nat /\ f < INIT_BSS_END(g)
  BY <1>1 DEF Freed, InitOf
<1> QED
  BY <1>1, <1>2 DEF Frames

\* Nothing is translated differently.
SameWalks(x, y) == \A v : Walk(y, v) = Walk(x, v)

\* page_new takes frames that nobody uses.
LEMMA TakeSpace ==
    ASSUME NEW x, NEW g \in Images, NEW left, NEW p, NEW stacks, NEW n \in Nat,
           Space(x, g, left, p, stacks), x.next_pma + n < LAPIC_BASE
    PROVE  LET y == AfterNew(x, n)
               new == page_new(x, n)
           IN  /\ Taken(x, y, n) /\ Space(y, g, left, p, stacks)
               /\ Fresh(y, g, left, stacks, new) /\ FrameSeq(new) /\ Len(new) = n
               /\ \A j \in 1 .. n : new[j] \in Frames(y, g, left)
               /\ SameWalks(x, y)
<1> DEFINE y == AfterNew(x, n)
           new == page_new(x, n)
<1>1. /\ MemoryOK(x) /\ x.next_pma \in Nat /\ kernel_end_pma(g) <= x.next_pma
      /\ kernel_end_pma(g) \in Nat /\ LAPIC_BASE \in Nat /\ Apart(x, g, left, stacks)
      /\ Connected(x, g) /\ Layout(x, g, left, p) /\ HeapStart(g) <= x.heap
      /\ left \subseteq InitOf(g)
  BY SpaceParts
<1>2. \A j \in DOMAIN x.free : x.free[j] \in Listed(x) /\ x.free[j] \in Frames(x, g, left)
                               /\ x.free[j] < x.next_pma
  BY <1>1, FrameRange DEF Apart, Listed
<1>3. Taken(x, y, n) /\ Fetched(x, y, new, n)
  BY <1>1, <1>2, TakeFetches
<1> HIDE DEF y, new
<1>4. /\ MemoryOK(y) /\ y.dir = x.dir /\ y.lookup = x.lookup /\ y.tables = x.tables
      /\ y.heap = x.heap /\ x.next_pma <= y.next_pma /\ y.next_pma \in Nat /\ y.next_pma < LAPIC_BASE
  BY <1>1, <1>3 DEF Taken, MemoryOK
<1>5. kernel_end_pma(g) <= y.next_pma
  BY <1>1, <1>4
<1>6. \A v : Walk(y, v) = Walk(x, v)
  BY <1>4 DEF Walk
<1>7. HeapPages(y, g) = HeapPages(x, g) /\ HeapFrames(y, g) = HeapFrames(x, g)
  BY <1>4, <1>6 DEF HeapPages, HeapFrames
<1>8. Connected(y, g)
  BY <1>1, <1>4, <1>6, <1>7 DEF Connected
<1>9. Layout(y, g, left, p)
  BY <1>1, <1>6, <1>7 DEF Layout
<1>10. Frames(x, g, left) \subseteq Frames(y, g, left)
  BY <1>1, <1>4 DEF Frames
<1>11. \A j \in DOMAIN y.free : j \in Nat /\ j + n \in DOMAIN x.free /\ j + n > n /\ y.free[j] = x.free[j + n]
  BY <1>3 DEF Fetched
<1>12. Listed(y) \subseteq Listed(x)
  BY <1>11 DEF Listed
<1>13. ASSUME NEW i \in DOMAIN y.free, NEW j \in DOMAIN y.free, y.free[i] = y.free[j]
       PROVE  i = j
  <2>1. i + n = j + n
    BY <1>1, <1>11, <1>13 DEF Apart
  <2>2. i \in Nat /\ j \in Nat
    BY <1>11
  <2> QED
    BY <2>1, <2>2
<1>14. Apart(y, g, left, stacks)
  BY <1>1, <1>4, <1>6, <1>7, <1>10, <1>12, <1>13 DEF Apart
<1>15. Space(y, g, left, p, stacks)
  BY <1>1, <1>4, <1>5, <1>8, <1>9, <1>14 DEF Space
<1>16. /\ new \in Seq(Nat) /\ Len(new) = n
       /\ \A j \in 1 .. n : \/ j \in DOMAIN x.free /\ new[j] = x.free[j]
                            \/ new[j] \in x.next_pma .. y.next_pma - 1
       /\ \A i, j \in 1 .. n : new[i] = new[j] /\ new[i] >= x.next_pma => i = j
  BY <1>3 DEF Fetched
<1>17. ASSUME NEW j \in 1 .. n
       PROVE  /\ new[j] \in Frames(y, g, left)
              /\ new[j] \notin HeapFrames(y, g) \cup stacks \cup Listed(y) \cup {LAPIC_BASE}
  <2>1. CASE j \in DOMAIN x.free /\ new[j] = x.free[j]
    <3>1. new[j] \in Listed(x) /\ new[j] \in Frames(x, g, left) /\ new[j] < x.next_pma
      BY <1>2, <2>1
    <3>2. new[j] \in Nat
      BY <1>1, <3>1, FrameRange
    <3>3. new[j] \notin HeapFrames(y, g) \cup stacks \cup {LAPIC_BASE}
      BY <1>1, <1>4, <1>7, <3>1, <3>2 DEF Apart
    <3>4. ASSUME NEW i \in DOMAIN y.free PROVE new[j] # y.free[i]
      <4>1. i + n # j /\ i + n \in DOMAIN x.free /\ y.free[i] = x.free[i + n]
        BY <1>11
      <4> QED
        BY <1>1, <2>1, <4>1 DEF Apart
    <3> QED
      BY <1>10, <3>1, <3>3, <3>4 DEF Listed
  <2>2. CASE new[j] \in x.next_pma .. y.next_pma - 1
    <3>1. new[j] \in kernel_end_pma(g) .. y.next_pma - 1 /\ new[j] # LAPIC_BASE /\ ~(new[j] < x.next_pma)
      BY <1>1, <1>4, <2>2
    <3>2. new[j] \notin Frames(x, g, left)
      BY <1>1, <3>1, FrameRange
    <3>3. Listed(y) \subseteq Frames(x, g, left)
      BY <1>1, <1>12, FrameRange DEF Apart
    <3> QED
      BY <1>1, <1>7, <3>1, <3>2, <3>3 DEF Apart, Frames
  <2> QED
    BY <1>16, <2>1, <2>2
<1>18. ASSUME NEW i \in 1 .. n, NEW j \in 1 .. n, new[i] = new[j] PROVE i = j
  <2>1. CASE new[i] >= x.next_pma
    BY <1>16, <1>18, <2>1
  <2>2. CASE ~(new[i] >= x.next_pma)
    <3>1. /\ new[i] \notin x.next_pma .. y.next_pma - 1 /\ new[j] \notin x.next_pma .. y.next_pma - 1
      BY <1>18, <2>2
    <3>2. i \in DOMAIN x.free /\ j \in DOMAIN x.free /\ x.free[i] = x.free[j]
      BY <1>16, <1>18, <3>1
    <3> QED
      BY <1>1, <3>2 DEF Apart
  <2> QED
    BY <2>1, <2>2
<1>19. FrameSeq(new)
  <2>1. \A j \in 1 .. n : new[j] \in -1 .. LAPIC_BASE
    <3> SUFFICES ASSUME NEW j \in 1 .. n PROVE new[j] \in -1 .. LAPIC_BASE
      OBVIOUS
    <3>1. new[j] \in Nat /\ new[j] < y.next_pma
      BY <1>4, <1>5, <1>17, FrameRange
    <3> QED
      BY <1>1, <1>4, <3>1
  <2> QED
    BY <1>16, <2>1, SeqOf DEF FrameSeq
<1>20. Fresh(y, g, left, stacks, new)
  BY <1>16, <1>17, <1>18 DEF Fresh
<1> QED
  BY <1>3, <1>6, <1>15, <1>16, <1>17, <1>19, <1>20 DEF y, new, SameWalks

\* The memory y is x with n pages more in the heap.
Grew(x, y, n) ==
    /\ y.heap = x.heap + n /\ y.dir = x.dir /\ y.lookup = x.lookup /\ y.zero = x.zero
    /\ DOMAIN y.tables = DOMAIN x.tables
    /\ x.next_pma <= y.next_pma /\ y.next_pma <= x.next_pma + n
    /\ \A v \in Pages : v \notin x.heap .. y.heap - 1 => Walk(y, v) = Walk(x, v)
    /\ \A f \in DOMAIN x.tables :
        (\A i \in Indexes : i >= KERNEL_DIR /\ Present(x.dir[i]) => x.dir[i].pma # f)
            => y.tables[f] = x.tables[f]

\* The new pages of the heap have these frames.
NewPages(x, y, frames) ==
    \A v \in x.heap .. y.heap - 1 : Walk(y, v) = [pma |-> frames[v - x.heap + 1], flags |-> Kernel]

\* Taking frames and mapping them.
LEMMA TakenGrown ==
    ASSUME NEW x, NEW y, NEW z, NEW n \in Nat, NEW l \in Nat, NEW frames, l <= n,
           x.next_pma \in Nat,
           Taken(x, y, l), Grown(y, z, frames), Len(frames) = n, SameWalks(x, y)
    PROVE  Grew(x, z, n) /\ NewPages(x, z, frames)
<1>1. /\ y.dir = x.dir /\ y.lookup = x.lookup /\ y.tables = x.tables
      /\ y.heap = x.heap /\ y.zero = x.zero
      /\ x.next_pma <= y.next_pma /\ y.next_pma <= x.next_pma + l /\ MemoryOK(y)
  BY DEF Taken
<1>2. /\ z.heap = y.heap + n
      /\ z.dir = y.dir /\ z.lookup = y.lookup /\ z.next_pma = y.next_pma
      /\ z.zero = y.zero /\ DOMAIN z.tables = DOMAIN y.tables
      /\ \A v \in Pages : v \notin y.heap .. z.heap - 1 => Walk(z, v) = Walk(y, v)
      /\ \A v \in y.heap .. z.heap - 1 :
            Walk(z, v) = [pma |-> frames[v - y.heap + 1], flags |-> Kernel]
      /\ \A f \in DOMAIN y.tables :
            (\A i \in Indexes : i >= KERNEL_DIR /\ Present(y.dir[i]) => y.dir[i].pma # f)
                => z.tables[f] = y.tables[f]
  BY DEF Grown
<1>3. y.next_pma \in Nat /\ y.next_pma <= x.next_pma + n
  <2>1. y.next_pma \in Nat
    BY <1>1, Numbers DEF MemoryOK
  <2> QED
    BY <1>1, <2>1
<1>4. NewPages(x, z, frames)
  BY <1>1, <1>2 DEF NewPages, SameWalks
<1> QED
  BY <1>1, <1>2, <1>3, <1>4 DEF Grew, SameWalks

\* The heap grows by n ordinary pages.
LEMMA GrowSpace ==
    ASSUME NEW x, NEW g \in Images, NEW left, NEW p, NEW stacks, NEW n \in Nat,
           Space(x, g, left, p, stacks), x.next_pma + n < LAPIC_BASE, Room(x, n)
    PROVE  LET y == GrowHeap(x, n)
           IN  /\ Space(y, g, left, p, stacks) /\ Grew(x, y, n)
               /\ \A v \in x.heap .. y.heap - 1 :
                    /\ Walk(y, v).flags = Kernel /\ Walk(y, v).pma \in Frames(y, g, left)
                    /\ Walk(y, v).pma \notin HeapFrames(x, g) \cup stacks \cup Listed(y) \cup {LAPIC_BASE}
<1> DEFINE z == AfterNew(x, n)
           new == page_new(x, n)
           y == MapHeap(z, new)
<1>0. x.next_pma \in Nat /\ x.heap \in Nat
  BY SpaceParts
<1>1. /\ Taken(x, z, n) /\ Space(z, g, left, p, stacks)
      /\ Fresh(z, g, left, stacks, new) /\ FrameSeq(new) /\ Len(new) = n
      /\ \A j \in 1 .. n : new[j] \in Frames(z, g, left)
      /\ SameWalks(x, z)
  BY TakeSpace
<1> HIDE DEF z, new
<1>2. MemoryOK(z) /\ Connected(z, g) /\ HeapStart(g) <= z.heap /\ z.heap = x.heap /\ z.dir = x.dir
      /\ Layout(z, g, left, p) /\ Apart(z, g, left, stacks) /\ z.next_pma \in Nat
      /\ kernel_end_pma(g) <= z.next_pma
  BY <1>1, SpaceParts DEF Taken
<1>3. Room(z, Len(new))
  BY <1>1, <1>2 DEF Room
<1>4. Grown(z, y, new)
  BY <1>1, <1>2, <1>3, MapHeapGrows
<1> HIDE DEF y
<1>5. Space(y, g, left, p, stacks)
  BY <1>1, <1>3, <1>4, GrownSpace
<1>6. Grew(x, y, n) /\ NewPages(x, y, new)
  BY <1>0, <1>1, <1>4, TakenGrown
<1>7. HeapFrames(x, g) = HeapFrames(z, g)
  BY <1>1, <1>2 DEF HeapFrames, HeapPages, SameWalks
<1>8. Listed(y) = Listed(z) /\ Frames(y, g, left) = Frames(z, g, left) /\ y.heap = x.heap + n
  BY <1>1, <1>2, <1>4 DEF Grown, Listed, Frames
<1>9. ASSUME NEW v \in x.heap .. y.heap - 1
      PROVE  /\ Walk(y, v).flags = Kernel /\ Walk(y, v).pma \in Frames(y, g, left)
             /\ Walk(y, v).pma \notin HeapFrames(x, g) \cup stacks \cup Listed(y) \cup {LAPIC_BASE}
  <2> DEFINE j == v - x.heap + 1
  <2>1. j \in 1 .. n
    BY <1>0, <1>8
  <2>2. Walk(y, v) = [pma |-> new[j], flags |-> Kernel]
    BY <1>6 DEF NewPages
  <2> HIDE DEF j
  <2>3. new[j] \in Frames(y, g, left) /\ new[j] \notin HeapFrames(x, g) \cup stacks \cup Listed(y)
    BY <1>1, <1>7, <1>8, <2>1 DEF Fresh
  <2>4. new[j] # LAPIC_BASE
    <3>1. new[j] \in Nat /\ new[j] < z.next_pma
      BY <1>1, <1>2, <2>1, FrameRange
    <3>2. z.next_pma < LAPIC_BASE /\ LAPIC_BASE \in Nat
      BY <1>2, Numbers DEF MemoryOK
    <3> QED
      BY <1>2, <3>1, <3>2
  <2> QED
    BY <2>2, <2>3, <2>4
<1>10. GrowHeap(x, n) = y
  BY DEF GrowHeap, y, z, new
<1> QED
  BY <1>5, <1>6, <1>9, <1>10

\* apic_init maps the registers and one ordinary page.
LEMMA LapicSpace ==
    ASSUME NEW x, NEW g \in Images, NEW left, NEW p, NEW stacks,
           Space(x, g, left, p, stacks), x.next_pma + 1 < LAPIC_BASE, Room(x, 2),
           LAPIC_BASE \notin HeapFrames(x, g)
    PROVE  LET y == LapicPages(x)
           IN  /\ Space(y, g, left, p, stacks) /\ Grew(x, y, 2)
               /\ Walk(y, x.heap).pma = LAPIC_BASE
<1>a. PICK one \in Nat : one = 1
  OBVIOUS
<1> DEFINE z == AfterNew(x, one)
           new == page_new(x, one)
           frames == <<LAPIC_BASE>> \o new
           y == MapHeap(z, frames)
<1>0. x.next_pma \in Nat /\ x.heap \in Nat /\ LAPIC_BASE \in Nat
  BY SpaceParts
<1>1. /\ Taken(x, z, one) /\ Space(z, g, left, p, stacks)
      /\ Fresh(z, g, left, stacks, new) /\ FrameSeq(new) /\ Len(new) = one
      /\ \A j \in 1 .. one : new[j] \in Frames(z, g, left)
      /\ SameWalks(x, z)
  <2>1. x.next_pma + one < LAPIC_BASE
    BY <1>a
  <2> QED
    BY <2>1, TakeSpace
<1> HIDE DEF z, new
<1>2. MemoryOK(z) /\ Connected(z, g) /\ HeapStart(g) <= z.heap /\ z.heap = x.heap /\ z.dir = x.dir
      /\ Layout(z, g, left, p) /\ Apart(z, g, left, stacks) /\ z.next_pma \in Nat
      /\ kernel_end_pma(g) <= z.next_pma /\ z.next_pma < LAPIC_BASE
  <2>1. MemoryOK(z) /\ Connected(z, g) /\ HeapStart(g) <= z.heap /\ z.heap = x.heap /\ z.dir = x.dir
        /\ Layout(z, g, left, p) /\ Apart(z, g, left, stacks) /\ z.next_pma \in Nat
        /\ kernel_end_pma(g) <= z.next_pma
    BY <1>1, SpaceParts DEF Taken
  <2>2. z.next_pma < LAPIC_BASE
    BY <1>0, <2>1 DEF MemoryOK
  <2> QED
    BY <2>1, <2>2
<1>3. frames \in Seq(-1 .. LAPIC_BASE) /\ Len(frames) = 2 /\ frames[1] = LAPIC_BASE /\ frames[2] = new[1]
  <2>1. LAPIC_BASE \in -1 .. LAPIC_BASE /\ new \in Seq(-1 .. LAPIC_BASE) /\ Len(new) = 1
    BY <1>a, <1>0, <1>1 DEF FrameSeq
  <2> QED
    BY <2>1, SeqTwo
<1> HIDE DEF frames
<1>4. Room(z, Len(frames)) /\ FrameSeq(frames)
  BY <1>2, <1>3 DEF Room, FrameSeq
<1>5. Grown(z, y, frames)
  BY <1>2, <1>4, MapHeapGrows
<1> HIDE DEF y
<1>6. HeapFrames(x, g) = HeapFrames(z, g)
  BY <1>1, <1>2 DEF HeapFrames, HeapPages, SameWalks
<1>7. Fresh(z, g, left, stacks, frames)
  <2>1. \A f \in Frames(z, g, left) : f # LAPIC_BASE
    BY <1>0, <1>2, FrameRange
  <2>2. LAPIC_BASE \notin HeapFrames(z, g) \cup stacks \cup Listed(z)
    BY <1>2, <1>6, <2>1, FrameRange DEF Apart
  <2>3. new[1] \in Frames(z, g, left) /\ new[1] \notin HeapFrames(z, g) \cup stacks \cup Listed(z)
    BY <1>a, <1>1 DEF Fresh
  <2>4. \A j \in 1 .. Len(frames) : j = 1 \/ j = 2
    BY <1>3
  <2>5. new[1] # LAPIC_BASE
    BY <2>1, <2>3
  <2> QED
    BY <1>3, <2>2, <2>3, <2>4, <2>5 DEF Fresh
<1>8. Space(y, g, left, p, stacks)
  BY <1>1, <1>4, <1>5, <1>7, GrownSpace
<1>9. Grew(x, y, 2) /\ NewPages(x, y, frames)
  <2>1. PICK two \in Nat : two = 2 /\ one <= two /\ Len(frames) = two
    BY <1>a, <1>3
  <2> QED
    BY <1>0, <1>1, <1>5, <2>1, TakenGrown
<1>10. Walk(y, x.heap).pma = LAPIC_BASE
  <2>1. y.heap = x.heap + 2
    BY <1>9 DEF Grew
  <2>2. x.heap \in x.heap .. y.heap - 1 /\ x.heap - x.heap + 1 = 1
    BY <1>0, <2>1
  <2>3. Walk(y, x.heap) = [pma |-> frames[1], flags |-> Kernel]
    BY <1>9, <2>2 DEF NewPages
  <2> QED
    BY <1>3, <2>3
<1>11. LapicPages(x) = y
  BY <1>a DEF LapicPages, y, z, new, frames
<1> QED
  BY <1>8, <1>9, <1>10, <1>11

-----------------------------------------------------------------------------
(* Single entries, and the list of pages.                                  *)

\* Memories whose fields have their types.
LEMMA MemoryParts ==
    ASSUME NEW x, MemoryOK(x)
    PROVE  /\ x = [dir |-> x.dir, lookup |-> x.lookup, tables |-> x.tables,
                   next_pma |-> x.next_pma, heap |-> x.heap, offset |-> x.offset,
                   free |-> x.free, zero |-> x.zero, fault |-> x.fault]
           /\ x.dir \in [Indexes -> Entries] /\ x.lookup \in [Indexes -> Pages]
           /\ x.tables \in [DOMAIN x.tables -> [Indexes -> Entries]]
           /\ x.heap \in Nat /\ x.next_pma \in Nat /\ x.free \in Seq(Nat) /\ x.fault = FALSE
BY Numbers, PageRange DEF MemoryOK

\* The memory y is x with the entry e for page v.
EntrySet(x, y, v, e) ==
    /\ MemoryOK(y) /\ y.dir = x.dir /\ y.lookup = x.lookup /\ y.heap = x.heap
    /\ y.next_pma = x.next_pma /\ y.free = x.free /\ y.zero = x.zero
    /\ DOMAIN y.tables = DOMAIN x.tables
    /\ \A u \in Pages : u # v => Walk(y, u) = Walk(x, u)
    /\ Walk(y, v) = [pma |-> e.pma, flags |-> e.flags \cap x.dir[page_get_dir_idx(v)].flags]
    /\ \A f \in DOMAIN x.tables : f # x.dir[page_get_dir_idx(v)].pma => y.tables[f] = x.tables[f]

\* page_set_entry changes the translation of one page.
LEMMA SetEntryIs ==
    ASSUME NEW x, NEW g \in Images, MemoryOK(x), Connected(x, g), NEW v \in Pages,
           Present(x.dir[page_get_dir_idx(v)]), NEW e \in Entries
    PROVE  EntrySet(x, page_set_entry(x, v, e), v, e)
<1> DEFINE y == page_set_entry(x, v, e)
           d == page_get_dir_idx(v)
           f == x.dir[d].pma
           i == page_get_table_idx(v)
           T == [x.tables EXCEPT ![f][i] = e]
<1>1. /\ d \in Indexes /\ i \in Indexes /\ v \in Nat
  BY PageParts
<1>2. Rooted(x) /\ f \in DOMAIN x.tables
  BY <1>1, ConnectedRooted DEF Rooted
<1>3. y = [x EXCEPT !.tables = T]
  <2>1. Reachable(x, v) /\ page_get_table(x, v).pma = f
    BY ReachIs
  <2> QED
    BY <2>1 DEF page_set_entry
<1> HIDE DEF y, T
<1>4. /\ y.tables = T /\ y.dir = x.dir /\ y.lookup = x.lookup /\ y.heap = x.heap
      /\ y.next_pma = x.next_pma /\ y.free = x.free /\ y.zero = x.zero /\ y.fault = x.fault
      /\ y.offset = x.offset
      /\ y = [dir |-> y.dir, lookup |-> y.lookup, tables |-> y.tables,
              next_pma |-> y.next_pma, heap |-> y.heap, offset |-> y.offset,
              free |-> y.free, zero |-> y.zero, fault |-> y.fault]
  BY <1>3 DEF MemoryOK
<1>5. /\ DOMAIN T = DOMAIN x.tables /\ T \in [DOMAIN T -> [Indexes -> Entries]]
      /\ \A h \in DOMAIN x.tables : h # f => T[h] = x.tables[h]
      /\ \A j \in Indexes : T[f][j] = IF j = i THEN e ELSE x.tables[f][j]
  <2>1. x.tables \in [DOMAIN x.tables -> [Indexes -> Entries]]
    BY DEF MemoryOK
  <2> HIDE DEF f, i
  <2> QED
    BY <1>1, <1>2, <2>1 DEF T
<1>6. MemoryOK(y) /\ Rooted(y)
  BY <1>2, <1>4, <1>5 DEF MemoryOK, Rooted
<1>7. ASSUME NEW u \in Pages, u # v PROVE Walk(y, u) = Walk(x, u)
  <2>1. page_get_dir_idx(u) \in Indexes /\ page_get_table_idx(u) \in Indexes /\ u \in Nat
    BY PageParts
  <2>2. CASE ~Present(x.dir[page_get_dir_idx(u)])
    BY <1>4, <2>2, SameWalk
  <2>3. CASE Present(x.dir[page_get_dir_idx(u)])
    <3>1. x.dir[page_get_dir_idx(u)].pma \in DOMAIN x.tables
      BY <1>2, <2>1, <2>3 DEF Rooted
    <3>2. CASE x.dir[page_get_dir_idx(u)].pma # f
      BY <1>4, <1>5, <3>1, <3>2, SameWalk
    <3>3. CASE x.dir[page_get_dir_idx(u)].pma = f
      <4>1. page_get_dir_idx(u) = d
        BY <1>1, <2>1, <2>3, <3>3 DEF Connected
      <4>2. page_get_table_idx(u) # i
        BY <1>1, <1>7, <2>1, <4>1, SamePage
      <4>3. EntryOf(y, u) = EntryOf(x, u)
        BY <1>4, <1>5, <2>1, <3>3, <4>2 DEF EntryOf
      <4> QED
        BY <1>2, <1>4, <1>6, <2>3, <4>3, WalkIs
    <3> QED
      BY <3>2, <3>3
  <2> QED
    BY <2>2, <2>3
<1>8. Walk(y, v) = [pma |-> e.pma, flags |-> e.flags \cap x.dir[d].flags]
  <2>1. EntryOf(y, v) = e
    BY <1>1, <1>4, <1>5 DEF EntryOf
  <2> QED
    BY <1>4, <1>6, <2>1, WalkIs
<1> QED
  BY <1>4, <1>5, <1>6, <1>7, <1>8 DEF EntrySet, y

\* The pages of the init section and of the heap are different ones.
LEMMA InitApart ==
    ASSUME NEW x, NEW g \in Images, NEW v \in InitOf(g)
    PROVE  /\ v \in Pages /\ v \in Nat /\ v < KERNEL_START_VMA
           /\ v \notin StaticOf(g) /\ v \notin HeapPages(x, g)
           /\ v # USER_STACK /\ v < kernel_end_pma(g) /\ v < LAPIC_BASE
<1>1. v \in Pages /\ v < KERNEL_START_VMA /\ page_get_dir_idx(v) < USER_DIR
  BY Regions
<1>2. v \in Nat
  BY <1>1, PageRange
<1>3. v \notin StaticOf(g)
  <2>1. StaticOf(g) = (KERNEL_START_VMA .. HeapStart(g) - 1) \cup {STACK_VMA}
    BY Regions
  <2> QED
    BY <1>1, <1>2, <2>1, HeapNumbers
<1>4. v \notin HeapPages(x, g)
  BY <1>1, <1>2, HeapNumbers DEF HeapPages
<1>5. v # USER_STACK
  <2>1. page_get_dir_idx(USER_STACK) = USER_DIR /\ USER_DIR \in Nat
    BY Constants DEF Indexes
  <2> QED
    BY <1>1, <2>1
<1>6. v < kernel_end_pma(g) /\ v < LAPIC_BASE
  <2>1. /\ INIT_BSS_END(g) \in Nat /\ INIT_BSS_END(g) <= kernel_end_pma(g)
        /\ kernel_end_pma(g) \in Nat /\ kernel_end_pma(g) < LAPIC_BASE /\ LAPIC_BASE \in Nat
    BY ImageFacts, Numbers
  <2>2. v < INIT_BSS_END(g)
    BY <1>2, <2>1 DEF InitOf
  <2> QED
    BY <1>2, <2>1, <2>2
<1> QED
  BY <1>1, <1>2, <1>3, <1>4, <1>5, <1>6

\* A page of the init section that is still mapped has a table.
LEMMA LeftMapped ==
    ASSUME NEW x, NEW g \in Images, NEW left, NEW p, NEW stacks,
           Space(x, g, left, p, stacks), NEW v \in left
    PROVE  /\ v \in Pages /\ v \in InitOf(g) /\ Present(x.dir[page_get_dir_idx(v)])
           /\ Walk(x, v) = [pma |-> v, flags |-> Kernel] /\ Present(Walk(x, v))
           /\ page_get_entry(x, v) = EntryOf(x, v) /\ EntryOf(x, v).pma = v
           /\ EntryOf(x, v) \in Entries
<1>1. /\ MemoryOK(x) /\ Connected(x, g) /\ Layout(x, g, left, p) /\ left \subseteq InitOf(g)
  BY SpaceParts
<1>2. v \in InitOf(g) /\ v \in Pages
  BY <1>1, InitApart
<1>3. Walk(x, v) = [pma |-> v, flags |-> Kernel]
  BY <1>1 DEF Layout
<1>4. Walk(x, v).flags = Kernel /\ Walk(x, v).pma = v
  BY <1>3
<1>5. Present(Walk(x, v))
  BY <1>4, Rights DEF Present
<1>6. Present(x.dir[page_get_dir_idx(v)])
  BY <1>5, Rights DEF Walk
<1> QED
  BY <1>1, <1>2, <1>3, <1>4, <1>5, <1>6, ReachIs

\* The memory y is x without the page v.
Removed(x, y, v) ==
    /\ y.dir = x.dir /\ y.lookup = x.lookup /\ y.heap = x.heap
    /\ y.next_pma = x.next_pma /\ DOMAIN y.tables = DOMAIN x.tables
    /\ \A u \in Pages : u # v => Walk(y, u) = Walk(x, u)
    /\ ~Present(Walk(y, v))

\* page_unmap takes a page of the init section away, and nothing else.
LEMMA UnmapSpace ==
    ASSUME NEW x, NEW g \in Images, NEW left, NEW p, NEW stacks,
           Space(x, g, left, p, stacks), NEW v \in left
    PROVE  LET y == page_unmap(x, v)
           IN  /\ Space(y, g, left \ {v}, p, stacks)
               /\ Removed(x, y, v) /\ y.free = x.free
<1> DEFINE e == [page_get_entry(x, v) EXCEPT !.flags = @ \ {PRESENT}]
           y == page_unmap(x, v)
           rest == left \ {v}
<1>1. /\ MemoryOK(x) /\ Connected(x, g) /\ Layout(x, g, left, p) /\ Apart(x, g, left, stacks)
      /\ HeapStart(g) <= x.heap /\ left \subseteq InitOf(g) /\ kernel_end_pma(g) <= x.next_pma
  BY SpaceParts
<1>2. /\ v \in Pages /\ v \in InitOf(g) /\ Present(x.dir[page_get_dir_idx(v)])
      /\ page_get_entry(x, v) \in Entries
  BY LeftMapped
<1>3. e \in Entries /\ PRESENT \notin e.flags
  BY <1>2 DEF Entries
<1>4. EntrySet(x, y, v, e)
  BY <1>1, <1>2, <1>3, SetEntryIs DEF page_unmap
<1> HIDE DEF e, y
<1>5. /\ MemoryOK(y) /\ y.dir = x.dir /\ y.lookup = x.lookup /\ y.heap = x.heap
      /\ y.next_pma = x.next_pma /\ y.free = x.free /\ DOMAIN y.tables = DOMAIN x.tables
      /\ \A u \in Pages : u # v => Walk(y, u) = Walk(x, u)
  BY <1>4 DEF EntrySet
<1>6. ~Present(Walk(y, v))
  BY <1>3, <1>4 DEF EntrySet, Present
<1>7. HeapPages(y, g) = HeapPages(x, g)
  BY <1>5 DEF HeapPages
<1>8. /\ \A u \in HeapPages(x, g) : u \in Pages /\ u # v
      /\ \A u \in StaticOf(g) : u \in Pages /\ u # v
      /\ \A u \in left : u \in Pages
  <2>1. v \notin HeapPages(x, g) /\ v \notin StaticOf(g)
    BY <1>2, InitApart
  <2>2. StaticOf(g) \subseteq Pages /\ left \subseteq Pages
    BY <1>1, Regions
  <2>3. \A u \in HeapPages(x, g) : u \in Pages
    <3>1. x.heap \in Nat /\ x.heap <= STACK_VMA
      BY SpaceParts
    <3> QED
      BY <3>1, HeapNumbers, PageRange DEF HeapPages
  <2> QED
    BY <2>1, <2>2, <2>3
<1>9. \A u \in HeapPages(x, g) : Walk(y, u) = Walk(x, u)
  BY <1>5, <1>8
<1>10. Connected(y, g)
  BY <1>1, <1>5, <1>7, <1>9 DEF Connected
<1>11. Layout(y, g, rest, p)
  <2>1. \A r \in Sections(g) : Walk(y, r.vma) = r.to
    BY <1>1, <1>5, <1>8, SectionFacts DEF Layout
  <2>2. \A u \in HeapPages(y, g) : Walk(y, u).flags = Kernel
    BY <1>1, <1>7, <1>9 DEF Layout
  <2>3. \A u \in rest : Walk(y, u) = [pma |-> u, flags |-> Kernel]
    BY <1>1, <1>5, <1>8 DEF Layout
  <2>4. ASSUME NEW u \in Pages, Present(Walk(y, u))
        PROVE  \/ u \in StaticOf(g) \cup HeapPages(y, g) \cup rest
               \/ p # 0 /\ u = USER_STACK
    BY <1>1, <1>5, <1>6, <1>7, <2>4 DEF Layout
  <2> QED
    BY <2>1, <2>2, <2>3, <2>4 DEF Layout
<1>12. HeapFrames(y, g) = HeapFrames(x, g) /\ Listed(y) = Listed(x)
  BY <1>5, <1>7, <1>9 DEF HeapFrames, Listed
<1>13. Frames(x, g, left) \subseteq Frames(y, g, rest) /\ Freed(g, left) \subseteq Freed(g, rest)
  BY <1>5 DEF Frames, Freed
<1>14. Apart(y, g, rest, stacks)
  BY <1>1, <1>5, <1>7, <1>9, <1>12, <1>13 DEF Apart
<1>15. Space(y, g, rest, p, stacks)
  BY <1>1, <1>5, <1>10, <1>11, <1>14 DEF Space
<1> QED
  BY <1>5, <1>6, <1>15 DEF y, Removed

\* A frame put before a list of others.
LEMMA Pushed ==
    ASSUME NEW s \in Seq(Nat), NEW f \in Nat, \A i, j \in DOMAIN s : s[i] = s[j] => i = j,
           \A j \in DOMAIN s : s[j] # f
    PROVE  LET t == <<f>> \o s
           IN  /\ t \in Seq(Nat) /\ \A i, j \in DOMAIN t : t[i] = t[j] => i = j
               /\ \A j \in DOMAIN t : t[j] = f \/ \E i \in DOMAIN s : t[j] = s[i]
<1> DEFINE a == <<f>>
           t == a \o s
<1>1. a \in Seq(Nat) /\ Len(a) = 1 /\ a[1] = f
  OBVIOUS
<1> HIDE DEF a
<1>2. /\ t \in Seq(Nat) /\ Len(t) = Len(a) + Len(s)
      /\ \A i \in 1 .. Len(a) + Len(s) : t[i] = IF i <= Len(a) THEN a[i] ELSE s[i - Len(a)]
  BY <1>1, ConcatProperties
<1> HIDE DEF t
<1>3. Len(s) \in Nat /\ DOMAIN s = 1 .. Len(s) /\ DOMAIN t = 1 .. Len(t)
  BY <1>2, SeqParts
<1>4. \A i \in DOMAIN t : i \in Nat /\ ((i = 1 /\ t[i] = f) \/ (i - 1 \in DOMAIN s /\ t[i] = s[i - 1]))
  BY <1>1, <1>2, <1>3
<1>5. ASSUME NEW i \in DOMAIN t, NEW j \in DOMAIN t, t[i] = t[j] PROVE i = j
  <2>1. CASE i = 1
    BY <1>4, <1>5, <2>1
  <2>2. CASE i # 1 /\ j = 1
    BY <1>4, <1>5, <2>2
  <2>3. CASE i # 1 /\ j # 1
    <3>1. i - 1 = j - 1 /\ i \in Nat /\ j \in Nat
      BY <1>4, <1>5, <2>3
    <3> QED
      BY <3>1
  <2> QED
    BY <2>1, <2>2, <2>3
<1> QED
  BY <1>2, <1>4, <1>5 DEF a, t

\* A memory that differs in the list of pages, and in what was cleared.
LEMMA ListSpace ==
    ASSUME NEW x, NEW y, NEW g \in Images, NEW left, NEW p, NEW stacks,
           Space(x, g, left, p, stacks), MemoryOK(y),
           y.dir = x.dir, y.lookup = x.lookup, y.tables = x.tables, y.heap = x.heap,
           y.next_pma = x.next_pma,
           Listed(y) \subseteq Freed(g, left), Listed(y) \cap (HeapFrames(x, g) \cup stacks) = {},
           \A i, j \in DOMAIN y.free : y.free[i] = y.free[j] => i = j
    PROVE  Space(y, g, left, p, stacks) /\ SameWalks(x, y)
<1>1. /\ MemoryOK(x) /\ Connected(x, g) /\ Layout(x, g, left, p) /\ Apart(x, g, left, stacks)
      /\ HeapStart(g) <= x.heap /\ left \subseteq InitOf(g) /\ kernel_end_pma(g) <= x.next_pma
  BY SpaceParts
<1>2. \A v : Walk(y, v) = Walk(x, v)
  BY DEF Walk
<1>3. HeapPages(y, g) = HeapPages(x, g) /\ HeapFrames(y, g) = HeapFrames(x, g)
      /\ Frames(y, g, left) = Frames(x, g, left)
  BY <1>2 DEF HeapPages, HeapFrames, Frames
<1>4. Connected(y, g)
  BY <1>1, <1>2, <1>3 DEF Connected
<1>5. Layout(y, g, left, p)
  BY <1>1, <1>2, <1>3 DEF Layout
<1>6. Apart(y, g, left, stacks)
  BY <1>1, <1>2, <1>3 DEF Apart
<1> QED
  BY <1>1, <1>2, <1>4, <1>5, <1>6 DEF Space, SameWalks

\* page_clear only cleans.
LEMMA ClearSpace ==
    ASSUME NEW x, NEW g \in Images, NEW left, NEW p, NEW stacks,
           Space(x, g, left, p, stacks), NEW v \in left
    PROVE  LET y == page_clear(x, v)
           IN  /\ Space(y, g, left, p, stacks) /\ SameWalks(x, y)
               /\ y.dir = x.dir /\ y.lookup = x.lookup /\ y.tables = x.tables /\ y.heap = x.heap
               /\ y.next_pma = x.next_pma
<1> DEFINE y == page_clear(x, v)
<1>1. Present(Walk(x, v)) /\ MemoryOK(x) /\ Apart(x, g, left, stacks)
  BY LeftMapped, SpaceParts
<1>2. y = [x EXCEPT !.zero = @ \cup {Walk(x, v).pma}]
  BY <1>1 DEF page_clear
<1> HIDE DEF y
<1>3. /\ y.tables = x.tables /\ y.dir = x.dir /\ y.lookup = x.lookup /\ y.heap = x.heap
      /\ y.next_pma = x.next_pma /\ y.free = x.free /\ y.fault = x.fault
      /\ y.offset = x.offset
      /\ y = [dir |-> y.dir, lookup |-> y.lookup, tables |-> y.tables,
              next_pma |-> y.next_pma, heap |-> y.heap, offset |-> y.offset,
              free |-> y.free, zero |-> y.zero, fault |-> y.fault]
  BY <1>1, <1>2 DEF MemoryOK
<1>4. MemoryOK(y)
  BY <1>1, <1>3 DEF MemoryOK
<1>5. Space(y, g, left, p, stacks) /\ SameWalks(x, y)
  BY <1>1, <1>3, <1>4, ListSpace DEF Apart, Listed
<1> QED
  BY <1>3, <1>5 DEF y

\* page_free moves the frame of a page of the init section to the list.
LEMMA FreeSpace ==
    ASSUME NEW x, NEW g \in Images, NEW left, NEW p, NEW stacks,
           Space(x, g, left, p, stacks), NEW v \in left, v \notin StructOf(g)
    PROVE  LET y == page_free(x, v)
           IN  /\ Space(y, g, left \ {v}, p, stacks)
               /\ Removed(x, y, v)
<1> DEFINE z == page_unmap(x, v)
           y == page_free(x, v)
           rest == left \ {v}
           t == <<v>> \o x.free
<1>1. /\ Space(z, g, rest, p, stacks)
      /\ z.dir = x.dir /\ z.lookup = x.lookup /\ z.heap = x.heap
      /\ z.next_pma = x.next_pma /\ z.free = x.free /\ DOMAIN z.tables = DOMAIN x.tables
      /\ \A u \in Pages : u # v => Walk(z, u) = Walk(x, u)
      /\ ~Present(Walk(z, v))
  <2>1. Space(z, g, rest, p, stacks) /\ Removed(x, z, v) /\ z.free = x.free
    BY UnmapSpace
  <2> QED
    BY <2>1 DEF Removed
<1>2. page_get_entry(x, v).pma = v /\ v \in InitOf(g)
  BY LeftMapped
<1>3. y = [z EXCEPT !.free = t]
  BY <1>1, <1>2 DEF page_free
<1> HIDE DEF z, y
<1>4. /\ MemoryOK(x) /\ Apart(x, g, left, stacks) /\ MemoryOK(z) /\ Apart(z, g, rest, stacks)
      /\ x.next_pma \in Nat /\ kernel_end_pma(g) <= x.next_pma
  BY <1>1, SpaceParts
<1>5. v \notin Frames(x, g, left) /\ v \in Nat /\ v # LAPIC_BASE /\ v \in Freed(g, rest)
  <2>1. v \in Nat /\ v < kernel_end_pma(g) /\ v < LAPIC_BASE
    BY <1>2, InitApart
  <2>2. v \notin kernel_end_pma(g) .. x.next_pma - 1
    BY <2>1, ImageFacts
  <2>3. v # LAPIC_BASE
    BY <2>1, Numbers
  <2> QED
    BY <1>2, <2>1, <2>2, <2>3 DEF Frames, Freed
<1>6. \A j \in DOMAIN x.free : x.free[j] \in Listed(x) /\ x.free[j] # v
  BY <1>4, <1>5, FrameRange DEF Apart, Listed
<1>7. /\ t \in Seq(Nat) /\ \A i, j \in DOMAIN t : t[i] = t[j] => i = j
      /\ \A j \in DOMAIN t : t[j] = v \/ \E i \in DOMAIN x.free : t[j] = x.free[i]
  <2>1. x.free \in Seq(Nat) /\ \A i, j \in DOMAIN x.free : x.free[i] = x.free[j] => i = j
    BY <1>4 DEF MemoryOK, Apart
  <2> QED
    BY <1>5, <1>6, <2>1, Pushed
<1> HIDE DEF t
<1>8. /\ y.tables = z.tables /\ y.dir = z.dir /\ y.lookup = z.lookup /\ y.heap = z.heap
      /\ y.next_pma = z.next_pma /\ y.free = t /\ y.fault = z.fault
      /\ y.offset = z.offset
      /\ y = [dir |-> y.dir, lookup |-> y.lookup, tables |-> y.tables,
              next_pma |-> y.next_pma, heap |-> y.heap, offset |-> y.offset,
              free |-> y.free, zero |-> y.zero, fault |-> y.fault]
  BY <1>3, <1>4 DEF MemoryOK
<1>9. MemoryOK(y)
  BY <1>4, <1>7, <1>8 DEF MemoryOK
<1>10. \A f \in Listed(y) : f = v \/ f \in Listed(z)
  BY <1>1, <1>7, <1>8 DEF Listed
<1>11. v \notin HeapFrames(x, g) \cup stacks
  BY <1>4, <1>5 DEF Apart
<1>12. HeapFrames(z, g) \cup stacks = HeapFrames(x, g) \cup stacks
  <2>1. HeapPages(z, g) = HeapPages(x, g)
    BY <1>1 DEF HeapPages
  <2>2. \A u \in HeapPages(x, g) : u \in Pages /\ u # v
    <3>1. v \notin HeapPages(x, g)
      BY <1>2, InitApart
    <3>2. \A u \in HeapPages(x, g) : u \in Pages
      <4>1. x.heap \in Nat /\ x.heap <= STACK_VMA
        BY SpaceParts
      <4> QED
        BY <4>1, HeapNumbers, PageRange DEF HeapPages
    <3> QED
      BY <3>1, <3>2
  <2> QED
    BY <1>1, <2>1, <2>2 DEF HeapFrames
<1>13. Listed(y) \subseteq Freed(g, rest) /\ Listed(y) \cap (HeapFrames(z, g) \cup stacks) = {}
  <2>1. /\ Listed(z) \subseteq Freed(g, rest)
        /\ Listed(z) \cap (HeapFrames(z, g) \cup stacks) = {}
    BY <1>4 DEF Apart
  <2> QED
    BY <1>5, <1>10, <1>11, <1>12, <2>1
<1>14. Space(y, g, rest, p, stacks) /\ SameWalks(z, y)
  BY <1>1, <1>7, <1>8, <1>9, <1>13, ListSpace
<1> QED
  BY <1>1, <1>8, <1>14 DEF y, SameWalks, Removed

-----------------------------------------------------------------------------
(* New tables.                                                             *)

\* The pages the description speaks of.
LEMMA SpacePages ==
    ASSUME NEW x, NEW g \in Images, NEW left, NEW p, NEW stacks, Space(x, g, left, p, stacks)
    PROVE  /\ \A v \in HeapPages(x, g) : v \in Pages /\ page_get_dir_idx(v) # USER_DIR
           /\ \A v \in StaticOf(g) : v \in Pages /\ page_get_dir_idx(v) # USER_DIR
           /\ \A v \in left : v \in Pages /\ page_get_dir_idx(v) # USER_DIR
           /\ \A v \in HeapPages(x, g) \cup StaticOf(g) \cup left :
                Present(Walk(x, v)) /\ Present(x.dir[page_get_dir_idx(v)])
<1>1. /\ Layout(x, g, left, p) /\ left \subseteq InitOf(g) /\ x.heap \in Nat /\ x.heap <= STACK_VMA
  BY SpaceParts
<1>2. USER_DIR \in Nat /\ KERNEL_DIR \in Nat /\ USER_DIR < KERNEL_DIR
  BY Constants DEF Indexes
<1>3. \A v \in Pages : page_get_dir_idx(v) \in Nat
  BY PageParts DEF Indexes
<1>4. ASSUME NEW v \in Nat, v >= KERNEL_START_VMA, v <= STACK_VMA
      PROVE  v \in Pages /\ page_get_dir_idx(v) # USER_DIR
  <2>1. \A u \in Nat : u >= KERNEL_START_VMA => page_get_dir_idx(u) >= KERNEL_DIR
    BY Regions
  <2>2. v \in Pages /\ page_get_dir_idx(v) >= KERNEL_DIR
    BY <1>4, <2>1, PageRange
  <2> QED
    BY <1>2, <1>3, <2>2
<1>5. \A v \in HeapPages(x, g) : v \in Pages /\ page_get_dir_idx(v) # USER_DIR
  <2>1. \A v \in HeapPages(x, g) : v \in Nat /\ v >= KERNEL_START_VMA /\ v <= STACK_VMA
    BY <1>1, HeapNumbers DEF HeapPages
  <2> QED
    BY <1>4, <2>1
<1>6. \A v \in StaticOf(g) : v \in Pages /\ page_get_dir_idx(v) # USER_DIR
  <2>1. StaticOf(g) = (KERNEL_START_VMA .. HeapStart(g) - 1) \cup {STACK_VMA}
    BY Regions
  <2>2. \A v \in StaticOf(g) : v \in Nat /\ v >= KERNEL_START_VMA /\ v <= STACK_VMA
    BY <2>1, HeapNumbers
  <2> QED
    BY <1>4, <2>2
<1>7. \A v \in left : v \in Pages /\ page_get_dir_idx(v) # USER_DIR
  <2>1. \A v \in InitOf(g) : v \in Pages /\ page_get_dir_idx(v) < USER_DIR
    BY Regions
  <2> QED
    BY <1>1, <1>2, <1>3, <2>1
<1>8. ASSUME NEW v \in HeapPages(x, g) \cup StaticOf(g) \cup left
      PROVE  Present(Walk(x, v)) /\ Present(x.dir[page_get_dir_idx(v)])
  <2>1. Present(Walk(x, v))
    <3>1. CASE v \in HeapPages(x, g)
      BY <1>1, <3>1, Rights DEF Layout, Present
    <3>2. CASE v \in StaticOf(g)
      <4>1. PICK r \in Sections(g) : v = r.vma
        BY <3>2 DEF StaticOf
      <4> QED
        BY <1>1, <4>1, SectionFacts DEF Layout
    <3>3. CASE v \in left
      BY <3>3, LeftMapped
    <3> QED
      BY <3>1, <3>2, <3>3
  <2> QED
    BY <2>1, Rights DEF Walk
<1> QED
  BY <1>5, <1>6, <1>7, <1>8

\* The memory x with the table T in frame f.
PutTable(x, f, T) ==
    [x EXCEPT !.tables = [h \in DOMAIN x.tables \cup {f} |-> IF h = f THEN T ELSE x.tables[h]]]

\* The memory y is x with the table T in frame f.
TablePut(x, y, f, T) ==
    /\ y.dir = x.dir /\ y.lookup = x.lookup /\ y.heap = x.heap /\ y.zero = x.zero
    /\ y.next_pma = x.next_pma /\ y.free = x.free
    /\ DOMAIN y.tables = DOMAIN x.tables \cup {f} /\ y.tables[f] = T
    /\ \A h \in DOMAIN x.tables : y.tables[h] = x.tables[h]
    /\ \A v \in Pages : Walk(y, v) = Walk(x, v)

\* A table that no directory entry leads to changes no translation.
LEMMA PutSpace ==
    ASSUME NEW x, NEW g \in Images, NEW left, NEW p, NEW stacks, Space(x, g, left, p, stacks),
           NEW f \in HeapFrames(x, g) \cap Frames(x, g, left), f \notin DOMAIN x.tables,
           NEW T \in [Indexes -> Entries]
    PROVE  Space(PutTable(x, f, T), g, left, p, stacks) /\ TablePut(x, PutTable(x, f, T), f, T)
<1> DEFINE y == PutTable(x, f, T)
           U == [h \in DOMAIN x.tables \cup {f} |-> IF h = f THEN T ELSE x.tables[h]]
<1>1. /\ MemoryOK(x) /\ Connected(x, g) /\ Layout(x, g, left, p) /\ Apart(x, g, left, stacks)
      /\ HeapStart(g) <= x.heap /\ left \subseteq InitOf(g) /\ kernel_end_pma(g) <= x.next_pma
  BY SpaceParts
<1>2. y = [x EXCEPT !.tables = U]
  BY DEF PutTable
<1>3. /\ DOMAIN U = DOMAIN x.tables \cup {f} /\ U[f] = T
      /\ \A h \in DOMAIN x.tables : U[h] = x.tables[h]
      /\ U \in [DOMAIN U -> [Indexes -> Entries]]
  <2>1. x.tables \in [DOMAIN x.tables -> [Indexes -> Entries]]
    BY <1>1 DEF MemoryOK
  <2> QED
    BY <2>1
<1> HIDE DEF y, U
<1>4. /\ y.tables = U /\ y.dir = x.dir /\ y.lookup = x.lookup /\ y.heap = x.heap
      /\ y.next_pma = x.next_pma /\ y.free = x.free /\ y.zero = x.zero /\ y.fault = x.fault
      /\ y.offset = x.offset
      /\ y = [dir |-> y.dir, lookup |-> y.lookup, tables |-> y.tables,
              next_pma |-> y.next_pma, heap |-> y.heap, offset |-> y.offset,
              free |-> y.free, zero |-> y.zero, fault |-> y.fault]
  BY <1>1, <1>2 DEF MemoryOK
<1>5. MemoryOK(y)
  BY <1>1, <1>3, <1>4 DEF MemoryOK
<1>6. ASSUME NEW v \in Pages PROVE Walk(y, v) = Walk(x, v)
  <2>1. page_get_dir_idx(v) \in Indexes
    BY PageParts
  <2>2. Present(x.dir[page_get_dir_idx(v)]) => x.dir[page_get_dir_idx(v)].pma \in DOMAIN x.tables
    BY <1>1, <2>1 DEF Connected
  <2> QED
    BY <1>3, <1>4, <2>2, SameWalk
<1>7. HeapPages(y, g) = HeapPages(x, g) /\ \A v \in HeapPages(x, g) : v \in Pages /\ Walk(y, v) = Walk(x, v)
  BY <1>4, <1>6, SpacePages DEF HeapPages
<1>8. HeapFrames(y, g) = HeapFrames(x, g) /\ Listed(y) = Listed(x) /\ Frames(y, g, left) = Frames(x, g, left)
  BY <1>4, <1>7 DEF HeapFrames, Listed, Frames
<1>9. Connected(y, g)
  BY <1>1, <1>3, <1>4, <1>7 DEF Connected
<1>10. Layout(y, g, left, p)
  <2>1. \A r \in Sections(g) : Walk(y, r.vma) = r.to
    BY <1>1, <1>6, SectionFacts, SpacePages DEF Layout
  <2>2. \A v \in left : Walk(y, v) = [pma |-> v, flags |-> Kernel]
    BY <1>1, <1>6, SpacePages DEF Layout
  <2> QED
    BY <1>1, <1>6, <1>7, <2>1, <2>2 DEF Layout
<1>11. Apart(y, g, left, stacks)
  BY <1>1, <1>3, <1>4, <1>7, <1>8 DEF Apart
<1>12. Space(y, g, left, p, stacks)
  BY <1>1, <1>4, <1>5, <1>9, <1>10, <1>11 DEF Space
<1> QED
  BY <1>3, <1>4, <1>6, <1>12 DEF TablePut, y

\* The memory y is x with the entry d for directory index i, and lookup v.
DirSet(x, y, i, v, d) ==
    /\ y.dir = [x.dir EXCEPT ![i] = d] /\ y.lookup = [x.lookup EXCEPT ![i] = v]
    /\ y.heap = x.heap /\ y.zero = x.zero /\ y.next_pma = x.next_pma /\ y.free = x.free
    /\ y.tables = x.tables
    /\ \A u \in Pages : page_get_dir_idx(u) # i => Walk(y, u) = Walk(x, u)

\* page_set_dir_entry changes the translation of the pages below one entry.
LEMMA SetDirIs ==
    ASSUME NEW x, MemoryOK(x), NEW i \in Indexes, NEW v \in Pages, NEW d \in Entries
    PROVE  LET y == page_set_dir_entry(x, i, v, d) IN MemoryOK(y) /\ DirSet(x, y, i, v, d)
<1> DEFINE y == page_set_dir_entry(x, i, v, d)
           D == [x.dir EXCEPT ![i] = d]
           L == [x.lookup EXCEPT ![i] = v]
<1>1. y = [x EXCEPT !.lookup = L, !.dir = D]
  BY DEF page_set_dir_entry
<1>2. /\ D \in [Indexes -> Entries] /\ L \in [Indexes -> Pages]
      /\ \A j \in Indexes : j # i => D[j] = x.dir[j]
  BY DEF MemoryOK
<1> HIDE DEF y, D, L
<1>3. /\ y.tables = x.tables /\ y.dir = D /\ y.lookup = L /\ y.heap = x.heap
      /\ y.next_pma = x.next_pma /\ y.free = x.free /\ y.zero = x.zero /\ y.fault = x.fault
      /\ y.offset = x.offset
      /\ y = [dir |-> y.dir, lookup |-> y.lookup, tables |-> y.tables,
              next_pma |-> y.next_pma, heap |-> y.heap, offset |-> y.offset,
              free |-> y.free, zero |-> y.zero, fault |-> y.fault]
  BY <1>1 DEF MemoryOK
<1>4. MemoryOK(y)
  BY <1>2, <1>3 DEF MemoryOK
<1>5. ASSUME NEW u \in Pages, page_get_dir_idx(u) # i PROVE Walk(y, u) = Walk(x, u)
  <2>1. page_get_dir_idx(u) \in Indexes
    BY PageParts
  <2> QED
    BY <1>2, <1>3, <1>5, <2>1, SameWalk
<1> QED
  BY <1>3, <1>4, <1>5 DEF DirSet, y, D, L

\* The table in frame f maps nothing but, for a process q, the user stack.
StackOnly(x, f, i, q) ==
    \A j \in Indexes : Present(x.tables[f][j]) =>
        q # 0 /\ i = USER_DIR /\ j = page_get_table_idx(USER_STACK)

\* No directory entry leads to frame f.
Unused(x, f) == \A j \in Indexes : Present(x.dir[j]) => x.dir[j].pma # f

\* What was mapped stays mapped.
KeepsMapped(x, y) == \A u \in Pages : Present(Walk(x, u)) => Walk(y, u) = Walk(x, u)

\* A directory entry that was absent now leads to such a table.
LEMMA NewDirSpace ==
    ASSUME NEW x, NEW y, NEW g \in Images, NEW left, NEW stacks, Space(x, g, left, 0, stacks),
           NEW q, NEW i \in Indexes, ~Present(x.dir[i]), NEW v \in HeapPages(x, g),
           NEW f \in DOMAIN x.tables, Walk(x, v).pma = f, NEW rights \in {Kernel, User},
           Unused(x, f), StackOnly(x, f, i, q), MemoryOK(y),
           DirSet(x, y, i, v, [pma |-> f, flags |-> rights])
    PROVE  /\ Space(y, g, left, q, stacks) /\ KeepsMapped(x, y)
           /\ \A u \in Pages : page_get_dir_idx(u) = i =>
                Walk(y, u) = [pma |-> x.tables[f][page_get_table_idx(u)].pma,
                              flags |-> x.tables[f][page_get_table_idx(u)].flags \cap rights]
<1> DEFINE d == [pma |-> f, flags |-> rights]
<1>1. /\ MemoryOK(x) /\ Connected(x, g) /\ Layout(x, g, left, 0) /\ Apart(x, g, left, stacks)
      /\ HeapStart(g) <= x.heap /\ left \subseteq InitOf(g) /\ kernel_end_pma(g) <= x.next_pma
  BY SpaceParts
<1>2. /\ y.dir = [x.dir EXCEPT ![i] = d] /\ y.lookup = [x.lookup EXCEPT ![i] = v]
      /\ y.heap = x.heap /\ y.next_pma = x.next_pma /\ y.free = x.free
      /\ y.tables = x.tables
      /\ \A u \in Pages : page_get_dir_idx(u) # i => Walk(y, u) = Walk(x, u)
  BY DEF DirSet
<1>3. /\ d.pma = f /\ d.flags = rights /\ Present(d)
      /\ \A j \in Indexes : y.dir[j] = IF j = i THEN d ELSE x.dir[j]
      /\ \A j \in Indexes : y.lookup[j] = IF j = i THEN v ELSE x.lookup[j]
  <2>1. x.dir \in [Indexes -> Entries] /\ x.lookup \in [Indexes -> Pages]
    BY <1>1 DEF MemoryOK
  <2>2. Present(d)
    BY Rights DEF Present
  <2> QED
    BY <1>2, <2>1, <2>2
<1> HIDE DEF d
<1>4. ASSUME NEW u \in Pages, Present(Walk(x, u))
      PROVE  page_get_dir_idx(u) # i /\ Walk(y, u) = Walk(x, u)
  <2>1. page_get_dir_idx(u) # i
    BY <1>4, Rights DEF Walk
  <2> QED
    BY <1>2, <2>1
<1>5. /\ HeapPages(y, g) = HeapPages(x, g)
      /\ \A u \in HeapPages(x, g) : u \in Pages /\ Walk(y, u) = Walk(x, u)
  BY <1>2, <1>4, SpacePages DEF HeapPages
<1>6. Rooted(y)
  BY <1>1, <1>2, <1>3 DEF Rooted, Connected
<1>7. ASSUME NEW u \in Pages, page_get_dir_idx(u) = i
      PROVE  /\ Walk(y, u) = [pma |-> x.tables[f][page_get_table_idx(u)].pma,
                              flags |-> x.tables[f][page_get_table_idx(u)].flags \cap rights]
             /\ Present(Walk(y, u)) => Present(x.tables[f][page_get_table_idx(u)])
  <2>1. y.dir[page_get_dir_idx(u)] = d /\ page_get_table_idx(u) \in Indexes
    BY <1>3, <1>7, PageParts
  <2>2. EntryOf(y, u) = x.tables[f][page_get_table_idx(u)]
    BY <1>2, <1>3, <2>1 DEF EntryOf
  <2>3. Walk(y, u) = [pma |-> EntryOf(y, u).pma, flags |-> EntryOf(y, u).flags \cap d.flags]
    BY <1>3, <1>6, <2>1, WalkIs
  <2> QED
    BY <1>3, <2>2, <2>3 DEF Present
<1>8. Walk(y, v) = [pma |-> f, flags |-> Kernel]
  <2>1. v \in Pages /\ Walk(x, v).flags = Kernel
    BY <1>1, SpacePages DEF Layout
  <2>2. Walk(x, v) \in Entries
    BY <1>1, <2>1, ConnectedRooted, WalkIs
  <2>3. Walk(x, v) = [pma |-> f, flags |-> Kernel]
    BY <2>1, <2>2 DEF Entries
  <2> QED
    BY <1>5, <2>3
<1>9. Connected(y, g)
  <2>1. ASSUME NEW j \in Indexes
        PROVE  IF Present(y.dir[j])
               THEN /\ y.dir[j].pma \in DOMAIN y.tables /\ y.dir[j].flags \in {Kernel, User}
                    /\ y.lookup[j] \in HeapPages(y, g)
                    /\ Walk(y, y.lookup[j]) = [pma |-> y.dir[j].pma, flags |-> Kernel]
               ELSE y.lookup[j] = NULL
    <3>1. CASE j = i
      BY <1>2, <1>3, <1>5, <1>8, <3>1
    <3>2. CASE j # i
      <4>1. y.dir[j] = x.dir[j] /\ y.lookup[j] = x.lookup[j]
        BY <1>3, <3>2
      <4> QED
        BY <1>1, <1>2, <1>5, <4>1 DEF Connected
    <3> QED
      BY <3>1, <3>2
  <2>2. ASSUME NEW j \in Indexes, NEW l \in Indexes, Present(y.dir[j]), Present(y.dir[l]),
               y.dir[j].pma = y.dir[l].pma
        PROVE  j = l
    BY <1>1, <1>3, <2>2 DEF Connected, Unused
  <2> QED
    BY <2>1, <2>2 DEF Connected
<1>10. Layout(y, g, left, q)
  <2>1. \A r \in Sections(g) : Walk(y, r.vma) = r.to
    BY <1>1, <1>4, SectionFacts, SpacePages DEF Layout
  <2>2. \A u \in left : Walk(y, u) = [pma |-> u, flags |-> Kernel]
    BY <1>1, <1>4, SpacePages DEF Layout
  <2>3. ASSUME NEW u \in Pages, Present(Walk(y, u))
        PROVE  \/ u \in StaticOf(g) \cup HeapPages(y, g) \cup left
               \/ q # 0 /\ u = USER_STACK
    <3>1. CASE page_get_dir_idx(u) # i
      BY <1>1, <1>2, <1>5, <2>3, <3>1 DEF Layout
    <3>2. CASE page_get_dir_idx(u) = i
      <4>1. page_get_table_idx(u) \in Indexes /\ u \in Nat
        BY PageParts
      <4>2. Present(x.tables[f][page_get_table_idx(u)])
        BY <1>7, <2>3, <3>2
      <4>3. q # 0 /\ i = USER_DIR /\ page_get_table_idx(u) = page_get_table_idx(USER_STACK)
        BY <4>1, <4>2 DEF StackOnly
      <4>4. USER_STACK \in Nat /\ page_get_dir_idx(USER_STACK) = USER_DIR
        BY Constants, PageRange
      <4> QED
        BY <3>2, <4>1, <4>3, <4>4, SamePage
    <3> QED
      BY <3>1, <3>2
  <2>4. \A u \in HeapPages(y, g) : Walk(y, u).flags = Kernel
    BY <1>1, <1>5 DEF Layout
  <2> QED
    BY <2>1, <2>2, <2>3, <2>4 DEF Layout
<1>11. Apart(y, g, left, stacks)
  <2>1. HeapFrames(y, g) = HeapFrames(x, g) /\ Listed(y) = Listed(x) /\ Frames(y, g, left) = Frames(x, g, left)
    BY <1>2, <1>5 DEF HeapFrames, Listed, Frames
  <2> QED
    BY <1>1, <1>2, <1>5, <2>1 DEF Apart
<1>12. Space(y, g, left, q, stacks)
  BY <1>1, <1>2, <1>9, <1>10, <1>11 DEF Space
<1> QED
  BY <1>4, <1>7, <1>12 DEF KeepsMapped

\* The directory entry of the running process is taken away.
LEMMA DropDirSpace ==
    ASSUME NEW x, NEW y, NEW g \in Images, NEW left, NEW p, NEW stacks, Space(x, g, left, p, stacks),
           MemoryOK(y), DirSet(x, y, USER_DIR, NULL, NONE)
    PROVE  /\ Space(y, g, left, 0, stacks) /\ ~Present(y.dir[USER_DIR])
<1>1. /\ MemoryOK(x) /\ Connected(x, g) /\ Layout(x, g, left, p) /\ Apart(x, g, left, stacks)
      /\ HeapStart(g) <= x.heap /\ left \subseteq InitOf(g) /\ kernel_end_pma(g) <= x.next_pma
  BY SpaceParts
<1>2. /\ y.dir = [x.dir EXCEPT ![USER_DIR] = NONE] /\ y.lookup = [x.lookup EXCEPT ![USER_DIR] = NULL]
      /\ y.heap = x.heap /\ y.next_pma = x.next_pma /\ y.free = x.free
      /\ y.tables = x.tables
      /\ \A u \in Pages : page_get_dir_idx(u) # USER_DIR => Walk(y, u) = Walk(x, u)
  BY DEF DirSet
<1>3. /\ USER_DIR \in Indexes
      /\ \A j \in Indexes : y.dir[j] = IF j = USER_DIR THEN NONE ELSE x.dir[j]
      /\ \A j \in Indexes : y.lookup[j] = IF j = USER_DIR THEN NULL ELSE x.lookup[j]
  <2>1. x.dir \in [Indexes -> Entries] /\ x.lookup \in [Indexes -> Pages] /\ USER_DIR \in Indexes
    BY <1>1, Constants DEF MemoryOK
  <2> QED
    BY <1>2, <2>1
<1>4. ~Present(y.dir[USER_DIR])
  BY <1>3, Rights
<1>5. /\ HeapPages(y, g) = HeapPages(x, g)
      /\ \A u \in HeapPages(x, g) : u \in Pages /\ Walk(y, u) = Walk(x, u)
  BY <1>2, SpacePages DEF HeapPages
<1>6. Connected(y, g)
  <2>1. ASSUME NEW j \in Indexes
        PROVE  IF Present(y.dir[j])
               THEN /\ y.dir[j].pma \in DOMAIN y.tables /\ y.dir[j].flags \in {Kernel, User}
                    /\ y.lookup[j] \in HeapPages(y, g)
                    /\ Walk(y, y.lookup[j]) = [pma |-> y.dir[j].pma, flags |-> Kernel]
               ELSE y.lookup[j] = NULL
    <3>1. CASE j = USER_DIR
      BY <1>3, <1>4, <3>1
    <3>2. CASE j # USER_DIR
      <4>1. y.dir[j] = x.dir[j] /\ y.lookup[j] = x.lookup[j]
        BY <1>3, <3>2
      <4> QED
        BY <1>1, <1>2, <1>5, <4>1 DEF Connected
    <3> QED
      BY <3>1, <3>2
  <2>2. ASSUME NEW j \in Indexes, NEW l \in Indexes, Present(y.dir[j]), Present(y.dir[l]),
               y.dir[j].pma = y.dir[l].pma
        PROVE  j = l
    BY <1>1, <1>3, <1>4, <2>2 DEF Connected
  <2> QED
    BY <2>1, <2>2 DEF Connected
<1>7. Layout(y, g, left, 0)
  <2>1. \A r \in Sections(g) : Walk(y, r.vma) = r.to
    BY <1>1, <1>2, SectionFacts, SpacePages DEF Layout
  <2>2. \A u \in left : Walk(y, u) = [pma |-> u, flags |-> Kernel]
    BY <1>1, <1>2, SpacePages DEF Layout
  <2>3. ASSUME NEW u \in Pages, Present(Walk(y, u))
        PROVE  u \in StaticOf(g) \cup HeapPages(y, g) \cup left
    <3>1. page_get_dir_idx(u) # USER_DIR
      BY <1>4, <2>3, Rights DEF Walk
    <3>2. u # USER_STACK
      BY <3>1, Constants
    <3> QED
      BY <1>1, <1>2, <1>5, <2>3, <3>1, <3>2 DEF Layout
  <2>4. \A u \in HeapPages(y, g) : Walk(y, u).flags = Kernel
    BY <1>1, <1>5 DEF Layout
  <2> QED
    BY <2>1, <2>2, <2>3, <2>4 DEF Layout
<1>8. Apart(y, g, left, stacks)
  <2>1. HeapFrames(y, g) = HeapFrames(x, g) /\ Listed(y) = Listed(x) /\ Frames(y, g, left) = Frames(x, g, left)
    BY <1>2, <1>5 DEF HeapFrames, Listed, Frames
  <2> QED
    BY <1>1, <1>2, <1>5, <2>1 DEF Apart
<1> QED
  BY <1>1, <1>2, <1>4, <1>6, <1>7, <1>8 DEF Space

\* Page i of the heap holds the table for an entry.
LEMMA EntryFrame ==
    ASSUME NEW x, NEW g \in Images, NEW left, NEW p, NEW stacks, Space(x, g, left, p, stacks),
           NEW v \in HeapPages(x, g)
    PROVE  page_get_entry(x, v).pma = Walk(x, v).pma /\ Walk(x, v) \in Entries /\ v \in Pages
           /\ Walk(x, v).pma \in HeapFrames(x, g)
<1>1. v \in Pages /\ Present(x.dir[page_get_dir_idx(v)]) /\ MemoryOK(x) /\ Connected(x, g)
  BY SpacePages, SpaceParts
<1>2. Walk(x, v) \in Entries
  BY <1>1, ConnectedRooted, WalkIs
<1>3. page_get_entry(x, v).pma = Walk(x, v).pma
  BY <1>1, ReachIs
<1> QED
  BY <1>1, <1>2, <1>3 DEF HeapFrames

\* The memory y is x with a table in frame f, reached at v, for entry i.
TableAdded(x, y, i, v, f) ==
    /\ y.dir = [x.dir EXCEPT ![i] = [pma |-> f, flags |-> Kernel]]
    /\ y.heap = x.heap /\ y.next_pma = x.next_pma
    /\ DOMAIN y.tables = DOMAIN x.tables \cup {f} /\ KeepsMapped(x, y)

\* page_init_cleanup gives an absent entry of the kernel an empty table.
LEMMA KernelTableSpace ==
    ASSUME NEW x, NEW g \in Images, NEW left, NEW stacks, Space(x, g, left, 0, stacks),
           NEW i \in Indexes, ~Present(x.dir[i]), NEW v \in HeapPages(x, g),
           Walk(x, v).pma \in Frames(x, g, left), Walk(x, v).pma \notin DOMAIN x.tables
    PROVE  LET y == KernelTable(x, i, v)
           IN  Space(y, g, left, 0, stacks) /\ TableAdded(x, y, i, v, Walk(x, v).pma)
<1> DEFINE f == Walk(x, v).pma
           e == IF page_get_entry(x, v).pma \in x.zero THEN NONE ELSE JUNK
           T == [j \in Indexes |-> e]
           z == PutTable(x, f, T)
           d == [pma |-> f, flags |-> Kernel]
           y == page_set_dir_entry(z, i, v, d)
<1>1. page_get_entry(x, v).pma = f /\ v \in Pages /\ f \in HeapFrames(x, g) \cap Frames(x, g, left)
      /\ d \in Entries /\ Walk(x, v) \in Entries
  <2>1. page_get_entry(x, v).pma = f /\ v \in Pages /\ f \in HeapFrames(x, g)
        /\ Walk(x, v) \in Entries
    BY EntryFrame
  <2>2. f \in -1 .. LAPIC_BASE /\ Kernel \in SUBSET User
    BY <2>1, Rights DEF Entries
  <2> HIDE DEF f
  <2>3. d \in Entries
    BY <2>2 DEF Entries
  <2> QED
    BY <2>1, <2>3 DEF f
<1>2. T \in [Indexes -> Entries] /\ \A j \in Indexes : T[j] = e /\ ~Present(T[j])
  BY Rights
<1> HIDE DEF e, T
<1>3. Space(z, g, left, 0, stacks) /\ TablePut(x, z, f, T)
  BY <1>1, <1>2, PutSpace
<1>4. KernelTable(x, i, v) = y
  <2>1. WithTable(x, f, e) = [h \in DOMAIN x.tables \cup {f} |-> IF h = f THEN T ELSE x.tables[h]]
    BY DEF WithTable, T
  <2>2. KernelTable(x, i, v) = [x EXCEPT !.lookup[i] = v, !.dir[i] = d, !.tables = WithTable(x, f, e)]
    BY <1>1 DEF KernelTable, e
  <2>3. x = [dir |-> x.dir, lookup |-> x.lookup, tables |-> x.tables,
             next_pma |-> x.next_pma, heap |-> x.heap, offset |-> x.offset,
             free |-> x.free, zero |-> x.zero, fault |-> x.fault]
    BY SpaceParts DEF MemoryOK
  <2> DEFINE U == WithTable(x, f, e)
  <2>4. z = [x EXCEPT !.tables = U]
    BY <2>1 DEF PutTable
  <2> HIDE DEF U, d, f, z
  <2>5. y = [z EXCEPT !.lookup[i] = v, !.dir[i] = d]
    BY DEF page_set_dir_entry
  <2>6. KernelTable(x, i, v) = [x EXCEPT !.lookup[i] = v, !.dir[i] = d, !.tables = U]
    BY <2>2 DEF U
  <2> QED
    BY <2>3, <2>4, <2>5, <2>6
<1> HIDE DEF z
<1>5. MemoryOK(z) /\ Connected(x, g)
  BY <1>3, SpaceParts
<1>6. MemoryOK(y) /\ DirSet(z, y, i, v, d)
  BY <1>1, <1>5, SetDirIs
<1>7. /\ z.dir = x.dir /\ z.lookup = x.lookup /\ z.heap = x.heap
      /\ z.next_pma = x.next_pma
      /\ DOMAIN z.tables = DOMAIN x.tables \cup {f} /\ z.tables[f] = T
      /\ \A u \in Pages : Walk(z, u) = Walk(x, u)
  BY <1>3 DEF TablePut
<1>8. HeapPages(z, g) = HeapPages(x, g) /\ Walk(z, v).pma = f /\ ~Present(z.dir[i])
      /\ Unused(z, f)
  BY <1>1, <1>5, <1>7 DEF HeapPages, Connected, Unused
<1>a. PICK q : q = 0
  OBVIOUS
<1>9. StackOnly(z, f, i, q)
  BY <1>2, <1>7 DEF StackOnly
<1> HIDE DEF y, f
<1>10. Space(y, g, left, q, stacks) /\ KeepsMapped(z, y)
  <2>1. f \in DOMAIN z.tables /\ v \in HeapPages(z, g)
    BY <1>7, <1>8
  <2>2. PICK rights \in {Kernel, User} : rights = Kernel
    OBVIOUS
  <2>3. DirSet(z, y, i, v, [pma |-> f, flags |-> rights])
    BY <1>6, <2>2 DEF d
  <2> QED
    BY <1>3, <1>6, <1>8, <1>9, <2>1, <2>3, NewDirSpace
<1>11. TableAdded(x, y, i, v, f)
  BY <1>6, <1>7, <1>10 DEF DirSet, TableAdded, KeepsMapped, d
<1> QED
  BY <1>4, <1>a, <1>10, <1>11 DEF f

\* A frame becomes a user stack.
LEMMA StackSpace ==
    ASSUME NEW x, NEW g \in Images, NEW left, NEW p, NEW stacks, Space(x, g, left, p, stacks),
           NEW s \in Frames(x, g, left), s \notin HeapFrames(x, g) \cup Listed(x)
    PROVE  Space(x, g, left, p, stacks \cup {s})
<1>1. Apart(x, g, left, stacks \cup {s})
  BY DEF Space, Apart
<1> QED
  BY <1>1 DEF Space

\* The memory y is x with the table of a process in frame f.
UserAdded(x, y, f) ==
    /\ y.dir = x.dir /\ y.lookup = x.lookup /\ y.heap = x.heap
    /\ x.next_pma <= y.next_pma /\ y.next_pma <= x.next_pma + 1
    /\ DOMAIN y.tables = DOMAIN x.tables \cup {f}
    /\ \A h \in DOMAIN x.tables : y.tables[h] = x.tables[h]
    /\ \A u \in Pages : Walk(y, u) = Walk(x, u)
    /\ y.tables[f][page_get_table_idx(USER_STACK)].flags = User
    /\ \A j \in Indexes : j # page_get_table_idx(USER_STACK) => ~Present(y.tables[f][j])

\* proc_register puts the table of a process into a page of the heap, and a
\* frame for its stack into the table.
LEMMA UserTableSpace ==
    ASSUME NEW x, NEW g \in Images, NEW left, NEW p, NEW stacks, Space(x, g, left, p, stacks),
           x.next_pma + 1 < LAPIC_BASE,
           NEW f \in HeapFrames(x, g) \cap Frames(x, g, left), f \notin DOMAIN x.tables
    PROVE  LET y == UserTable(x, f)
           IN  /\ UserAdded(x, y, f)
               /\ Space(y, g, left, p, stacks \cup {y.tables[f][page_get_table_idx(USER_STACK)].pma})
<1>a. PICK one \in Nat : one = 1
  OBVIOUS
<1> DEFINE z == AfterNew(x, one)
           s == page_new(x, one)[1]
           top == page_get_table_idx(USER_STACK)
           T == [j \in Indexes |-> IF j = top THEN [pma |-> s, flags |-> User]
                                   ELSE IF f \in x.zero THEN NONE ELSE JUNK]
           y == PutTable(z, f, T)
<1>1. /\ Taken(x, z, one) /\ Space(z, g, left, p, stacks)
      /\ Fresh(z, g, left, stacks, page_new(x, one)) /\ FrameSeq(page_new(x, one))
      /\ Len(page_new(x, one)) = one
      /\ \A j \in 1 .. one : page_new(x, one)[j] \in Frames(z, g, left)
      /\ SameWalks(x, z)
  <2>1. x.next_pma + one < LAPIC_BASE
    BY <1>a
  <2> QED
    BY <2>1, TakeSpace
<1>2. /\ z.dir = x.dir /\ z.lookup = x.lookup /\ z.tables = x.tables /\ z.heap = x.heap
      /\ x.next_pma <= z.next_pma /\ z.next_pma <= x.next_pma + 1
      /\ \A v : Walk(z, v) = Walk(x, v)
  BY <1>a, <1>1 DEF Taken, SameWalks
<1>3. s \in Frames(z, g, left) /\ s \notin HeapFrames(z, g) \cup Listed(z) /\ s \in -1 .. LAPIC_BASE
  <2> DEFINE new == page_new(x, one)
  <2>1. 1 \in 1 .. one /\ Len(new) = one /\ new \in Seq(-1 .. LAPIC_BASE)
    BY <1>a, <1>1 DEF FrameSeq
  <2>2. new[1] \in -1 .. LAPIC_BASE /\ new[1] \in Frames(z, g, left)
    BY <1>1, <2>1, SeqParts
  <2>3. new[1] \notin HeapFrames(z, g) \cup stacks \cup Listed(z)
    <3> HIDE DEF z, new
    <3>1. Fresh(z, g, left, stacks, new)
      BY <1>1 DEF new
    <3> QED
      BY <2>1, <3>1 DEF Fresh
  <2> QED
    BY <2>2, <2>3
<1>4. USER_STACK \in Pages /\ top \in Indexes
  BY Constants, PageParts
<1> HIDE DEF s, top
<1>5. /\ T \in [Indexes -> Entries] /\ T[top].flags = User /\ T[top].pma = s
      /\ \A j \in Indexes : j # top => ~Present(T[j])
  <2>1. [pma |-> s, flags |-> User] \in Entries
    BY <1>3 DEF Entries
  <2> QED
    BY <1>4, <2>1, Rights
<1>6. f \in HeapFrames(z, g) \cap Frames(z, g, left) /\ f \notin DOMAIN z.tables
  <2>1. HeapFrames(z, g) = HeapFrames(x, g)
    BY <1>2 DEF HeapFrames, HeapPages
  <2>2. Frames(x, g, left) \subseteq Frames(z, g, left)
    <3>1. x.next_pma \in Nat /\ z.next_pma \in Nat /\ kernel_end_pma(g) \in Nat
      BY <1>1, SpaceParts
    <3> QED
      BY <1>2, <3>1 DEF Frames
  <2> QED
    BY <1>2, <2>1, <2>2
<1>7. UserTable(x, f) = y
  <2>1. UserTable(x, f) = [z EXCEPT !.tables = [h \in DOMAIN z.tables \cup {f} |->
                              IF h # f THEN z.tables[h] ELSE T]]
    BY <1>a DEF UserTable, T, top, s, z
  <2> HIDE DEF z, T
  <2>2. [h \in DOMAIN z.tables \cup {f} |-> IF h # f THEN z.tables[h] ELSE T]
        = [h \in DOMAIN z.tables \cup {f} |-> IF h = f THEN T ELSE z.tables[h]]
    OBVIOUS
  <2> QED
    BY <2>1, <2>2 DEF PutTable
<1> HIDE DEF z, T
<1>8. Space(z, g, left, p, stacks \cup {s})
  BY <1>1, <1>3, StackSpace
<1>9. Space(y, g, left, p, stacks \cup {s}) /\ TablePut(z, y, f, T)
  BY <1>5, <1>6, <1>8, PutSpace
<1> HIDE DEF y
<1>10. UserAdded(x, y, f) /\ y.tables[f][top].pma = s
  BY <1>2, <1>5, <1>9 DEF TablePut, UserAdded, top
<1> QED
  BY <1>7, <1>9, <1>10 DEF top

\* What was mapped before the heap has grown stays so.
LEMMA GrewKeeps ==
    ASSUME NEW x, NEW y, NEW g \in Images, NEW left, NEW p, NEW stacks, NEW n \in Nat,
           Space(x, g, left, p, stacks), Grew(x, y, n), Room(x, n)
    PROVE  /\ KeepsMapped(x, y)
           /\ \A v \in HeapPages(x, g) : v \in HeapPages(y, g) /\ Walk(y, v) = Walk(x, v)
           /\ \A v \in HeapPages(y, g) : v \in HeapPages(x, g) \/ v \in x.heap .. y.heap - 1
           /\ \A v \in x.heap .. y.heap - 1 : v \in HeapPages(y, g) /\ v \notin HeapPages(x, g)
<1>1. /\ Layout(x, g, left, p) /\ x.heap \in Nat /\ HeapStart(g) <= x.heap /\ HeapStart(g) \in Nat
      /\ left \subseteq InitOf(g)
  BY SpaceParts, HeapNumbers
<1>2. /\ y.heap = x.heap + n /\ x.heap + n <= STACK_VMA
      /\ \A v \in Pages : v \notin x.heap .. y.heap - 1 => Walk(y, v) = Walk(x, v)
  BY DEF Grew, Room
<1>3. \A v \in HeapPages(x, g) : v \notin x.heap .. y.heap - 1
  BY <1>1 DEF HeapPages
<1>4. \A v \in StaticOf(g) : v \notin x.heap .. y.heap - 1
  <2>1. StaticOf(g) = (KERNEL_START_VMA .. HeapStart(g) - 1) \cup {STACK_VMA}
    BY Regions
  <2> QED
    BY <1>1, <1>2, <2>1, HeapNumbers
<1>5. \A v \in left : v \notin x.heap .. y.heap - 1
  <2>1. \A v \in left : v \in Nat /\ v < KERNEL_START_VMA
    BY <1>1, InitApart
  <2> QED
    BY <1>1, <2>1, HeapNumbers
<1>6. USER_STACK \notin x.heap .. y.heap - 1
  <2>1. USER_STACK = KERNEL_START_VMA - 1
    BY Constants
  <2> QED
    BY <1>1, <2>1, HeapNumbers
<1>7. KeepsMapped(x, y)
  BY <1>1, <1>2, <1>3, <1>4, <1>5, <1>6 DEF KeepsMapped, Layout
<1>8. \A v \in HeapPages(x, g) : v \in HeapPages(y, g)
  BY <1>1, <1>2 DEF HeapPages
<1>9. \A v \in HeapPages(x, g) : Walk(y, v) = Walk(x, v)
  BY <1>2, <1>3, SpacePages
<1>10. /\ \A v \in HeapPages(y, g) : v \in HeapPages(x, g) \/ v \in x.heap .. y.heap - 1
       /\ \A v \in x.heap .. y.heap - 1 : v \in HeapPages(y, g) /\ v \notin HeapPages(x, g)
  BY <1>1, <1>2 DEF HeapPages
<1> QED
  BY <1>7, <1>8, <1>9, <1>10

\* There is room where the tables are there.
LEMMA RoomBelow ==
    ASSUME NEW x, NEW g \in Images, NEW left, NEW p, NEW stacks, NEW n \in Nat, NEW i \in Nat,
           Space(x, g, left, p, stacks), x.heap + n <= STACK_VMA, x.heap + n <= i * PAGE_ENTRIES,
           \A j \in Indexes : KERNEL_DIR <= j /\ j < i => Present(x.dir[j])
    PROVE  Room(x, n)
<1>1. x.heap \in Nat /\ HeapStart(g) <= x.heap /\ HeapStart(g) \in Nat /\ KERNEL_START_VMA < HeapStart(g)
      /\ KERNEL_START_VMA \in Nat /\ STACK_VMA \in Nat
  BY SpaceParts, HeapNumbers
<1>2. ASSUME NEW v \in x.heap .. x.heap + n - 1 PROVE Present(x.dir[page_get_dir_idx(v)])
  <2>1. v \in Nat /\ v >= KERNEL_START_VMA /\ v <= STACK_VMA /\ v < x.heap + n
    BY <1>1
  <2>2. v < i * PAGE_ENTRIES
    <3>1. i * PAGE_ENTRIES \in Nat
      BY Product, Numbers
    <3> QED
      BY <1>1, <2>1, <3>1
  <2>3. page_get_dir_idx(v) < i
    BY <2>1, <2>2, DirBelow
  <2>4. page_get_dir_idx(v) >= KERNEL_DIR
    BY <2>1, Regions
  <2>5. page_get_dir_idx(v) \in Indexes
    BY <2>1, PageRange, PageParts
  <2> QED
    BY <2>3, <2>4, <2>5
<1> QED
  BY <1>2 DEF Room

\* The pages of the heap of x are in the heap of y, unchanged.
OldPages(x, y, g) == \A v \in HeapPages(x, g) : v \in HeapPages(y, g) /\ Walk(y, v) = Walk(x, v)

\* The new pages of the heap of y have frames that nobody used.
FreshPages(x, y, g, left) ==
    \A v \in x.heap .. y.heap - 1 :
        /\ v \in HeapPages(y, g) /\ Walk(y, v).pma \in Frames(y, g, left)
        /\ Walk(y, v).pma \notin HeapFrames(x, g) \cup {LAPIC_BASE}

\* All that is known of the heap that has grown by n ordinary pages.
LEMMA HeapGrows ==
    ASSUME NEW x, NEW g \in Images, NEW left, NEW p, NEW stacks, NEW n \in Nat,
           Space(x, g, left, p, stacks), x.next_pma + n < LAPIC_BASE, Room(x, n)
    PROVE  LET y == GrowHeap(x, n)
           IN  /\ Space(y, g, left, p, stacks) /\ Grew(x, y, n) /\ KeepsMapped(x, y)
               /\ OldPages(x, y, g) /\ FreshPages(x, y, g, left)
               /\ LAPIC_BASE \notin HeapFrames(x, g) => LAPIC_BASE \notin HeapFrames(y, g)
<1> DEFINE y == GrowHeap(x, n)
<1>1. /\ Space(y, g, left, p, stacks) /\ Grew(x, y, n)
      /\ \A v \in x.heap .. y.heap - 1 :
            /\ Walk(y, v).flags = Kernel /\ Walk(y, v).pma \in Frames(y, g, left)
            /\ Walk(y, v).pma \notin HeapFrames(x, g) \cup stacks \cup Listed(y) \cup {LAPIC_BASE}
  BY GrowSpace
<1> HIDE DEF y
<1>2. /\ KeepsMapped(x, y)
      /\ \A v \in HeapPages(x, g) : v \in HeapPages(y, g) /\ Walk(y, v) = Walk(x, v)
      /\ \A v \in HeapPages(y, g) : v \in HeapPages(x, g) \/ v \in x.heap .. y.heap - 1
      /\ \A v \in x.heap .. y.heap - 1 : v \in HeapPages(y, g) /\ v \notin HeapPages(x, g)
  BY <1>1, GrewKeeps
<1>3. FreshPages(x, y, g, left)
  BY <1>1, <1>2 DEF FreshPages
<1>4. OldPages(x, y, g)
  BY <1>2 DEF OldPages
<1>5. ASSUME LAPIC_BASE \notin HeapFrames(x, g) PROVE LAPIC_BASE \notin HeapFrames(y, g)
  BY <1>1, <1>2, <1>5 DEF HeapFrames
<1> QED
  BY <1>1, <1>2, <1>3, <1>4, <1>5 DEF y

-----------------------------------------------------------------------------
(* init_map_kernel.                                                        *)

Rec == [vma : Int, pma : Int, flags : SUBSET User]
Elems(s) == First(s, Len(s))

\* What a run of pages maps.
RunOf(n, v, p, rights) == {[vma |-> v + j, pma |-> p + j, flags |-> rights] : j \in 0 .. n - 1}

\* The pages that a loop of init_map_kernel maps.
LEMMA RunElems ==
    ASSUME NEW n \in Nat, NEW v \in Nat, NEW p \in Nat, NEW rights \in SUBSET User
    PROVE  LET s == PageRun(n, v, p, rights)
           IN  s \in Seq(Rec) /\ Len(s) = n /\ Elems(s) = RunOf(n, v, p, rights)
<1> DEFINE s == PageRun(n, v, p, rights)
<1>1. \A i \in 1 .. n : [vma |-> v + i - 1, pma |-> p + i - 1, flags |-> rights] \in Rec
  BY DEF Rec
<1>2. s = [i \in 1 .. n |-> [vma |-> v + i - 1, pma |-> p + i - 1, flags |-> rights]]
  BY DEF PageRun
<1>3. s \in Seq(Rec) /\ Len(s) = n
  <2>1. s \in [1 .. n -> Rec]
    BY <1>1, <1>2
  <2>2. s \in Seq(Rec)
    BY <2>1, SeqDef
  <2> QED
    BY <2>1, <2>2, LenProperties
<1>4. \A i \in 1 .. n : s[i] = [vma |-> v + (i - 1), pma |-> p + (i - 1), flags |-> rights] /\ i - 1 \in 0 .. n - 1
  BY <1>2
<1>5. \A j \in 0 .. n - 1 : j + 1 \in 1 .. n /\ s[j + 1] = [vma |-> v + j, pma |-> p + j, flags |-> rights]
  BY <1>2
<1> HIDE DEF s
<1>6. First(s, n) = RunOf(n, v, p, rights)
  BY <1>4, <1>5 DEF First, RunOf
<1> QED
  BY <1>3, <1>6 DEF Elems, s

\* Loops one after the other map what each of them maps.
LEMMA ConcatElems ==
    ASSUME NEW s \in Seq(Rec), NEW t \in Seq(Rec)
    PROVE  /\ s \o t \in Seq(Rec) /\ Elems(s \o t) = Elems(s) \cup Elems(t)
           /\ Len(s \o t) = Len(s) + Len(t)
<1> DEFINE c == s \o t
<1>1. /\ c \in Seq(Rec) /\ Len(c) = Len(s) + Len(t) /\ Len(s) \in Nat /\ Len(t) \in Nat
      /\ \A i \in 1 .. Len(s) + Len(t) : c[i] = IF i <= Len(s) THEN s[i] ELSE t[i - Len(s)]
  BY ConcatProperties, SeqParts
<1> HIDE DEF c
<1>2. \A i \in 1 .. Len(c) :
        \/ i \in 1 .. Len(s) /\ c[i] = s[i]
        \/ i - Len(s) \in 1 .. Len(t) /\ c[i] = t[i - Len(s)]
  BY <1>1
<1>3. \A i \in 1 .. Len(s) : i \in 1 .. Len(c) /\ c[i] = s[i]
  BY <1>1
<1>4. \A i \in 1 .. Len(t) : i + Len(s) \in 1 .. Len(c) /\ c[i + Len(s)] = t[i]
  BY <1>1
<1>5. Elems(c) = Elems(s) \cup Elems(t)
  <2>1. Elems(c) \subseteq Elems(s) \cup Elems(t)
    BY <1>2 DEF Elems, First
  <2>2. Elems(s) \subseteq Elems(c)
    BY <1>3 DEF Elems, First
  <2>3. Elems(t) \subseteq Elems(c)
    BY <1>4 DEF Elems, First
  <2> QED
    BY <2>1, <2>2, <2>3
<1> QED
  BY <1>1, <1>5 DEF c

\* What init_map_kernel maps first: the init section where it is, and the
\* sections of the kernel.
Loaded(g) ==
    {[vma |-> v, pma |-> v, flags |-> Kernel] : v \in InitOf(g)}
    \cup {[vma |-> r.vma, pma |-> r.to.pma, flags |-> r.to.flags] : r \in Sections(g)}

\* The number and the pages of all loops of init_map_kernel together.
LEMMA PredictableElems ==
    ASSUME NEW g \in Images
    PROVE  /\ Predictable(g) \in Seq(Rec)
           /\ Len(Predictable(g)) = (INIT_BSS_END(g) - INIT_START) + g.ro + g.rw + 3 + VGA_PAGES
           /\ Elems(Predictable(g)) =
                RunOf(INIT_BSS_END(g) - INIT_START, INIT_START, INIT_START, Kernel)
                \cup RunOf(g.ro, KERNEL_START_VMA, INIT_BSS_END(g), UserRead)
                \cup RunOf(g.rw, RODATA_END_VMA(g), INIT_BSS_END(g) + g.ro, User)
                \cup RunOf(1, BSS_END_VMA(g), INIT_STRUCT(g), Kernel)
                \cup RunOf(1, BSS_END_VMA(g) + 1, INIT_STRUCT(g) + 1, Kernel)
                \cup RunOf(1, STACK_VMA, INIT_STRUCT(g) + 2, Kernel)
                \cup RunOf(VGA_PAGES, BSS_END_VMA(g) + 2, VGA_PADDR_BUFFER, User)
<1> DEFINE a == PageRun(INIT_BSS_END(g) - INIT_START, INIT_START, INIT_START, Kernel)
           b == PageRun(g.ro, KERNEL_START_VMA, INIT_BSS_END(g), UserRead)
           c == PageRun(g.rw, RODATA_END_VMA(g), INIT_BSS_END(g) + g.ro, User)
           d == PageRun(1, BSS_END_VMA(g), INIT_STRUCT(g), Kernel)
           e == PageRun(1, BSS_END_VMA(g) + 1, INIT_STRUCT(g) + 1, Kernel)
           f == PageRun(1, STACK_VMA, INIT_STRUCT(g) + 2, Kernel)
           h == PageRun(VGA_PAGES, BSS_END_VMA(g) + 2, VGA_PADDR_BUFFER, User)
<1>1. /\ INIT_STRUCT(g) \in Nat /\ INIT_BSS_END(g) \in Nat /\ RODATA_END_VMA(g) \in Nat
      /\ BSS_END_VMA(g) \in Nat /\ INIT_START <= INIT_STRUCT(g) /\ INIT_STRUCT(g) + 3 <= INIT_BSS_END(g)
  BY ImageFacts
<1>2. g.ro \in Nat /\ g.rw \in Nat
  BY PagingAssumption
<1>3. /\ INIT_START \in Nat /\ KERNEL_START_VMA \in Nat /\ STACK_VMA \in Nat /\ VGA_PAGES \in Nat
      /\ VGA_PADDR_BUFFER \in Nat
  BY Numbers
<1>4. /\ INIT_BSS_END(g) - INIT_START \in Nat /\ INIT_BSS_END(g) + g.ro \in Nat
      /\ BSS_END_VMA(g) + 1 \in Nat /\ INIT_STRUCT(g) + 1 \in Nat /\ INIT_STRUCT(g) + 2 \in Nat
      /\ BSS_END_VMA(g) + 2 \in Nat
  BY <1>1, <1>2, <1>3
<1>5. Kernel \in SUBSET User /\ UserRead \in SUBSET User /\ User \in SUBSET User
  BY Rights
<1>6. PICK one \in Nat : one = 1
  OBVIOUS
<1>7. a \in Seq(Rec) /\ Len(a) = INIT_BSS_END(g) - INIT_START /\ Elems(a) = RunOf(INIT_BSS_END(g) - INIT_START, INIT_START, INIT_START, Kernel)
  BY <1>3, <1>4, <1>5, RunElems
<1>8. b \in Seq(Rec) /\ Len(b) = g.ro /\ Elems(b) = RunOf(g.ro, KERNEL_START_VMA, INIT_BSS_END(g), UserRead)
  BY <1>1, <1>2, <1>3, <1>5, RunElems
<1>9. c \in Seq(Rec) /\ Len(c) = g.rw /\ Elems(c) = RunOf(g.rw, RODATA_END_VMA(g), INIT_BSS_END(g) + g.ro, User)
  <2>1. PICK p \in Nat : p = INIT_BSS_END(g) + g.ro
    BY <1>4
  <2>2. PICK n \in Nat : n = g.rw
    BY <1>2
  <2> QED
    BY <1>1, <1>5, <2>1, <2>2, RunElems
<1>10. d \in Seq(Rec) /\ Len(d) = 1 /\ Elems(d) = RunOf(1, BSS_END_VMA(g), INIT_STRUCT(g), Kernel)
  <2>1. /\ PageRun(one, BSS_END_VMA(g), INIT_STRUCT(g), Kernel) \in Seq(Rec) /\ Len(PageRun(one, BSS_END_VMA(g), INIT_STRUCT(g), Kernel)) = one
        /\ Elems(PageRun(one, BSS_END_VMA(g), INIT_STRUCT(g), Kernel)) = RunOf(one, BSS_END_VMA(g), INIT_STRUCT(g), Kernel)
    BY <1>1, <1>5, RunElems
  <2> QED
    BY <1>6, <2>1
<1>11. e \in Seq(Rec) /\ Len(e) = 1 /\ Elems(e) = RunOf(1, BSS_END_VMA(g) + 1, INIT_STRUCT(g) + 1, Kernel)
  <2>1. /\ PageRun(one, BSS_END_VMA(g) + 1, INIT_STRUCT(g) + 1, Kernel) \in Seq(Rec) /\ Len(PageRun(one, BSS_END_VMA(g) + 1, INIT_STRUCT(g) + 1, Kernel)) = one
        /\ Elems(PageRun(one, BSS_END_VMA(g) + 1, INIT_STRUCT(g) + 1, Kernel)) = RunOf(one, BSS_END_VMA(g) + 1, INIT_STRUCT(g) + 1, Kernel)
    BY <1>4, <1>5, RunElems
  <2> QED
    BY <1>6, <2>1
<1>12. f \in Seq(Rec) /\ Len(f) = 1 /\ Elems(f) = RunOf(1, STACK_VMA, INIT_STRUCT(g) + 2, Kernel)
  <2>1. /\ PageRun(one, STACK_VMA, INIT_STRUCT(g) + 2, Kernel) \in Seq(Rec) /\ Len(PageRun(one, STACK_VMA, INIT_STRUCT(g) + 2, Kernel)) = one
        /\ Elems(PageRun(one, STACK_VMA, INIT_STRUCT(g) + 2, Kernel)) = RunOf(one, STACK_VMA, INIT_STRUCT(g) + 2, Kernel)
    BY <1>3, <1>4, <1>5, RunElems
  <2> QED
    BY <1>6, <2>1
<1>13. h \in Seq(Rec) /\ Len(h) = VGA_PAGES /\ Elems(h) = RunOf(VGA_PAGES, BSS_END_VMA(g) + 2, VGA_PADDR_BUFFER, User)
  BY <1>3, <1>4, <1>5, RunElems
<1>14. Predictable(g) = a \o b \o c \o d \o e \o f \o h
  BY DEF Predictable
<1> HIDE DEF a, b, c, d, e, f, h
<1>15. a \o b \in Seq(Rec) /\ Elems(a \o b) = Elems(a) \cup Elems(b)
       /\ Len(a \o b) = Len(a) + Len(b)
  BY <1>7, <1>8, ConcatElems
<1>16. a \o b \o c \in Seq(Rec) /\ Elems(a \o b \o c) = Elems(a \o b) \cup Elems(c)
       /\ Len(a \o b \o c) = Len(a \o b) + Len(c)
  BY <1>15, <1>9, ConcatElems
<1>17. a \o b \o c \o d \in Seq(Rec) /\ Elems(a \o b \o c \o d) = Elems(a \o b \o c) \cup Elems(d)
       /\ Len(a \o b \o c \o d) = Len(a \o b \o c) + Len(d)
  BY <1>16, <1>10, ConcatElems
<1>18. a \o b \o c \o d \o e \in Seq(Rec) /\ Elems(a \o b \o c \o d \o e) = Elems(a \o b \o c \o d) \cup Elems(e)
       /\ Len(a \o b \o c \o d \o e) = Len(a \o b \o c \o d) + Len(e)
  BY <1>17, <1>11, ConcatElems
<1>19. a \o b \o c \o d \o e \o f \in Seq(Rec) /\ Elems(a \o b \o c \o d \o e \o f) = Elems(a \o b \o c \o d \o e) \cup Elems(f)
       /\ Len(a \o b \o c \o d \o e \o f) = Len(a \o b \o c \o d \o e) + Len(f)
  BY <1>18, <1>12, ConcatElems
<1>20. a \o b \o c \o d \o e \o f \o h \in Seq(Rec)
       /\ Elems(a \o b \o c \o d \o e \o f \o h) = Elems(a \o b \o c \o d \o e \o f) \cup Elems(h)
       /\ Len(a \o b \o c \o d \o e \o f \o h) = Len(a \o b \o c \o d \o e \o f) + Len(h)
  BY <1>19, <1>13, ConcatElems
<1>21. Len(Predictable(g)) = (INIT_BSS_END(g) - INIT_START) + g.ro + g.rw + 3 + VGA_PAGES
  <2>1. Len(Predictable(g)) = Len(a) + Len(b) + Len(c) + Len(d) + Len(e) + Len(f) + Len(h)
    BY <1>14, <1>15, <1>16, <1>17, <1>18, <1>19, <1>20, Zenon
  <2>2. Len(Predictable(g)) = (INIT_BSS_END(g) - INIT_START) + g.ro + g.rw + 1 + 1 + 1 + VGA_PAGES
    BY <1>7, <1>8, <1>9, <1>10, <1>11, <1>12, <1>13, <2>1, Zenon
  <2> QED
    BY <1>1, <1>2, <1>3, <2>2
<1> QED
  BY <1>21, <1>7, <1>8, <1>9, <1>10, <1>11, <1>12, <1>13, <1>14, <1>15, <1>16, <1>17, <1>18, <1>19, <1>20, Zenon

\* They are the init section and the sections of the kernel.
LEMMA PredictableIs ==
    ASSUME NEW g \in Images
    PROVE  Predictable(g) \in Seq(Rec) /\ Elems(Predictable(g)) = Loaded(g)
<1>1. /\ INIT_STRUCT(g) \in Nat /\ INIT_BSS_END(g) \in Nat /\ RODATA_END_VMA(g) \in Nat
      /\ BSS_END_VMA(g) \in Nat /\ INIT_START \in Nat /\ KERNEL_START_VMA \in Nat /\ STACK_VMA \in Nat
      /\ VGA_PAGES \in Nat /\ VGA_PADDR_BUFFER \in Nat
  BY ImageFacts, Numbers
<1>2. /\ g.ro \in Nat /\ g.rw \in Nat /\ RODATA_END_VMA(g) = KERNEL_START_VMA + g.ro
      /\ BSS_END_VMA(g) = RODATA_END_VMA(g) + g.rw
  BY <1>1, PagingAssumption DEF RODATA_END_VMA, BSS_END_VMA
<1> DEFINE To(r) == [vma |-> r.vma, pma |-> r.to.pma, flags |-> r.to.flags]
           Kern == {Fixed(v, INIT_BSS_END(g) + v - KERNEL_START_VMA,
                          IF v < RODATA_END_VMA(g) THEN UserRead ELSE User) :
                      v \in KERNEL_START_VMA .. BSS_END_VMA(g) - 1}
           Three == {Fixed(BSS_END_VMA(g), INIT_STRUCT(g), Kernel),
                     Fixed(BSS_END_VMA(g) + 1, INIT_STRUCT(g) + 1, Kernel),
                     Fixed(STACK_VMA, INIT_STRUCT(g) + 2, Kernel)}
           Text == {Fixed(BSS_END_VMA(g) + 2 + j, VGA_PADDR_BUFFER + j, User) : j \in 0 .. VGA_PAGES - 1}
<1>3. Sections(g) = Kern \cup Three \cup Text
  BY DEF Sections
<1>4. {To(r) : r \in Text} = RunOf(VGA_PAGES, BSS_END_VMA(g) + 2, VGA_PADDR_BUFFER, User)
  <2> DEFINE F(j) == Fixed(BSS_END_VMA(g) + 2 + j, VGA_PADDR_BUFFER + j, User)
             R(j) == [vma |-> BSS_END_VMA(g) + 2 + j, pma |-> VGA_PADDR_BUFFER + j, flags |-> User]
  <2>1. \A j : To(F(j)) = R(j)
    BY DEF Fixed
  <2>2. Text = {F(j) : j \in 0 .. VGA_PAGES - 1}
        /\ RunOf(VGA_PAGES, BSS_END_VMA(g) + 2, VGA_PADDR_BUFFER, User) = {R(j) : j \in 0 .. VGA_PAGES - 1}
    BY DEF RunOf
  <2> HIDE DEF F, R, To, Text
  <2> QED
    BY <2>1, <2>2
<1>5. {To(r) : r \in Three} = RunOf(1, BSS_END_VMA(g), INIT_STRUCT(g), Kernel)
        \cup RunOf(1, BSS_END_VMA(g) + 1, INIT_STRUCT(g) + 1, Kernel)
        \cup RunOf(1, STACK_VMA, INIT_STRUCT(g) + 2, Kernel)
  <2>1. {To(r) : r \in Three} =
            {[vma |-> BSS_END_VMA(g), pma |-> INIT_STRUCT(g), flags |-> Kernel],
             [vma |-> BSS_END_VMA(g) + 1, pma |-> INIT_STRUCT(g) + 1, flags |-> Kernel],
             [vma |-> STACK_VMA, pma |-> INIT_STRUCT(g) + 2, flags |-> Kernel]}
    BY DEF Fixed
  <2>2. \A v, p \in Nat : RunOf(1, v, p, Kernel) = {[vma |-> v, pma |-> p, flags |-> Kernel]}
    <3> TAKE v, p \in Nat
    <3>1. 0 .. 1 - 1 = {0} /\ v + 0 = v /\ p + 0 = p
      OBVIOUS
    <3> QED
      BY <3>1 DEF RunOf
  <2>3. /\ BSS_END_VMA(g) + 1 \in Nat /\ INIT_STRUCT(g) + 1 \in Nat /\ INIT_STRUCT(g) + 2 \in Nat
    BY <1>1
  <2> QED
    BY <1>1, <2>1, <2>2, <2>3
<1>6. {To(r) : r \in Kern} = RunOf(g.ro, KERNEL_START_VMA, INIT_BSS_END(g), UserRead)
        \cup RunOf(g.rw, RODATA_END_VMA(g), INIT_BSS_END(g) + g.ro, User)
  <2> DEFINE K(v) == [vma |-> v, pma |-> INIT_BSS_END(g) + v - KERNEL_START_VMA,
                      flags |-> IF v < RODATA_END_VMA(g) THEN UserRead ELSE User]
  <2>1. {To(r) : r \in Kern} = {K(v) : v \in KERNEL_START_VMA .. BSS_END_VMA(g) - 1}
    <3> DEFINE F(v) == Fixed(v, INIT_BSS_END(g) + v - KERNEL_START_VMA,
                             IF v < RODATA_END_VMA(g) THEN UserRead ELSE User)
    <3>1. \A v : To(F(v)) = K(v)
      BY DEF Fixed
    <3>2. Kern = {F(v) : v \in KERNEL_START_VMA .. BSS_END_VMA(g) - 1}
      OBVIOUS
    <3> HIDE DEF F, K, To, Kern
    <3> QED
      BY <3>1, <3>2
  <2>2. ASSUME NEW v \in KERNEL_START_VMA .. BSS_END_VMA(g) - 1
        PROVE  \/ K(v) \in RunOf(g.ro, KERNEL_START_VMA, INIT_BSS_END(g), UserRead)
               \/ K(v) \in RunOf(g.rw, RODATA_END_VMA(g), INIT_BSS_END(g) + g.ro, User)
    <3>1. CASE v < RODATA_END_VMA(g)
      <4>1. PICK j \in 0 .. g.ro - 1 : v = KERNEL_START_VMA + j
        <5>1. v - KERNEL_START_VMA \in 0 .. g.ro - 1 /\ v = KERNEL_START_VMA + (v - KERNEL_START_VMA)
          BY <1>1, <1>2, <3>1
        <5> QED
          BY <5>1
      <4>2. INIT_BSS_END(g) + v - KERNEL_START_VMA = INIT_BSS_END(g) + j
        BY <1>1, <4>1
      <4> QED
        BY <3>1, <4>1, <4>2 DEF RunOf
    <3>2. CASE ~(v < RODATA_END_VMA(g))
      <4>1. PICK j \in 0 .. g.rw - 1 : v = RODATA_END_VMA(g) + j
        <5>1. v - RODATA_END_VMA(g) \in 0 .. g.rw - 1 /\ v = RODATA_END_VMA(g) + (v - RODATA_END_VMA(g))
          BY <1>1, <1>2, <3>2
        <5> QED
          BY <5>1
      <4>2. INIT_BSS_END(g) + v - KERNEL_START_VMA = INIT_BSS_END(g) + g.ro + j
        BY <1>1, <1>2, <4>1
      <4> QED
        BY <3>2, <4>1, <4>2 DEF RunOf
    <3> QED
      BY <3>1, <3>2
  <2>3. ASSUME NEW j \in 0 .. g.ro - 1
        PROVE  \E v \in KERNEL_START_VMA .. BSS_END_VMA(g) - 1 :
                  [vma |-> KERNEL_START_VMA + j, pma |-> INIT_BSS_END(g) + j, flags |-> UserRead] = K(v)
    <3>1. /\ KERNEL_START_VMA + j \in KERNEL_START_VMA .. BSS_END_VMA(g) - 1
          /\ KERNEL_START_VMA + j < RODATA_END_VMA(g)
          /\ INIT_BSS_END(g) + (KERNEL_START_VMA + j) - KERNEL_START_VMA = INIT_BSS_END(g) + j
      BY <1>1, <1>2
    <3> QED
      BY <3>1
  <2>4. ASSUME NEW j \in 0 .. g.rw - 1
        PROVE  \E v \in KERNEL_START_VMA .. BSS_END_VMA(g) - 1 :
                  [vma |-> RODATA_END_VMA(g) + j, pma |-> INIT_BSS_END(g) + g.ro + j, flags |-> User] = K(v)
    <3>1. /\ RODATA_END_VMA(g) + j \in KERNEL_START_VMA .. BSS_END_VMA(g) - 1
          /\ ~(RODATA_END_VMA(g) + j < RODATA_END_VMA(g))
          /\ INIT_BSS_END(g) + (RODATA_END_VMA(g) + j) - KERNEL_START_VMA = INIT_BSS_END(g) + g.ro + j
      BY <1>1, <1>2
    <3> QED
      BY <3>1
  <2> HIDE DEF K
  <2>5. {K(v) : v \in KERNEL_START_VMA .. BSS_END_VMA(g) - 1} \subseteq
            RunOf(g.ro, KERNEL_START_VMA, INIT_BSS_END(g), UserRead)
            \cup RunOf(g.rw, RODATA_END_VMA(g), INIT_BSS_END(g) + g.ro, User)
    BY <2>2
  <2>6. RunOf(g.ro, KERNEL_START_VMA, INIT_BSS_END(g), UserRead) \subseteq
            {K(v) : v \in KERNEL_START_VMA .. BSS_END_VMA(g) - 1}
    BY <2>3 DEF RunOf
  <2>7. RunOf(g.rw, RODATA_END_VMA(g), INIT_BSS_END(g) + g.ro, User) \subseteq
            {K(v) : v \in KERNEL_START_VMA .. BSS_END_VMA(g) - 1}
    BY <2>4 DEF RunOf
  <2> QED
    BY <2>1, <2>5, <2>6, <2>7
<1>7. {[vma |-> v, pma |-> v, flags |-> Kernel] : v \in InitOf(g)} =
        RunOf(INIT_BSS_END(g) - INIT_START, INIT_START, INIT_START, Kernel)
  <2>1. \A v \in InitOf(g) : v - INIT_START \in 0 .. (INIT_BSS_END(g) - INIT_START) - 1
                             /\ INIT_START + (v - INIT_START) = v
    BY <1>1 DEF InitOf
  <2>2. \A j \in 0 .. (INIT_BSS_END(g) - INIT_START) - 1 : INIT_START + j \in InitOf(g)
    BY <1>1 DEF InitOf
  <2>3. ASSUME NEW v \in InitOf(g)
        PROVE  [vma |-> v, pma |-> v, flags |-> Kernel] \in
                    RunOf(INIT_BSS_END(g) - INIT_START, INIT_START, INIT_START, Kernel)
    BY <2>1 DEF RunOf
  <2>4. RunOf(INIT_BSS_END(g) - INIT_START, INIT_START, INIT_START, Kernel) \subseteq
            {[vma |-> v, pma |-> v, flags |-> Kernel] : v \in InitOf(g)}
    BY <2>2 DEF RunOf
  <2> QED
    BY <2>3, <2>4
<1> HIDE DEF Kern, Three, Text
<1>8. {To(r) : r \in Sections(g)} = {To(r) : r \in Kern} \cup {To(r) : r \in Three} \cup {To(r) : r \in Text}
  BY <1>3
<1>9. Loaded(g) = {[vma |-> v, pma |-> v, flags |-> Kernel] : v \in InitOf(g)} \cup {To(r) : r \in Sections(g)}
  BY DEF Loaded
<1> QED
  BY <1>4, <1>5, <1>6, <1>7, <1>8, <1>9, PredictableElems

\* Higher pages have higher directory entries.
LEMMA DirMonotone ==
    ASSUME NEW u \in Nat, NEW v \in Nat, u <= v
    PROVE  page_get_dir_idx(u) <= page_get_dir_idx(v)
<1>1. page_get_dir_idx(u) \in Nat /\ page_get_dir_idx(v) \in Nat /\ PAGE_ENTRIES \in Nat
  BY Split, Numbers
<1>2. page_get_dir_idx(u) * PAGE_ENTRIES \in Nat
  BY <1>1, Product
<1>3. ~(u < page_get_dir_idx(u) * PAGE_ENTRIES)
  BY <1>1, DirBelow
<1>4. v < page_get_dir_idx(u) * PAGE_ENTRIES <=> page_get_dir_idx(v) < page_get_dir_idx(u)
  BY <1>1, DirBelow
<1> QED
  BY <1>1, <1>2, <1>3, <1>4

\* The pages of the kernel's first table.
LEMMA KernelTablePages ==
    ASSUME NEW v \in Nat, KERNEL_START_VMA <= v, v < KERNEL_START_VMA + PAGE_ENTRIES
    PROVE  page_get_dir_idx(v) = KERNEL_DIR
<1>1. KERNEL_DIR \in Nat /\ PAGE_ENTRIES \in Nat /\ KERNEL_START_VMA \in Nat
  BY Numbers
<1>2. (KERNEL_DIR + 1) * PAGE_ENTRIES = KERNEL_START_VMA + PAGE_ENTRIES
  BY <1>1, Product DEF KERNEL_START_VMA
<1>3. page_get_dir_idx(v) < KERNEL_DIR + 1
  <2>1. KERNEL_DIR + 1 \in Nat
    BY <1>1
  <2>2. v < (KERNEL_DIR + 1) * PAGE_ENTRIES
    BY <1>2
  <2> QED
    BY <2>1, <2>2, DirBelow
<1>4. page_get_dir_idx(KERNEL_START_VMA) = KERNEL_DIR
  BY Constants
<1>5. KERNEL_DIR <= page_get_dir_idx(v) /\ page_get_dir_idx(v) \in Nat
  BY <1>1, <1>4, DirMonotone, Split
<1> QED
  BY <1>1, <1>3, <1>5

\* A page to be mapped by init_page_map.
PageRec(r, g) ==
    /\ r = [vma |-> r.vma, pma |-> r.pma, flags |-> r.flags]
    /\ r.vma \in Pages /\ r.pma \in Nat /\ r.pma < LAPIC_BASE
    /\ r.flags \subseteq User /\ PRESENT \in r.flags
    /\ page_get_dir_idx(r.vma) \in BootDirs(g)

\* Every page init_map_kernel maps is a page record of its own.
LEMMA LoadedFacts ==
    ASSUME NEW g \in Images
    PROVE  /\ \A r \in Loaded(g) : PageRec(r, g) /\ r.vma \in InitOf(g) \cup StaticOf(g)
           /\ \A r, s \in Loaded(g) : r.vma = s.vma => r = s
<1>1. /\ INIT_BSS_END(g) \in Nat /\ INIT_STRUCT(g) \in Nat /\ kernel_end_pma(g) \in Nat
      /\ HeapStart(g) \in Nat /\ INIT_START <= INIT_STRUCT(g) /\ INIT_STRUCT(g) + 3 <= INIT_BSS_END(g)
      /\ KERNEL_START_VMA < BSS_END_VMA(g) /\ BSS_END_VMA(g) \in Nat
      /\ kernel_end_pma(g) = INIT_BSS_END(g) + (BSS_END_VMA(g) - KERNEL_START_VMA)
      /\ HeapStart(g) + BootTables(g) + 4 <= KERNEL_START_VMA + PAGE_ENTRIES
      /\ kernel_end_pma(g) + HeapSize(g) + NPROC < LAPIC_BASE /\ HeapSize(g) \in Nat /\ BootTables(g) \in Nat
  <2>1. KERNEL_START_VMA < RODATA_END_VMA(g) /\ RODATA_END_VMA(g) < BSS_END_VMA(g) /\ RODATA_END_VMA(g) \in Nat
    BY ImageFacts
  <2> QED
    BY <2>1, ImageFacts, Numbers
<1>2. /\ INIT_START \in Nat /\ INIT_START > 0 /\ KERNEL_START_VMA \in Nat /\ STACK_VMA \in Nat
      /\ PAGE_ENTRIES \in Nat /\ LAPIC_BASE \in Nat /\ NPROC \in Nat
      /\ VGA_PAGES \in Nat /\ VGA_PADDR_BUFFER \in Nat /\ VGA_PADDR_BUFFER + VGA_PAGES <= INIT_START
  BY Numbers
<1>3. ASSUME NEW v \in InitOf(g)
      PROVE  PageRec([vma |-> v, pma |-> v, flags |-> Kernel], g)
  <2>1. v \in Pages /\ v \in Nat /\ v < LAPIC_BASE
    BY <1>3, InitApart
  <2>2. INIT_START <= v /\ v <= INIT_BSS_END(g) - 1 /\ INIT_BSS_END(g) - 1 \in Nat
    BY <1>1, <1>2, <1>3 DEF InitOf
  <2>3. page_get_dir_idx(v) \in page_get_dir_idx(INIT_START) .. page_get_dir_idx(INIT_BSS_END(g) - 1)
    <3>1. /\ page_get_dir_idx(INIT_START) <= page_get_dir_idx(v)
          /\ page_get_dir_idx(v) <= page_get_dir_idx(INIT_BSS_END(g) - 1)
      BY <1>2, <2>1, <2>2, DirMonotone
    <3>2. /\ page_get_dir_idx(INIT_START) \in Nat /\ page_get_dir_idx(v) \in Nat
          /\ page_get_dir_idx(INIT_BSS_END(g) - 1) \in Nat
      BY <1>2, <2>1, <2>2, Split
    <3> QED
      BY <3>1, <3>2
  <2>4. page_get_dir_idx(v) \in BootDirs(g)
    BY <2>3 DEF BootDirs
  <2> QED
    BY <2>1, <2>4, Rights DEF PageRec
<1>4. ASSUME NEW r \in Sections(g)
      PROVE  PageRec([vma |-> r.vma, pma |-> r.to.pma, flags |-> r.to.flags], g)
  <2>1. r.to \in Entries /\ Present(r.to) /\ r.vma \in StaticOf(g) /\ r.to.pma \in SectionFrames(g)
    BY <1>4, SectionFacts
  <2>2. r.to.pma \in Nat /\ r.to.pma < LAPIC_BASE
    BY <1>1, <1>2, <2>1 DEF SectionFrames, StructOf
  <2>3. r.vma \in Pages /\ (r.vma \in KERNEL_START_VMA .. HeapStart(g) - 1 \/ r.vma = STACK_VMA)
    BY <2>1, Regions
  <2>4. page_get_dir_idx(r.vma) \in BootDirs(g)
    <3>1. CASE r.vma = STACK_VMA
      BY <3>1, Constants DEF BootDirs
    <3>2. CASE r.vma \in KERNEL_START_VMA .. HeapStart(g) - 1
      <4>1. r.vma \in Nat /\ KERNEL_START_VMA <= r.vma /\ r.vma < KERNEL_START_VMA + PAGE_ENTRIES
        BY <1>1, <1>2, <3>2
      <4> QED
        BY <4>1, KernelTablePages DEF BootDirs
    <3> QED
      BY <2>3, <3>1, <3>2
  <2>5. r.to.flags \subseteq User /\ PRESENT \in r.to.flags
    BY <2>1 DEF Entries, Present
  <2> QED
    BY <2>2, <2>3, <2>4, <2>5 DEF PageRec
<1>5. \A r \in Loaded(g) : PageRec(r, g) /\ r.vma \in InitOf(g) \cup StaticOf(g)
  <2>1. \A r \in Sections(g) : r.vma \in StaticOf(g)
    BY SectionFacts
  <2> QED
    BY <1>3, <1>4, <2>1 DEF Loaded
<1>6. ASSUME NEW r \in Loaded(g), NEW s \in Loaded(g), r.vma = s.vma
      PROVE  r = s
  <2>1. CASE r.vma \in InitOf(g)
    <3>1. \A t \in Sections(g) : t.vma # r.vma
      BY <2>1, InitApart, SectionFacts
    <3> QED
      BY <1>6, <3>1 DEF Loaded
  <2>2. CASE r.vma \notin InitOf(g)
    <3>1. PICK t \in Sections(g) : r = [vma |-> t.vma, pma |-> t.to.pma, flags |-> t.to.flags]
      BY <1>6, <2>2 DEF Loaded
    <3>2. PICK w \in Sections(g) : s = [vma |-> w.vma, pma |-> w.to.pma, flags |-> w.to.flags]
      BY <1>6, <2>2 DEF Loaded
    <3>3. t.vma = w.vma
      BY <1>6, <3>1, <3>2
    <3>4. t = w
      BY <3>3, SectionFacts
    <3> QED
      BY <3>1, <3>2, <3>4
  <2> QED
    BY <2>1, <2>2
<1> QED
  BY <1>5, <1>6

\* There are no more tables than directory entries they are for.
LEMMA BootCard ==
    ASSUME NEW g \in Images, NEW S \in SUBSET BootDirs(g)
    PROVE  IsFiniteSet(S) /\ Cardinality(S) \in Nat /\ Cardinality(S) <= BootTables(g)
<1> DEFINE a == page_get_dir_idx(INIT_START)
           b == page_get_dir_idx(INIT_BSS_END(g) - 1)
<1>1. a \in Nat /\ b \in Nat /\ BootTables(g) = b - a + 3 /\ BootTables(g) >= 3 /\ BootTables(g) \in Nat
  <2>1. INIT_START \in Nat /\ INIT_BSS_END(g) - 1 \in Nat
    <3>1. INIT_BSS_END(g) \in Nat /\ INIT_STRUCT(g) \in Nat /\ INIT_STRUCT(g) + 3 <= INIT_BSS_END(g)
      BY ImageFacts
    <3> QED
      BY <3>1, Numbers
  <2> QED
    BY <2>1, Split, ImageFacts DEF BootTables
<1>2. BootDirs(g) = (a .. b) \cup {KERNEL_DIR} \cup {PAGE_ENTRIES - 1}
  BY DEF BootDirs
<1> HIDE DEF a, b
<1>3. IsFiniteSet(a .. b) /\ Cardinality(a .. b) = b - a + 1
  BY <1>1, FS_Interval
<1>4. /\ IsFiniteSet((a .. b) \cup {KERNEL_DIR})
      /\ Cardinality((a .. b) \cup {KERNEL_DIR}) \in Nat
      /\ Cardinality((a .. b) \cup {KERNEL_DIR}) <= b - a + 2
  <2>1. /\ IsFiniteSet((a .. b) \cup {KERNEL_DIR})
        /\ Cardinality((a .. b) \cup {KERNEL_DIR}) =
                IF KERNEL_DIR \in a .. b THEN Cardinality(a .. b) ELSE Cardinality(a .. b) + 1
    BY <1>3, FS_AddElement
  <2> QED
    BY <1>1, <1>3, <2>1
<1>5. IsFiniteSet(BootDirs(g)) /\ Cardinality(BootDirs(g)) \in Nat /\ Cardinality(BootDirs(g)) <= b - a + 3
  <2> DEFINE D == (a .. b) \cup {KERNEL_DIR}
  <2>1. /\ IsFiniteSet(D \cup {PAGE_ENTRIES - 1})
        /\ Cardinality(D \cup {PAGE_ENTRIES - 1}) =
                IF PAGE_ENTRIES - 1 \in D THEN Cardinality(D) ELSE Cardinality(D) + 1
    BY <1>4, FS_AddElement
  <2> HIDE DEF D
  <2>2. Cardinality(D) \in Nat /\ Cardinality(D) <= b - a + 2 /\ BootDirs(g) = D \cup {PAGE_ENTRIES - 1}
    BY <1>2, <1>4 DEF D
  <2> QED
    BY <1>1, <2>1, <2>2
<1>6. IsFiniteSet(S) /\ Cardinality(S) <= Cardinality(BootDirs(g))
  BY <1>5, FS_Subset
<1>7. Cardinality(S) \in Nat
  BY <1>6, FS_CardinalityType
<1> QED
  BY <1>1, <1>5, <1>6, <1>7

Tabled(x) == {i \in Indexes : Present(x.dir[i])}

\* What the numbering of the first tables gives.
LEMMA NumberedParts ==
    ASSUME NEW x, NEW g \in Images, MemoryOK(x), Numbered(x, g)
    PROVE  /\ x.offset \in Nat /\ x.offset >= 1 /\ x.offset - 1 \in 0 .. BootTables(g)
           /\ x.next_pma = kernel_end_pma(g) + x.offset - 1 /\ x.heap = HeapStart(g) /\ x.free = <<>>
           /\ DOMAIN x.tables = kernel_end_pma(g) .. x.next_pma - 1
           /\ Tabled(x) \subseteq BootDirs(g) /\ Cardinality(Tabled(x)) = x.offset - 1
           /\ Rooted(x)
           /\ \A i \in Indexes :
                /\ Present(x.dir[i]) => /\ x.lookup[i] \in 1 .. x.offset - 1
                                        /\ x.dir[i] = [pma |-> kernel_end_pma(g) + x.lookup[i] - 1, flags |-> User]
                /\ ~Present(x.dir[i]) => x.dir[i] = NONE /\ x.lookup[i] = NULL
           /\ \A i, j \in Indexes :
                Present(x.dir[i]) /\ Present(x.dir[j]) /\ x.dir[i].pma = x.dir[j].pma => i = j
<1>1. /\ x.free = <<>> /\ x.heap = HeapStart(g) /\ x.offset \in Nat \ {0}
      /\ x.next_pma = kernel_end_pma(g) + x.offset - 1
      /\ DOMAIN x.tables = kernel_end_pma(g) .. x.next_pma - 1
      /\ \A i \in Indexes :
          \/ x.dir[i] = NONE /\ x.lookup[i] = NULL
          \/ /\ x.lookup[i] \in 1 .. x.offset - 1 /\ i \in BootDirs(g)
             /\ x.dir[i] = [pma |-> kernel_end_pma(g) + x.lookup[i] - 1, flags |-> User]
      /\ \A i, j \in Indexes : x.lookup[i] = x.lookup[j] /\ x.lookup[i] # NULL => i = j
      /\ Cardinality(Tabled(x)) = x.offset - 1
  BY DEF Numbered, Tabled
<1>2. ~Present(NONE) /\ \A p : Present([pma |-> p, flags |-> User])
  BY Rights DEF Present
<1>3. \A i \in Indexes :
        /\ Present(x.dir[i]) => /\ x.lookup[i] \in 1 .. x.offset - 1 /\ i \in BootDirs(g)
                                /\ x.dir[i] = [pma |-> kernel_end_pma(g) + x.lookup[i] - 1, flags |-> User]
        /\ ~Present(x.dir[i]) => x.dir[i] = NONE /\ x.lookup[i] = NULL
  BY <1>1, <1>2
<1>4. Tabled(x) \subseteq BootDirs(g)
  BY <1>3 DEF Tabled
<1>5. x.offset - 1 \in 0 .. BootTables(g)
  <2>1. Cardinality(Tabled(x)) \in Nat /\ Cardinality(Tabled(x)) <= BootTables(g)
    BY <1>4, BootCard
  <2>2. BootTables(g) \in Nat
    BY ImageFacts
  <2> QED
    BY <1>1, <2>1, <2>2
<1>6. kernel_end_pma(g) \in Nat
  BY ImageFacts
<1>7. \A i \in Indexes : Present(x.dir[i]) =>
        /\ x.dir[i].pma = kernel_end_pma(g) + x.lookup[i] - 1 /\ x.lookup[i] \in Nat /\ x.lookup[i] # NULL
        /\ x.dir[i].pma \in DOMAIN x.tables
  <2> SUFFICES ASSUME NEW i \in Indexes, Present(x.dir[i])
               PROVE  /\ x.dir[i].pma = kernel_end_pma(g) + x.lookup[i] - 1 /\ x.lookup[i] \in Nat /\ x.lookup[i] # NULL
                      /\ x.dir[i].pma \in DOMAIN x.tables
    OBVIOUS
  <2>1. /\ x.lookup[i] \in 1 .. x.offset - 1
        /\ x.dir[i] = [pma |-> kernel_end_pma(g) + x.lookup[i] - 1, flags |-> User]
    BY <1>3
  <2>2. x.dir[i].pma = kernel_end_pma(g) + x.lookup[i] - 1
    BY <2>1
  <2> QED
    BY <1>1, <1>6, <2>1, <2>2 DEF NULL
<1>8. ASSUME NEW i \in Indexes, NEW j \in Indexes, Present(x.dir[i]), Present(x.dir[j]), x.dir[i].pma = x.dir[j].pma
      PROVE  i = j
  <2>1. x.lookup[i] = x.lookup[j]
    <3>1. /\ x.lookup[i] \in Nat /\ x.lookup[j] \in Nat
          /\ kernel_end_pma(g) + x.lookup[i] - 1 = kernel_end_pma(g) + x.lookup[j] - 1
      BY <1>7, <1>8
    <3> QED
      BY <1>6, <3>1
  <2> QED
    BY <1>1, <1>7, <1>8, <2>1
<1>9. Rooted(x)
  BY <1>7 DEF Rooted
<1>10. x.offset \in Nat /\ x.offset >= 1
  BY <1>1
<1> QED
  BY <1>1, <1>3, <1>4, <1>5, <1>8, <1>9, <1>10

\* Each page has one place.
OnePlace(S) == \A r, s \in S : r.vma = s.vma => r = s

\* Pages that init_page_map can be given.
PageRecs(S, g) == OnePlace(S) /\ \A r \in S : PageRec(r, g)

\* What Numbered depends on.
LEMMA NumberedSame ==
    ASSUME NEW x, NEW y, NEW g, Numbered(x, g), y.free = x.free, y.heap = x.heap,
           y.offset = x.offset, y.next_pma = x.next_pma, DOMAIN y.tables = DOMAIN x.tables,
           y.dir = x.dir, y.lookup = x.lookup
    PROVE  Numbered(y, g)
<1>1. /\ y.free = <<>> /\ y.heap = HeapStart(g) /\ y.offset \in Nat \ {0}
      /\ y.next_pma = kernel_end_pma(g) + y.offset - 1
      /\ DOMAIN y.tables = kernel_end_pma(g) .. y.next_pma - 1
  BY DEF Numbered
<1>2. \A i \in Indexes :
        \/ y.dir[i] = NONE /\ y.lookup[i] = NULL
        \/ /\ y.lookup[i] \in 1 .. y.offset - 1 /\ i \in BootDirs(g)
           /\ y.dir[i] = [pma |-> kernel_end_pma(g) + y.lookup[i] - 1, flags |-> User]
  BY DEF Numbered
<1>3. \A i, j \in Indexes : y.lookup[i] = y.lookup[j] /\ y.lookup[i] # NULL => i = j
  BY DEF Numbered
<1>4. Cardinality({i \in Indexes : Present(y.dir[i])}) = y.offset - 1
  BY DEF Numbered
<1> QED
  BY <1>1, <1>2, <1>3, <1>4 DEF Numbered

\* init_page_map of a page that has a table.
LEMMA SetEntryMaps ==
    ASSUME NEW x, NEW g \in Images, MemoryOK(x), Numbered(x, g), NEW done, MapsExactly(x, done),
           NEW r, PageRecs(done \cup {r}, g), Present(x.dir[page_get_dir_idx(r.vma)])
    PROVE  LET y == SetEntry(x, r)
           IN  /\ MemoryOK(y) /\ Numbered(y, g) /\ MapsExactly(y, done \cup {r})
               /\ y.offset = x.offset /\ y.dir = x.dir
<1> DEFINE y == SetEntry(x, r)
           v == r.vma
           d == page_get_dir_idx(v)
           f == x.dir[d].pma
           i == page_get_table_idx(v)
           e == [pma |-> r.pma, flags |-> x.tables[f][i].flags \cup r.flags]
           T == [x.tables EXCEPT ![f][i] = e]
<1>1. /\ v \in Pages /\ r.pma \in Nat /\ r.pma < LAPIC_BASE /\ r.flags \subseteq User
  BY DEF PageRec, PageRecs
<1>2. d \in Indexes /\ i \in Indexes /\ v \in Nat
  BY <1>1, PageParts
<1>3. Rooted(x) /\ f \in DOMAIN x.tables
  BY <1>2, NumberedParts DEF Rooted
<1>4. x.tables \in [DOMAIN x.tables -> [Indexes -> Entries]] /\ x.dir[d].flags = User
  <2>1. x.dir[d] = [pma |-> kernel_end_pma(g) + x.lookup[d] - 1, flags |-> User]
    BY <1>2, NumberedParts
  <2> QED
    BY <2>1 DEF MemoryOK
<1>5. x.tables[f][i] \in Entries /\ x.tables[f][i].flags \subseteq User
  BY <1>2, <1>3, <1>4 DEF Entries
<1>6. y = [x EXCEPT !.tables = T]
  <2>1. y = [x EXCEPT !.tables[f][i] = [pma |-> r.pma, flags |-> @.flags \cup r.flags]]
    BY DEF SetEntry
  <2> HIDE DEF f, i, y
  <2> QED
    BY <1>2, <1>3, <1>4, <2>1, MemoryParts
<1>7. e \in Entries
  BY <1>1, <1>5, Numbers DEF Entries
<1>8. e.flags = r.flags /\ e.pma = r.pma
  <2>1. EntryOf(x, v) = x.tables[f][i]
    BY DEF EntryOf
  <2>2. Walk(x, v) = [pma |-> x.tables[f][i].pma, flags |-> x.tables[f][i].flags \cap User]
    BY <1>1, <1>3, <1>4, <2>1, WalkIs
  <2>3. Walk(x, v).flags = x.tables[f][i].flags \cap User
    <3> HIDE DEF f, i
    <3> QED
      BY <2>2
  <2>4. Walk(x, v).flags = x.tables[f][i].flags
    BY <1>5, <2>3
  <2>5. Walk(x, v).flags = {} \/ Walk(x, v).flags = r.flags
    <3>1. CASE \A s \in done : s.vma # v
      BY <1>1, <3>1 DEF MapsExactly
    <3>2. CASE \E s \in done : s.vma = v
      <4>1. PICK s \in done : s.vma = v
        BY <3>2
      <4>2. s = r
        BY <4>1 DEF OnePlace, PageRecs
      <4>3. Walk(x, v) = [pma |-> r.pma, flags |-> r.flags]
        BY <4>1, <4>2 DEF MapsExactly
      <4> QED
        BY <4>3
    <3> QED
      BY <3>1, <3>2
  <2>6. x.tables[f][i].flags \cup r.flags = r.flags
    BY <2>4, <2>5
  <2> QED
    BY <2>6
<1> HIDE DEF y, T, e
<1>9. /\ y.tables = T /\ y.dir = x.dir /\ y.lookup = x.lookup /\ y.heap = x.heap
      /\ y.next_pma = x.next_pma /\ y.free = x.free /\ y.zero = x.zero /\ y.fault = x.fault
      /\ y.offset = x.offset
      /\ y = [dir |-> y.dir, lookup |-> y.lookup, tables |-> y.tables,
              next_pma |-> y.next_pma, heap |-> y.heap, offset |-> y.offset,
              free |-> y.free, zero |-> y.zero, fault |-> y.fault]
  BY <1>6 DEF MemoryOK
<1>10. /\ DOMAIN T = DOMAIN x.tables /\ T \in [DOMAIN T -> [Indexes -> Entries]]
       /\ \A h \in DOMAIN x.tables : h # f => T[h] = x.tables[h]
       /\ \A j \in Indexes : T[f][j] = IF j = i THEN e ELSE x.tables[f][j]
  <2> HIDE DEF f, i
  <2> QED
    BY <1>2, <1>3, <1>4, <1>7 DEF T
<1>11. MemoryOK(y) /\ Rooted(y)
  BY <1>3, <1>9, <1>10 DEF MemoryOK, Rooted
<1>12. ASSUME NEW u \in Pages, u # v PROVE Walk(y, u) = Walk(x, u)
  <2>1. page_get_dir_idx(u) \in Indexes /\ page_get_table_idx(u) \in Indexes /\ u \in Nat
    BY PageParts
  <2>2. CASE ~Present(x.dir[page_get_dir_idx(u)])
    BY <1>9, <2>2, SameWalk
  <2>3. CASE Present(x.dir[page_get_dir_idx(u)])
    <3>1. x.dir[page_get_dir_idx(u)].pma \in DOMAIN x.tables
      BY <1>3, <2>1, <2>3 DEF Rooted
    <3>2. CASE x.dir[page_get_dir_idx(u)].pma # f
      <4>1. y.tables[x.dir[page_get_dir_idx(u)].pma] = x.tables[x.dir[page_get_dir_idx(u)].pma]
        BY <1>9, <1>10, <3>1, <3>2
      <4> QED
        BY <1>9, <4>1, SameWalk
    <3>3. CASE x.dir[page_get_dir_idx(u)].pma = f
      <4>1. page_get_dir_idx(u) = d
        BY <1>2, <2>1, <2>3, <3>3, NumberedParts
      <4>2. page_get_table_idx(u) # i
        BY <1>2, <1>12, <2>1, <4>1, SamePage
      <4>3. EntryOf(y, u) = EntryOf(x, u)
        BY <1>9, <1>10, <2>1, <3>3, <4>2 DEF EntryOf
      <4> QED
        BY <1>3, <1>9, <1>11, <2>3, <4>3, WalkIs
    <3> QED
      BY <3>2, <3>3
  <2> QED
    BY <2>2, <2>3
<1>13. Walk(y, v) = [pma |-> r.pma, flags |-> r.flags]
  <2>1. EntryOf(y, v) = e
    BY <1>2, <1>9, <1>10 DEF EntryOf
  <2>2. Walk(y, v) = [pma |-> e.pma, flags |-> e.flags \cap User]
    BY <1>1, <1>4, <1>9, <1>11, <2>1, WalkIs
  <2>3. e.pma = r.pma /\ e.flags \cap User = r.flags
    BY <1>1, <1>8
  <2> QED
    BY <2>2, <2>3
<1>14. Numbered(y, g)
  BY <1>9, <1>10, NumberedSame
<1>15. MapsExactly(y, done \cup {r})
  <2>1. ASSUME NEW s \in done \cup {r} PROVE Walk(y, s.vma) = [pma |-> s.pma, flags |-> s.flags]
    <3>1. CASE s.vma = v
      <4>1. s = r
        BY <3>1 DEF OnePlace, PageRecs
      <4> QED
        BY <1>13, <4>1
    <3>2. CASE s.vma # v
      <4>1. s \in done
        BY <3>2
      <4>2. Walk(x, s.vma) = [pma |-> s.pma, flags |-> s.flags]
        BY <4>1 DEF MapsExactly
      <4>3. s.vma \in Pages
        BY <4>1 DEF PageRecs, PageRec
      <4> QED
        BY <1>12, <3>2, <4>2, <4>3
    <3> QED
      BY <3>1, <3>2
  <2>2. ASSUME NEW u \in Pages, \A s \in done \cup {r} : s.vma # u
        PROVE  Walk(y, u).flags = {}
    <3>1. u # v /\ \A s \in done : s.vma # u
      BY <2>2
    <3>2. Walk(x, u).flags = {}
      BY <3>1 DEF MapsExactly
    <3> QED
      BY <1>12, <3>1, <3>2
  <2> QED
    BY <2>1, <2>2 DEF MapsExactly
<1> QED
  BY <1>9, <1>11, <1>14, <1>15 DEF y

\* init_page_table_new maps nothing yet.
LEMMA NewTableMaps ==
    ASSUME NEW x, NEW g \in Images, MemoryOK(x), Numbered(x, g), NEW done, MapsExactly(x, done),
           PageRecs(done, g), NEW i \in Indexes, i \in BootDirs(g), ~Present(x.dir[i])
    PROVE  LET y == init_page_table_new(x, i)
           IN  /\ MemoryOK(y) /\ Numbered(y, g) /\ MapsExactly(y, done) /\ Present(y.dir[i])
<1> DEFINE y == init_page_table_new(x, i)
           n == x.next_pma
           k0 == kernel_end_pma(g)
           D == [x.dir EXCEPT ![i] = [pma |-> n, flags |-> User]]
           L == [x.lookup EXCEPT ![i] = x.offset]
           T == WithTable(x, n, NONE)
<1>1. y = [x EXCEPT !.tables = T, !.dir = D, !.next_pma = @ + 1, !.lookup = L, !.offset = @ + 1]
  BY DEF init_page_table_new
<1>2. /\ x.offset \in Nat /\ x.offset >= 1 /\ n = k0 + x.offset - 1 /\ x.heap = HeapStart(g) /\ x.free = <<>>
      /\ DOMAIN x.tables = k0 .. n - 1 /\ Rooted(x) /\ Cardinality(Tabled(x)) = x.offset - 1
      /\ Tabled(x) \subseteq BootDirs(g)
  BY NumberedParts
<1>3. k0 \in Nat /\ n \in Nat /\ LAPIC_BASE \in Nat /\ n \notin DOMAIN x.tables
  <2>1. k0 \in Nat /\ LAPIC_BASE \in Nat
    BY ImageFacts, Numbers
  <2> HIDE DEF k0, n
  <2> QED
    BY <1>2, <2>1
\* One more entry, and still no more than BootTables.
<1>4. /\ IsFiniteSet(Tabled(x) \cup {i}) /\ Cardinality(Tabled(x) \cup {i}) = x.offset
      /\ x.offset <= BootTables(g)
  <2>1. i \notin Tabled(x) /\ Tabled(x) \cup {i} \in SUBSET BootDirs(g) /\ Tabled(x) \in SUBSET BootDirs(g)
    BY <1>2 DEF Tabled
  <2>2. IsFiniteSet(Tabled(x)) /\ IsFiniteSet(Tabled(x) \cup {i})
        /\ Cardinality(Tabled(x) \cup {i}) <= BootTables(g)
    BY <2>1, BootCard
  <2>3. Cardinality(Tabled(x) \cup {i}) = Cardinality(Tabled(x)) + 1
    BY <2>1, <2>2, FS_AddElement
  <2>4. (x.offset - 1) + 1 = x.offset
    BY <1>2
  <2> QED
    BY <1>2, <2>2, <2>3, <2>4
<1>5. n + 1 \in 0 .. LAPIC_BASE - 1 /\ x.offset \in Pages /\ n \in -1 .. LAPIC_BASE
  <2>1. /\ BootTables(g) \in Nat /\ k0 + HeapSize(g) + NPROC < LAPIC_BASE /\ NPROC \in Nat
        /\ HeapSize(g) \in Nat /\ HeapSize(g) >= BootTables(g) + 2 /\ STACK_VMA \in Nat
        /\ HeapStart(g) \in Nat /\ HeapStart(g) + HeapSize(g) <= STACK_VMA
    BY ImageFacts, Numbers
  <2> HIDE DEF k0, n
  <2>2. n + 1 \in 0 .. LAPIC_BASE - 1 /\ n \in -1 .. LAPIC_BASE
    <3>1. n = k0 + x.offset - 1 /\ x.offset \in Nat /\ x.offset >= 1 /\ x.offset <= BootTables(g)
      BY <1>2, <1>4
    <3>2. n + 1 <= k0 + BootTables(g)
      BY <1>3, <2>1, <3>1
    <3>3. k0 + BootTables(g) + 2 < LAPIC_BASE
      BY <1>3, <2>1
    <3> QED
      BY <1>3, <2>1, <3>2, <3>3
  <2>3. x.offset \in Nat /\ x.offset <= STACK_VMA
    BY <1>2, <1>4, <2>1
  <2> QED
    BY <2>2, <2>3, PageRange
<1>6. /\ D \in [Indexes -> Entries] /\ L \in [Indexes -> Pages]
      /\ \A j \in Indexes : j # i => D[j] = x.dir[j] /\ L[j] = x.lookup[j]
      /\ D[i] = [pma |-> n, flags |-> User] /\ L[i] = x.offset
  <2>1. [pma |-> n, flags |-> User] \in Entries
    BY <1>5 DEF Entries
  <2> QED
    BY <1>5, <2>1, MemoryParts
<1>7. /\ T \in [DOMAIN x.tables \cup {n} -> [Indexes -> Entries]] /\ DOMAIN T = DOMAIN x.tables \cup {n}
      /\ \A f \in DOMAIN x.tables : T[f] = x.tables[f]
      /\ T[n] = [j \in Indexes |-> NONE]
  <2>1. x.tables \in [DOMAIN x.tables -> [Indexes -> Entries]] /\ NONE \in Entries
    BY MemoryParts, Rights
  <2> HIDE DEF n
  <2> QED
    BY <1>3, <2>1 DEF WithTable
<1> HIDE DEF y, D, L, T
<1>8. /\ y.tables = T /\ y.dir = D /\ y.lookup = L /\ y.heap = x.heap
      /\ y.next_pma = n + 1 /\ y.free = x.free /\ y.zero = x.zero /\ y.fault = x.fault
      /\ y.offset = x.offset + 1
      /\ y = [dir |-> y.dir, lookup |-> y.lookup, tables |-> y.tables,
              next_pma |-> y.next_pma, heap |-> y.heap, offset |-> y.offset,
              free |-> y.free, zero |-> y.zero, fault |-> y.fault]
  BY <1>1 DEF MemoryOK
<1> HIDE DEF n, k0
<1>9. MemoryOK(y)
  <2>1. y.tables \in [DOMAIN y.tables -> [Indexes -> Entries]]
    BY <1>7, <1>8
  <2>2. x.heap \in Pages /\ x.free \in Seq(Nat) /\ x.fault = FALSE
    BY DEF MemoryOK
  <2> QED
    BY <1>5, <1>6, <1>8, <2>1, <2>2 DEF MemoryOK
<1>10. Present(y.dir[i]) /\ y.dir[i].pma = n /\ y.dir[i].flags = User
  BY <1>6, <1>8, Rights DEF Present
<1>11. Rooted(y)
  <2>1. ASSUME NEW j \in Indexes, Present(y.dir[j]) PROVE y.dir[j].pma \in DOMAIN y.tables
    <3>1. CASE j = i
      BY <1>7, <1>8, <1>10, <3>1
    <3>2. CASE j # i
      BY <1>2, <1>6, <1>7, <1>8, <2>1, <3>2 DEF Rooted
    <3> QED
      BY <3>1, <3>2
  <2> QED
    BY <2>1 DEF Rooted
<1>12. ASSUME NEW u \in Pages PROVE Walk(y, u).flags = Walk(x, u).flags /\ (page_get_dir_idx(u) # i => Walk(y, u) = Walk(x, u))
  <2>1. page_get_dir_idx(u) \in Indexes /\ page_get_table_idx(u) \in Indexes
    BY PageParts
  <2>2. CASE page_get_dir_idx(u) # i
    <3>1. y.dir[page_get_dir_idx(u)] = x.dir[page_get_dir_idx(u)]
      BY <1>6, <1>8, <2>1, <2>2
    <3>2. Present(x.dir[page_get_dir_idx(u)]) =>
             y.tables[x.dir[page_get_dir_idx(u)].pma] = x.tables[x.dir[page_get_dir_idx(u)].pma]
      BY <1>2, <1>7, <1>8, <2>1 DEF Rooted
    <3> QED
      BY <3>1, <3>2, SameWalk
  <2>3. CASE page_get_dir_idx(u) = i
    <3>1. Walk(x, u) = NONE
      BY <1>2, <2>3, WalkIs
    <3>2. EntryOf(y, u) = NONE
      BY <1>7, <1>8, <1>10, <2>1, <2>3 DEF EntryOf
    <3>3. Walk(y, u) = [pma |-> NONE.pma, flags |-> NONE.flags \cap User]
      BY <1>9, <1>10, <1>11, <2>3, <3>2, WalkIs
    <3>4. Walk(y, u).flags = {}
      BY <3>3, Rights
    <3> QED
      BY <2>3, <3>1, <3>4, Rights
  <2> QED
    BY <2>2, <2>3
<1>13. MapsExactly(y, done)
  <2>1. ASSUME NEW s \in done PROVE Walk(y, s.vma) = [pma |-> s.pma, flags |-> s.flags]
    <3>1. Walk(x, s.vma) = [pma |-> s.pma, flags |-> s.flags]
      BY DEF MapsExactly
    <3>2. s.vma \in Pages /\ PRESENT \in s.flags
      BY DEF PageRecs, PageRec
    <3>3. Present(Walk(x, s.vma))
      BY <3>1, <3>2 DEF Present
    <3>4. page_get_dir_idx(s.vma) # i
      BY <3>3, Rights DEF Walk
    <3> QED
      BY <1>12, <3>1, <3>2, <3>4
  <2>2. ASSUME NEW u \in Pages, \A s \in done : s.vma # u PROVE Walk(y, u).flags = {}
    BY <1>12, <2>2 DEF MapsExactly
  <2> QED
    BY <2>1, <2>2 DEF MapsExactly
<1>14. Numbered(y, g)
  <2>1. y.offset \in Nat \ {0} /\ y.next_pma = k0 + y.offset - 1
    BY <1>2, <1>3, <1>8
  <2>2. DOMAIN y.tables = k0 .. y.next_pma - 1
    <3>1. k0 <= n
      BY <1>2, <1>3
    <3>2. (k0 .. n - 1) \cup {n} = k0 .. (n + 1) - 1
      BY <1>3, <3>1
    <3> QED
      BY <1>2, <1>7, <1>8, <3>2
  <2>3. ASSUME NEW j \in Indexes
        PROVE  \/ y.dir[j] = NONE /\ y.lookup[j] = NULL
               \/ /\ y.lookup[j] \in 1 .. y.offset - 1 /\ j \in BootDirs(g)
                  /\ y.dir[j] = [pma |-> k0 + y.lookup[j] - 1, flags |-> User]
    <3>1. CASE j = i
      <4>1. y.lookup[j] = x.offset /\ x.offset \in 1 .. y.offset - 1
        BY <1>2, <1>6, <1>8, <3>1
      <4>2. y.dir[j] = [pma |-> k0 + x.offset - 1, flags |-> User]
        BY <1>2, <1>6, <1>8, <3>1
      <4> QED
        BY <3>1, <4>1, <4>2
    <3>2. CASE j # i
      <4>1. y.dir[j] = x.dir[j] /\ y.lookup[j] = x.lookup[j]
        BY <1>6, <1>8, <3>2
      <4>2. \/ x.dir[j] = NONE /\ x.lookup[j] = NULL
            \/ /\ x.lookup[j] \in 1 .. x.offset - 1 /\ j \in BootDirs(g)
               /\ x.dir[j] = [pma |-> k0 + x.lookup[j] - 1, flags |-> User]
        BY DEF Numbered, k0
      <4>3. x.lookup[j] \in 1 .. x.offset - 1 => x.lookup[j] \in 1 .. y.offset - 1
        BY <1>2, <1>8
      <4> QED
        BY <4>1, <4>2, <4>3
    <3> QED
      BY <3>1, <3>2
  <2>4. \A j \in Indexes : x.lookup[j] # x.offset
    <3>1. \A j \in Indexes : x.lookup[j] = NULL \/ x.lookup[j] \in 1 .. x.offset - 1
      BY DEF Numbered
    <3> QED
      BY <1>2, <3>1 DEF NULL
  <2>5. ASSUME NEW j \in Indexes, NEW h \in Indexes, y.lookup[j] = y.lookup[h], y.lookup[j] # NULL
        PROVE  j = h
    <3>1. CASE j # i /\ h # i
      BY <1>6, <1>8, <2>5, <3>1 DEF Numbered
    <3>2. CASE j = i \/ h = i
      BY <1>6, <1>8, <2>4, <2>5, <3>2
    <3> QED
      BY <3>1, <3>2
  <2>6. {j \in Indexes : Present(y.dir[j])} = Tabled(x) \cup {i}
    BY <1>6, <1>8, <1>10 DEF Tabled
  <2>7. Cardinality({j \in Indexes : Present(y.dir[j])}) = y.offset - 1
    <3>1. (x.offset + 1) - 1 = x.offset
      BY <1>2
    <3> QED
      BY <1>4, <1>8, <2>6, <3>1
  <2>8. y.free = <<>> /\ y.heap = HeapStart(g)
    BY <1>2, <1>8
  <2> QED
    BY <2>1, <2>2, <2>3, <2>5, <2>7, <2>8 DEF Numbered, k0
<1> QED
  BY <1>9, <1>10, <1>13, <1>14 DEF y

\* init_page_map adds a page to those that are mapped.
LEMMA MapStep ==
    ASSUME NEW x, NEW g \in Images, MemoryOK(x), Numbered(x, g), NEW done, MapsExactly(x, done),
           NEW r, PageRecs(done \cup {r}, g)
    PROVE  LET y == init_page_map(x, r)
           IN  /\ MemoryOK(y) /\ Numbered(y, g) /\ MapsExactly(y, done \cup {r})
               /\ Present(x.dir[page_get_dir_idx(r.vma)]) => y.offset = x.offset
<1> DEFINE y == init_page_map(x, r)
           i == page_get_dir_idx(r.vma)
<1>1. CASE Present(x.dir[i])
  <2>1. y = SetEntry(x, r)
    BY <1>1 DEF init_page_map
  <2> QED
    BY <1>1, <2>1, SetEntryMaps
<1>2. CASE ~Present(x.dir[i])
  <2> DEFINE z == init_page_table_new(x, i)
  <2>1. y = SetEntry(z, r)
    BY <1>2 DEF init_page_map
  <2>2. i \in Indexes /\ i \in BootDirs(g)
    <3>1. r.vma \in Pages /\ i \in BootDirs(g)
      BY DEF PageRecs, PageRec
    <3> QED
      BY <3>1, PageParts
  <2>3. PageRecs(done, g)
    BY DEF PageRecs, OnePlace
  <2>4. MemoryOK(z) /\ Numbered(z, g) /\ MapsExactly(z, done) /\ Present(z.dir[i])
    BY <1>2, <2>2, <2>3, NewTableMaps
  <2> HIDE DEF z, y
  <2>5. MemoryOK(y) /\ Numbered(y, g) /\ MapsExactly(y, done \cup {r})
    BY <2>1, <2>4, SetEntryMaps
  <2> QED
    BY <1>2, <2>5 DEF y
<1> QED
  BY <1>1, <1>2

\* The tables are mapped behind the sections, in the kernel's first table.
LEMMA TableRecs ==
    ASSUME NEW g \in Images, NEW n \in 0 .. BootTables(g)
    PROVE  /\ PageRecs(Loaded(g) \cup RunOf(n, HeapStart(g), kernel_end_pma(g), Kernel), g)
           /\ \A r \in RunOf(n, HeapStart(g), kernel_end_pma(g), Kernel) :
                /\ page_get_dir_idx(r.vma) = KERNEL_DIR /\ r.vma \in HeapStart(g) .. HeapStart(g) + n - 1
                /\ r.pma = kernel_end_pma(g) + (r.vma - HeapStart(g)) /\ r.flags = Kernel
<1> DEFINE R == RunOf(n, HeapStart(g), kernel_end_pma(g), Kernel)
<1>1. /\ HeapStart(g) \in Nat /\ kernel_end_pma(g) \in Nat /\ BootTables(g) \in Nat
      /\ HeapStart(g) + BootTables(g) + 4 <= KERNEL_START_VMA + PAGE_ENTRIES
      /\ KERNEL_START_VMA \in Nat /\ PAGE_ENTRIES \in Nat /\ STACK_VMA \in Nat
      /\ KERNEL_START_VMA + PAGE_ENTRIES <= STACK_VMA + 1
      /\ kernel_end_pma(g) + HeapSize(g) + NPROC < LAPIC_BASE /\ NPROC \in Nat
      /\ HeapSize(g) \in Nat /\ HeapSize(g) >= BootTables(g) /\ LAPIC_BASE \in Nat
      /\ KERNEL_START_VMA <= HeapStart(g)
  <2>1. /\ KERNEL_START_VMA < RODATA_END_VMA(g) /\ RODATA_END_VMA(g) < BSS_END_VMA(g)
        /\ RODATA_END_VMA(g) \in Nat /\ BSS_END_VMA(g) \in Nat /\ HeapStart(g) = BSS_END_VMA(g) + 2 + VGA_PAGES
    BY ImageFacts
  <2> QED
    BY <2>1, ImageFacts, Numbers
<1>2. ASSUME NEW r \in R
      PROVE  /\ page_get_dir_idx(r.vma) = KERNEL_DIR /\ r.vma \in HeapStart(g) .. HeapStart(g) + n - 1
             /\ r.pma = kernel_end_pma(g) + (r.vma - HeapStart(g)) /\ r.flags = Kernel
             /\ PageRec(r, g) /\ r.vma \notin InitOf(g) \cup StaticOf(g)
  <2>1. PICK j \in 0 .. n - 1 : r = [vma |-> HeapStart(g) + j, pma |-> kernel_end_pma(g) + j, flags |-> Kernel]
    BY <1>2 DEF RunOf
  <2>2. /\ r.vma = HeapStart(g) + j /\ r.pma = kernel_end_pma(g) + j /\ r.flags = Kernel
        /\ r = [vma |-> r.vma, pma |-> r.pma, flags |-> r.flags]
    BY <2>1
  <2>3. /\ r.vma \in HeapStart(g) .. HeapStart(g) + n - 1 /\ j = r.vma - HeapStart(g)
        /\ r.vma \in Nat /\ r.vma < STACK_VMA /\ KERNEL_START_VMA <= r.vma
        /\ r.vma < KERNEL_START_VMA + PAGE_ENTRIES /\ r.vma >= HeapStart(g)
        /\ r.pma \in Nat /\ r.pma < LAPIC_BASE
    BY <1>1, <2>2
  <2>4. page_get_dir_idx(r.vma) = KERNEL_DIR
    BY <2>3, KernelTablePages
  <2>5. r.vma \in Pages
    BY <1>1, <2>3, PageRange
  <2>6. PageRec(r, g)
    BY <2>2, <2>3, <2>4, <2>5, Rights DEF PageRec, BootDirs
  <2>7. r.vma \notin StaticOf(g)
    <3>1. StaticOf(g) = (KERNEL_START_VMA .. HeapStart(g) - 1) \cup {STACK_VMA}
      BY Regions
    <3> QED
      BY <1>1, <2>3, <3>1
  <2>8. r.vma \notin InitOf(g)
    <3>1. \A v \in InitOf(g) : v \in Nat /\ v < KERNEL_START_VMA
      BY InitApart
    <3> QED
      BY <1>1, <2>3, <3>1
  <2> QED
    BY <2>2, <2>3, <2>4, <2>6, <2>7, <2>8
<1>3. \A r \in Loaded(g) \cup R : PageRec(r, g)
  BY <1>2, LoadedFacts
<1>4. ASSUME NEW r \in Loaded(g) \cup R, NEW s \in Loaded(g) \cup R, r.vma = s.vma
      PROVE  r = s
  <2>1. CASE r \in Loaded(g) /\ s \in Loaded(g)
    BY <1>4, <2>1, LoadedFacts
  <2>2. CASE r \in R /\ s \in R
    <3>1. r.pma = s.pma /\ r.flags = s.flags
      BY <1>2, <1>4, <2>2
    <3> QED
      BY <1>2, <1>4, <2>2, <3>1 DEF PageRec
  <2>3. CASE (r \in R /\ s \notin R) \/ (s \in R /\ r \notin R)
    BY <1>2, <1>4, <2>3, LoadedFacts
  <2> QED
    BY <1>4, <2>1, <2>2, <2>3
<1> QED
  BY <1>2, <1>3, <1>4 DEF PageRecs, OnePlace

\* The first n + 1 elements of a sequence.
LEMMA FirstNext ==
    ASSUME NEW s, NEW n \in Nat
    PROVE  First(s, n + 1) = First(s, n) \cup {s[n + 1]}
<1>1. 1 .. n + 1 = (1 .. n) \cup {n + 1}
  OBVIOUS
<1> QED
  BY <1>1 DEF First

\* Some of the first elements.
LEMMA FirstSome ==
    ASSUME NEW s, NEW n \in Nat, NEW l \in Nat, n <= l
    PROVE  First(s, n) \subseteq First(s, l)
<1>1. 1 .. n \subseteq 1 .. l
  OBVIOUS
<1> QED
  BY <1>1 DEF First

\* The sections are mapped through the kernel's first table and the last one.
LEMMA LoadedDirs ==
    ASSUME NEW x, NEW g \in Images, NEW done, MapsExactly(x, Loaded(g) \cup done)
    PROVE  Present(x.dir[KERNEL_DIR]) /\ Present(x.dir[PAGE_ENTRIES - 1])
<1>1. ASSUME NEW v \in StaticOf(g) PROVE Present(x.dir[page_get_dir_idx(v)])
  <2>1. PICK r \in Sections(g) : r.vma = v
    BY DEF StaticOf
  <2>2. [vma |-> r.vma, pma |-> r.to.pma, flags |-> r.to.flags] \in Loaded(g)
    BY DEF Loaded
  <2>3. PICK s \in Loaded(g) : s.vma = v /\ s.flags = r.to.flags
    BY <2>1, <2>2
  <2>4. Walk(x, v) = [pma |-> s.pma, flags |-> s.flags]
    BY <2>3 DEF MapsExactly
  <2>5. Present(Walk(x, v))
    <3>1. PRESENT \in r.to.flags
      BY SectionFacts DEF Present
    <3>2. Walk(x, v).flags = r.to.flags
      BY <2>3, <2>4
    <3> QED
      BY <3>1, <3>2 DEF Present
  <2> QED
    BY <2>5, Rights DEF Walk
<1>2. StaticOf(g) = (KERNEL_START_VMA .. HeapStart(g) - 1) \cup {STACK_VMA}
  BY Regions
<1>3. KERNEL_START_VMA \in StaticOf(g) /\ STACK_VMA \in StaticOf(g)
  <2>1. KERNEL_START_VMA \in Nat /\ HeapStart(g) \in Nat /\ KERNEL_START_VMA < HeapStart(g)
    <3>1. /\ KERNEL_START_VMA < RODATA_END_VMA(g) /\ RODATA_END_VMA(g) < BSS_END_VMA(g)
          /\ RODATA_END_VMA(g) \in Nat /\ BSS_END_VMA(g) \in Nat
          /\ HeapStart(g) \in Nat /\ HeapStart(g) = BSS_END_VMA(g) + 2 + VGA_PAGES
      BY ImageFacts
    <3> QED
      BY <3>1, Numbers
  <2> QED
    BY <1>2, <2>1
<1> QED
  BY <1>1, <1>3, Constants

\* Mapping the tables needs no further table: those there are lie within
\* PAGE_ENTRIES frames of kernel_end_pma.
LEMMA NoNewTables ==
    ASSUME NEW x, NEW g \in Images, MemoryOK(x), Numbered(x, g)
    PROVE  TableRun(x, g) = PageRun(x.offset - 1, HeapStart(g), kernel_end_pma(g), Kernel)
<1> DEFINE e == kernel_end_pma(g)
           a == align(e, PAGE_ENTRIES)
           d == page_get_dir_idx(e + PAGE_ENTRIES - 1)
           t == page_get_table_idx(e + PAGE_ENTRIES - 1)
<1>1. /\ e \in Nat /\ x.offset \in Nat /\ x.next_pma = e + x.offset - 1 /\ x.offset >= 1
      /\ x.heap = HeapStart(g) /\ x.offset - 1 <= BootTables(g) /\ BootTables(g) \in Nat
  <2>1. /\ x.offset - 1 \in 0 .. BootTables(g) /\ x.offset \in Nat /\ x.offset >= 1
        /\ x.next_pma = e + x.offset - 1 /\ x.heap = HeapStart(g)
    BY NumberedParts
  <2>2. e \in Nat /\ BootTables(g) \in Nat
    BY ImageFacts
  <2> HIDE DEF e
  <2> QED
    BY <2>1, <2>2
<1>2. PAGE_ENTRIES \in Nat /\ PAGE_ENTRIES >= 2 /\ BootTables(g) < PAGE_ENTRIES
  <2>1. /\ KERNEL_START_VMA < RODATA_END_VMA(g) /\ RODATA_END_VMA(g) < BSS_END_VMA(g)
        /\ RODATA_END_VMA(g) \in Nat /\ BSS_END_VMA(g) \in Nat
        /\ HeapStart(g) \in Nat /\ HeapStart(g) = BSS_END_VMA(g) + 2 + VGA_PAGES
        /\ HeapStart(g) + BootTables(g) + 4 <= KERNEL_START_VMA + PAGE_ENTRIES
    BY ImageFacts
  <2> QED
    BY <1>1, <2>1, Numbers
<1> HIDE DEF e
<1>3. e + PAGE_ENTRIES - 1 \in Nat
  BY <1>1, <1>2
<1>4. /\ d \in Nat /\ t \in 0 .. PAGE_ENTRIES - 1 /\ e + PAGE_ENTRIES - 1 = d * PAGE_ENTRIES + t
      /\ a = d * PAGE_ENTRIES
  BY <1>3, Split DEF Indexes, align, page_get_dir_idx
<1>5. d * PAGE_ENTRIES \in Nat
  BY <1>2, <1>4, Product
<1> HIDE DEF a, d, t
<1>6. a \in Nat /\ a >= e
  BY <1>1, <1>2, <1>4, <1>5
<1>7. x.next_pma - a < PAGE_ENTRIES
  BY <1>1, <1>2, <1>6
<1>8. n_new_tables(x, g) = 0
  <2>1. n_new_tables(x, g) = IF x.next_pma < a THEN 0 ELSE (x.next_pma - a) \div PAGE_ENTRIES
    BY DEF n_new_tables, a, e
  <2>2. CASE x.next_pma < a
    BY <2>1, <2>2
  <2>3. CASE ~(x.next_pma < a)
    <3>1. PICK j \in Nat : j = x.next_pma - a
      <4>1. x.next_pma - a \in Nat
        BY <1>1, <1>6, <2>3
      <4> QED
        BY <4>1
    <3>2. j \div PAGE_ENTRIES = 0
      <4>1. j < 1 * PAGE_ENTRIES
        BY <1>2, <1>7, <3>1
      <4>2. PICK one \in Nat : one = 1
        OBVIOUS
      <4>3. page_get_dir_idx(j) < one /\ page_get_dir_idx(j) \in Nat
        BY <4>1, <4>2, DirBelow, Split
      <4> QED
        BY <4>2, <4>3 DEF page_get_dir_idx
    <3> QED
      BY <2>1, <2>3, <3>1, <3>2
  <2> QED
    BY <2>2, <2>3
<1>9. init_alloc_size(x, g) = x.offset - 1
  BY <1>1 DEF init_alloc_size, e
<1>10. init_alloc_size(x, g) + n_new_tables(x, g) = x.offset - 1
  BY <1>1, <1>8, <1>9
<1> QED
  BY <1>1, <1>10 DEF TableRun, e

\* The init section lies below the table of the user stack.
LEMMA UserDirLater ==
    ASSUME NEW g \in Images
    PROVE  USER_DIR \notin BootDirs(g)
<1>1. INIT_BSS_END(g) - 1 \in InitOf(g) /\ INIT_BSS_END(g) - 1 \in Nat
  <2>1. /\ INIT_BSS_END(g) \in Nat /\ INIT_STRUCT(g) \in Nat /\ INIT_STRUCT(g) + 3 <= INIT_BSS_END(g)
        /\ INIT_START <= INIT_STRUCT(g)
    BY ImageFacts
  <2> QED
    BY <2>1, Numbers DEF InitOf
<1>2. page_get_dir_idx(INIT_BSS_END(g) - 1) < USER_DIR /\ page_get_dir_idx(INIT_BSS_END(g) - 1) \in Nat
  BY <1>1, Regions, Split
<1>3. USER_DIR = KERNEL_DIR - 1 /\ KERNEL_DIR \in Nat /\ PAGE_ENTRIES \in Nat /\ KERNEL_DIR < PAGE_ENTRIES
  BY Constants, Numbers
<1>4. page_get_dir_idx(INIT_START) \in Nat
  BY Numbers, Split
<1> QED
  BY <1>2, <1>3, <1>4 DEF BootDirs

\* The end of init_map_kernel: the address space kernel_main starts with.
LEMMA EnabledSpace ==
    ASSUME NEW x, NEW g \in Images, MemoryOK(x), Numbered(x, g), NEW n \in Nat, x.offset = n + 1,
           MapsExactly(x, Loaded(g) \cup RunOf(n, HeapStart(g), kernel_end_pma(g), Kernel))
    PROVE  LET y == LookupAbsolute(x, n)
           IN  /\ Space(y, g, InitOf(g), 0, {}) /\ ~Present(y.dir[USER_DIR])
               /\ Present(y.dir[KERNEL_DIR]) /\ Present(y.dir[PAGE_ENTRIES - 1])
               /\ n \in 0 .. BootTables(g) /\ y.heap = HeapStart(g) + n
               /\ y.next_pma = kernel_end_pma(g) + n /\ LAPIC_BASE \notin HeapFrames(y, g)
<1> DEFINE y == LookupAbsolute(x, n)
           hs == HeapStart(g)
           ke == kernel_end_pma(g)
           R == RunOf(n, hs, ke, Kernel)
           L == [i \in Indexes |-> IF x.lookup[i] = NULL THEN NULL ELSE x.lookup[i] + x.heap - 1]
<1>0. x.offset - 1 = n
  OBVIOUS
<1>1. /\ n \in 0 .. BootTables(g) /\ x.next_pma = ke + x.offset - 1 /\ x.heap = hs /\ x.free = <<>>
      /\ DOMAIN x.tables = ke .. x.next_pma - 1 /\ Rooted(x) /\ x.offset \in Nat
      /\ Tabled(x) \subseteq BootDirs(g)
      /\ \A i \in Indexes :
            /\ Present(x.dir[i]) => /\ x.lookup[i] \in 1 .. n
                                    /\ x.dir[i] = [pma |-> ke + x.lookup[i] - 1, flags |-> User]
            /\ ~Present(x.dir[i]) => x.dir[i] = NONE /\ x.lookup[i] = NULL
      /\ \A i, j \in Indexes :
            Present(x.dir[i]) /\ Present(x.dir[j]) /\ x.dir[i].pma = x.dir[j].pma => i = j
  BY <1>0, NumberedParts
<1>2. /\ hs \in Nat /\ ke \in Nat /\ BootTables(g) \in Nat /\ STACK_VMA \in Nat /\ LAPIC_BASE \in Nat
      /\ hs + BootTables(g) < STACK_VMA /\ ke + BootTables(g) < LAPIC_BASE
  <2>1. /\ hs \in Nat /\ ke \in Nat /\ BootTables(g) \in Nat
        /\ HeapSize(g) \in Nat /\ HeapSize(g) >= BootTables(g) + 2
        /\ hs + HeapSize(g) <= STACK_VMA /\ ke + HeapSize(g) + NPROC < LAPIC_BASE
    BY ImageFacts, Numbers
  <2> HIDE DEF hs, ke
  <2> QED
    BY <2>1, Numbers
<1>3. n \in Nat /\ n <= BootTables(g) /\ x.next_pma = ke + n
  <2> HIDE DEF ke, hs
  <2> QED
    BY <1>1, <1>2
<1>4. y = [x EXCEPT !.lookup = L, !.heap = @ + n]
  BY DEF LookupAbsolute, MemoryOK
<1> HIDE DEF L, y
<1>5. /\ y.lookup = L /\ y.heap = hs + n /\ y.dir = x.dir /\ y.tables = x.tables
      /\ y.next_pma = x.next_pma /\ y.free = x.free /\ y.zero = x.zero /\ y.fault = x.fault
      /\ y.offset = x.offset
      /\ y = [dir |-> y.dir, lookup |-> y.lookup, tables |-> y.tables,
              next_pma |-> y.next_pma, heap |-> y.heap, offset |-> y.offset,
              free |-> y.free, zero |-> y.zero, fault |-> y.fault]
  BY <1>1, <1>4 DEF MemoryOK
<1>6. \A v : Walk(y, v) = Walk(x, v)
  BY <1>5 DEF Walk
\* The pages of the heap and their frames.
<1>7. HeapPages(y, g) = hs .. hs + n - 1
  <2>1. HeapPages(y, g) = hs .. y.heap - 1
    BY DEF HeapPages
  <2>2. y.heap = hs + n /\ hs \in Nat
    BY <1>2, <1>5
  <2> HIDE DEF hs
  <2> QED
    BY <2>1, <2>2
<1>8. /\ PageRecs(Loaded(g) \cup R, g)
      /\ \A r \in R : r.vma \in hs .. hs + n - 1
  BY <1>1, TableRecs
<1> HIDE DEF hs, ke
<1>9. ASSUME NEW v \in hs .. hs + n - 1 PROVE Walk(y, v) = [pma |-> ke + (v - hs), flags |-> Kernel]
  <2>1. v - hs \in 0 .. n - 1 /\ hs + (v - hs) = v
    BY <1>2, <1>3
  <2>2. PICK r \in R : r.vma = v /\ r.pma = ke + (v - hs) /\ r.flags = Kernel
    <3>1. [vma |-> hs + (v - hs), pma |-> ke + (v - hs), flags |-> Kernel] \in R
      BY <2>1 DEF RunOf
    <3> HIDE DEF R
    <3> QED
      BY <2>1, <3>1
  <2>3. Walk(x, v) = [pma |-> r.pma, flags |-> r.flags]
    BY <2>2 DEF MapsExactly, hs, ke
  <2> QED
    BY <1>6, <2>2, <2>3
<1>10. \A i \in Indexes : Present(x.dir[i]) =>
          /\ L[i] = hs + x.lookup[i] - 1 /\ L[i] \in hs .. hs + n - 1 /\ x.lookup[i] \in 1 .. n
  <2> SUFFICES ASSUME NEW i \in Indexes, Present(x.dir[i])
               PROVE  L[i] = hs + x.lookup[i] - 1 /\ L[i] \in hs .. hs + n - 1 /\ x.lookup[i] \in 1 .. n
    OBVIOUS
  <2>1. x.lookup[i] \in 1 .. n
    BY <1>1
  <2>2. PICK o \in Nat : o = x.lookup[i]
    BY <1>3, <2>1
  <2>3. x.lookup[i] # NULL
    BY <2>1 DEF NULL
  <2>4. L[i] = x.lookup[i] + x.heap - 1
    BY <2>3 DEF L
  <2>5. L[i] = o + hs - 1 /\ o \in 1 .. n
    BY <1>1, <2>1, <2>2, <2>4
  <2>6. L[i] = hs + o - 1 /\ L[i] \in hs .. hs + n - 1
    BY <1>2, <1>3, <2>5
  <2> QED
    BY <2>1, <2>2, <2>6
<1>11. \A i \in Indexes : ~Present(x.dir[i]) => L[i] = NULL
  BY <1>1 DEF L
<1>12. MemoryOK(y)
  <2>1. \A v \in hs .. hs + n : v \in Nat /\ v <= STACK_VMA
    BY <1>2, <1>3
  <2>2. hs + n \in Pages /\ \A v \in hs .. hs + n - 1 : v \in Pages
    BY <1>2, <1>3, <2>1, PageRange
  <2>3. NULL \in Pages
    BY <1>2, PageRange DEF NULL
  <2>4. \A i \in Indexes : L[i] \in Pages
    BY <1>10, <1>11, <2>2, <2>3
  <2>5. L \in [Indexes -> Pages]
    BY <2>4 DEF L
  <2>6. /\ x.dir \in [Indexes -> Entries] /\ x.tables \in [DOMAIN x.tables -> [Indexes -> Entries]]
        /\ x.next_pma \in 0 .. LAPIC_BASE - 1 /\ x.free \in Seq(Nat) /\ x.fault = FALSE
    BY DEF MemoryOK
  <2> QED
    BY <1>5, <2>2, <2>5, <2>6 DEF MemoryOK
<1>13. Connected(y, g)
  <2>1. ASSUME NEW i \in Indexes, Present(x.dir[i])
        PROVE  /\ x.dir[i].pma \in DOMAIN x.tables /\ x.dir[i].flags \in {Kernel, User}
               /\ L[i] \in HeapPages(y, g)
               /\ Walk(y, L[i]) = [pma |-> x.dir[i].pma, flags |-> Kernel]
    <3>1. x.dir[i] = [pma |-> ke + x.lookup[i] - 1, flags |-> User]
      BY <1>1, <2>1
    <3>2. x.dir[i].pma = ke + x.lookup[i] - 1 /\ x.dir[i].flags = User
      BY <3>1
    <3>3. L[i] = hs + x.lookup[i] - 1 /\ L[i] \in hs .. hs + n - 1 /\ x.lookup[i] \in 1 .. n
      BY <1>10, <2>1
    <3>4. ke + (L[i] - hs) = ke + x.lookup[i] - 1
      BY <1>2, <1>3, <3>3
    <3>5. Walk(y, L[i]) = [pma |-> x.dir[i].pma, flags |-> Kernel]
      BY <1>9, <3>2, <3>3, <3>4
    <3> QED
      BY <1>1, <1>7, <2>1, <3>2, <3>3, <3>5 DEF Rooted
  <2> QED
    BY <1>1, <1>5, <1>11, <2>1 DEF Connected
\* What is mapped.
<1>14. Layout(y, g, InitOf(g), 0)
  <2>1. ASSUME NEW r \in Sections(g) PROVE Walk(y, r.vma) = r.to
    <3>1. [vma |-> r.vma, pma |-> r.to.pma, flags |-> r.to.flags] \in Loaded(g)
      BY DEF Loaded
    <3>2. PICK s \in Loaded(g) : s.vma = r.vma /\ s.pma = r.to.pma /\ s.flags = r.to.flags
      BY <3>1
    <3>3. Walk(x, s.vma) = [pma |-> s.pma, flags |-> s.flags]
      BY DEF MapsExactly
    <3>4. r.to = [pma |-> r.to.pma, flags |-> r.to.flags]
      BY SectionFacts
    <3> QED
      BY <1>6, <3>2, <3>3, <3>4
  <2>2. ASSUME NEW v \in HeapPages(y, g) PROVE Walk(y, v).flags = Kernel
    BY <1>7, <1>9
  <2>3. ASSUME NEW v \in InitOf(g) PROVE Walk(y, v) = [pma |-> v, flags |-> Kernel]
    <3>1. [vma |-> v, pma |-> v, flags |-> Kernel] \in Loaded(g)
      BY DEF Loaded
    <3>2. PICK s \in Loaded(g) : s.vma = v /\ s.pma = v /\ s.flags = Kernel
      BY <3>1
    <3>3. Walk(x, s.vma) = [pma |-> s.pma, flags |-> s.flags]
      BY DEF MapsExactly
    <3> QED
      BY <1>6, <3>2, <3>3
  <2>4. ASSUME NEW v \in Pages, Present(Walk(y, v))
        PROVE  v \in StaticOf(g) \cup HeapPages(y, g) \cup InitOf(g)
    <3>1. Walk(x, v).flags # {}
      BY <1>6, <2>4 DEF Present
    <3>2. PICK r \in Loaded(g) \cup R : r.vma = v
      BY <3>1 DEF MapsExactly, hs, ke
    <3> HIDE DEF R
    <3> QED
      BY <1>7, <1>8, <3>2, LoadedFacts
  <2> QED
    BY <2>1, <2>2, <2>3, <2>4 DEF Layout
\* Frames.
<1>15. HeapFrames(y, g) = ke .. ke + n - 1
  <2>1. \A v \in hs .. hs + n - 1 : Walk(y, v).pma = ke + (v - hs) /\ ke + (v - hs) \in ke .. ke + n - 1
    BY <1>2, <1>3, <1>9
  <2>2. \A f \in ke .. ke + n - 1 : hs + (f - ke) \in hs .. hs + n - 1 /\ ke + ((hs + (f - ke)) - hs) = f
    BY <1>2, <1>3
  <2>3. HeapFrames(y, g) \subseteq ke .. ke + n - 1
    BY <1>7, <2>1 DEF HeapFrames
  <2>4. ASSUME NEW f \in ke .. ke + n - 1 PROVE f \in HeapFrames(y, g)
    <3>1. PICK v \in hs .. hs + n - 1 : ke + (v - hs) = f
      BY <2>2
    <3> QED
      BY <1>7, <2>1, <3>1 DEF HeapFrames
  <2> QED
    BY <2>3, <2>4
<1>16. Listed(y) = {} /\ DOMAIN y.free = {}
  <2>1. y.free = <<>>
    BY <1>1, <1>5
  <2>2. DOMAIN y.free = {}
    BY <2>1
  <2> QED
    BY <2>2 DEF Listed
<1>17. Apart(y, g, InitOf(g), {})
  <2>1. Frames(y, g, InitOf(g)) = ke .. ke + n - 1
    <3>1. Freed(g, InitOf(g)) = {}
      BY DEF Freed
    <3>2. Frames(y, g, InitOf(g)) = Freed(g, InitOf(g)) \cup (ke .. y.next_pma - 1)
      BY DEF Frames, ke
    <3> QED
      BY <1>2, <1>3, <1>5, <3>1, <3>2
  <2>2. DOMAIN y.tables = ke .. ke + n - 1
    <3>1. DOMAIN y.tables = ke .. x.next_pma - 1 /\ x.next_pma = ke + n
      BY <1>1, <1>3, <1>5
    <3> QED
      BY <1>2, <1>3, <3>1
  <2>3. ASSUME NEW u \in HeapPages(y, g), NEW v \in HeapPages(y, g), Walk(y, u).pma = Walk(y, v).pma
        PROVE  u = v
    <3>1. Walk(y, u).pma = ke + (u - hs) /\ Walk(y, v).pma = ke + (v - hs) /\ u \in Int /\ v \in Int
      BY <1>2, <1>3, <1>7, <1>9
    <3>2. ke + (u - hs) = ke + (v - hs)
      BY <2>3, <3>1
    <3> QED
      BY <1>2, <3>1, <3>2
  <2> QED
    BY <1>15, <1>16, <2>1, <2>2, <2>3 DEF Apart
<1>18. HeapStart(g) <= y.heap /\ kernel_end_pma(g) <= y.next_pma
  BY <1>2, <1>3, <1>5 DEF hs, ke
<1>19. Space(y, g, InitOf(g), 0, {})
  BY <1>12, <1>13, <1>14, <1>17, <1>18 DEF Space
<1>20. ~Present(y.dir[USER_DIR])
  <2>1. USER_DIR \in Indexes /\ USER_DIR \notin BootDirs(g)
    BY Constants, UserDirLater
  <2> QED
    BY <1>1, <1>5, <2>1 DEF Tabled
<1>21. Present(y.dir[KERNEL_DIR]) /\ Present(y.dir[PAGE_ENTRIES - 1])
  BY <1>5, LoadedDirs
<1>22. LAPIC_BASE \notin HeapFrames(y, g)
  BY <1>2, <1>3, <1>15
<1> QED
  BY <1>1, <1>3, <1>5, <1>19, <1>20, <1>21, <1>22 DEF y, hs, ke
=============================================================================
