----------------------------- MODULE BootProof -----------------------------
(***************************************************************************)
(* Boot keeps its invariant, from the first table init_page_map allocates  *)
(* to any number of process switches, for every image that fits.           *)
(***************************************************************************)
EXTENDS PagingProof, DescriptorsProof, FunctionTheorems

-----------------------------------------------------------------------------
(* init.                                                                   *)

\* What holds while init runs.
LEMMA SetupState ==
    ASSUME BootInvariant, at \in Setup
    PROVE  /\ img \in Images /\ MemoryOK(m) /\ Numbered(m, img) /\ k \in Nat /\ tlb = {} /\ PID = 0
           /\ k \in 0 .. Len(todo)
           /\ at = "map" => todo = Predictable(img) /\ MapsExactly(m, First(todo, k))
           /\ at = "tables" =>
                /\ todo = PageRun(m.offset - 1, HeapStart(img), kernel_end_pma(img), Kernel)
                /\ MapsExactly(m, Loaded(img) \cup First(todo, k))
<1>1. img \in Images /\ MemoryOK(m) /\ SetupPhase
  BY DEF BootInvariant
<1>2. First(Predictable(img), Len(Predictable(img))) = Loaded(img)
  BY <1>1, PredictableIs DEF Elems
<1>3. k \in 0 .. Len(todo)
  BY <1>1 DEF SetupPhase
<1> QED
  BY <1>1, <1>2, <1>3 DEF SetupPhase

\* A step of init keeps the rest of the invariant.
LEMMA SetupStep ==
    ASSUME BootInvariant, at \in Setup, at' \in Setup, img' = img, cpu' = cpu, user' = user,
           MemoryOK(m'), Numbered(m', img), k' \in 0 .. Len(todo'), tlb' = {}, PID' = 0,
           at' = "map" => todo' = Predictable(img) /\ MapsExactly(m', First(todo', k')),
           at' = "tables" =>
                /\ todo' = PageRun(m'.offset - 1, HeapStart(img), kernel_end_pma(img), Kernel)
                /\ MapsExactly(m', Loaded(img) \cup First(todo', k'))
    PROVE  BootInvariant'
<1>1. img \in Images /\ user \in [Procs -> [vma : Pages, entry : Entries]] /\ CpuSet
  BY DEF BootInvariant
<1>2. First(Predictable(img), Len(Predictable(img))) = Loaded(img)
  BY <1>1, PredictableIs DEF Elems
<1>3. SetupPhase'
  BY <1>2 DEF SetupPhase
<1>4. KernelPhase'
  BY DEF KernelPhase, Enabled
<1>5. at' \in Phases \ {"fault", "reset"}
  BY DEF Setup, Phases
<1>6. CpuSet'
  <2>1. at # "proc_loop" /\ at' # "proc_loop"
    BY DEF Setup
  <2> QED
    BY <1>1, <2>1 DEF CpuSet
<1> QED
  BY <1>1, <1>3, <1>4, <1>5, <1>6 DEF BootInvariant

\* One page of init_map_kernel, with a new table if it needs one.
LEMMA InitMapStep == BootInvariant /\ InitMap => BootInvariant'
<1> SUFFICES ASSUME BootInvariant, InitMap PROVE BootInvariant'
  OBVIOUS
<1> DEFINE r == todo[k + 1]
<1>1. /\ at \in Setup /\ k < Len(todo) /\ m' = init_page_map(m, r) /\ k' = k + 1
      /\ img' = img /\ tlb' = tlb /\ at' = at /\ todo' = todo /\ cpu' = cpu /\ user' = user /\ PID' = PID
  BY DEF InitMap
<1>2. /\ img \in Images /\ MemoryOK(m) /\ Numbered(m, img) /\ k \in Nat /\ tlb = {} /\ PID = 0
      /\ k \in 0 .. Len(todo)
  BY <1>1, SetupState
<1>3. First(todo, k + 1) = First(todo, k) \cup {r}
  BY <1>2, FirstNext
<1>4. at = "map" \/ at = "tables"
  BY <1>1 DEF Setup
<1>5. CASE at = "map"
  <2>1. todo = Predictable(img) /\ MapsExactly(m, First(todo, k))
    BY <1>1, <1>5, SetupState
  <2>2. todo \in Seq(Rec) /\ Elems(todo) = Loaded(img)
    BY <1>2, <2>1, PredictableIs
  <2>3. PICK l \in Nat : l = Len(todo)
    BY <2>2, LenProperties
  <2>4. First(todo, k + 1) \subseteq Loaded(img)
    <3>1. k + 1 \in Nat /\ k + 1 <= l
      BY <1>1, <1>2, <2>3
    <3> QED
      BY <2>2, <2>3, <3>1, FirstSome DEF Elems
  <2>5. PageRecs(First(todo, k) \cup {r}, img)
    BY <1>2, <1>3, <2>4, LoadedFacts DEF PageRecs, OnePlace
  <2>6. MemoryOK(m') /\ Numbered(m', img) /\ MapsExactly(m', First(todo, k) \cup {r})
    BY <1>1, <1>2, <2>1, <2>5, MapStep
  <2>7. k' \in 0 .. Len(todo')
    <3>1. k + 1 \in 0 .. l
      BY <1>1, <1>2, <2>3
    <3> QED
      BY <1>1, <2>3, <3>1
  <2> HIDE DEF r
  <2>8. at' = "map" => todo' = Predictable(img) /\ MapsExactly(m', First(todo', k'))
    BY <1>1, <1>3, <2>1, <2>6
  <2> QED
    BY <1>1, <1>2, <1>5, <2>6, <2>7, <2>8, SetupStep
<1>6. CASE at = "tables"
  <2> DEFINE n == m.offset - 1
             R == RunOf(n, HeapStart(img), kernel_end_pma(img), Kernel)
  <2>1. /\ todo = PageRun(n, HeapStart(img), kernel_end_pma(img), Kernel)
        /\ MapsExactly(m, Loaded(img) \cup First(todo, k))
    BY <1>1, <1>6, SetupState
  <2>2. n \in 0 .. BootTables(img) /\ n \in Nat
    <3>1. n \in 0 .. BootTables(img) /\ BootTables(img) \in Nat
      BY <1>2, NumberedParts, ImageFacts
    <3> QED
      BY <3>1
  <2> HIDE DEF n
  <2>3. Len(todo) = n /\ First(todo, n) = R
    <3>1. HeapStart(img) \in Nat /\ kernel_end_pma(img) \in Nat /\ Kernel \in SUBSET User
      BY <1>2, ImageFacts, Rights
    <3>2. Len(todo) = n /\ Elems(todo) = R
      BY <2>1, <2>2, <3>1, RunElems
    <3> QED
      BY <3>2 DEF Elems
  <2>4. First(todo, k + 1) \subseteq R
    <3>1. k + 1 \in Nat /\ k + 1 <= n
      BY <1>1, <1>2, <2>2, <2>3
    <3> QED
      BY <2>2, <2>3, <3>1, FirstSome
  <2>5. PageRecs(Loaded(img) \cup R, img) /\ \A s \in R : page_get_dir_idx(s.vma) = KERNEL_DIR
    BY <1>2, <2>2, TableRecs
  <2> HIDE DEF R
  <2>6. r \in R
    BY <1>3, <2>4
  <2> DEFINE D == Loaded(img) \cup First(todo, k)
  <2>7. PageRecs(D \cup {r}, img)
    BY <1>3, <2>4, <2>5 DEF PageRecs, OnePlace
  <2>8. Present(m.dir[page_get_dir_idx(r.vma)])
    BY <1>2, <2>1, <2>5, <2>6, LoadedDirs
  <2>9. MemoryOK(m') /\ Numbered(m', img) /\ MapsExactly(m', D \cup {r}) /\ m'.offset = m.offset
    BY <1>1, <1>2, <2>1, <2>7, <2>8, MapStep
  <2>10. k' \in 0 .. Len(todo')
    <3>1. k + 1 \in 0 .. n
      BY <1>1, <1>2, <2>2, <2>3
    <3> QED
      BY <1>1, <2>3, <3>1
  <2> HIDE DEF r
  <2>11. D \cup {r} = Loaded(img) \cup First(todo', k')
    BY <1>1, <1>3
  <2> HIDE DEF D
  <2>12. /\ todo' = PageRun(m'.offset - 1, HeapStart(img), kernel_end_pma(img), Kernel)
         /\ MapsExactly(m', Loaded(img) \cup First(todo', k'))
    BY <1>1, <2>1, <2>9, <2>11 DEF n
  <2> QED
    BY <1>1, <1>2, <1>6, <2>9, <2>10, <2>12, SetupStep
<1> QED
  BY <1>4, <1>5, <1>6

\* The loop over the tables starts: no table beyond those it maps is needed.
LEMMA InitTablesStep == BootInvariant /\ InitTables => BootInvariant'
<1> SUFFICES ASSUME BootInvariant, InitTables PROVE BootInvariant'
  OBVIOUS
<1>1. /\ at = "map" /\ k = Len(todo) /\ at' = "tables" /\ k' = 0 /\ todo' = TableRun(m, img)
      /\ img' = img /\ m' = m /\ tlb' = tlb /\ cpu' = cpu /\ user' = user /\ PID' = PID
  BY DEF InitTables
<1>2. at \in Setup /\ at' \in Setup
  BY <1>1 DEF Setup
<1>3. /\ img \in Images /\ MemoryOK(m) /\ Numbered(m, img) /\ tlb = {} /\ PID = 0
      /\ todo = Predictable(img) /\ MapsExactly(m, First(todo, k))
  BY <1>1, <1>2, SetupState
<1>4. First(todo, k) = Loaded(img)
  BY <1>1, <1>3, PredictableIs DEF Elems
<1>5. todo' = PageRun(m'.offset - 1, HeapStart(img), kernel_end_pma(img), Kernel)
  BY <1>1, <1>3, NoNewTables
<1>6. k' \in 0 .. Len(todo')
  <2>1. PICK n \in Nat : n = m.offset - 1
    <3>1. m.offset - 1 \in 0 .. BootTables(img) /\ BootTables(img) \in Nat
      BY <1>3, NumberedParts, ImageFacts
    <3>2. m.offset - 1 \in Nat
      BY <3>1
    <3> QED
      BY <3>2
  <2>2. HeapStart(img) \in Nat /\ kernel_end_pma(img) \in Nat /\ Kernel \in SUBSET User
    BY <1>3, ImageFacts, Rights
  <2>3. Len(todo') = n
    BY <1>1, <1>5, <2>1, <2>2, RunElems
  <2> QED
    BY <1>1, <2>3
<1>7. MapsExactly(m', Loaded(img) \cup First(todo', k'))
  <2>1. 1 .. 0 = {}
    OBVIOUS
  <2>2. First(todo', 0) = {}
    BY <2>1 DEF First
  <2> QED
    BY <1>1, <1>3, <1>4, <2>2
<1> QED
  BY <1>1, <1>2, <1>3, <1>5, <1>6, <1>7, SetupStep

\* The memory before init.
LEMMA InitInvariant == Init => BootInvariant
<1> SUFFICES ASSUME Init PROVE BootInvariant
  OBVIOUS
<1>1. /\ img \in Images /\ m = Memory(img) /\ tlb = {} /\ at = "map" /\ k = 0
      /\ todo = Predictable(img) /\ PID = 0
      /\ cpu = [gdt |-> FALSE, idt |-> FALSE, esp0 |-> 0, ie |-> 0, lapic |-> NULL, regs |-> <<>>]
      /\ user = [p \in Procs |-> [vma |-> NULL, entry |-> NONE]]
  BY DEF Init
<1>2. /\ m.dir = [i \in Indexes |-> NONE] /\ m.lookup = [i \in Indexes |-> NULL]
      /\ m.tables = [f \in {} |-> NONE] /\ m.next_pma = kernel_end_pma(img)
      /\ m.heap = HeapStart(img) /\ m.offset = 1 /\ m.free = <<>> /\ m.zero = {} /\ m.fault = FALSE
      /\ m = [dir |-> m.dir, lookup |-> m.lookup, tables |-> m.tables,
              next_pma |-> m.next_pma, heap |-> m.heap, offset |-> m.offset,
              free |-> m.free, zero |-> m.zero, fault |-> m.fault]
  BY <1>1 DEF Memory, HeapStart
<1>3. NULL \in Pages /\ NONE \in Entries
  <2>1. NULL \in Nat /\ NULL <= STACK_VMA
    BY Numbers DEF NULL
  <2> QED
    BY <2>1, PageRange, Rights
<1>4. HeapStart(img) \in Pages /\ kernel_end_pma(img) \in 0 .. LAPIC_BASE - 1 /\ kernel_end_pma(img) \in Nat
  <2>1. /\ HeapStart(img) \in Nat /\ HeapStart(img) + HeapSize(img) <= STACK_VMA /\ HeapSize(img) \in Nat
        /\ kernel_end_pma(img) \in Nat /\ kernel_end_pma(img) + HeapSize(img) + NPROC < LAPIC_BASE
    BY <1>1, ImageFacts
  <2>2. HeapStart(img) <= STACK_VMA /\ kernel_end_pma(img) \in 0 .. LAPIC_BASE - 1
    BY <2>1, Numbers
  <2> QED
    BY <2>1, <2>2, PageRange
<1>5. MemoryOK(m)
  <2>1. m.tables \in [DOMAIN m.tables -> [Indexes -> Entries]]
    BY <1>2
  <2>2. m.free \in Seq(Nat)
    BY <1>2
  <2> QED
    BY <1>2, <1>3, <1>4, <2>1, <2>2 DEF MemoryOK
<1>6. Numbered(m, img)
  <2>1. DOMAIN m.tables = kernel_end_pma(img) .. m.next_pma - 1
    <3>1. kernel_end_pma(img) .. kernel_end_pma(img) - 1 = {}
      BY <1>4
    <3> QED
      BY <1>2, <3>1
  <2>2. m.next_pma = kernel_end_pma(img) + m.offset - 1 /\ m.offset \in Nat \ {0}
    BY <1>2, <1>4
  <2>3. \A i \in Indexes : m.dir[i] = NONE /\ m.lookup[i] = NULL
    BY <1>2
  <2>4. {i \in Indexes : Present(m.dir[i])} = {}
    BY <2>3, Rights
  <2>5. Cardinality({i \in Indexes : Present(m.dir[i])}) = m.offset - 1
    <3>1. m.offset - 1 = 0
      BY <1>2
    <3> QED
      BY <2>4, <3>1, FS_EmptySet
  <2> QED
    BY <1>2, <2>1, <2>2, <2>3, <2>5 DEF Numbered
<1>7. MapsExactly(m, First(todo, k))
  <2>1. 1 .. 0 = {}
    OBVIOUS
  <2>2. First(todo, k) = {}
    BY <1>1, <2>1 DEF First
  <2>3. ASSUME NEW v \in Pages PROVE Walk(m, v).flags = {}
    <3>1. ~Present(m.dir[page_get_dir_idx(v)])
      BY <1>2, PageParts, Rights
    <3>2. Walk(m, v) = NONE
      BY <3>1 DEF Walk
    <3> QED
      BY <3>2, Rights
  <2> QED
    BY <2>2, <2>3 DEF MapsExactly
<1>8. k \in 0 .. Len(todo)
  <2>1. todo \in Seq(Rec)
    BY <1>1, PredictableIs
  <2>2. Len(todo) \in Nat
    BY <2>1, LenProperties
  <2> QED
    BY <1>1, <2>2
<1>9. SetupPhase
  BY <1>1, <1>6, <1>7, <1>8 DEF SetupPhase
<1>10. KernelPhase
  BY <1>1 DEF KernelPhase, Enabled, Setup
<1>11. CpuSet
  <2>1. 0 \in Pages
    BY <1>3 DEF NULL
  <2>2. at \in Setup /\ at # "proc_loop"
    BY <1>1 DEF Setup
  <2> QED
    BY <1>1, <1>3, <2>1, <2>2 DEF CpuSet
<1>12. user \in [Procs -> [vma : Pages, entry : Entries]]
  BY <1>1, <1>3
<1>13. at \in Phases \ {"fault", "reset"}
  BY <1>1 DEF Phases, Setup
<1> QED
  BY <1>1, <1>5, <1>9, <1>10, <1>11, <1>12, <1>13 DEF BootInvariant

-----------------------------------------------------------------------------
(* kernel_main and the process switches.                                  *)

\* Once paging is on the invariant describes the address space.
LEMMA KernelSpace ==
    ASSUME BootInvariant, Enabled
    PROVE  Space(m, img, InitLeft, PID, StackFrames)
<1>1. /\ img \in Images /\ MemoryOK(m) /\ Connected(m, img) /\ Layout(m, img, InitLeft, PID)
      /\ Apart(m, img, InitLeft, StackFrames) /\ Progress
  BY DEF BootInvariant, KernelPhase
<1>2. HeapStart(img) \in Nat /\ m.heap \in Nat
  BY <1>1, HeapNumbers, MemoryParts
<1>3. HeapStart(img) <= m.heap /\ kernel_end_pma(img) <= m.next_pma
  <2>1. /\ Len(todo) \in 0 .. BootTables(img) /\ m.heap >= HeapStart(img) + Len(todo)
        /\ m.next_pma >= kernel_end_pma(img) /\ BootTables(img) \in Nat
    BY <1>1, ImageFacts DEF Progress
  <2>2. kernel_end_pma(img) \in Nat /\ m.next_pma \in Nat
    BY <1>1, ImageFacts, MemoryParts
  <2> QED
    BY <1>2, <2>1, <2>2
<1>4. InitLeft \subseteq InitOf(img)
  <2>1. CASE at = "free"
    <3>1. k \in INIT_START .. INIT_BSS_END(img) /\ INIT_START \in Nat /\ INIT_BSS_END(img) \in Nat
      BY <1>1, <2>1, ImageFacts, Numbers DEF Progress
    <3> QED
      BY <2>1, <3>1 DEF InitLeft, InitOf
  <2>2. CASE at # "free"
    BY <2>2 DEF InitLeft
  <2> QED
    BY <2>1, <2>2
<1> QED
  BY <1>1, <1>3, <1>4 DEF Space

\* What may be cached, when what was mapped stays so but for pages of the
\* init section.
LEMMA CachedKept ==
    ASSUME BootInvariant, Enabled, img' = img, InitLeft' \subseteq InitLeft,
           \A v \in Pages : Present(Walk(m, v)) => Walk(m', v) = Walk(m, v) \/ v \in InitLeft \ InitLeft',
           Cacheable(m') \subseteq tlb', tlb' \subseteq tlb \cup Cacheable(m')
    PROVE  Cached'
<1>1. Cached /\ Layout(m, img, InitLeft, PID) /\ InitLeft \subseteq InitOf(img)
  BY KernelSpace DEF BootInvariant, KernelPhase, Space
<1>2. ASSUME NEW c \in tlb', c \notin Cacheable(m')
      PROVE  c.vma \in InitOf(img) \ InitLeft' /\ c.to = [pma |-> c.vma, flags |-> Kernel]
  <2>1. c \in tlb
    BY <1>2
  <2>2. CASE c \notin Cacheable(m)
    BY <1>1, <2>1, <2>2 DEF Cached
  <2>3. CASE c \in Cacheable(m)
    <3>1. PICK v \in Pages : Present(Walk(m, v)) /\ c = [vma |-> v, to |-> Walk(m, v)]
      BY <2>3 DEF Cacheable
    <3>2. c.vma = v /\ c.to = Walk(m, v)
      BY <3>1
    <3>3. CASE Walk(m', v) = Walk(m, v)
      <4>1. c \in Cacheable(m')
        BY <3>1, <3>3 DEF Cacheable
      <4> QED
        BY <1>2, <4>1
    <3>4. CASE v \in InitLeft \ InitLeft'
      BY <1>1, <3>2, <3>4 DEF Layout
    <3> QED
      BY <3>1, <3>3, <3>4
  <2> QED
    BY <2>2, <2>3
<1> QED
  BY <1>2 DEF Cached

\* Before processes are registered there is no table of a process.
NoUsers == Registered = 0 /\ PID = 0 /\ at \notin {"proc_loop", "handler"}

\* A step before that keeps the invariant if it keeps these parts.
LEMMA EarlyStep ==
    ASSUME BootInvariant, Enabled, NoUsers, NoUsers', UNCHANGED <<img, user>>,
           Space(m', img, InitLeft', 0, {}), ~Present(m'.dir[USER_DIR]),
           InitLeft' \subseteq InitLeft,
           \A v \in Pages : Present(Walk(m, v)) => Walk(m', v) = Walk(m, v) \/ v \in InitLeft \ InitLeft',
           Cacheable(m') \subseteq tlb', tlb' \subseteq tlb \cup Cacheable(m'),
           at' \in Phases \ {"fault", "reset"}, at' \notin Setup,
           Progress', CpuSet', Devices'
    PROVE  BootInvariant'
<1>1. Cached'
  BY CachedKept
<1>2. UserTables'
  BY DEF UserTables, NoUsers
<1>3. StackFrames' = {}
  <2>1. Registered' = 0
    BY DEF NoUsers
  <2> QED
    BY <2>1 DEF StackFrames
<1>4. PID' = 0
  BY DEF NoUsers
<1>5. /\ MemoryOK(m') /\ Connected(m', img) /\ Layout(m', img, InitLeft', 0)
      /\ Apart(m', img, InitLeft', {})
  BY DEF Space
<1>6. KernelPhase'
  BY <1>1, <1>2, <1>3, <1>4, <1>5 DEF KernelPhase
<1>7. SetupPhase'
  BY DEF SetupPhase
<1> QED
  BY <1>5, <1>6, <1>7 DEF BootInvariant

\* The steps before processes are registered start from here.
LEMMA EarlyState ==
    ASSUME BootInvariant, at \notin Setup \cup {"proc_loop", "handler"}, at = "register" => k = 0
    PROVE  /\ NoUsers /\ Enabled /\ Space(m, img, InitLeft, 0, {}) /\ ~Present(m.dir[USER_DIR])
           /\ img \in Images /\ MemoryOK(m) /\ m.fault = FALSE /\ Progress /\ CpuSet /\ Devices
           /\ Cacheable(m) \subseteq tlb
<1>1. Enabled
  BY DEF Enabled
<1>2. UserTables /\ img \in Images /\ MemoryOK(m) /\ m.fault = FALSE /\ Progress /\ CpuSet /\ Devices
      /\ Cached
  BY <1>1 DEF BootInvariant, KernelPhase, MemoryOK
<1>3. Registered = 0
  BY DEF Registered
<1>4. PID = 0 /\ ~Present(m.dir[USER_DIR])
  BY <1>2 DEF UserTables
<1>5. StackFrames = {}
  BY <1>3 DEF StackFrames
<1>6. Space(m, img, InitLeft, PID, StackFrames)
  BY <1>1, KernelSpace
<1> QED
  BY <1>1, <1>2, <1>3, <1>4, <1>5, <1>6 DEF NoUsers, Cached

\* The pages left of the init section, outside page_init_cleanup.
LEMMA LeftIs ==
    /\ at \in Cleaning \ {"free"} => InitLeft = InitOf(img)
    /\ at \notin Cleaning => InitLeft = {}
BY DEF InitLeft, Cleaning

\* A step that leaves memory and the pages of the init section alone.
LEMMA QuietStep ==
    ASSUME BootInvariant, at \notin Setup \cup {"proc_loop", "handler", "register"},
           at' \notin Setup \cup {"proc_loop", "handler", "register"},
           at' \in Phases \ {"fault", "reset"}, UNCHANGED <<img, user, PID, m>>,
           Cacheable(m) \subseteq tlb', tlb' \subseteq tlb \cup Cacheable(m),
           InitLeft' = InitLeft, Progress', CpuSet', Devices'
    PROVE  BootInvariant'
<1>1. /\ NoUsers /\ Enabled /\ Space(m, img, InitLeft, 0, {}) /\ ~Present(m.dir[USER_DIR])
  BY EarlyState
<1>2. NoUsers'
  BY <1>1 DEF NoUsers, Registered
<1> QED
  BY <1>1, <1>2, EarlyStep

\* vga_clear finds the text buffer mapped.
LEMMA VgaClearStep == BootInvariant /\ VgaClear => BootInvariant'
<1> SUFFICES ASSUME BootInvariant, VgaClear PROVE BootInvariant'
  OBVIOUS
<1>1. at = "vga_clear" /\ UNCHANGED <<img, k, todo, cpu, user, PID>>
  BY DEF VgaClear
<1>2. /\ Space(m, img, InitLeft, 0, {}) /\ img \in Images /\ MemoryOK(m) /\ m.fault = FALSE
      /\ Progress /\ CpuSet /\ Devices /\ Cacheable(m) \subseteq tlb
  BY <1>1, EarlyState DEF Setup
<1>3. Present(Walk(m, BSS_END_VMA(img) + 2))
  <2>1. StaticOf(img) = (KERNEL_START_VMA .. HeapStart(img) - 1) \cup {STACK_VMA}
    BY <1>2, Regions
  <2>2. BSS_END_VMA(img) + 2 \in StaticOf(img)
    BY <1>2, <2>1, ImageFacts, Numbers
  <2> QED
    BY <1>2, <2>2, SpacePages
<1>4. [m EXCEPT !.fault = ~Present(Walk(m, BSS_END_VMA(img) + 2))] = m
  BY <1>2, <1>3 DEF MemoryOK
<1>5. m' = m /\ at' = "gdt_init" /\ tlb' = tlb \cup Cacheable(m)
  BY <1>2, <1>4 DEF VgaClear, Go
<1>6. Progress'
  BY <1>1, <1>2, <1>5 DEF Progress, Cleaning, Registered
<1>7. CpuSet'
  BY <1>1, <1>2, <1>5 DEF CpuSet, Setup
<1>8. Devices'
  BY <1>1, <1>2, <1>5 DEF Devices
<1>9. InitLeft' = InitLeft
  BY <1>1, <1>5 DEF InitLeft, Cleaning
<1> QED
  BY <1>1, <1>2, <1>5, <1>6, <1>7, <1>8, <1>9, QuietStep DEF Setup, Phases, Cleaning, Halts, Early

\* gdt_init touches no page.
LEMMA GdtInitStep == BootInvariant /\ GdtInit => BootInvariant'
<1> SUFFICES ASSUME BootInvariant, GdtInit PROVE BootInvariant'
  OBVIOUS
<1>1. /\ at = "gdt_init" /\ at' = "int_init" /\ UNCHANGED <<img, m, tlb, k, todo, user, PID>>
      /\ cpu' = [cpu EXCEPT !.gdt = TRUE, !.esp0 = 0]
  BY DEF GdtInit
<1>2. /\ Progress /\ CpuSet /\ Devices /\ Cacheable(m) \subseteq tlb
  BY <1>1, EarlyState DEF Setup
<1>3. Progress'
  BY <1>1, <1>2 DEF Progress, Cleaning, Registered
<1>4. 0 \in Pages
  BY PageRange, Numbers
<1>5. CpuSet'
  BY <1>1, <1>2, <1>4 DEF CpuSet, Setup
<1>6. Devices'
  BY <1>1, <1>2 DEF Devices
<1>7. InitLeft' = InitLeft
  BY <1>1 DEF InitLeft, Cleaning
<1> QED
  BY <1>1, <1>2, <1>3, <1>5, <1>6, <1>7, QuietStep DEF Setup, Phases, Cleaning, Halts, Early

\* int_init touches no page.
LEMMA IntInitStep == BootInvariant /\ IntInit => BootInvariant'
<1> SUFFICES ASSUME BootInvariant, IntInit PROVE BootInvariant'
  OBVIOUS
<1>1. /\ at = "int_init" /\ at' = "kmalloc_init" /\ UNCHANGED <<img, m, tlb, k, todo, user, PID>>
      /\ cpu' = [cpu EXCEPT !.idt = TRUE]
  BY DEF IntInit
<1>2. /\ Progress /\ CpuSet /\ Devices /\ Cacheable(m) \subseteq tlb
  BY <1>1, EarlyState DEF Setup
<1>3. Progress'
  BY <1>1, <1>2 DEF Progress, Cleaning, Registered
<1>5. CpuSet'
  BY <1>1, <1>2 DEF CpuSet, Setup
<1>6. Devices'
  BY <1>1, <1>2 DEF Devices
<1>7. InitLeft' = InitLeft
  BY <1>1 DEF InitLeft, Cleaning
<1> QED
  BY <1>1, <1>2, <1>3, <1>5, <1>6, <1>7, QuietStep DEF Setup, Phases, Cleaning, Halts, Early

\* The init section is gone when its loop ends.
LEMMA CleanupDoneStep == BootInvariant /\ CleanupDone => BootInvariant'
<1> SUFFICES ASSUME BootInvariant, CleanupDone PROVE BootInvariant'
  OBVIOUS
<1>1. /\ at = "free" /\ k = INIT_BSS_END(img) /\ at' = "kernel_tables" /\ k' = KERNEL_DIR
      /\ UNCHANGED <<img, m, tlb, todo, cpu, user, PID>>
  BY DEF CleanupDone
<1>2. /\ Progress /\ CpuSet /\ Devices /\ Cacheable(m) \subseteq tlb /\ img \in Images /\ MemoryOK(m)
  BY <1>1, EarlyState DEF Setup
<1>3. Progress'
  <2>1. /\ KERNEL_DIR \in KERNEL_DIR .. PAGE_ENTRIES /\ KERNEL_DIR \in 0 .. PAGE_ENTRIES * PAGE_ENTRIES
        /\ ~(KERNEL_DIR > KERNEL_DIR) /\ KERNEL_DIR - KERNEL_DIR = 0 /\ PAGE_ENTRIES - 1 >= KERNEL_DIR
    <3>1. 1 * PAGE_ENTRIES <= PAGE_ENTRIES * PAGE_ENTRIES /\ PAGE_ENTRIES * PAGE_ENTRIES \in Nat
      BY Product, Numbers
    <3> QED
      BY <3>1, Numbers
  <2>2. m.heap <= HeapStart(img) + BootTables(img) + 2 + 2 * (KERNEL_DIR - KERNEL_DIR)
    <3>1. /\ m.heap - HeapStart(img) - Len(todo) \in {1, 2} /\ Len(todo) \in 0 .. BootTables(img)
          /\ m.heap \in Nat /\ HeapStart(img) \in Nat /\ BootTables(img) \in Nat
      BY <1>1, <1>2, ImageFacts, MemoryParts DEF Progress
    <3> QED
      BY <3>1, Numbers
  <2>3. \A i \in KERNEL_DIR .. KERNEL_DIR - 1 : FALSE
    BY Numbers
  <2> QED
    BY <1>1, <1>2, <2>1, <2>2, <2>3 DEF Progress, Cleaning, Registered
<1>5. CpuSet'
  BY <1>1, <1>2 DEF CpuSet, Setup
<1>6. Devices'
  BY <1>1, <1>2 DEF Devices
<1>7. InitLeft' = InitLeft
  <2>1. INIT_BSS_END(img) .. INIT_BSS_END(img) - 1 = {}
    BY <1>2, ImageFacts
  <2> QED
    BY <1>1, <2>1 DEF InitLeft, Cleaning
<1> QED
  BY <1>1, <1>2, <1>3, <1>5, <1>6, <1>7, QuietStep DEF Setup, Phases, Cleaning, Halts, Early

\* All kernel tables are there when their loop ends.
LEMMA CleanupEndStep == BootInvariant /\ CleanupEnd => BootInvariant'
<1> SUFFICES ASSUME BootInvariant, CleanupEnd PROVE BootInvariant'
  OBVIOUS
<1>1. /\ at = "kernel_tables" /\ k = PAGE_ENTRIES /\ at' = "apic_init" /\ k' = 0
      /\ UNCHANGED <<img, m, tlb, todo, cpu, user, PID>>
  BY DEF CleanupEnd
<1>2. /\ Progress /\ CpuSet /\ Devices /\ Cacheable(m) \subseteq tlb
  BY <1>1, EarlyState DEF Setup
<1>3. Progress'
  <2>1. 0 \in 0 .. PAGE_ENTRIES * PAGE_ENTRIES
    BY Product, Numbers
  <2> QED
    BY <1>1, <1>2, <2>1 DEF Progress, Cleaning, Registered
<1>5. CpuSet'
  BY <1>1, <1>2 DEF CpuSet, Setup
<1>6. Devices'
  BY <1>1, <1>2 DEF Devices
<1>7. InitLeft' = InitLeft
  BY <1>1 DEF InitLeft, Cleaning
<1> QED
  BY <1>1, <1>2, <1>3, <1>5, <1>6, <1>7, QuietStep DEF Setup, Phases, Cleaning, Halts, Early

\* apic_init may stop the machine.
LEMMA ApicMissingStep == BootInvariant /\ ApicMissing => BootInvariant'
<1> SUFFICES ASSUME BootInvariant, ApicMissing PROVE BootInvariant'
  OBVIOUS
<1>1. /\ at = "apic_init" /\ at' = "dead" /\ UNCHANGED <<img, m, tlb, k, todo, cpu, user, PID>>
  BY DEF ApicMissing
<1>2. /\ Progress /\ CpuSet /\ Devices /\ Cacheable(m) \subseteq tlb
  BY <1>1, EarlyState DEF Setup
<1>3. Progress'
  BY <1>1, <1>2 DEF Progress, Cleaning, Registered
<1>5. CpuSet'
  BY <1>1, <1>2 DEF CpuSet, Setup
<1>6. Devices'
  BY <1>1, <1>2 DEF Devices
<1>7. InitLeft' = InitLeft
  BY <1>1 DEF InitLeft, Cleaning
<1> QED
  BY <1>1, <1>2, <1>3, <1>5, <1>6, <1>7, QuietStep DEF Setup, Phases, Cleaning, Halts, Early

-----------------------------------------------------------------------------
(* Steps with which the heap grows.                                        *)

\* The numbers of Progress.
LEMMA ProgressNumbers ==
    ASSUME BootInvariant, Enabled
    PROVE  /\ m.heap \in Nat /\ m.next_pma \in Nat /\ HeapStart(img) \in Nat
           /\ kernel_end_pma(img) \in Nat /\ LAPIC_BASE \in Nat /\ STACK_VMA \in Nat
           /\ PAGE_ENTRIES \in Nat /\ PAGE_ENTRIES >= 2 /\ KERNEL_DIR \in Nat
           /\ KERNEL_DIR >= 1 /\ KERNEL_DIR < PAGE_ENTRIES
           /\ KERNEL_START_VMA \in Nat /\ KERNEL_START_VMA + PAGE_ENTRIES <= STACK_VMA + 1
           /\ BootTables(img) \in Nat /\ HeapSize(img) \in Nat /\ NPROC \in Nat /\ PROC_TABLE_PAGES \in Nat
           /\ HeapSize(img) = BootTables(img) + 2 + 2 * (PAGE_ENTRIES - KERNEL_DIR) + 2
                              + PROC_TABLE_PAGES + 2 + 2 * NPROC
           /\ HeapStart(img) + BootTables(img) + 4 <= KERNEL_START_VMA + PAGE_ENTRIES
           /\ HeapStart(img) + HeapSize(img) <= STACK_VMA
           /\ kernel_end_pma(img) + HeapSize(img) + NPROC < LAPIC_BASE
           /\ Len(todo) \in 0 .. BootTables(img) /\ m.heap >= HeapStart(img) + Len(todo)
           /\ m.next_pma >= kernel_end_pma(img)
           /\ m.next_pma - kernel_end_pma(img) <= m.heap - HeapStart(img) + Registered
<1>1. img \in Images /\ MemoryOK(m) /\ Progress
  BY DEF BootInvariant, KernelPhase
<1>2. m.heap \in Nat /\ m.next_pma \in Nat
  BY <1>1, MemoryParts
<1>3. /\ Len(todo) \in 0 .. BootTables(img) /\ m.heap >= HeapStart(img) + Len(todo)
      /\ m.next_pma >= kernel_end_pma(img)
      /\ m.next_pma - kernel_end_pma(img) <= m.heap - HeapStart(img) + Registered
  BY <1>1 DEF Progress
<1>4. /\ HeapStart(img) \in Nat /\ kernel_end_pma(img) \in Nat
      /\ BootTables(img) \in Nat /\ HeapSize(img) \in Nat
      /\ HeapSize(img) = BootTables(img) + 2 + 2 * (PAGE_ENTRIES - KERNEL_DIR) + 2
                         + PROC_TABLE_PAGES + 2 + 2 * NPROC
      /\ HeapStart(img) + BootTables(img) + 4 <= KERNEL_START_VMA + PAGE_ENTRIES
      /\ HeapStart(img) + HeapSize(img) <= STACK_VMA
      /\ kernel_end_pma(img) + HeapSize(img) + NPROC < LAPIC_BASE
  BY <1>1, ImageFacts
<1> QED
  BY <1>2, <1>3, <1>4, Numbers

\* Products of the table size.
LEMMA TableBounds ==
    /\ (KERNEL_DIR + 1) * PAGE_ENTRIES = KERNEL_START_VMA + PAGE_ENTRIES
    /\ PAGE_ENTRIES * PAGE_ENTRIES = STACK_VMA + 1 /\ PAGE_ENTRIES * PAGE_ENTRIES \in Nat
    /\ PAGE_ENTRIES <= PAGE_ENTRIES * PAGE_ENTRIES
<1>1. KERNEL_DIR \in Nat /\ PAGE_ENTRIES \in Nat /\ PAGE_ENTRIES >= 2
  BY Numbers
<1>2. (KERNEL_DIR + 1) * PAGE_ENTRIES = KERNEL_DIR * PAGE_ENTRIES + PAGE_ENTRIES
      /\ PAGE_ENTRIES * PAGE_ENTRIES \in Nat /\ 1 * PAGE_ENTRIES <= PAGE_ENTRIES * PAGE_ENTRIES
  BY <1>1, Product
<1> QED
  BY <1>1, <1>2 DEF KERNEL_START_VMA, STACK_VMA

\* Room for n pages of the heap below the stack page and in memory.
LEMMA FramesLeft ==
    ASSUME BootInvariant, Enabled, NEW n \in Nat, Registered \in 0 .. NPROC,
           m.heap + n <= HeapStart(img) + HeapSize(img)
    PROVE  m.next_pma + n < LAPIC_BASE /\ m.heap + n <= STACK_VMA
<1>1. /\ m.heap \in Nat /\ m.next_pma \in Nat /\ HeapStart(img) \in Nat
      /\ kernel_end_pma(img) \in Nat /\ LAPIC_BASE \in Nat /\ STACK_VMA \in Nat
      /\ HeapSize(img) \in Nat /\ NPROC \in Nat
      /\ HeapStart(img) + HeapSize(img) <= STACK_VMA
      /\ kernel_end_pma(img) + HeapSize(img) + NPROC < LAPIC_BASE
      /\ m.next_pma - kernel_end_pma(img) <= m.heap - HeapStart(img) + Registered
  BY ProgressNumbers
<1> QED
  BY <1>1

\* A heap of n pages more, with no more frames than pages and processes.
LEMMA FrameProgress ==
    ASSUME BootInvariant, Enabled, NEW y, NEW n \in Nat, NEW r \in Nat, MemoryOK(y), y.heap = m.heap + n,
           m.next_pma <= y.next_pma, y.next_pma <= m.next_pma + n + r, Registered \in Nat
    PROVE  /\ y.heap >= HeapStart(img) + Len(todo) /\ y.next_pma >= kernel_end_pma(img)
           /\ y.next_pma - kernel_end_pma(img) <= y.heap - HeapStart(img) + (Registered + r)
<1>1. /\ m.heap \in Nat /\ m.next_pma \in Nat /\ HeapStart(img) \in Nat
      /\ kernel_end_pma(img) \in Nat /\ m.next_pma >= kernel_end_pma(img)
      /\ m.next_pma - kernel_end_pma(img) <= m.heap - HeapStart(img) + Registered
  BY ProgressNumbers
<1>2. PICK l : l = Len(todo)
  OBVIOUS
<1>3. l \in Nat /\ m.heap >= HeapStart(img) + l
  <2>1. Len(todo) \in 0 .. BootTables(img) /\ m.heap >= HeapStart(img) + Len(todo) /\ BootTables(img) \in Nat
    BY ProgressNumbers
  <2> QED
    BY <1>2, <2>1
<1>4. y.heap \in Nat /\ y.next_pma \in Nat
  BY MemoryParts
<1>5. /\ y.heap >= HeapStart(img) + l /\ y.next_pma >= kernel_end_pma(img)
      /\ y.next_pma - kernel_end_pma(img) <= y.heap - HeapStart(img) + (Registered + r)
  BY <1>1, <1>3, <1>4
<1> QED
  BY <1>2, <1>5

\* The heap's bound leaves room for the tables of init and more.
LEMMA SizeBound ==
    ASSUME NEW g \in Images
    PROVE  HeapSize(g) >= BootTables(g) + 4 /\ HeapSize(g) \in Nat /\ BootTables(g) \in Nat
<1>1. /\ HeapSize(g) = BootTables(g) + 2 + 2 * (PAGE_ENTRIES - KERNEL_DIR) + 2
                       + PROC_TABLE_PAGES + 2 + 2 * NPROC
      /\ BootTables(g) \in Nat /\ HeapSize(g) \in Nat
  BY ImageFacts
<1> QED
  BY <1>1, Numbers

\* In the first table of the kernel there is room for a few pages.
LEMMA FirstRoom ==
    ASSUME BootInvariant, at \in Cleaning, NEW n \in Nat,
           m.heap + n <= HeapStart(img) + BootTables(img) + 4
    PROVE  Room(m, n)
<1>0. Enabled /\ at \notin Setup \cup {"proc_loop", "handler"} /\ at # "register"
  BY DEF Enabled, Setup, Cleaning
<1>1. Space(m, img, InitLeft, 0, {}) /\ img \in Images /\ Progress
  BY <1>0, EarlyState
<1>2. /\ m.heap + n <= (KERNEL_DIR + 1) * PAGE_ENTRIES /\ m.heap + n <= STACK_VMA
      /\ KERNEL_DIR + 1 \in Nat
  <2>1. /\ m.heap \in Nat /\ HeapStart(img) \in Nat /\ BootTables(img) \in Nat
        /\ KERNEL_DIR \in Nat /\ PAGE_ENTRIES \in Nat
        /\ HeapStart(img) + BootTables(img) + 4 <= KERNEL_START_VMA + PAGE_ENTRIES
        /\ HeapStart(img) + HeapSize(img) <= STACK_VMA /\ KERNEL_START_VMA \in Nat /\ STACK_VMA \in Nat
        /\ HeapSize(img) \in Nat
    BY <1>0, ProgressNumbers
  <2>2. HeapSize(img) >= BootTables(img) + 4
    BY <1>1, SizeBound
  <2> QED
    BY <2>1, <2>2, TableBounds
<1>3. \A j \in Indexes : KERNEL_DIR <= j /\ j < KERNEL_DIR + 1 => Present(m.dir[j])
  <2>1. Present(m.dir[KERNEL_DIR])
    BY <1>1 DEF Progress
  <2> QED
    BY <2>1, Numbers DEF Indexes
<1> QED
  BY <1>1, <1>2, <1>3, RoomBelow

\* kmalloc_init's page is new, in a table that is reached.
LEMMA KmallocInitStep == BootInvariant /\ KmallocInit => BootInvariant'
<1> SUFFICES ASSUME BootInvariant, KmallocInit PROVE BootInvariant'
  OBVIOUS
<1> DEFINE x == GrowHeap(m, 1)
<1>1. at = "kmalloc_init" /\ UNCHANGED <<img, todo, cpu, user, PID>> /\ k' = INIT_START
      /\ at \notin Setup \cup {"proc_loop", "handler"} /\ at # "register" /\ at \in Cleaning \ {"free"}
      /\ Enabled
  BY DEF KmallocInit, Setup, Cleaning, Enabled
<1>2. /\ NoUsers /\ Space(m, img, InitLeft, 0, {}) /\ ~Present(m.dir[USER_DIR])
      /\ img \in Images /\ MemoryOK(m) /\ Progress /\ CpuSet /\ Devices
      /\ Cacheable(m) \subseteq tlb
  BY <1>1, EarlyState
<1>3. m.heap = HeapStart(img) + Len(todo) /\ InitLeft = InitOf(img) /\ Registered = 0
  BY <1>1, <1>2, LeftIs DEF Progress, NoUsers
<1>a. PICK one \in Nat : one = 1
  OBVIOUS
<1>4. Room(m, one) /\ m.next_pma + one < LAPIC_BASE
  <2>0. /\ m.heap \in Nat /\ HeapStart(img) \in Nat /\ BootTables(img) \in Nat
        /\ Len(todo) \in 0 .. BootTables(img) /\ NPROC \in Nat
    BY <1>1, ProgressNumbers
  <2>a. HeapSize(img) >= BootTables(img) + 4 /\ HeapSize(img) \in Nat
    BY <1>2, SizeBound
  <2>1. /\ m.heap + one <= HeapStart(img) + BootTables(img) + 4 /\ Registered \in 0 .. NPROC
        /\ m.heap + one <= HeapStart(img) + HeapSize(img)
    BY <1>a, <1>3, <2>0, <2>a
  <2> QED
    BY <1>1, <2>1, FirstRoom, FramesLeft
<1>5. ~Present(page_get_entry(m, m.heap))
  <2>1. m.heap \in Nat /\ HeapStart(img) <= m.heap /\ m.heap + 1 <= STACK_VMA
    BY <1>a, <1>2, <1>4, SpaceParts DEF Room
  <2>2. m.heap \in Pages /\ m.heap \in m.heap .. m.heap + one - 1
    BY <1>a, <2>1, PageRange, Numbers
  <2>3. Present(m.dir[page_get_dir_idx(m.heap)])
    BY <1>4, <2>2 DEF Room
  <2>4. page_get_entry(m, m.heap) = EntryOf(m, m.heap)
        /\ (Present(EntryOf(m, m.heap)) <=> Present(Walk(m, m.heap)))
    BY <1>2, <2>2, <2>3, ReachIs, SpaceParts
  <2>5. m.heap \notin StaticOf(img)
    <3>1. StaticOf(img) = (KERNEL_START_VMA .. HeapStart(img) - 1) \cup {STACK_VMA}
      BY <1>2, Regions
    <3> QED
      BY <1>2, <2>1, <3>1, HeapNumbers
  <2>6. m.heap \notin HeapPages(m, img)
    BY <1>2, <2>1, HeapNumbers DEF HeapPages
  <2>7. m.heap \notin InitLeft
    <3>1. \A v \in InitLeft : v \in Nat /\ v < KERNEL_START_VMA
      BY <1>2, <1>3, InitApart
    <3> QED
      BY <1>2, <2>1, <3>1, HeapNumbers
  <2> QED
    BY <1>2, <2>2, <2>4, <2>5, <2>6, <2>7, SpaceParts DEF Layout
<1>6. /\ Space(x, img, InitLeft, 0, {}) /\ Grew(m, x, one) /\ KeepsMapped(m, x)
      /\ LAPIC_BASE \notin HeapFrames(m, img) => LAPIC_BASE \notin HeapFrames(x, img)
  BY <1>a, <1>2, <1>4, HeapGrows
<1>7. m' = x /\ at' = "free" /\ tlb' = tlb \cup Cacheable(m')
  BY <1>5, <1>6 DEF KmallocInit, Go, Space, MemoryOK
<1> HIDE DEF x
<1>8. /\ m'.heap = m.heap + 1 /\ m'.dir = m.dir /\ m.next_pma <= m'.next_pma
      /\ m'.next_pma <= m.next_pma + 1 /\ m'.next_pma \in Nat /\ MemoryOK(m')
  BY <1>a, <1>2, <1>6, <1>7, SpaceParts DEF Grew
<1>9. InitLeft' = InitLeft /\ NoUsers' /\ Registered' = 0
  BY <1>1, <1>2, <1>3, <1>7 DEF InitLeft, InitOf, NoUsers, Registered
<1>10. Progress'
  <2>1. /\ INIT_START \in INIT_START .. INIT_BSS_END(img)
        /\ INIT_START \in 0 .. PAGE_ENTRIES * PAGE_ENTRIES
    <3>1. /\ INIT_START <= INIT_BSS_END(img) /\ INIT_BSS_END(img) <= KERNEL_START_VMA - PAGE_ENTRIES
          /\ INIT_BSS_END(img) \in Nat /\ INIT_START \in Nat /\ KERNEL_START_VMA \in Nat /\ PAGE_ENTRIES \in Nat
      BY <1>2, ImageFacts, Numbers
    <3> QED
      BY <3>1, TableBounds, Numbers
  <2>2. /\ m'.heap >= HeapStart(img) + Len(todo) /\ m'.next_pma >= kernel_end_pma(img)
        /\ m'.next_pma - kernel_end_pma(img) <= m'.heap - HeapStart(img) + Registered'
    <3>1. PICK z \in Nat : z = 0
      OBVIOUS
    <3>2. m'.next_pma <= m.next_pma + one + z /\ m'.heap = m.heap + one
      <4>1. m.next_pma \in Nat /\ m'.next_pma \in Nat /\ m'.heap = m.heap + 1 /\ m'.next_pma <= m.next_pma + 1
        BY <1>1, <1>8, ProgressNumbers
      <4> QED
        BY <1>a, <3>1, <4>1
    <3>3. Registered \in Nat /\ Registered + z = Registered'
      BY <1>3, <1>9, <3>1
    <3> QED
      BY <1>1, <1>8, <3>2, <3>3, FrameProgress
  <2>3. m'.heap - HeapStart(img) - Len(todo) \in {1, 2}
    <3>1. /\ m.heap \in Nat /\ HeapStart(img) \in Nat /\ BootTables(img) \in Nat
          /\ Len(todo) \in 0 .. BootTables(img)
      BY <1>1, ProgressNumbers
    <3>2. m.heap = HeapStart(img) + Len(todo) /\ m'.heap = m.heap + 1
      BY <1>3, <1>8
    <3> QED
      BY <3>1, <3>2
  <2> QED
    BY <1>1, <1>2, <1>7, <1>8, <1>9, <2>1, <2>2, <2>3 DEF Progress, Cleaning
<1>11. CpuSet'
  BY <1>1, <1>2, <1>7 DEF CpuSet, Setup
<1>12. Devices'
  BY <1>1, <1>2, <1>6, <1>7 DEF Devices
<1>13. \A v \in Pages : Present(Walk(m, v)) => Walk(m', v) = Walk(m, v)
  BY <1>6, <1>7 DEF KeepsMapped
<1>14. Space(m', img, InitLeft', 0, {}) /\ ~Present(m'.dir[USER_DIR])
  BY <1>2, <1>6, <1>7, <1>8, <1>9
<1>15. at' \in Phases \ {"fault", "reset"} /\ at' \notin Setup
  BY <1>7 DEF Phases, Setup, Cleaning
<1> QED
  BY <1>1, <1>2, <1>7, <1>9, <1>10, <1>11, <1>12, <1>13, <1>14, <1>15, EarlyStep

-----------------------------------------------------------------------------
(* page_init_cleanup: the init section.                                    *)

\* The page after k is next.
LEMMA NextLeft ==
    ASSUME BootInvariant, at = "free", k < INIT_BSS_END(img), at' = "free", k' = k + 1, img' = img
    PROVE  /\ k \in Nat /\ k \in InitLeft /\ InitLeft' = InitLeft \ {k}
           /\ k' \in INIT_START .. INIT_BSS_END(img) /\ k' \in 0 .. PAGE_ENTRIES * PAGE_ENTRIES
<1>1. Progress /\ img \in Images
  BY EarlyState DEF Setup
<1>2. /\ k \in INIT_START .. INIT_BSS_END(img) /\ INIT_START \in Nat /\ INIT_BSS_END(img) \in Nat
      /\ INIT_BSS_END(img) <= KERNEL_START_VMA - PAGE_ENTRIES
      /\ KERNEL_START_VMA \in Nat /\ PAGE_ENTRIES \in Nat
      /\ KERNEL_START_VMA + PAGE_ENTRIES <= STACK_VMA + 1 /\ STACK_VMA \in Nat
  BY <1>1, ImageFacts, Numbers DEF Progress
<1>3. InitLeft = k .. INIT_BSS_END(img) - 1 /\ InitLeft' = k + 1 .. INIT_BSS_END(img) - 1
  BY DEF InitLeft
<1> QED
  BY <1>2, <1>3, TableBounds

\* A step that takes page k of the init section away and lets the heap grow
\* by n pages.
LEMMA CleaningStep ==
    ASSUME BootInvariant, at = "free", k < INIT_BSS_END(img), at' = "free", k' = k + 1,
           UNCHANGED <<img, todo, cpu, user, PID>>, tlb' = Kept(k) \cup Cacheable(m'),
           Space(m', img, InitLeft \ {k}, 0, {}), m'.dir = m.dir,
           \A u \in Pages : Present(Walk(m, u)) => Walk(m', u) = Walk(m, u) \/ u = k,
           NEW n \in Nat, m'.heap = m.heap + n, m'.heap - HeapStart(img) - Len(todo) \in {1, 2},
           m.next_pma <= m'.next_pma, m'.next_pma <= m.next_pma + n,
           LAPIC_BASE \notin HeapFrames(m', img)
    PROVE  BootInvariant'
<1>1. at \notin Setup \cup {"proc_loop", "handler"} /\ at # "register" /\ Enabled
  BY DEF Setup, Enabled
<1>2. /\ NoUsers /\ Space(m, img, InitLeft, 0, {}) /\ ~Present(m.dir[USER_DIR])
      /\ img \in Images /\ MemoryOK(m) /\ Progress /\ CpuSet /\ Devices
      /\ Cacheable(m) \subseteq tlb
  BY <1>1, EarlyState
<1>3. /\ k \in Nat /\ k \in InitLeft /\ InitLeft' = InitLeft \ {k}
      /\ k' \in INIT_START .. INIT_BSS_END(img) /\ k' \in 0 .. PAGE_ENTRIES * PAGE_ENTRIES
  BY NextLeft
<1>4. NoUsers' /\ Registered' = 0 /\ Registered = 0 /\ MemoryOK(m')
  BY <1>2 DEF NoUsers, Registered, Space
<1>5. /\ m'.heap >= HeapStart(img) + Len(todo) /\ m'.next_pma >= kernel_end_pma(img)
      /\ m'.next_pma - kernel_end_pma(img) <= m'.heap - HeapStart(img) + Registered'
  <2>1. PICK z \in Nat : z = 0
    OBVIOUS
  <2>2. m'.next_pma <= m.next_pma + n + z
    <3>1. m'.next_pma \in Nat /\ m.next_pma \in Nat
      BY <1>2, <1>4, MemoryParts
    <3> QED
      BY <2>1, <3>1
  <2>3. Registered \in Nat /\ Registered + z = Registered'
    BY <1>4, <2>1
  <2> QED
    BY <1>1, <1>4, <2>2, <2>3, FrameProgress
<1>6. Progress'
  BY <1>2, <1>3, <1>4, <1>5 DEF Progress, Cleaning
<1>7. CpuSet' /\ Devices'
  BY <1>2 DEF CpuSet, Devices, Setup
<1>8. at' \in Phases \ {"fault", "reset"} /\ at' \notin Setup
  BY DEF Phases, Setup, Cleaning
<1>9. /\ Cacheable(m') \subseteq tlb' /\ tlb' \subseteq tlb \cup Cacheable(m')
  BY DEF Kept
<1>10. \A u \in Pages : Present(Walk(m, u)) => Walk(m', u) = Walk(m, u) \/ u \in InitLeft \ InitLeft'
  BY <1>3
<1>11. Space(m', img, InitLeft', 0, {}) /\ ~Present(m'.dir[USER_DIR]) /\ InitLeft' \subseteq InitLeft
  BY <1>2, <1>3
<1> QED
  BY <1>1, <1>2, <1>4, <1>6, <1>7, <1>8, <1>9, <1>10, <1>11, EarlyStep

\* Taking a page of the init section away leaves the heap alone.
LEMMA RemovedHeap ==
    ASSUME NEW x, NEW y, NEW g \in Images, NEW v \in InitOf(g), NEW left, NEW p, NEW stacks,
           Space(x, g, left, p, stacks), Removed(x, y, v)
    PROVE  HeapFrames(y, g) = HeapFrames(x, g)
<1>1. HeapPages(y, g) = HeapPages(x, g)
  BY DEF HeapPages, Removed
<1>2. \A u \in HeapPages(x, g) : Walk(y, u) = Walk(x, u)
  BY SpacePages, InitApart DEF Removed
<1> QED
  BY <1>1, <1>2 DEF HeapFrames

\* A page of init_page_struct is unmapped; its frame stays out of the list.
LEMMA CleanupUnmapStep == BootInvariant /\ CleanupUnmap => BootInvariant'
<1> SUFFICES ASSUME BootInvariant, CleanupUnmap PROVE BootInvariant'
  OBVIOUS
<1> DEFINE y == page_unmap(m, k)
<1>1. /\ at = "free" /\ k \in StructPages /\ UNCHANGED <<img, todo, cpu, user, PID>> /\ k' = k + 1
      /\ m' = y /\ tlb' = Kept(k) \cup Cacheable(m') /\ at' = IF m'.fault THEN Faulted ELSE "free"
      /\ at \notin Setup \cup {"proc_loop", "handler"} /\ at # "register"
  BY DEF CleanupUnmap, Setup
<1>2. Space(m, img, InitLeft, 0, {}) /\ img \in Images /\ Progress /\ MemoryOK(m) /\ Devices
  BY <1>1, EarlyState
<1>3. k < INIT_BSS_END(img)
  <2>1. INIT_STRUCT(img) \in Nat /\ INIT_BSS_END(img) \in Nat /\ INIT_STRUCT(img) + 3 <= INIT_BSS_END(img)
    BY <1>2, ImageFacts
  <2> QED
    BY <1>1, <2>1 DEF StructPages
<1>4. k \in InitLeft
  <2>1. INIT_START \in Nat /\ INIT_BSS_END(img) \in Nat /\ k \in INIT_START .. INIT_BSS_END(img)
    BY <1>1, <1>2, ImageFacts, Numbers DEF Progress
  <2> QED
    BY <1>1, <1>3, <2>1 DEF InitLeft
<1>5. Space(y, img, InitLeft \ {k}, 0, {}) /\ Removed(m, y, k)
  BY <1>2, <1>4, UnmapSpace
<1>6. at' = "free"
  BY <1>1, <1>5 DEF Space, MemoryOK
<1> HIDE DEF y
<1>7. LAPIC_BASE \notin HeapFrames(m', img)
  <2>1. k \in InitOf(img)
    BY <1>2, <1>4 DEF Space
  <2>2. HeapFrames(y, img) = HeapFrames(m, img)
    BY <1>2, <1>5, <2>1, RemovedHeap
  <2> QED
    BY <1>1, <1>2, <2>2 DEF Devices
<1>8. PICK z \in Nat : z = 0
  OBVIOUS
<1>9. m'.heap = m.heap + z /\ m.next_pma <= m'.next_pma /\ m'.next_pma <= m.next_pma + z
  <2>1. m'.heap = m.heap /\ m'.next_pma = m.next_pma /\ m.heap \in Nat /\ m.next_pma \in Nat
    BY <1>1, <1>2, <1>5, MemoryParts DEF Removed
  <2> QED
    BY <1>8, <2>1
<1>10. m'.dir = m.dir /\ m'.heap - HeapStart(img) - Len(todo) \in {1, 2}
  BY <1>1, <1>2, <1>5 DEF Removed, Progress
<1>11. \A u \in Pages : Present(Walk(m, u)) => Walk(m', u) = Walk(m, u) \/ u = k
  BY <1>1, <1>5 DEF Removed
<1> QED
  BY <1>1, <1>3, <1>5, <1>6, <1>7, <1>9, <1>10, <1>11, CleaningStep

\* page_clear of a page of the init section, and the node for the list.
Noded(x, y, n) ==
    /\ y.heap = x.heap + n /\ y.dir = x.dir /\ x.next_pma <= y.next_pma /\ y.next_pma <= x.next_pma + n
    /\ KeepsMapped(x, y)

\* The list's nodes may take one more page of the heap.
LEMMA NodeSpace ==
    ASSUME BootInvariant, at = "free", k \in InitLeft, NEW grow \in BOOLEAN,
           grow => m.heap = BSS_END_VMA(img) + 2 + VGA_PAGES + Len(todo) + 1
    PROVE  LET x == page_clear(m, k)
               y == IF grow THEN GrowHeap(x, 1) ELSE x
           IN  /\ Space(y, img, InitLeft, 0, {}) /\ Noded(m, y, IF grow THEN 1 ELSE 0)
               /\ LAPIC_BASE \notin HeapFrames(y, img)
<1> DEFINE x == page_clear(m, k)
           y == IF grow THEN GrowHeap(x, 1) ELSE x
<1>1. at \notin Setup \cup {"proc_loop", "handler"} /\ at # "register" /\ at \in Cleaning /\ Enabled
  BY DEF Setup, Cleaning, Enabled
<1>2. /\ Space(m, img, InitLeft, 0, {}) /\ img \in Images /\ Progress /\ MemoryOK(m) /\ NoUsers
      /\ LAPIC_BASE \notin HeapFrames(m, img)
  BY <1>1, EarlyState DEF Devices
<1>3. /\ Space(x, img, InitLeft, 0, {}) /\ SameWalks(m, x)
      /\ x.dir = m.dir /\ x.heap = m.heap /\ x.next_pma = m.next_pma
  BY <1>2, ClearSpace
<1>4. LAPIC_BASE \notin HeapFrames(x, img)
  BY <1>2, <1>3 DEF HeapFrames, HeapPages, SameWalks
<1>5. m.heap \in Nat /\ m.next_pma \in Nat
  BY <1>2, MemoryParts
<1> HIDE DEF x
<1>6. CASE ~grow
  <2>1. y = x
    BY <1>6
  <2> HIDE DEF y
  <2>2. Noded(m, y, 0)
    BY <1>3, <1>5, <2>1 DEF Noded, KeepsMapped, SameWalks
  <2> QED
    BY <1>3, <1>4, <1>6, <2>1, <2>2 DEF x, y
<1>7. CASE grow
  <2>1. PICK one \in Nat : one = 1
    OBVIOUS
  <2>2. m.heap + one <= HeapStart(img) + BootTables(img) + 4
        /\ m.heap + one <= HeapStart(img) + HeapSize(img)
    <3>1. PICK l : l = Len(todo)
      OBVIOUS
    <3>2. HeapStart(img) \in Nat /\ BootTables(img) \in Nat /\ Len(todo) \in 0 .. BootTables(img)
      BY <1>1, ProgressNumbers
    <3>3. l \in 0 .. BootTables(img)
      BY <3>1, <3>2
    <3>4. HeapSize(img) >= BootTables(img) + 4 /\ HeapSize(img) \in Nat
      BY <1>2, SizeBound
    <3>5. m.heap = HeapStart(img) + l + 1
      BY <1>7, <3>1 DEF HeapStart
    <3> QED
      BY <2>1, <3>2, <3>3, <3>4, <3>5
  <2>3. Room(m, one) /\ m.next_pma + one < LAPIC_BASE
    <3>1. Registered \in 0 .. NPROC
      BY <1>2, Numbers DEF NoUsers
    <3> QED
      BY <1>1, <2>2, <3>1, FirstRoom, FramesLeft
  <2>4. Room(x, one)
    BY <1>3, <2>3 DEF Room
  <2>5. /\ Space(GrowHeap(x, one), img, InitLeft, 0, {}) /\ Grew(x, GrowHeap(x, one), one)
        /\ KeepsMapped(x, GrowHeap(x, one)) /\ LAPIC_BASE \notin HeapFrames(GrowHeap(x, one), img)
    BY <1>2, <1>3, <1>4, <2>3, <2>4, HeapGrows
  <2>6. y = GrowHeap(x, one)
    BY <1>7, <2>1
  <2> HIDE DEF y
  <2>7. KeepsMapped(m, y)
    BY <1>3, <2>5, <2>6 DEF KeepsMapped, SameWalks
  <2>8. Noded(m, y, one)
    BY <1>3, <2>5, <2>6, <2>7 DEF Noded, Grew
  <2>9. Noded(m, y, 1)
    BY <2>1, <2>8
  <2> QED
    BY <1>7, <2>5, <2>6, <2>9 DEF x, y
<1> QED
  BY <1>6, <1>7

\* A page of the init section is cleared, unmapped and listed, once.
LEMMA CleanupFreeStep == BootInvariant /\ CleanupFree => BootInvariant'
<1> SUFFICES ASSUME BootInvariant, CleanupFree PROVE BootInvariant'
  OBVIOUS
<1>1. PICK grow \in BOOLEAN :
        /\ grow => m.heap = BSS_END_VMA(img) + 2 + VGA_PAGES + Len(todo) + 1
        /\ LET x == page_clear(m, k)
           IN  m' = page_free(IF grow THEN GrowHeap(x, 1) ELSE x, k)
  BY DEF CleanupFree
<1>2. /\ at = "free" /\ k < INIT_BSS_END(img) /\ k \notin StructPages
      /\ UNCHANGED <<img, todo, cpu, user, PID>> /\ k' = k + 1
      /\ tlb' = Kept(k) \cup Cacheable(m') /\ at' = IF m'.fault THEN Faulted ELSE "free"
      /\ at \notin Setup \cup {"proc_loop", "handler"} /\ at # "register" /\ Enabled
  BY DEF CleanupFree, Setup, Enabled
<1>3. Space(m, img, InitLeft, 0, {}) /\ img \in Images /\ Progress /\ MemoryOK(m)
  BY <1>2, EarlyState
<1>4. k \in InitLeft /\ k \in InitOf(img)
  <2>1. INIT_START \in Nat /\ INIT_BSS_END(img) \in Nat /\ k \in INIT_START .. INIT_BSS_END(img)
    BY <1>2, <1>3, ImageFacts, Numbers DEF Progress
  <2> QED
    BY <1>2, <2>1 DEF InitLeft, InitOf
<1> DEFINE x == page_clear(m, k)
           y == IF grow THEN GrowHeap(x, 1) ELSE x
           n == IF grow THEN 1 ELSE 0
<1>5. Space(y, img, InitLeft, 0, {}) /\ Noded(m, y, n) /\ LAPIC_BASE \notin HeapFrames(y, img)
  BY <1>1, <1>2, <1>4, NodeSpace
<1>6. m' = page_free(y, k) /\ n \in Nat
  BY <1>1
<1>7. grow => m.heap = HeapStart(img) + Len(todo) + 1
  BY <1>1 DEF HeapStart
<1>8. grow => n = 1
  OBVIOUS
<1>9. ~grow => n = 0
  OBVIOUS
<1> HIDE DEF x, y, n
<1>10. Space(m', img, InitLeft \ {k}, 0, {}) /\ Removed(y, m', k)
  <2>1. k \notin StructOf(img)
    BY <1>2 DEF StructPages, StructOf
  <2> QED
    BY <1>3, <1>4, <1>5, <1>6, <2>1, FreeSpace
<1>11. at' = "free"
  BY <1>2, <1>10 DEF Space, MemoryOK
<1>12. LAPIC_BASE \notin HeapFrames(m', img)
  BY <1>3, <1>4, <1>5, <1>10, RemovedHeap
<1>13. /\ m'.heap = m.heap + n /\ m.next_pma <= m'.next_pma /\ m'.next_pma <= m.next_pma + n
       /\ m'.dir = m.dir
  BY <1>5, <1>10 DEF Noded, Removed
<1>14. m'.heap - HeapStart(img) - Len(todo) \in {1, 2}
  <2>1. PICK l : l = Len(todo)
    OBVIOUS
  <2>2. m.heap \in Nat /\ HeapStart(img) \in Nat /\ BootTables(img) \in Nat /\ Len(todo) \in 0 .. BootTables(img)
        /\ m.heap - HeapStart(img) - Len(todo) \in {1, 2}
    BY <1>2, <1>3, ProgressNumbers DEF Progress
  <2>3. l \in 0 .. BootTables(img) /\ m.heap - HeapStart(img) - l \in {1, 2}
    BY <2>1, <2>2
  <2>4. m'.heap - HeapStart(img) - l \in {1, 2}
    <3>1. CASE grow
      <4>1. m'.heap = m.heap + 1 /\ m.heap = HeapStart(img) + l + 1
        BY <1>7, <1>8, <1>13, <2>1, <3>1
      <4> QED
        BY <2>2, <2>3, <4>1
    <3>2. CASE ~grow
      <4>1. m'.heap = m.heap
        BY <1>9, <1>13, <2>2, <3>2
      <4> QED
        BY <2>3, <4>1
    <3> QED
      BY <3>1, <3>2
  <2> QED
    BY <2>1, <2>4
<1>15. \A u \in Pages : Present(Walk(m, u)) => Walk(m', u) = Walk(m, u) \/ u = k
  BY <1>5, <1>10 DEF Removed, Noded, KeepsMapped
<1> QED
  BY <1>2, <1>6, <1>10, <1>11, <1>12, <1>13, <1>14, <1>15, CleaningStep

-----------------------------------------------------------------------------
(* page_init_cleanup: the tables of the kernel.                            *)

\* The bounds of the loop over the kernel's directory entries.
LEMMA TableProgress ==
    ASSUME BootInvariant, at = "kernel_tables", k < PAGE_ENTRIES
    PROVE  /\ k \in Nat /\ k \in Indexes /\ k >= KERNEL_DIR /\ k + 1 \in KERNEL_DIR .. PAGE_ENTRIES
           /\ k + 1 \in 0 .. PAGE_ENTRIES * PAGE_ENTRIES
           /\ m.heap + 2 <= (k + 1) * PAGE_ENTRIES
           /\ k > KERNEL_DIR => m.heap + 2 <= k * PAGE_ENTRIES /\ m.heap + 4 <= (k + 1) * PAGE_ENTRIES
           /\ m.heap + 2 <= HeapStart(img) + BootTables(img) + 2 + 2 * (k + 1 - KERNEL_DIR)
           /\ m.heap + 2 <= HeapStart(img) + HeapSize(img)
<1>1. at \notin Setup \cup {"proc_loop", "handler"} /\ at # "register" /\ Enabled
  BY DEF Setup, Enabled
<1>2. Progress /\ img \in Images
  BY <1>1, EarlyState
<1>3. /\ k \in KERNEL_DIR .. PAGE_ENTRIES
      /\ m.heap <= HeapStart(img) + BootTables(img) + 2 + 2 * (k - KERNEL_DIR)
      /\ k > KERNEL_DIR => m.heap + 2 <= k * PAGE_ENTRIES
  BY <1>2 DEF Progress
<1>4. /\ m.heap \in Nat /\ HeapStart(img) \in Nat /\ BootTables(img) \in Nat /\ HeapSize(img) \in Nat
      /\ PAGE_ENTRIES \in Nat /\ PAGE_ENTRIES >= 2 /\ KERNEL_DIR \in Nat /\ KERNEL_DIR < PAGE_ENTRIES
      /\ KERNEL_START_VMA \in Nat /\ NPROC \in Nat /\ PROC_TABLE_PAGES \in Nat
      /\ HeapSize(img) = BootTables(img) + 2 + 2 * (PAGE_ENTRIES - KERNEL_DIR) + 2
                         + PROC_TABLE_PAGES + 2 + 2 * NPROC
      /\ HeapStart(img) + BootTables(img) + 4 <= KERNEL_START_VMA + PAGE_ENTRIES
  BY <1>1, ProgressNumbers
<1>5. k \in Nat /\ k < PAGE_ENTRIES /\ k >= KERNEL_DIR
  BY <1>3, <1>4
<1>6. k * PAGE_ENTRIES \in Nat /\ (k + 1) * PAGE_ENTRIES = k * PAGE_ENTRIES + PAGE_ENTRIES
  BY <1>4, <1>5, Product
<1>7. m.heap + 2 <= (k + 1) * PAGE_ENTRIES
  <2>1. CASE k = KERNEL_DIR
    <3>1. m.heap <= HeapStart(img) + BootTables(img) + 2 /\ (k + 1) * PAGE_ENTRIES = KERNEL_START_VMA + PAGE_ENTRIES
      BY <1>3, <1>4, <2>1, TableBounds
    <3> QED
      BY <1>4, <3>1
  <2>2. CASE k > KERNEL_DIR
    BY <1>3, <1>4, <1>6, <2>2
  <2> QED
    BY <1>4, <1>5, <2>1, <2>2
<1>8. k > KERNEL_DIR => m.heap + 4 <= (k + 1) * PAGE_ENTRIES
  BY <1>3, <1>4, <1>6
<1>9. /\ m.heap + 2 <= HeapStart(img) + BootTables(img) + 2 + 2 * (k + 1 - KERNEL_DIR)
      /\ m.heap + 2 <= HeapStart(img) + HeapSize(img)
  BY <1>3, <1>4, <1>5
<1>10. k \in Indexes /\ k + 1 \in KERNEL_DIR .. PAGE_ENTRIES /\ k + 1 \in 0 .. PAGE_ENTRIES * PAGE_ENTRIES
  <2>1. PAGE_ENTRIES * PAGE_ENTRIES \in Nat /\ PAGE_ENTRIES <= PAGE_ENTRIES * PAGE_ENTRIES
    BY TableBounds
  <2> QED
    BY <1>4, <1>5, <2>1 DEF Indexes
<1> QED
  BY <1>3, <1>5, <1>7, <1>8, <1>9, <1>10

\* A step of the loop.
LEMMA TableStep ==
    ASSUME BootInvariant, at = "kernel_tables", k < PAGE_ENTRIES, at' = "kernel_tables", k' = k + 1,
           UNCHANGED <<img, todo, cpu, user, PID>>, tlb' = tlb \cup Cacheable(m'),
           Space(m', img, {}, 0, {}), KeepsMapped(m, m'),
           NEW n \in Nat, m'.heap = m.heap + n, n <= 2, k = KERNEL_DIR => n = 0,
           m.next_pma <= m'.next_pma, m'.next_pma <= m.next_pma + n,
           \A i \in Indexes : i # k => m'.dir[i] = m.dir[i], Present(m'.dir[k]),
           LAPIC_BASE \notin HeapFrames(m', img)
    PROVE  BootInvariant'
<1>1. at \notin Setup \cup {"proc_loop", "handler"} /\ at # "register" /\ Enabled
  BY DEF Setup, Enabled
<1>2. /\ NoUsers /\ Space(m, img, InitLeft, 0, {}) /\ ~Present(m.dir[USER_DIR])
      /\ img \in Images /\ MemoryOK(m) /\ Progress /\ CpuSet /\ Devices
  BY <1>1, EarlyState
<1>3. /\ k \in Nat /\ k \in Indexes /\ k >= KERNEL_DIR /\ k + 1 \in KERNEL_DIR .. PAGE_ENTRIES
      /\ k + 1 \in 0 .. PAGE_ENTRIES * PAGE_ENTRIES
      /\ m.heap + 2 <= (k + 1) * PAGE_ENTRIES
      /\ k > KERNEL_DIR => m.heap + 4 <= (k + 1) * PAGE_ENTRIES
      /\ m.heap + 2 <= HeapStart(img) + BootTables(img) + 2 + 2 * (k + 1 - KERNEL_DIR)
  BY TableProgress
<1>4. NoUsers' /\ Registered' = 0 /\ Registered = 0 /\ MemoryOK(m') /\ InitLeft' = {} /\ InitLeft = {}
  BY <1>2 DEF NoUsers, Registered, Space, InitLeft, Cleaning
<1>5. /\ m'.heap >= HeapStart(img) + Len(todo) /\ m'.next_pma >= kernel_end_pma(img)
      /\ m'.next_pma - kernel_end_pma(img) <= m'.heap - HeapStart(img) + Registered'
  <2>1. PICK z \in Nat : z = 0
    OBVIOUS
  <2>2. m'.next_pma <= m.next_pma + n + z
    <3>1. m'.next_pma \in Nat /\ m.next_pma \in Nat
      BY <1>2, <1>4, MemoryParts
    <3> QED
      BY <2>1, <3>1
  <2>3. Registered \in Nat /\ Registered + z = Registered'
    BY <1>4, <2>1
  <2> QED
    BY <1>1, <1>4, <2>2, <2>3, FrameProgress
<1>6. /\ m'.heap <= HeapStart(img) + BootTables(img) + 2 + 2 * (k + 1 - KERNEL_DIR)
      /\ m'.heap + 2 <= (k + 1) * PAGE_ENTRIES
  <2>1. m.heap \in Nat /\ PAGE_ENTRIES \in Nat /\ KERNEL_DIR \in Nat /\ HeapStart(img) \in Nat /\ BootTables(img) \in Nat
    BY <1>1, ProgressNumbers
  <2>2. (k + 1) * PAGE_ENTRIES \in Nat
    BY <1>3, <2>1, Product
  <2>3. PICK l : l = (k + 1) * PAGE_ENTRIES
    OBVIOUS
  <2>4. l \in Nat /\ m.heap + 2 <= l /\ (k > KERNEL_DIR => m.heap + 4 <= l)
    BY <1>3, <2>2, <2>3
  <2>5. m'.heap + 2 <= l
    <3>1. CASE k = KERNEL_DIR
      <4>1. m'.heap = m.heap
        BY <2>1, <3>1
      <4> QED
        BY <2>4, <4>1
    <3>2. CASE k > KERNEL_DIR
      BY <2>1, <2>4, <3>2
    <3> QED
      BY <1>3, <2>1, <3>1, <3>2
  <2>6. m'.heap <= HeapStart(img) + BootTables(img) + 2 + 2 * (k + 1 - KERNEL_DIR)
    BY <1>3, <2>1
  <2> QED
    BY <2>3, <2>5, <2>6
<1>7. /\ \A i \in KERNEL_DIR .. (k + 1) - 1 : i \in Indexes => Present(m'.dir[i])
      /\ Present(m'.dir[KERNEL_DIR]) /\ Present(m'.dir[PAGE_ENTRIES - 1])
  <2>1. /\ \A i \in KERNEL_DIR .. k - 1 : i \in Indexes => Present(m.dir[i])
        /\ Present(m.dir[KERNEL_DIR]) /\ Present(m.dir[PAGE_ENTRIES - 1])
    BY <1>2 DEF Progress, Cleaning
  <2>2. KERNEL_DIR \in Indexes /\ PAGE_ENTRIES - 1 \in Indexes /\ KERNEL_DIR \in Nat
    BY Numbers DEF Indexes
  <2>3. \A i \in KERNEL_DIR .. (k + 1) - 1 : i = k \/ i \in KERNEL_DIR .. k - 1
    BY <1>3, <2>2
  <2> QED
    BY <2>1, <2>2, <2>3
<1>8. Progress'
  <2>1. Len(todo)' \in 0 .. BootTables(img)
    BY <1>2 DEF Progress
  <2>2. /\ k' \in KERNEL_DIR .. PAGE_ENTRIES /\ k' \in 0 .. PAGE_ENTRIES * PAGE_ENTRIES
        /\ m'.heap <= HeapStart(img) + BootTables(img) + 2 + 2 * (k' - KERNEL_DIR)
        /\ m'.heap + 2 <= k' * PAGE_ENTRIES
        /\ \A i \in KERNEL_DIR .. k' - 1 : i \in Indexes => Present(m'.dir[i])
    <3>1. k' \in KERNEL_DIR .. PAGE_ENTRIES /\ k' \in 0 .. PAGE_ENTRIES * PAGE_ENTRIES
      BY <1>3
    <3>2. m'.heap <= HeapStart(img) + BootTables(img) + 2 + 2 * (k' - KERNEL_DIR)
      <4>1. m'.heap <= HeapStart(img) + BootTables(img) + 2 + 2 * (k + 1 - KERNEL_DIR)
        BY <1>6
      <4>2. k' - KERNEL_DIR = k + 1 - KERNEL_DIR
        BY <1>3, Numbers
      <4> QED
        BY <4>1, <4>2, Zenon
    <3>3. m'.heap + 2 <= k' * PAGE_ENTRIES
      BY <1>6
    <3>4. \A i \in KERNEL_DIR .. k' - 1 : i \in Indexes => Present(m'.dir[i])
      BY <1>7
    <3> QED
      BY <3>1, <3>2, <3>3, <3>4
  <2>3. at' \notin Cleaning
    BY DEF Cleaning
  <2>4. \A i \in KERNEL_DIR .. (IF at' \in Cleaning THEN KERNEL_DIR
                               ELSE IF at' = "kernel_tables" THEN k' - 1 ELSE PAGE_ENTRIES - 1) :
            i \in Indexes => Present(m'.dir[i])
    BY <2>2, <2>3
  <2>5. /\ at' \notin {"apic_init", "dead", "proc_init", "proc_loop", "handler"}
        /\ at' # "proc_table" /\ at' # "register" /\ at' # "free" /\ at' # "proc_init"
        /\ at' \notin {"apic_init", "proc_init"} /\ at' \notin {"proc_loop", "handler"}
        /\ at' \notin {"apic_init", "dead"}
    OBVIOUS
  <2> QED
    BY <1>5, <1>7, <2>1, <2>2, <2>3, <2>4, <2>5, ZenonT(60) DEF Progress
<1>9. CpuSet' /\ Devices'
  BY <1>2 DEF CpuSet, Devices, Setup
<1>10. at' \in Phases \ {"fault", "reset"} /\ at' \notin Setup
  BY DEF Phases, Setup, Early
<1>11. ~Present(m'.dir[USER_DIR])
  <2>1. USER_DIR \in Indexes /\ USER_DIR # k
    BY <1>3, Constants, Numbers
  <2> QED
    BY <1>2, <2>1
<1>12. \A u \in Pages : Present(Walk(m, u)) => Walk(m', u) = Walk(m, u) \/ u \in InitLeft \ InitLeft'
  BY DEF KeepsMapped
<1>13. Space(m', img, InitLeft', 0, {}) /\ InitLeft' \subseteq InitLeft
  BY <1>4
<1> QED
  BY <1>1, <1>2, <1>4, <1>8, <1>9, <1>10, <1>11, <1>12, <1>13, EarlyStep

\* A kernel table is added before the heap comes to the pages it maps.
LEMMA CleanupTableStep == BootInvariant /\ CleanupTable => BootInvariant'
<1> SUFFICES ASSUME BootInvariant, CleanupTable PROVE BootInvariant'
  OBVIOUS
<1>1. /\ at = "kernel_tables" /\ k < PAGE_ENTRIES /\ k' = k + 1 /\ UNCHANGED <<img, todo, cpu, user, PID>>
      /\ Go(IF Present(m.dir[k]) THEN m ELSE KernelTable(kalloc(m), k, m.heap), "kernel_tables")
      /\ at \notin Setup \cup {"proc_loop", "handler"} /\ at # "register" /\ Enabled
  BY DEF CleanupTable, Setup, Enabled
<1>2. /\ NoUsers /\ Space(m, img, InitLeft, 0, {}) /\ img \in Images /\ MemoryOK(m) /\ Progress
      /\ LAPIC_BASE \notin HeapFrames(m, img) /\ InitLeft = {}
  BY <1>1, EarlyState DEF Devices, InitLeft, Cleaning
<1>3. CASE Present(m.dir[k])
  <2>1. m' = m /\ at' = "kernel_tables" /\ tlb' = tlb \cup Cacheable(m')
    BY <1>1, <1>2, <1>3 DEF Go, MemoryOK
  <2>2. PICK z \in Nat : z = 0
    OBVIOUS
  <2>3. m'.heap = m.heap + z /\ z <= 2 /\ m.next_pma <= m'.next_pma /\ m'.next_pma <= m.next_pma + z
    <3>1. m.heap \in Nat /\ m.next_pma \in Nat
      BY <1>2, MemoryParts
    <3> QED
      BY <2>1, <2>2, <3>1
  <2>4. KeepsMapped(m, m')
    BY <2>1 DEF KeepsMapped
  <2> QED
    BY <1>1, <1>2, <1>3, <2>1, <2>2, <2>3, <2>4, TableStep
<1>4. CASE ~Present(m.dir[k])
  <2> DEFINE x == kalloc(m)
             y == KernelTable(x, k, m.heap)
  <2>1. PICK two \in Nat : two = 2
    OBVIOUS
  <2>2. /\ k \in Nat /\ k \in Indexes /\ k > KERNEL_DIR
    <3>1. k \in Nat /\ k \in Indexes /\ k >= KERNEL_DIR
      BY <1>1, TableProgress
    <3>2. k # KERNEL_DIR
      BY <1>2, <1>4 DEF Progress
    <3> QED
      BY <3>1, <3>2, Numbers
  <2>3. m.heap + two <= k * PAGE_ENTRIES /\ m.heap + two <= HeapStart(img) + HeapSize(img)
    BY <1>1, <2>1, <2>2, TableProgress
  <2>4. m.next_pma + two < LAPIC_BASE /\ m.heap + two <= STACK_VMA
    <3>1. Registered \in 0 .. NPROC
      BY <1>2, Numbers DEF NoUsers
    <3> QED
      BY <1>1, <2>3, <3>1, FramesLeft
  <2>5. Room(m, two)
    <3>1. \A i \in KERNEL_DIR .. k - 1 : i \in Indexes => Present(m.dir[i])
      BY <1>1, <1>2 DEF Progress, Cleaning
    <3>2. \A j \in Indexes : KERNEL_DIR <= j /\ j < k => Present(m.dir[j])
      <4>1. \A j \in Indexes : KERNEL_DIR <= j /\ j < k => j \in KERNEL_DIR .. k - 1
        BY <2>2, Numbers DEF Indexes
      <4> QED
        BY <3>1, <4>1
    <3> QED
      BY <1>2, <2>2, <2>3, <2>4, <3>2, RoomBelow
  <2>6. x = GrowHeap(m, two)
    BY <2>1 DEF kalloc
  <2>7. /\ Space(x, img, {}, 0, {}) /\ Grew(m, x, two) /\ KeepsMapped(m, x)
        /\ FreshPages(m, x, img, {}) /\ LAPIC_BASE \notin HeapFrames(x, img)
    BY <1>2, <2>4, <2>5, <2>6, HeapGrows
  <2> HIDE DEF x
  <2>8. /\ m.heap \in HeapPages(x, img) /\ Walk(x, m.heap).pma \in Frames(x, img, {})
        /\ Walk(x, m.heap).pma \notin HeapFrames(m, img)
    <3>1. m.heap \in m.heap .. x.heap - 1
      <4>1. m.heap \in Nat /\ x.heap = m.heap + 2
        BY <1>2, <2>1, <2>7, MemoryParts DEF Grew
      <4> QED
        BY <4>1
    <3> QED
      BY <2>7, <3>1 DEF FreshPages
  <2>9. Walk(x, m.heap).pma \notin DOMAIN x.tables /\ ~Present(x.dir[k])
    BY <1>2, <1>4, <2>7, <2>8 DEF Grew, Space, Apart
  <2>10. Space(y, img, {}, 0, {}) /\ TableAdded(x, y, k, m.heap, Walk(x, m.heap).pma)
    BY <1>2, <2>2, <2>7, <2>8, <2>9, KernelTableSpace
  <2>11. m' = y /\ at' = "kernel_tables" /\ tlb' = tlb \cup Cacheable(m')
    BY <1>1, <1>4, <2>10 DEF Go, Space, MemoryOK, x
  <2> HIDE DEF y
  <2>12. KeepsMapped(m, m')
    BY <2>7, <2>10, <2>11 DEF KeepsMapped, TableAdded
  <2>13. LAPIC_BASE \notin HeapFrames(m', img)
    <3>1. HeapPages(m', img) = HeapPages(x, img)
      BY <2>10, <2>11 DEF TableAdded, HeapPages
    <3>2. \A v \in HeapPages(x, img) : Walk(m', v) = Walk(x, v)
      BY <1>2, <2>7, <2>10, <2>11, SpacePages DEF TableAdded, KeepsMapped
    <3> QED
      BY <2>7, <3>1, <3>2 DEF HeapFrames
  <2>14. /\ m'.heap = m.heap + two /\ two <= 2 /\ m.next_pma <= m'.next_pma /\ m'.next_pma <= m.next_pma + two
    BY <2>1, <2>7, <2>10, <2>11 DEF TableAdded, Grew
  <2>15. (\A i \in Indexes : i # k => m'.dir[i] = m.dir[i]) /\ Present(m'.dir[k])
    <3>1. m'.dir = [m.dir EXCEPT ![k] = [pma |-> Walk(x, m.heap).pma, flags |-> Kernel]]
      BY <2>7, <2>10, <2>11 DEF TableAdded, Grew
    <3>2. m.dir \in [Indexes -> Entries]
      BY <1>2, MemoryParts
    <3> QED
      BY <2>2, <3>1, <3>2, Rights DEF Present
  <2>16. k = KERNEL_DIR => two = 0
    BY <2>2, Numbers
  <2> QED
    BY <1>1, <2>10, <2>11, <2>12, <2>13, <2>14, <2>15, <2>16, TableStep
<1> QED
  BY <1>3, <1>4

-----------------------------------------------------------------------------
(* apic_init and proc_init.                                                *)

Late == {"apic_init", "proc_table", "proc_init", "register", "proc_loop", "handler"}

\* Every page of the kernel has a table now, so the heap can grow.
LEMMA LateRoom ==
    ASSUME BootInvariant, at \in Late, NEW n \in Nat, Registered \in 0 .. NPROC,
           m.heap + n <= HeapStart(img) + HeapSize(img)
    PROVE  Room(m, n) /\ m.next_pma + n < LAPIC_BASE
<1>1. Enabled /\ at \notin Cleaning /\ at # "kernel_tables"
  BY DEF Late, Enabled, Setup, Cleaning
<1>2. Space(m, img, InitLeft, PID, StackFrames) /\ img \in Images /\ Progress
  BY <1>1, KernelSpace DEF BootInvariant, KernelPhase
<1>3. m.next_pma + n < LAPIC_BASE /\ m.heap + n <= STACK_VMA
  BY <1>1, FramesLeft
<1>4. m.heap + n <= PAGE_ENTRIES * PAGE_ENTRIES /\ PAGE_ENTRIES \in Nat
  <2>1. m.heap \in Nat /\ STACK_VMA \in Nat /\ PAGE_ENTRIES \in Nat
    BY <1>1, ProgressNumbers
  <2> QED
    BY <1>3, <2>1, TableBounds
<1>5. \A j \in Indexes : KERNEL_DIR <= j /\ j < PAGE_ENTRIES => Present(m.dir[j])
  <2>1. \A i \in KERNEL_DIR .. PAGE_ENTRIES - 1 : i \in Indexes => Present(m.dir[i])
    BY <1>1, <1>2 DEF Progress
  <2>2. \A j \in Indexes : KERNEL_DIR <= j => j \in KERNEL_DIR .. PAGE_ENTRIES - 1
    BY Numbers DEF Indexes
  <2> QED
    BY <2>1, <2>2
<1> QED
  BY <1>2, <1>3, <1>4, <1>5, RoomBelow

\* Loop counters fit.
LEMMA CounterRange ==
    /\ PROC_TABLE_PAGES \in Nat /\ NPROC \in Nat
    /\ Images # {} => 0 .. PROC_TABLE_PAGES \subseteq 0 .. PAGE_ENTRIES * PAGE_ENTRIES
    /\ Images # {} => 0 .. NPROC \subseteq 0 .. PAGE_ENTRIES * PAGE_ENTRIES
<1>1. ASSUME NEW g \in Images
      PROVE  PROC_TABLE_PAGES <= STACK_VMA /\ NPROC <= STACK_VMA
  <2>1. /\ HeapStart(g) \in Nat /\ BootTables(g) \in Nat /\ HeapSize(g) \in Nat
        /\ HeapSize(g) = BootTables(g) + 2 + 2 * (PAGE_ENTRIES - KERNEL_DIR) + 2
                         + PROC_TABLE_PAGES + 2 + 2 * NPROC
        /\ HeapStart(g) + HeapSize(g) <= STACK_VMA
    BY <1>1, ImageFacts
  <2> QED
    BY <2>1, Numbers
<1> QED
  BY <1>1, Numbers, TableBounds

\* A step of apic_init or proc_init lets the heap grow by n pages.
LEMMA LateStep ==
    ASSUME BootInvariant, at \in {"apic_init", "proc_table", "proc_init"},
           at' \in {"proc_table", "proc_init", "register"}, at' = "register" => k' = 0,
           UNCHANGED <<img, todo, user, PID>>, tlb' = tlb \cup Cacheable(m'),
           Space(m', img, {}, 0, {}), KeepsMapped(m, m'), m'.dir = m.dir,
           NEW n \in Nat, m'.heap = m.heap + n, m.next_pma <= m'.next_pma, m'.next_pma <= m.next_pma + n,
           at' = "proc_table" =>
             /\ k' \in 0 .. PROC_TABLE_PAGES
             /\ m'.heap <= HeapStart(img) + BootTables(img) + 2 + 2 * (PAGE_ENTRIES - KERNEL_DIR) + 2 + k',
           at' = "proc_init" => k' = 0 /\ m'.heap <= HeapStart(img) + HeapSize(img) - 2 - 2 * NPROC,
           at' = "register" => k' \in 0 .. NPROC /\ m'.heap <= HeapStart(img) + HeapSize(img) - 2 * (NPROC - k'),
           CpuSet', Devices'
    PROVE  BootInvariant'
<1>1. at \notin Setup \cup {"proc_loop", "handler"} /\ at # "register" /\ Enabled
  BY DEF Setup, Enabled
<1>2. /\ NoUsers /\ Space(m, img, InitLeft, 0, {}) /\ ~Present(m.dir[USER_DIR])
      /\ img \in Images /\ MemoryOK(m) /\ Progress
  BY <1>1, EarlyState
<1>3. NoUsers' /\ Registered' = 0 /\ Registered = 0 /\ MemoryOK(m') /\ InitLeft' = {} /\ InitLeft = {}
  BY <1>2 DEF NoUsers, Registered, Space, InitLeft, Cleaning
<1>4. /\ m'.heap >= HeapStart(img) + Len(todo) /\ m'.next_pma >= kernel_end_pma(img)
      /\ m'.next_pma - kernel_end_pma(img) <= m'.heap - HeapStart(img) + Registered'
  <2>1. PICK z \in Nat : z = 0
    OBVIOUS
  <2>2. m'.next_pma <= m.next_pma + n + z
    <3>1. m'.next_pma \in Nat /\ m.next_pma \in Nat
      BY <1>2, <1>3, MemoryParts
    <3> QED
      BY <2>1, <3>1
  <2>3. Registered \in Nat /\ Registered + z = Registered'
    BY <1>3, <2>1
  <2> QED
    BY <1>1, <1>3, <2>2, <2>3, FrameProgress
<1>5. k' \in 0 .. PAGE_ENTRIES * PAGE_ENTRIES
  BY <1>2, CounterRange, TableBounds
<1>6. Progress'
  <2>1. /\ Len(todo)' \in 0 .. BootTables(img)
        /\ \A i \in KERNEL_DIR .. PAGE_ENTRIES - 1 : i \in Indexes => Present(m'.dir[i])
        /\ Present(m'.dir[KERNEL_DIR]) /\ Present(m'.dir[PAGE_ENTRIES - 1])
    BY <1>2 DEF Progress, Cleaning
  <2>2. at' \notin Cleaning
    BY DEF Cleaning
  <2>3. \A i \in KERNEL_DIR .. (IF at' \in Cleaning THEN KERNEL_DIR
                               ELSE IF at' = "kernel_tables" THEN k' - 1 ELSE PAGE_ENTRIES - 1) :
            i \in Indexes => Present(m'.dir[i])
    BY <2>1, <2>2
  <2>4. /\ at' # "kernel_tables" /\ at' # "free"
        /\ at' \notin {"proc_loop", "handler"} /\ at' \notin {"apic_init", "dead"}
        /\ at' \in {"apic_init", "proc_init"} => at' = "proc_init"
    OBVIOUS
  <2> QED
    BY <1>4, <1>5, <2>1, <2>2, <2>3, <2>4, ZenonT(60) DEF Progress
<1>7. at' \in Phases \ {"fault", "reset"} /\ at' \notin Setup
  BY DEF Phases, Setup, Early
<1>8. ~Present(m'.dir[USER_DIR])
  BY <1>2
<1>9. \A u \in Pages : Present(Walk(m, u)) => Walk(m', u) = Walk(m, u) \/ u \in InitLeft \ InitLeft'
  BY DEF KeepsMapped
<1>10. Space(m', img, InitLeft', 0, {}) /\ InitLeft' \subseteq InitLeft
  BY <1>3
<1> QED
  BY <1>1, <1>2, <1>3, <1>6, <1>7, <1>8, <1>9, <1>10, EarlyStep

\* The APIC's registers become a page of the heap.
LEMMA ApicInitStep == BootInvariant /\ ApicInit => BootInvariant'
<1> SUFFICES ASSUME BootInvariant, ApicInit PROVE BootInvariant'
  OBVIOUS
<1> DEFINE y == LapicPages(m)
<1>1. /\ at = "apic_init" /\ Go(y, "proc_table") /\ UNCHANGED <<img, k, todo, user, PID>>
      /\ cpu' = [cpu EXCEPT !.lapic = m.heap, !.regs = lapic_timer_init({16})]
      /\ at \notin Setup \cup {"proc_loop", "handler"} /\ at # "register" /\ Enabled /\ at \in Late
  BY DEF ApicInit, Setup, Enabled, Late
<1>2. /\ NoUsers /\ Space(m, img, {}, 0, {}) /\ img \in Images /\ MemoryOK(m) /\ Progress /\ CpuSet
      /\ LAPIC_BASE \notin HeapFrames(m, img)
  BY <1>1, EarlyState DEF Devices, InitLeft, Cleaning
<1>3. /\ m.heap \in Nat /\ m.next_pma \in Nat /\ k = 0
      /\ m.heap <= HeapStart(img) + BootTables(img) + 2 + 2 * (PAGE_ENTRIES - KERNEL_DIR)
      /\ Registered \in 0 .. NPROC
  <2>1. m.heap \in Nat /\ m.next_pma \in Nat
    BY <1>2, MemoryParts
  <2>2. k = 0 /\ m.heap <= HeapStart(img) + BootTables(img) + 2 + 2 * (PAGE_ENTRIES - KERNEL_DIR)
    BY <1>1, <1>2 DEF Progress
  <2>3. Registered \in 0 .. NPROC
    BY <1>2, Numbers DEF NoUsers
  <2> QED
    BY <2>1, <2>2, <2>3
<1>4. PICK two \in Nat : two = 2
  OBVIOUS
<1>5. m.heap + two <= HeapStart(img) + BootTables(img) + 2 + 2 * (PAGE_ENTRIES - KERNEL_DIR) + 2 + 0
      /\ m.heap + two <= HeapStart(img) + HeapSize(img)
  <2>1. /\ HeapStart(img) \in Nat /\ BootTables(img) \in Nat /\ HeapSize(img) \in Nat
        /\ PAGE_ENTRIES \in Nat /\ KERNEL_DIR \in Nat /\ NPROC \in Nat /\ PROC_TABLE_PAGES \in Nat
        /\ HeapSize(img) = BootTables(img) + 2 + 2 * (PAGE_ENTRIES - KERNEL_DIR) + 2
                           + PROC_TABLE_PAGES + 2 + 2 * NPROC
    BY <1>1, ProgressNumbers
  <2> QED
    BY <1>3, <1>4, <2>1
<1>6. Room(m, two) /\ m.next_pma + two < LAPIC_BASE
  BY <1>1, <1>3, <1>5, LateRoom
<1>7. Space(y, img, {}, 0, {}) /\ Grew(m, y, 2) /\ Walk(y, m.heap).pma = LAPIC_BASE
  <2>1. m.next_pma + 1 < LAPIC_BASE /\ Room(m, 2)
    BY <1>3, <1>4, <1>6, Numbers
  <2> QED
    BY <1>2, <2>1, LapicSpace
<1>8. m' = y /\ at' = "proc_table" /\ tlb' = tlb \cup Cacheable(m')
  BY <1>1, <1>7 DEF Go, Space, MemoryOK
<1> HIDE DEF y
<1>9. Grew(m, m', two)
  BY <1>4, <1>7, <1>8
<1>10. KeepsMapped(m, m') /\ m.heap \in HeapPages(m', img)
  <2>1. m.heap \in m.heap .. m'.heap - 1
    <3>1. m'.heap = m.heap + 2
      BY <1>4, <1>9 DEF Grew
    <3> QED
      BY <1>3, <3>1
  <2> QED
    BY <1>2, <1>6, <1>9, <2>1, GrewKeeps
<1>11. CpuSet'
  BY <1>1, <1>2, <1>8 DEF CpuSet, Setup, MemoryOK
<1>12. Devices'
  <2>1. cpu'.lapic = m.heap /\ cpu'.regs = lapic_timer_init({16})
    BY <1>1, <1>2 DEF CpuSet
  <2> QED
    BY <1>1, <1>7, <1>8, <1>10, <2>1 DEF Devices
<1>13. /\ k' \in 0 .. PROC_TABLE_PAGES
       /\ m'.heap <= HeapStart(img) + BootTables(img) + 2 + 2 * (PAGE_ENTRIES - KERNEL_DIR) + 2 + k'
  <2>1. m'.heap = m.heap + two
    BY <1>9 DEF Grew
  <2> QED
    BY <1>1, <1>3, <1>5, <2>1, Numbers
<1>14. /\ m'.dir = m.dir /\ m'.heap = m.heap + two /\ m.next_pma <= m'.next_pma /\ m'.next_pma <= m.next_pma + two
  BY <1>9 DEF Grew
<1> QED
  BY <1>1, <1>7, <1>8, <1>10, <1>11, <1>12, <1>13, <1>14, LateStep

\* The registers and the stack stay mapped where they were.
LEMMA DevicesKept ==
    ASSUME Devices, UNCHANGED <<cpu, img>>, OldPages(m, m', img), DOMAIN m'.tables = DOMAIN m.tables,
           at \in Late \ {"apic_init"}, at' \in Late \ {"apic_init"},
           at' \in {"register", "proc_loop", "handler"} => at \in {"register", "proc_loop", "handler"}
    PROVE  Devices'
BY DEF Devices, OldPages, Late

\* The process table, page by page.
LEMMA ProcTableStep == BootInvariant /\ ProcTable => BootInvariant'
<1> SUFFICES ASSUME BootInvariant, ProcTable PROVE BootInvariant'
  OBVIOUS
<1>1. /\ at = "proc_table" /\ UNCHANGED <<img, todo, cpu, user, PID>>
      /\ at \notin Setup \cup {"proc_loop", "handler"} /\ at # "register" /\ Enabled /\ at \in Late
  BY DEF ProcTable, Setup, Enabled, Late
<1>2. /\ NoUsers /\ Space(m, img, {}, 0, {}) /\ img \in Images /\ MemoryOK(m) /\ Progress /\ CpuSet
      /\ Devices
  BY <1>1, EarlyState DEF InitLeft, Cleaning
<1>3. /\ m.heap \in Nat /\ m.next_pma \in Nat /\ k \in 0 .. PROC_TABLE_PAGES
      /\ m.heap <= HeapStart(img) + BootTables(img) + 2 + 2 * (PAGE_ENTRIES - KERNEL_DIR) + 2 + k
      /\ Registered \in 0 .. NPROC
  <2>1. m.heap \in Nat /\ m.next_pma \in Nat
    BY <1>2, MemoryParts
  <2>2. k \in 0 .. PROC_TABLE_PAGES /\ m.heap <= HeapStart(img) + BootTables(img) + 2 + 2 * (PAGE_ENTRIES - KERNEL_DIR) + 2 + k
    BY <1>1, <1>2 DEF Progress
  <2>3. Registered \in 0 .. NPROC
    BY <1>2, Numbers DEF NoUsers
  <2> QED
    BY <2>1, <2>2, <2>3
<1>4. /\ HeapStart(img) \in Nat /\ BootTables(img) \in Nat /\ HeapSize(img) \in Nat
      /\ PAGE_ENTRIES \in Nat /\ KERNEL_DIR \in Nat /\ NPROC \in Nat /\ PROC_TABLE_PAGES \in Nat
      /\ HeapSize(img) = BootTables(img) + 2 + 2 * (PAGE_ENTRIES - KERNEL_DIR) + 2
                         + PROC_TABLE_PAGES + 2 + 2 * NPROC
  BY <1>1, ProgressNumbers
<1>5. CASE k < PROC_TABLE_PAGES
  <2> DEFINE y == GrowHeap(m, 1)
  <2>1. Go(y, "proc_table") /\ k' = k + 1
    BY <1>5 DEF ProcTable
  <2>2. PICK one \in Nat : one = 1
    OBVIOUS
  <2>3. /\ m.heap + one <= HeapStart(img) + BootTables(img) + 2 + 2 * (PAGE_ENTRIES - KERNEL_DIR) + 2 + (k + 1)
        /\ m.heap + one <= HeapStart(img) + HeapSize(img) /\ k + 1 \in 0 .. PROC_TABLE_PAGES
    BY <1>3, <1>4, <1>5, <2>2
  <2>4. Room(m, one) /\ m.next_pma + one < LAPIC_BASE
    BY <1>1, <1>3, <2>3, LateRoom
  <2>5. Space(y, img, {}, 0, {}) /\ Grew(m, y, one) /\ KeepsMapped(m, y) /\ OldPages(m, y, img)
    BY <1>2, <2>2, <2>4, HeapGrows
  <2>6. m' = y /\ at' = "proc_table" /\ tlb' = tlb \cup Cacheable(m')
    BY <2>1, <2>5 DEF Go, Space, MemoryOK
  <2> HIDE DEF y
  <2>7. Devices' /\ CpuSet'
    <3>1. DOMAIN m'.tables = DOMAIN m.tables
      BY <2>5, <2>6 DEF Grew
    <3>2. Devices'
      BY <1>1, <1>2, <2>5, <2>6, <3>1, DevicesKept DEF Late
    <3> QED
      BY <1>1, <1>2, <2>6, <3>2 DEF CpuSet, Setup
  <2>8. /\ m'.dir = m.dir /\ m'.heap = m.heap + one /\ m.next_pma <= m'.next_pma /\ m'.next_pma <= m.next_pma + one
    BY <2>5, <2>6 DEF Grew
  <2>9. /\ k' \in 0 .. PROC_TABLE_PAGES
        /\ m'.heap <= HeapStart(img) + BootTables(img) + 2 + 2 * (PAGE_ENTRIES - KERNEL_DIR) + 2 + k'
    BY <2>1, <2>3, <2>8
  <2> QED
    BY <1>1, <2>5, <2>6, <2>7, <2>8, <2>9, LateStep
<1>6. CASE ~(k < PROC_TABLE_PAGES)
  <2>1. m' = m /\ at' = "proc_init" /\ tlb' = tlb \cup Cacheable(m') /\ k' = 0
    BY <1>2, <1>6 DEF Go, MemoryOK, ProcTable
  <2>2. PICK z \in Nat : z = 0
    OBVIOUS
  <2>3. /\ m'.dir = m.dir /\ m'.heap = m.heap + z /\ m.next_pma <= m'.next_pma /\ m'.next_pma <= m.next_pma + z
    BY <1>3, <2>1, <2>2
  <2>4. KeepsMapped(m, m') /\ OldPages(m, m', img)
    BY <2>1 DEF KeepsMapped, OldPages
  <2>5. Devices' /\ CpuSet'
    <3>2. Devices'
      BY <1>1, <1>2, <2>1, <2>4, DevicesKept DEF Late
    <3> QED
      BY <1>1, <1>2, <2>1, <3>2 DEF CpuSet, Setup
  <2>6. m'.heap <= HeapStart(img) + HeapSize(img) - 2 - 2 * NPROC
    <3>1. m.heap <= HeapStart(img) + HeapSize(img) - 2 - 2 * NPROC
      BY <1>3, <1>4, <1>6
    <3> QED
      BY <2>1, <3>1
  <2> QED
    BY <1>1, <1>2, <2>1, <2>3, <2>4, <2>5, <2>6, LateStep
<1> QED
  BY <1>5, <1>6

\* The scheduler stack is a page of its own.
LEMMA ProcInitStep == BootInvariant /\ ProcInit => BootInvariant'
<1> SUFFICES ASSUME BootInvariant, ProcInit PROVE BootInvariant'
  OBVIOUS
<1> DEFINE y == kalloc(m)
<1>1. /\ at = "proc_init" /\ Go(y, "register") /\ UNCHANGED <<img, k, todo, user, PID>>
      /\ cpu' = [cpu EXCEPT !.esp0 = m.heap + 1]
      /\ at \notin Setup \cup {"proc_loop", "handler"} /\ at # "register" /\ Enabled /\ at \in Late
  BY DEF ProcInit, Setup, Enabled, Late
<1>2. /\ NoUsers /\ Space(m, img, {}, 0, {}) /\ img \in Images /\ MemoryOK(m) /\ Progress /\ CpuSet
      /\ Devices
  BY <1>1, EarlyState DEF InitLeft, Cleaning
<1>3. /\ m.heap \in Nat /\ m.next_pma \in Nat /\ k = 0
      /\ m.heap <= HeapStart(img) + HeapSize(img) - 2 - 2 * NPROC
      /\ Registered \in 0 .. NPROC
  <2>1. m.heap \in Nat /\ m.next_pma \in Nat
    BY <1>2, MemoryParts
  <2>2. k = 0 /\ m.heap <= HeapStart(img) + HeapSize(img) - 2 - 2 * NPROC
    BY <1>1, <1>2 DEF Progress
  <2>3. Registered \in 0 .. NPROC
    BY <1>2, Numbers DEF NoUsers
  <2> QED
    BY <2>1, <2>2, <2>3
<1>4. PICK two \in Nat : two = 2
  OBVIOUS
<1>5. m.heap + two <= HeapStart(img) + HeapSize(img) - 2 * (NPROC - 0)
      /\ m.heap + two <= HeapStart(img) + HeapSize(img)
  <2>1. /\ HeapStart(img) \in Nat /\ HeapSize(img) \in Nat /\ NPROC \in Nat
    BY <1>1, ProgressNumbers
  <2> QED
    BY <1>3, <1>4, <2>1
<1>6. Room(m, two) /\ m.next_pma + two < LAPIC_BASE
  BY <1>1, <1>3, <1>5, LateRoom
<1>7. /\ Space(y, img, {}, 0, {}) /\ Grew(m, y, two) /\ KeepsMapped(m, y) /\ OldPages(m, y, img)
      /\ FreshPages(m, y, img, {})
  BY <1>2, <1>4, <1>6, HeapGrows DEF kalloc
<1>8. m' = y /\ at' = "register" /\ tlb' = tlb \cup Cacheable(m')
  BY <1>1, <1>7 DEF Go, Space, MemoryOK
<1> HIDE DEF y
<1>9. /\ m'.dir = m.dir /\ m'.heap = m.heap + two /\ m.next_pma <= m'.next_pma /\ m'.next_pma <= m.next_pma + two
      /\ DOMAIN m'.tables = DOMAIN m.tables
  BY <1>7, <1>8 DEF Grew
<1>10. m.heap \in m.heap .. m'.heap - 1
  BY <1>3, <1>4, <1>9
<1>11. /\ m.heap \in HeapPages(m', img) /\ Walk(m', m.heap).pma \notin HeapFrames(m, img) \cup {LAPIC_BASE}
  BY <1>7, <1>8, <1>10 DEF FreshPages
<1>12. m.heap + 1 \in Pages
  <2>1. m.heap + two <= STACK_VMA
    BY <1>6 DEF Room
  <2> QED
    BY <1>3, <1>4, <2>1, PageRange, Numbers
<1>13. cpu'.esp0 = m.heap + 1 /\ cpu'.lapic = cpu.lapic /\ cpu'.regs = cpu.regs
  BY <1>1, <1>2 DEF CpuSet
<1>14. CpuSet'
  BY <1>1, <1>2, <1>8, <1>12 DEF CpuSet, Setup
<1>15. Devices'
  <2>1. cpu'.esp0 - 1 = m.heap
    BY <1>3, <1>13
  <2>2. Walk(m', m.heap).pma \notin DOMAIN m'.tables \cup {LAPIC_BASE}
    BY <1>2, <1>9, <1>11 DEF Space, Apart
  <2>3. cpu.lapic \in HeapPages(m, img) /\ Walk(m, cpu.lapic).pma = LAPIC_BASE
        /\ cpu.regs = lapic_timer_init({16})
    BY <1>1, <1>2 DEF Devices
  <2>4. cpu'.lapic \in HeapPages(m', img) /\ Walk(m', cpu'.lapic).pma = LAPIC_BASE
        /\ cpu'.regs = lapic_timer_init({16})
    BY <1>7, <1>8, <1>13, <2>3 DEF OldPages
  <2> QED
    BY <1>1, <1>8, <1>11, <2>1, <2>2, <2>4 DEF Devices
<1>16. k' = 0 /\ k' \in 0 .. NPROC /\ m'.heap <= HeapStart(img) + HeapSize(img) - 2 * (NPROC - k')
  BY <1>1, <1>3, <1>5, <1>9, Numbers
<1> QED
  BY <1>1, <1>7, <1>8, <1>9, <1>14, <1>15, <1>16, LateStep

-----------------------------------------------------------------------------
(* Processes.                                                              *)

\* Where processes are registered or run.
LEMMA LateState ==
    ASSUME BootInvariant, at \in {"register", "proc_loop", "handler"}
    PROVE  /\ Enabled /\ at \in Late /\ Space(m, img, {}, PID, StackFrames) /\ InitLeft = {}
           /\ img \in Images /\ MemoryOK(m) /\ m.fault = FALSE /\ Progress /\ CpuSet /\ Devices
           /\ UserTables /\ Cached /\ Registered \in 0 .. NPROC
           /\ user \in [Procs -> [vma : Pages, entry : Entries]]
<1>1. Enabled /\ at \in Late /\ at \notin Setup
  BY DEF Enabled, Late, Setup
<1>2. InitLeft = {}
  BY DEF InitLeft, Cleaning
<1>3. /\ UserTables /\ img \in Images /\ MemoryOK(m) /\ m.fault = FALSE /\ Progress /\ CpuSet /\ Devices
      /\ Cached /\ user \in [Procs -> [vma : Pages, entry : Entries]]
  BY <1>1 DEF BootInvariant, KernelPhase, MemoryOK
<1>4. Registered \in 0 .. NPROC
  <2>1. at = "register" => k \in 0 .. NPROC
    BY <1>3 DEF Progress
  <2> QED
    BY <2>1, Numbers DEF Registered
<1>5. Space(m, img, {}, PID, StackFrames)
  BY <1>1, <1>2, KernelSpace
<1> QED
  BY <1>1, <1>2, <1>3, <1>4, <1>5

\* The table of a process survives what the heap and other tables do.
LEMMA TableKept ==
    ASSUME NEW x, NEW y, NEW g, NEW u, ProcessTable(x, g, u), OldPages(x, y, g),
           u.entry.pma \in DOMAIN y.tables, y.tables[u.entry.pma] = x.tables[u.entry.pma],
           \A i \in Indexes \ {USER_DIR} : y.dir[i] = x.dir[i]
    PROVE  ProcessTable(y, g, u) /\ StackEntry(y, u) = StackEntry(x, u)
<1>1. StackEntry(y, u) = StackEntry(x, u)
  BY DEF StackEntry
<1>2. u.vma \in HeapPages(y, g) /\ Walk(y, u.vma) = Walk(x, u.vma)
  BY DEF ProcessTable, OldPages
<1> QED
  BY <1>1, <1>2 DEF ProcessTable

\* A step of processes keeps the invariant if it keeps these parts.
LEMMA ProcessStep ==
    ASSUME BootInvariant, at \in {"register", "proc_loop", "handler"},
           at' \in {"register", "proc_loop", "handler"}, UNCHANGED <<img, todo>>,
           user' \in [Procs -> [vma : Pages, entry : Entries]],
           Space(m', img, {}, PID', StackFrames'), Progress', UserTables', CpuSet', Devices', Cached'
    PROVE  BootInvariant'
<1>1. at' \in Phases \ {"fault", "reset"} /\ at' \notin Setup
  BY DEF Phases, Setup, Early
<1>2. InitLeft' = {}
  BY DEF InitLeft, Cleaning
<1>3. /\ MemoryOK(m') /\ Connected(m', img) /\ Layout(m', img, InitLeft', PID')
      /\ Apart(m', img, InitLeft', StackFrames')
  BY <1>2 DEF Space
<1>4. KernelPhase' /\ SetupPhase'
  BY <1>1, <1>3 DEF KernelPhase, SetupPhase
<1>5. img' \in Images
  BY DEF BootInvariant
<1> QED
  BY <1>1, <1>3, <1>4, <1>5 DEF BootInvariant

\* The memory y is x with a table for one more process in frame f, in the page
\* of the heap behind x's.
WithProcess(x, y, g, f) ==
    /\ y.heap = x.heap + 2 /\ y.dir = x.dir /\ y.lookup = x.lookup
    /\ x.next_pma <= y.next_pma /\ y.next_pma <= x.next_pma + 3
    /\ OldPages(x, y, g) /\ KeepsMapped(x, y)
    /\ f \in -1 .. LAPIC_BASE /\ f \notin HeapFrames(x, g) /\ f # LAPIC_BASE
    /\ x.heap \in HeapPages(y, g) /\ Walk(y, x.heap).pma = f
    /\ DOMAIN y.tables = DOMAIN x.tables \cup {f}
    /\ \A h \in DOMAIN x.tables :
        (\A i \in Indexes : i >= KERNEL_DIR /\ Present(x.dir[i]) => x.dir[i].pma # h)
            => y.tables[h] = x.tables[h]
    /\ y.tables[f][page_get_table_idx(USER_STACK)].flags = User
    /\ \A j \in Indexes : j # page_get_table_idx(USER_STACK) => ~Present(y.tables[f][j])

\* proc_register's allocations.
LEMMA RegisterSpace ==
    ASSUME BootInvariant, at = "register", k < NPROC
    PROVE  LET x == kalloc(m)
               f == page_get_entry(x, m.heap).pma
               y == UserTable(x, f)
           IN  /\ WithProcess(m, y, img, f)
               /\ Space(y, img, {}, 0, StackFrames \cup {y.tables[f][page_get_table_idx(USER_STACK)].pma})
<1> DEFINE x == kalloc(m)
           f == page_get_entry(x, m.heap).pma
           y == UserTable(x, f)
<1>1. /\ Enabled /\ at \in Late /\ Space(m, img, {}, PID, StackFrames) /\ img \in Images /\ Progress
      /\ UserTables /\ MemoryOK(m)
  BY LateState
<1>2. PID = 0 /\ Registered = k
  BY <1>1 DEF UserTables, Registered
<1>3. PICK two \in Nat : two = 2
  OBVIOUS
<1>4. /\ m.heap \in Nat /\ m.next_pma \in Nat /\ Registered \in 0 .. NPROC
      /\ m.heap + two <= HeapStart(img) + HeapSize(img) /\ m.next_pma + 3 < LAPIC_BASE
  <2>1. k \in 0 .. NPROC /\ m.heap <= HeapStart(img) + HeapSize(img) - 2 * (NPROC - k)
    BY <1>1 DEF Progress
  <2>2. /\ m.heap \in Nat /\ m.next_pma \in Nat /\ HeapStart(img) \in Nat /\ kernel_end_pma(img) \in Nat
        /\ HeapSize(img) \in Nat /\ NPROC \in Nat /\ LAPIC_BASE \in Nat
        /\ kernel_end_pma(img) + HeapSize(img) + NPROC < LAPIC_BASE
        /\ m.next_pma - kernel_end_pma(img) <= m.heap - HeapStart(img) + Registered
    BY <1>1, ProgressNumbers
  <2> QED
    BY <1>2, <1>3, <2>1, <2>2
<1>5. Room(m, two) /\ m.next_pma + two < LAPIC_BASE
  BY <1>1, <1>4, LateRoom
<1>6. x = GrowHeap(m, two)
  BY <1>3 DEF kalloc
<1>7. /\ Space(x, img, {}, 0, StackFrames) /\ Grew(m, x, two) /\ KeepsMapped(m, x)
      /\ OldPages(m, x, img) /\ FreshPages(m, x, img, {})
  BY <1>1, <1>2, <1>5, <1>6, HeapGrows
<1> HIDE DEF x
<1>8. /\ m.heap \in HeapPages(x, img) /\ Walk(x, m.heap).pma \in Frames(x, img, {})
      /\ Walk(x, m.heap).pma \notin HeapFrames(m, img) \cup {LAPIC_BASE}
  <2>1. m.heap \in m.heap .. x.heap - 1
    <3>1. x.heap = m.heap + 2
      BY <1>3, <1>7 DEF Grew
    <3> QED
      BY <1>4, <3>1
  <2> QED
    BY <1>7, <2>1 DEF FreshPages
<1>9. f = Walk(x, m.heap).pma /\ f \in HeapFrames(x, img) /\ f \in -1 .. LAPIC_BASE
  BY <1>1, <1>7, <1>8, EntryFrame DEF Entries
<1> HIDE DEF f
<1>10. f \notin DOMAIN x.tables /\ x.next_pma + 1 < LAPIC_BASE
  <2>1. f \notin DOMAIN x.tables
    BY <1>1, <1>7, <1>8, <1>9 DEF Grew, Space, Apart
  <2>2. x.next_pma <= m.next_pma + 2 /\ x.next_pma \in Nat
    BY <1>1, <1>3, <1>7, SpaceParts DEF Grew
  <2> QED
    BY <1>4, <2>1, <2>2, Numbers
<1>11. /\ UserAdded(x, y, f)
       /\ Space(y, img, {}, 0, StackFrames \cup {y.tables[f][page_get_table_idx(USER_STACK)].pma})
  BY <1>1, <1>7, <1>8, <1>9, <1>10, UserTableSpace
<1> HIDE DEF y
<1>12. y.heap = m.heap + 2 /\ y.dir = m.dir /\ y.lookup = m.lookup
  BY <1>3, <1>7, <1>11 DEF Grew, UserAdded
<1>13. m.next_pma <= y.next_pma /\ y.next_pma <= m.next_pma + 3
  <2>1. /\ m.next_pma <= x.next_pma /\ x.next_pma <= m.next_pma + 2
        /\ x.next_pma <= y.next_pma /\ y.next_pma <= x.next_pma + 1
    BY <1>3, <1>7, <1>11 DEF Grew, UserAdded
  <2>2. x.next_pma \in Nat /\ y.next_pma \in Nat
    BY <1>1, <1>7, <1>11, SpaceParts
  <2> QED
    BY <1>4, <2>1, <2>2
<1>14. /\ OldPages(m, y, img) /\ KeepsMapped(m, y) /\ m.heap \in HeapPages(y, img)
       /\ Walk(y, m.heap).pma = f
  <2>1. HeapPages(y, img) = HeapPages(x, img)
    BY <1>11 DEF HeapPages, UserAdded
  <2>2. \A v \in HeapPages(m, img) : v \in Pages
    BY <1>1, SpacePages
  <2>3. m.heap \in Pages
    BY <1>1 DEF MemoryOK
  <2> QED
    BY <1>7, <1>8, <1>9, <1>11, <2>1, <2>2, <2>3 DEF OldPages, KeepsMapped, UserAdded
<1>15. /\ DOMAIN y.tables = DOMAIN m.tables \cup {f}
       /\ \A h \in DOMAIN m.tables :
            (\A i \in Indexes : i >= KERNEL_DIR /\ Present(m.dir[i]) => m.dir[i].pma # h)
                => y.tables[h] = m.tables[h]
  <2>1. /\ DOMAIN x.tables = DOMAIN m.tables
        /\ \A h \in DOMAIN m.tables :
            (\A i \in Indexes : i >= KERNEL_DIR /\ Present(m.dir[i]) => m.dir[i].pma # h)
                => x.tables[h] = m.tables[h]
    BY <1>7 DEF Grew
  <2>2. DOMAIN y.tables = DOMAIN x.tables \cup {f} /\ \A h \in DOMAIN x.tables : y.tables[h] = x.tables[h]
    BY <1>11 DEF UserAdded
  <2> QED
    BY <2>1, <2>2
<1>16. /\ y.tables[f][page_get_table_idx(USER_STACK)].flags = User
       /\ \A j \in Indexes : j # page_get_table_idx(USER_STACK) => ~Present(y.tables[f][j])
  BY <1>11 DEF UserAdded
<1>17. WithProcess(m, y, img, f)
  BY <1>8, <1>9, <1>12, <1>13, <1>14, <1>15, <1>16 DEF WithProcess
<1> QED
  BY <1>11, <1>17 DEF x, f, y

\* A process gets a table and a stack that nobody else has.
LEMMA ProcRegisterStep == BootInvariant /\ ProcRegister => BootInvariant'
<1> SUFFICES ASSUME BootInvariant, ProcRegister PROVE BootInvariant'
  OBVIOUS
<1> DEFINE x == kalloc(m)
           f == page_get_entry(x, m.heap).pma
           y == UserTable(x, f)
           u == [vma |-> m.heap, entry |-> [pma |-> f, flags |-> User]]
<1>1. /\ at = "register" /\ k < NPROC /\ k' = k + 1 /\ UNCHANGED <<img, todo, cpu, PID>>
      /\ Go(y, "register") /\ user' = [user EXCEPT ![k + 1] = u]
  BY DEF ProcRegister
<1>2. /\ Enabled /\ at \in Late /\ Space(m, img, {}, PID, StackFrames) /\ img \in Images /\ Progress
      /\ UserTables /\ MemoryOK(m) /\ CpuSet /\ Devices /\ Cached /\ InitLeft = {}
      /\ user \in [Procs -> [vma : Pages, entry : Entries]]
  BY <1>1, LateState
<1>3. /\ WithProcess(m, y, img, f)
      /\ Space(y, img, {}, 0, StackFrames \cup {y.tables[f][page_get_table_idx(USER_STACK)].pma})
  BY <1>1, RegisterSpace
<1>4. m' = y /\ at' = "register" /\ tlb' = tlb \cup Cacheable(m')
  BY <1>1, <1>3 DEF Go, Space, MemoryOK
<1> HIDE DEF y, f, x
<1>5. PID = 0 /\ Registered = k /\ PID' = 0 /\ Registered' = k + 1 /\ InitLeft' = {} /\ k \in 0 .. NPROC
  BY <1>1, <1>2, <1>4 DEF UserTables, Registered, InitLeft, Cleaning, Progress
<1>6. k \in Nat /\ NPROC \in Nat /\ k + 1 \in Procs /\ k + 1 \in 0 .. NPROC
      /\ \A p \in 1 .. k : p \in Procs /\ p # k + 1
  BY <1>1, <1>5, Numbers DEF Procs
<1>7. user'[k + 1] = u /\ (\A p \in 1 .. k : user'[p] = user[p])
      /\ user' \in [Procs -> [vma : Pages, entry : Entries]]
  <2>1. u \in [vma : Pages, entry : Entries]
    BY <1>2, <1>3 DEF MemoryOK, Entries, WithProcess
  <2> QED
    BY <1>1, <1>2, <1>6, <2>1
<1>8. \A p \in 1 .. k : ProcessTable(m', img, user'[p]) /\ StackEntry(m', user'[p]) = StackEntry(m, user[p])
  <2> SUFFICES ASSUME NEW p \in 1 .. k
               PROVE  ProcessTable(m', img, user[p]) /\ StackEntry(m', user[p]) = StackEntry(m, user[p])
    BY <1>7
  <2>1. ProcessTable(m, img, user[p])
    BY <1>2, <1>5 DEF UserTables
  <2>2. user[p].entry.pma \in DOMAIN m.tables
    BY <2>1 DEF ProcessTable
  <2>3. \A i \in Indexes : i >= KERNEL_DIR /\ Present(m.dir[i]) => m.dir[i].pma # user[p].entry.pma
    <3>1. \A i \in Indexes : i >= KERNEL_DIR => i # USER_DIR
      BY Constants, Numbers DEF Indexes
    <3> QED
      BY <2>1, <3>1 DEF ProcessTable
  <2>4. m'.tables[user[p].entry.pma] = m.tables[user[p].entry.pma] /\ user[p].entry.pma \in DOMAIN m'.tables
    BY <1>3, <1>4, <2>2, <2>3 DEF WithProcess
  <2>5. OldPages(m, m', img) /\ m'.dir = m.dir
    BY <1>3, <1>4 DEF WithProcess
  <2> QED
    BY <2>1, <2>4, <2>5, TableKept
<1>9. ProcessTable(m', img, user'[k + 1]) /\ StackEntry(m', user'[k + 1]) = y.tables[f][page_get_table_idx(USER_STACK)]
  <2>1. u.vma = m.heap /\ u.entry = [pma |-> f, flags |-> User] /\ u.entry.pma = f
    OBVIOUS
  <2>2. StackEntry(m', u) = y.tables[f][page_get_table_idx(USER_STACK)]
    BY <1>4, <2>1 DEF StackEntry
  <2>3. \A i \in Indexes : Present(m'.dir[i]) => m'.dir[i].pma # f
    <3>1. \A i \in Indexes : Present(m.dir[i]) => m.dir[i].pma \in HeapFrames(m, img)
      BY <1>2 DEF Space, Connected, Apart
    <3> QED
      BY <1>3, <1>4, <3>1 DEF WithProcess
  <2> HIDE DEF u
  <2>4. ProcessTable(m', img, u)
    BY <1>3, <1>4, <2>1, <2>2, <2>3 DEF ProcessTable, WithProcess
  <2> QED
    BY <1>7, <2>2, <2>4
<1> HIDE DEF u
<1>10. \A p \in 1 .. k + 1 : p \in 1 .. k \/ p = k + 1
  BY <1>6
<1>11. StackFrames' = StackFrames \cup {y.tables[f][page_get_table_idx(USER_STACK)].pma}
  <2>1. StackFrames = {StackEntry(m, user[p]).pma : p \in 1 .. k}
    BY <1>5 DEF StackFrames
  <2>2. StackFrames' = {StackEntry(m', user'[p]).pma : p \in 1 .. k + 1}
    BY <1>5 DEF StackFrames
  <2>3. 1 .. k + 1 = (1 .. k) \cup {k + 1}
    BY <1>6
  <2>4. {StackEntry(m', user'[p]).pma : p \in 1 .. k} = {StackEntry(m, user[p]).pma : p \in 1 .. k}
    BY <1>8
  <2> QED
    BY <1>9, <2>1, <2>2, <2>3, <2>4
<1>12. UserTables'
  <2>1. \A p \in 1 .. k + 1 : ProcessTable(m', img, user'[p])
    BY <1>8, <1>9, <1>10
  <2>2. ~Present(m'.dir[USER_DIR])
    BY <1>2, <1>3, <1>4, <1>5 DEF UserTables, WithProcess
  <2>3. PID' \in 0 .. Registered'
    BY <1>5, <1>6
  <2> QED
    BY <1>1, <1>4, <1>5, <2>1, <2>2, <2>3 DEF UserTables
<1>13. Space(m', img, {}, PID', StackFrames')
  BY <1>3, <1>4, <1>5, <1>11
<1>14. Cached'
  <2>1. \A v \in Pages : Present(Walk(m, v)) => Walk(m', v) = Walk(m, v) \/ v \in InitLeft \ InitLeft'
    BY <1>3, <1>4 DEF WithProcess, KeepsMapped
  <2> QED
    BY <1>1, <1>2, <1>4, <1>5, <2>1, CachedKept
<1>15. Devices'
  <2>1. /\ cpu.lapic \in HeapPages(m, img) /\ Walk(m, cpu.lapic).pma = LAPIC_BASE
        /\ cpu.regs = lapic_timer_init({16}) /\ cpu.esp0 - 1 \in HeapPages(m, img)
        /\ Walk(m, cpu.esp0 - 1).pma \notin DOMAIN m.tables \cup {LAPIC_BASE}
    BY <1>1, <1>2 DEF Devices
  <2>2. /\ cpu.lapic \in HeapPages(m', img) /\ Walk(m', cpu.lapic).pma = LAPIC_BASE
        /\ cpu.esp0 - 1 \in HeapPages(m', img) /\ Walk(m', cpu.esp0 - 1) = Walk(m, cpu.esp0 - 1)
    BY <1>3, <1>4, <2>1 DEF WithProcess, OldPages
  <2>3. Walk(m, cpu.esp0 - 1).pma \in HeapFrames(m, img)
    BY <2>1 DEF HeapFrames
  <2>4. Walk(m', cpu.esp0 - 1).pma \notin DOMAIN m'.tables \cup {LAPIC_BASE}
    BY <1>3, <1>4, <2>1, <2>2, <2>3 DEF WithProcess
  <2> QED
    BY <1>1, <1>4, <2>1, <2>2, <2>4 DEF Devices
<1>16. CpuSet'
  BY <1>1, <1>2, <1>4 DEF CpuSet, Setup
<1>17. Progress'
  <2>1. PICK two \in Nat : two = 2
    OBVIOUS
  <2>2. PICK one \in Nat : one = 1
    OBVIOUS
  <2>3. MemoryOK(m')
    BY <1>13 DEF Space
  <2>4. m'.heap = m.heap + two /\ m.next_pma <= m'.next_pma /\ m'.next_pma <= m.next_pma + two + one
    <3>1. m'.heap = m.heap + 2 /\ m.next_pma <= m'.next_pma /\ m'.next_pma <= m.next_pma + 3
      BY <1>3, <1>4 DEF WithProcess
    <3>2. m.next_pma \in Nat /\ m'.next_pma \in Nat
      BY <1>2, <2>3, MemoryParts
    <3> QED
      BY <2>1, <2>2, <3>1, <3>2
  <2>5. /\ m'.heap >= HeapStart(img) + Len(todo) /\ m'.next_pma >= kernel_end_pma(img)
        /\ m'.next_pma - kernel_end_pma(img) <= m'.heap - HeapStart(img) + Registered'
    <3>1. Registered \in Nat /\ Registered + one = Registered'
      BY <1>5, <1>6, <2>2
    <3> QED
      BY <1>2, <2>3, <2>4, <3>1, FrameProgress
  <2>6. m'.heap <= HeapStart(img) + HeapSize(img) - 2 * (NPROC - k')
    <3>1. m.heap <= HeapStart(img) + HeapSize(img) - 2 * (NPROC - k)
      BY <1>1, <1>2 DEF Progress
    <3>2. m.heap \in Nat /\ HeapStart(img) \in Nat /\ HeapSize(img) \in Nat
      BY <1>2, ProgressNumbers
    <3>3. m.heap + 2 <= HeapStart(img) + HeapSize(img) - 2 * (NPROC - (k + 1))
      BY <1>6, <3>1, <3>2
    <3> QED
      BY <1>1, <2>1, <2>4, <3>3
  <2>7. /\ Len(todo)' \in 0 .. BootTables(img)
        /\ \A i \in KERNEL_DIR .. PAGE_ENTRIES - 1 : i \in Indexes => Present(m'.dir[i])
        /\ Present(m'.dir[KERNEL_DIR]) /\ Present(m'.dir[PAGE_ENTRIES - 1])
    <3>1. m'.dir = m.dir
      BY <1>3, <1>4 DEF WithProcess
    <3> QED
      BY <1>1, <1>2, <3>1 DEF Progress, Cleaning
  <2>8. at' \notin Cleaning
    BY <1>4 DEF Cleaning
  <2>9. \A i \in KERNEL_DIR .. (IF at' \in Cleaning THEN KERNEL_DIR
                               ELSE IF at' = "kernel_tables" THEN k' - 1 ELSE PAGE_ENTRIES - 1) :
            i \in Indexes => Present(m'.dir[i])
    BY <1>4, <2>7, <2>8
  <2>10. k' \in 0 .. NPROC /\ k' \in 0 .. PAGE_ENTRIES * PAGE_ENTRIES
    BY <1>1, <1>2, <1>6, CounterRange
  <2>11. /\ at' = "register" /\ at' # "kernel_tables" /\ at' # "free" /\ at' # "proc_table" /\ at' # "proc_init"
         /\ at' \notin {"proc_loop", "handler"} /\ at' \notin {"apic_init", "dead"}
         /\ at' \notin {"apic_init", "proc_init"} /\ img' = img /\ todo' = todo
    BY <1>1, <1>4
  <2> QED
    BY <2>5, <2>6, <2>7, <2>8, <2>9, <2>10, <2>11, ZenonT(60) DEF Progress
<1> QED
  BY <1>1, <1>4, <1>7, <1>12, <1>13, <1>14, <1>15, <1>16, <1>17, ProcessStep

\* Starting the processes, ticks and ticks without a switch leave memory alone.
LEMMA QuietProcess ==
    ASSUME BootInvariant, at \in {"register", "proc_loop", "handler"}, at = "register" => k = NPROC,
           at' \in {"proc_loop", "handler"}, UNCHANGED <<img, m, tlb, k, todo, user, PID>>,
           cpu' = [cpu EXCEPT !.ie = IF at' = "proc_loop" THEN 1 ELSE 0]
    PROVE  BootInvariant'
<1>1. /\ Space(m, img, {}, PID, StackFrames) /\ img \in Images /\ Progress
      /\ UserTables /\ CpuSet /\ Devices /\ Cached /\ InitLeft = {}
      /\ user \in [Procs -> [vma : Pages, entry : Entries]]
  BY LateState
<1>2. Registered = NPROC /\ Registered' = NPROC /\ InitLeft' = {}
  BY DEF Registered, InitLeft, Cleaning
<1>3. StackFrames' = StackFrames /\ UserTables'
  BY <1>1, <1>2 DEF StackFrames, UserTables, StackEntry
<1>4. Cached'
  BY <1>1, <1>2 DEF Cached
<1>5. /\ cpu'.lapic = cpu.lapic /\ cpu'.regs = cpu.regs /\ cpu'.esp0 = cpu.esp0
  BY <1>1 DEF CpuSet
<1>6. CpuSet'
  BY <1>1 DEF CpuSet, Setup
<1>7. Devices'
  BY <1>1, <1>5 DEF Devices
<1>8. Progress'
  <2>1. m.heap <= HeapStart(img) + HeapSize(img)
    <3>1. CASE at = "register"
      <4>1. m.heap <= HeapStart(img) + HeapSize(img) - 2 * (NPROC - NPROC)
        BY <1>1, <3>1 DEF Progress
      <4> QED
        BY <4>1, <1>1, ImageFacts, Numbers
    <3>2. CASE at # "register"
      BY <1>1, <3>2 DEF Progress
    <3> QED
      BY <3>1, <3>2
  <2>2. /\ at \notin Cleaning /\ at' \notin Cleaning /\ at # "kernel_tables" /\ at' # "kernel_tables"
    BY DEF Cleaning
  <2>3. \A i \in KERNEL_DIR .. PAGE_ENTRIES - 1 : i \in Indexes => Present(m.dir[i])
    BY <1>1, <2>2 DEF Progress
  <2>4. \A i \in KERNEL_DIR .. (IF at' \in Cleaning THEN KERNEL_DIR
                               ELSE IF at' = "kernel_tables" THEN k' - 1 ELSE PAGE_ENTRIES - 1) :
            i \in Indexes => Present(m'.dir[i])
    BY <2>2, <2>3
  <2>5. /\ Len(todo)' \in 0 .. BootTables(img) /\ k' \in 0 .. PAGE_ENTRIES * PAGE_ENTRIES
        /\ m'.heap >= HeapStart(img) + Len(todo) /\ m'.next_pma >= kernel_end_pma(img)
        /\ m'.next_pma - kernel_end_pma(img) <= m'.heap - HeapStart(img) + Registered'
        /\ Present(m'.dir[KERNEL_DIR]) /\ Present(m'.dir[PAGE_ENTRIES - 1])
    BY <1>1, <1>2 DEF Progress
  <2>6. /\ at' # "free" /\ at' # "proc_table" /\ at' # "proc_init" /\ at' # "register"
        /\ at' \notin {"apic_init", "dead"} /\ at' \notin {"apic_init", "proc_init"}
        /\ img' = img /\ todo' = todo /\ m' = m
    OBVIOUS
  <2> QED
    BY <2>1, <2>2, <2>4, <2>5, <2>6, ZenonT(60) DEF Progress
<1>9. Space(m', img, {}, PID', StackFrames')
  BY <1>1, <1>3
<1> QED
  BY <1>1, <1>3, <1>4, <1>6, <1>7, <1>8, <1>9, ProcessStep

\* Interrupts are enabled.
LEMMA ProcLoopStep == BootInvariant /\ ProcLoop => BootInvariant'
<1> SUFFICES ASSUME BootInvariant, ProcLoop PROVE BootInvariant'
  OBVIOUS
<1>1. /\ at = "register" /\ k = NPROC /\ at' = "proc_loop"
      /\ UNCHANGED <<img, m, tlb, k, todo, user, PID>> /\ cpu' = [cpu EXCEPT !.ie = 1]
  BY DEF ProcLoop
<1> QED
  BY <1>1, QuietProcess

\* The timer interrupts.
LEMMA TickStep == BootInvariant /\ Tick => BootInvariant'
<1> SUFFICES ASSUME BootInvariant, Tick PROVE BootInvariant'
  OBVIOUS
<1>1. /\ at = "proc_loop" /\ at' = "handler"
      /\ UNCHANGED <<img, m, tlb, k, todo, user, PID>> /\ cpu' = [cpu EXCEPT !.ie = 0]
  BY DEF Tick
<1> QED
  BY <1>1, QuietProcess

\* proc_next without a switch.
LEMMA ProcStayStep == BootInvariant /\ ProcStay => BootInvariant'
<1> SUFFICES ASSUME BootInvariant, ProcStay PROVE BootInvariant'
  OBVIOUS
<1>1. /\ at = "handler" /\ at' = "proc_loop"
      /\ UNCHANGED <<img, m, tlb, k, todo, user, PID>> /\ cpu' = [cpu EXCEPT !.ie = 1]
  BY DEF ProcStay
<1> QED
  BY <1>1, QuietProcess

\* A process switch changes one directory entry.
Switched(x, y) ==
    /\ y.tables = x.tables /\ y.heap = x.heap /\ y.next_pma = x.next_pma
    /\ \A i \in Indexes \ {USER_DIR} : y.dir[i] = x.dir[i]
    /\ \A v \in Pages : page_get_dir_idx(v) # USER_DIR => Walk(y, v) = Walk(x, v)

\* One directory entry changes, and memory stays otherwise.
LEMMA DirSetSwitched ==
    ASSUME NEW x, NEW y, NEW v, NEW d, MemoryOK(x), DirSet(x, y, USER_DIR, v, d)
    PROVE  Switched(x, y)
BY MemoryParts DEF DirSet, Switched

\* proc_mem_unmap leaves no table of a process in force.
LEMMA UnmapSpaceOf ==
    ASSUME BootInvariant, at = "handler"
    PROVE  LET x == Unmap(m, PID)
           IN  /\ Space(x, img, {}, 0, StackFrames) /\ ~Present(x.dir[USER_DIR]) /\ Switched(m, x)
<1>1. Space(m, img, {}, PID, StackFrames) /\ img \in Images /\ UserTables /\ MemoryOK(m)
  BY LateState
<1>2. CASE PID = 0
  <2>1. Unmap(m, PID) = m
    BY <1>2 DEF Unmap
  <2> QED
    BY <1>1, <1>2, <2>1 DEF UserTables, Switched
<1>3. CASE PID # 0
  <2> DEFINE x == page_set_dir_entry(m, USER_DIR, NULL, NONE)
  <2>1. Unmap(m, PID) = x
    BY <1>3 DEF Unmap
  <2>2. NULL \in Pages /\ NONE \in Entries /\ USER_DIR \in Indexes
    BY PageRange, Numbers, Rights, Constants DEF NULL
  <2>3. MemoryOK(x) /\ DirSet(m, x, USER_DIR, NULL, NONE)
    BY <1>1, <2>2, SetDirIs
  <2> HIDE DEF x
  <2>4. Space(x, img, {}, 0, StackFrames) /\ ~Present(x.dir[USER_DIR])
    BY <1>1, <2>3, DropDirSpace
  <2>5. Switched(m, x)
    BY <1>1, <2>3, DirSetSwitched
  <2> QED
    BY <2>1, <2>4, <2>5
<1> QED
  BY <1>2, <1>3

\* proc_mem_map puts the table of process q in force.
LEMMA MapSpaceOf ==
    ASSUME BootInvariant, at = "handler", NEW x, Space(x, img, {}, 0, StackFrames),
           ~Present(x.dir[USER_DIR]), Switched(m, x), NEW q \in Procs
    PROVE  LET y == page_set_dir_entry(x, USER_DIR, user[q].vma, user[q].entry)
           IN  /\ Space(y, img, {}, q, StackFrames) /\ Switched(x, y)
               /\ y.dir[USER_DIR] = user[q].entry /\ y.lookup[USER_DIR] = user[q].vma
<1> DEFINE y == page_set_dir_entry(x, USER_DIR, user[q].vma, user[q].entry)
           f == user[q].entry.pma
<1>1. /\ Space(m, img, {}, PID, StackFrames) /\ img \in Images /\ UserTables
      /\ user \in [Procs -> [vma : Pages, entry : Entries]] /\ MemoryOK(x)
  BY LateState DEF Space
<1>2. ProcessTable(m, img, user[q])
  <2>1. q \in 1 .. Registered
    BY DEF Procs, Registered
  <2> QED
    BY <1>1, <2>1 DEF UserTables
<1>3. user[q].vma \in Pages /\ user[q].entry \in Entries /\ USER_DIR \in Indexes /\ q # 0
  BY <1>1, Constants, Numbers DEF Procs
<1>4. MemoryOK(y) /\ DirSet(x, y, USER_DIR, user[q].vma, user[q].entry)
  BY <1>1, <1>3, SetDirIs
<1> HIDE DEF y
<1>5. user[q].entry = [pma |-> f, flags |-> User] /\ f \in DOMAIN x.tables
  BY <1>2 DEF ProcessTable, Switched
<1>6. user[q].vma \in HeapPages(x, img) /\ Walk(x, user[q].vma).pma = f
  <2>1. user[q].vma \in HeapPages(m, img) /\ Walk(m, user[q].vma).pma = f
    BY <1>2 DEF ProcessTable
  <2>2. page_get_dir_idx(user[q].vma) # USER_DIR
    BY <1>1, <2>1, SpacePages
  <2> QED
    BY <1>3, <2>1, <2>2 DEF Switched, HeapPages
<1>7. Unused(x, f)
  BY <1>2 DEF Unused, ProcessTable, Switched
<1>8. StackOnly(x, f, USER_DIR, q)
  BY <1>2, <1>3 DEF StackOnly, ProcessTable, Switched
<1>9. DirSet(x, y, USER_DIR, user[q].vma, [pma |-> f, flags |-> User])
  BY <1>4, <1>5
<1> HIDE DEF f
<1>10. Space(y, img, {}, q, StackFrames)
  BY <1>1, <1>3, <1>4, <1>5, <1>6, <1>7, <1>8, <1>9, NewDirSpace
<1>11. Switched(x, y)
  BY <1>1, <1>4, DirSetSwitched
<1>12. y.dir[USER_DIR] = user[q].entry /\ y.lookup[USER_DIR] = user[q].vma
  BY <1>1, <1>3, <1>4, MemoryParts DEF DirSet
<1> QED
  BY <1>10, <1>11, <1>12 DEF y

\* A switch replaces one process's table by another's and flushes the cache.
LEMMA ProcNextStep == BootInvariant /\ ProcNext => BootInvariant'
<1> SUFFICES ASSUME BootInvariant, ProcNext PROVE BootInvariant'
  OBVIOUS
<1>1. PICK q \in ({0} \cup Procs) \ {PID} : m' = Map(Unmap(m, PID), q) /\ PID' = q
  BY DEF ProcNext
<1>2. /\ at = "handler" /\ at' = "proc_loop" /\ tlb' = Cacheable(m')
      /\ cpu' = [cpu EXCEPT !.ie = 1] /\ UNCHANGED <<img, k, todo, user>>
  BY DEF ProcNext, Flushed
<1>3. /\ Space(m, img, {}, PID, StackFrames) /\ img \in Images /\ Progress /\ MemoryOK(m)
      /\ UserTables /\ CpuSet /\ Devices /\ user \in [Procs -> [vma : Pages, entry : Entries]]
  BY <1>2, LateState
<1> DEFINE x == Unmap(m, PID)
<1>4. Space(x, img, {}, 0, StackFrames) /\ ~Present(x.dir[USER_DIR]) /\ Switched(m, x)
  BY <1>2, UnmapSpaceOf
<1> HIDE DEF x
<1>5. /\ Space(m', img, {}, q, StackFrames) /\ Switched(x, m')
      /\ IF q = 0 THEN ~Present(m'.dir[USER_DIR])
         ELSE m'.dir[USER_DIR] = user[q].entry /\ m'.lookup[USER_DIR] = user[q].vma
  <2>1. CASE q = 0
    <3>1. m' = x
      BY <1>1, <2>1 DEF Map, x
    <3> QED
      BY <1>4, <2>1, <3>1 DEF Switched
  <2>2. CASE q # 0
    <3>1. q \in Procs /\ m' = page_set_dir_entry(x, USER_DIR, user[q].vma, user[q].entry)
      BY <1>1, <2>2 DEF Map, x
    <3> QED
      BY <1>2, <1>4, <2>2, <3>1, MapSpaceOf
  <2> QED
    BY <2>1, <2>2
<1>6. Switched(m, m')
  BY <1>4, <1>5 DEF Switched
<1>7. OldPages(m, m', img)
  <2>1. HeapPages(m', img) = HeapPages(m, img)
    BY <1>6 DEF Switched, HeapPages
  <2>2. \A v \in HeapPages(m, img) : v \in Pages /\ page_get_dir_idx(v) # USER_DIR
    BY <1>3, SpacePages
  <2> QED
    BY <1>6, <2>1, <2>2 DEF OldPages, Switched
<1>8. Registered = NPROC /\ Registered' = NPROC /\ InitLeft' = {}
  BY <1>2 DEF Registered, InitLeft, Cleaning
<1>9. \A p \in 1 .. NPROC : ProcessTable(m', img, user[p]) /\ StackEntry(m', user[p]) = StackEntry(m, user[p])
  <2> TAKE p \in 1 .. NPROC
  <2>1. ProcessTable(m, img, user[p])
    BY <1>3, <1>8 DEF UserTables
  <2> QED
    BY <1>6, <1>7, <2>1, TableKept DEF Switched, ProcessTable
<1>10. StackFrames' = StackFrames
  BY <1>2, <1>8, <1>9 DEF StackFrames
<1>11. UserTables'
  <2>1. PID' \in 0 .. Registered'
    BY <1>1, <1>8, Numbers DEF Procs
  <2> QED
    BY <1>1, <1>2, <1>5, <1>8, <1>9, <2>1 DEF UserTables
<1>12. Cached'
  BY <1>2 DEF Cached
<1>13. CpuSet'
  BY <1>2, <1>3 DEF CpuSet, Setup
<1>14. Devices'
  <2>1. cpu'.lapic = cpu.lapic /\ cpu'.regs = cpu.regs /\ cpu'.esp0 = cpu.esp0
    BY <1>2, <1>3 DEF CpuSet
  <2>2. DOMAIN m'.tables = DOMAIN m.tables
    BY <1>6 DEF Switched
  <2>3. /\ cpu.lapic \in HeapPages(m, img) /\ Walk(m, cpu.lapic).pma = LAPIC_BASE
        /\ cpu.regs = lapic_timer_init({16}) /\ cpu.esp0 - 1 \in HeapPages(m, img)
        /\ Walk(m, cpu.esp0 - 1).pma \notin DOMAIN m.tables \cup {LAPIC_BASE}
    BY <1>2, <1>3 DEF Devices
  <2> QED
    BY <1>2, <1>7, <2>1, <2>2, <2>3 DEF Devices, OldPages
<1>15. Progress'
  <2>1. m'.heap = m.heap /\ m'.next_pma = m.next_pma /\ m.heap <= HeapStart(img) + HeapSize(img)
    BY <1>2, <1>3, <1>6 DEF Progress, Switched
  <2>2. /\ at \notin Cleaning /\ at' \notin Cleaning /\ at # "kernel_tables" /\ at' # "kernel_tables"
    BY <1>2 DEF Cleaning
  <2>3. \A i \in KERNEL_DIR .. PAGE_ENTRIES - 1 : i \in Indexes => Present(m'.dir[i])
    <3>1. \A i \in KERNEL_DIR .. PAGE_ENTRIES - 1 : i \in Indexes => Present(m.dir[i])
      BY <1>3, <2>2 DEF Progress
    <3>2. \A i \in KERNEL_DIR .. PAGE_ENTRIES - 1 : i # USER_DIR
      BY Constants, Numbers
    <3> QED
      BY <1>6, <3>1, <3>2 DEF Switched
  <2>4. \A i \in KERNEL_DIR .. (IF at' \in Cleaning THEN KERNEL_DIR
                               ELSE IF at' = "kernel_tables" THEN k' - 1 ELSE PAGE_ENTRIES - 1) :
            i \in Indexes => Present(m'.dir[i])
    BY <2>2, <2>3
  <2>5. Present(m'.dir[KERNEL_DIR]) /\ Present(m'.dir[PAGE_ENTRIES - 1])
    <3>1. /\ KERNEL_DIR \in Indexes /\ KERNEL_DIR \in KERNEL_DIR .. PAGE_ENTRIES - 1
          /\ PAGE_ENTRIES - 1 \in Indexes /\ PAGE_ENTRIES - 1 \in KERNEL_DIR .. PAGE_ENTRIES - 1
      BY Numbers DEF Indexes
    <3> QED
      BY <2>3, <3>1
  <2>6. /\ Len(todo)' \in 0 .. BootTables(img) /\ k' \in 0 .. PAGE_ENTRIES * PAGE_ENTRIES
        /\ m'.heap >= HeapStart(img) + Len(todo) /\ m'.next_pma >= kernel_end_pma(img)
        /\ m'.next_pma - kernel_end_pma(img) <= m'.heap - HeapStart(img) + Registered'
    BY <1>2, <1>3, <1>8, <2>1 DEF Progress
  <2>7. /\ at' # "free" /\ at' # "proc_table" /\ at' # "proc_init" /\ at' # "register"
        /\ at' \notin {"apic_init", "dead"} /\ at' \notin {"apic_init", "proc_init"}
        /\ img' = img /\ todo' = todo
    BY <1>2
  <2> QED
    BY <2>1, <2>2, <2>4, <2>5, <2>6, <2>7, ZenonT(60) DEF Progress
<1>16. Space(m', img, {}, PID', StackFrames')
  BY <1>1, <1>5, <1>10
<1>17. user' \in [Procs -> [vma : Pages, entry : Entries]] /\ UNCHANGED <<img, todo>>
  BY <1>2, <1>3
<1> QED
  BY <1>2, <1>11, <1>12, <1>13, <1>14, <1>15, <1>16, <1>17, ProcessStep

\* Nothing changes.
LEMMA StoppedStep == BootInvariant /\ UNCHANGED vars => BootInvariant'
BY DEF vars, BootInvariant, MemoryOK, CpuSet, SetupPhase, KernelPhase, Enabled, Connected, Layout,
       Apart, Progress, UserTables, Cached, Devices, InitLeft, Registered, StackFrames

\* The lookup table gets addresses, and paging is switched on.
LEMMA InitEnableStep == BootInvariant /\ InitEnable => BootInvariant'
<1> SUFFICES ASSUME BootInvariant, InitEnable PROVE BootInvariant'
  OBVIOUS
<1>1. /\ at = "tables" /\ k = Len(todo) /\ m' = LookupAbsolute(m, Len(todo)) /\ tlb' = Cacheable(m')
      /\ at' = "vga_clear" /\ k' = 0
      /\ img' = img /\ todo' = todo /\ cpu' = cpu /\ user' = user /\ PID' = PID
  BY DEF InitEnable
<1>2. at \in Setup
  BY <1>1 DEF Setup
<1>3. /\ img \in Images /\ MemoryOK(m) /\ Numbered(m, img) /\ PID = 0
      /\ todo = PageRun(m.offset - 1, HeapStart(img), kernel_end_pma(img), Kernel)
      /\ MapsExactly(m, Loaded(img) \cup First(todo, k))
  BY <1>1, <1>2, SetupState
<1>4. PICK n \in Nat : n = m.offset - 1 /\ m.offset = n + 1
  <2>1. m.offset - 1 \in 0 .. BootTables(img) /\ BootTables(img) \in Nat /\ m.offset \in Nat
    BY <1>3, NumberedParts, ImageFacts
  <2>2. m.offset - 1 \in Nat /\ m.offset = (m.offset - 1) + 1
    BY <2>1
  <2> QED
    BY <2>2
<1>5. Len(todo) = n /\ First(todo, k) = RunOf(n, HeapStart(img), kernel_end_pma(img), Kernel)
  <2>1. HeapStart(img) \in Nat /\ kernel_end_pma(img) \in Nat /\ Kernel \in SUBSET User
    BY <1>3, ImageFacts, Rights
  <2>2. todo = PageRun(n, HeapStart(img), kernel_end_pma(img), Kernel)
    BY <1>3, <1>4
  <2>3. Len(todo) = n /\ Elems(todo) = RunOf(n, HeapStart(img), kernel_end_pma(img), Kernel)
    BY <2>1, <2>2, RunElems
  <2> QED
    BY <1>1, <2>3 DEF Elems
<1>6. m' = LookupAbsolute(m, n)
  BY <1>1, <1>5
<1>7. /\ Space(m', img, InitOf(img), 0, {}) /\ ~Present(m'.dir[USER_DIR])
      /\ Present(m'.dir[KERNEL_DIR]) /\ Present(m'.dir[PAGE_ENTRIES - 1])
      /\ n \in 0 .. BootTables(img) /\ m'.heap = HeapStart(img) + n
      /\ m'.next_pma = kernel_end_pma(img) + n /\ LAPIC_BASE \notin HeapFrames(m', img)
  <2>1. img \in Images /\ MemoryOK(m) /\ Numbered(m, img) /\ m.offset = n + 1
    BY <1>3, <1>4
  <2>2. MapsExactly(m, Loaded(img) \cup RunOf(n, HeapStart(img), kernel_end_pma(img), Kernel))
    BY <1>3, <1>5
  <2> QED
    BY <1>6, <2>1, <2>2, EnabledSpace
<1>8. Registered' = 0 /\ InitLeft' = InitOf(img) /\ StackFrames' = {} /\ PID' = 0
  <2>1. Registered' = 0 /\ InitLeft' = InitOf(img)
    BY <1>1 DEF Registered, InitLeft, Cleaning
  <2> QED
    BY <1>1, <1>3, <2>1 DEF StackFrames
<1>9. Progress'
  <2>1. HeapStart(img) \in Nat /\ kernel_end_pma(img) \in Nat
    BY <1>3, ImageFacts
  <2>2. k' \in 0 .. PAGE_ENTRIES * PAGE_ENTRIES
    <3>1. PAGE_ENTRIES * PAGE_ENTRIES \in Nat
      BY Product, Numbers
    <3> QED
      BY <1>1, <3>1
  <2>3. /\ Len(todo') = n /\ m'.heap = HeapStart(img') + Len(todo')
        /\ Len(todo') \in 0 .. BootTables(img') /\ m'.heap >= HeapStart(img') + Len(todo')
    <3>1. m'.heap >= HeapStart(img) + n
      BY <1>7, <2>1
    <3> QED
      BY <1>1, <1>5, <1>7, <3>1
  <2>4. /\ m'.next_pma >= kernel_end_pma(img')
        /\ m'.next_pma - kernel_end_pma(img') <= m'.heap - HeapStart(img') + Registered'
    BY <1>1, <1>7, <1>8, <2>1
  <2>5. at' \in Cleaning /\ at' \notin {"free", "kernel_tables", "apic_init", "dead", "proc_table",
            "proc_init", "register", "proc_loop", "handler"}
    BY <1>1 DEF Cleaning
  <2>6. \A i \in KERNEL_DIR .. KERNEL_DIR : Present(m'.dir[i])
    BY <1>7, Numbers
  <2>7. \A i \in KERNEL_DIR .. (IF at' \in Cleaning THEN KERNEL_DIR
                                ELSE IF at' = "kernel_tables" THEN k' - 1 ELSE PAGE_ENTRIES - 1) :
            i \in Indexes => Present(m'.dir[i])
    BY <2>5, <2>6
  <2> QED
    BY <1>7, <2>2, <2>3, <2>4, <2>5, <2>7, ZenonT(60) DEF Progress
<1>10. UserTables'
  <2>1. \A p \in 1 .. Registered' : FALSE
    BY <1>8
  <2>2. PID' \in 0 .. Registered'
    BY <1>8
  <2> QED
    BY <1>7, <1>8, <2>1, <2>2 DEF UserTables
<1>11. Cached'
  BY <1>1 DEF Cached
<1>12. Devices'
  BY <1>1, <1>7 DEF Devices
<1>13. KernelPhase'
  <2>1. /\ Connected(m', img) /\ Layout(m', img, InitOf(img), 0) /\ Apart(m', img, InitOf(img), {})
    BY <1>7 DEF Space
  <2> QED
    BY <1>1, <1>8, <1>9, <1>10, <1>11, <1>12, <2>1 DEF KernelPhase
<1>14. CpuSet'
  <2>1. CpuSet /\ at # "proc_loop"
    BY <1>1 DEF BootInvariant
  <2> QED
    BY <1>1, <2>1 DEF CpuSet
<1>15. SetupPhase'
  BY <1>1 DEF SetupPhase, Setup
<1>16. MemoryOK(m')
  BY <1>7 DEF Space
<1>17. at' \in Phases \ {"fault", "reset"}
  BY <1>1 DEF Phases, Cleaning
<1>18. user \in [Procs -> [vma : Pages, entry : Entries]]
  BY DEF BootInvariant
<1> QED
  BY <1>1, <1>3, <1>13, <1>14, <1>15, <1>16, <1>17, <1>18 DEF BootInvariant

-----------------------------------------------------------------------------
(* The theorems.                                                           *)

\* Every step of boot and every process switch keeps BootInvariant.
LEMMA BootStep == BootInvariant /\ [Next]_vars => BootInvariant'
<1> SUFFICES ASSUME BootInvariant, [Next]_vars PROVE BootInvariant'
  OBVIOUS
<1>1. CASE InitMap
  BY <1>1, InitMapStep
<1>2. CASE InitTables
  BY <1>2, InitTablesStep
<1>3. CASE InitEnable
  BY <1>3, InitEnableStep
<1>4. CASE VgaClear
  BY <1>4, VgaClearStep
<1>5. CASE GdtInit
  BY <1>5, GdtInitStep
<1>6. CASE IntInit
  BY <1>6, IntInitStep
<1>7. CASE KmallocInit
  BY <1>7, KmallocInitStep
<1>8. CASE CleanupFree
  BY <1>8, CleanupFreeStep
<1>9. CASE CleanupUnmap
  BY <1>9, CleanupUnmapStep
<1>10. CASE CleanupDone
  BY <1>10, CleanupDoneStep
<1>11. CASE CleanupTable
  BY <1>11, CleanupTableStep
<1>12. CASE CleanupEnd
  BY <1>12, CleanupEndStep
<1>13. CASE ApicInit
  BY <1>13, ApicInitStep
<1>14. CASE ApicMissing
  BY <1>14, ApicMissingStep
<1>15. CASE ProcTable
  BY <1>15, ProcTableStep
<1>16. CASE ProcInit
  BY <1>16, ProcInitStep
<1>17. CASE ProcRegister
  BY <1>17, ProcRegisterStep
<1>18. CASE ProcLoop
  BY <1>18, ProcLoopStep
<1>19. CASE Tick
  BY <1>19, TickStep
<1>20. CASE ProcNext
  BY <1>20, ProcNextStep
<1>21. CASE ProcStay
  BY <1>21, ProcStayStep
<1>22. CASE UNCHANGED vars
  BY <1>22, StoppedStep
<1>23. CASE Stopped
  BY <1>22, <1>23 DEF Stopped
<1> QED
  BY <1>1, <1>2, <1>3, <1>4, <1>5, <1>6, <1>7, <1>8, <1>9, <1>10, <1>11, <1>12, <1>13, <1>14,
     <1>15, <1>16, <1>17, <1>18, <1>19, <1>20, <1>21, <1>22, <1>23 DEF Next, Steps

\* From the first page init_page_map maps to any number of process switches
\* the memory, the page tables, the lookup table, the page list, what may be
\* cached and the processor's tables are as BootInvariant says; in particular
\* no access of init.c, page.c or the heap's page calls faults.
THEOREM BootCorrect == Spec => []BootInvariant
<1>1. Init => BootInvariant
  BY InitInvariant
<1>2. BootInvariant /\ [Next]_vars => BootInvariant'
  BY BootStep
<1> QED
  BY <1>1, <1>2, PTL DEF Spec

\* The stack of the running process is mapped, with the frame of its table.
LEMMA StackIs ==
    ASSUME BootInvariant, Enabled, PID # 0
    PROVE  /\ PID \in 1 .. Registered /\ Walk(m, USER_STACK) = StackEntry(m, user[PID])
           /\ Walk(m, USER_STACK).flags = User /\ Walk(m, USER_STACK).pma \in StackFrames
<1>1. MemoryOK(m) /\ UserTables /\ Connected(m, img)
  BY DEF BootInvariant, KernelPhase
<1>2. PID \in 1 .. Registered /\ m.dir[USER_DIR] = user[PID].entry
  <2>1. PID \in 0 .. Registered /\ m.dir[USER_DIR] = user[PID].entry
    BY <1>1 DEF UserTables
  <2> QED
    BY <2>1
<1>3. ProcessTable(m, img, user[PID])
  BY <1>1, <1>2 DEF UserTables
<1>4. /\ user[PID].entry = [pma |-> Walk(m, user[PID].vma).pma, flags |-> User]
      /\ StackEntry(m, user[PID]).flags = User
  BY <1>3 DEF ProcessTable
<1>5. user[PID].entry.flags = User
  BY <1>4
<1>6. USER_STACK \in Pages /\ page_get_dir_idx(USER_STACK) = USER_DIR /\ Rooted(m)
  BY <1>1, Constants, ConnectedRooted
<1>7. Present(m.dir[page_get_dir_idx(USER_STACK)]) /\ m.dir[page_get_dir_idx(USER_STACK)].flags = User
  BY <1>2, <1>5, <1>6, Rights DEF Present
<1>8. EntryOf(m, USER_STACK) = StackEntry(m, user[PID])
  BY <1>2, <1>6 DEF EntryOf, StackEntry
<1>9. /\ EntryOf(m, USER_STACK) \in Entries
      /\ Walk(m, USER_STACK) = [pma |-> EntryOf(m, USER_STACK).pma, flags |-> EntryOf(m, USER_STACK).flags \cap User]
  BY <1>1, <1>6, <1>7, WalkIs
<1>10. EntryOf(m, USER_STACK).flags = User
  BY <1>4, <1>8
<1>11. Walk(m, USER_STACK) = EntryOf(m, USER_STACK)
  BY <1>9, <1>10, Rights DEF Entries
<1> QED
  BY <1>2, <1>8, <1>10, <1>11 DEF StackFrames

\* Whatever step of page.c, of the heap or of a process switch: every page of
\* the kernel keeps its frame and the rights of its section.
THEOREM SectionsCorrect == Spec => []SectionsMapped
<1>1. BootInvariant => SectionsMapped
  BY DEF BootInvariant, KernelPhase, Layout, SectionsMapped, Static
<1> QED
  BY <1>1, BootCorrect, PTL

\* page_table_lookup and the page directory agree, always.
THEOREM TablesCorrect == Spec => []TablesReachable
<1>1. BootInvariant => TablesReachable
  <2> SUFFICES ASSUME BootInvariant, Enabled, NEW i \in Indexes
               PROVE  IF Present(m.dir[i])
                      THEN /\ Walk(m, m.lookup[i]).pma = m.dir[i].pma
                           /\ Walk(m, m.lookup[i]).flags = Kernel
                      ELSE m.lookup[i] = NULL
    BY DEF TablesReachable
  <2>1. Connected(m, img)
    BY DEF BootInvariant, KernelPhase
  <2>2. CASE Present(m.dir[i])
    <3>1. Walk(m, m.lookup[i]) = [pma |-> m.dir[i].pma, flags |-> Kernel]
      BY <2>1, <2>2 DEF Connected
    <3> QED
      BY <2>2, <3>1
  <2>3. CASE ~Present(m.dir[i])
    BY <2>1, <2>3 DEF Connected
  <2> QED
    BY <2>2, <2>3
<1> QED
  BY <1>1, BootCorrect, PTL

\* page_unmap invalidates nothing and the cached translations outlive it, yet
\* no page that the running code may touch is missing or has a stale one.
THEOREM StaleCorrect == Spec => []NoStaleUse
<1>1. BootInvariant => NoStaleUse
  <2> SUFFICES ASSUME BootInvariant, Enabled, at \notin Halts
               PROVE  /\ \A v \in Used : Present(Walk(m, v))
                      /\ \A c \in tlb : c.to # Walk(m, c.vma) => c.vma \notin Used
    BY DEF NoStaleUse
  <2>1. /\ img \in Images /\ Layout(m, img, InitLeft, PID) /\ Cached
    BY DEF BootInvariant, KernelPhase
  <2>2. HeapRange = HeapPages(m, img) /\ {r.vma : r \in Static} = StaticOf(img) /\ InitPages = InitOf(img)
    BY DEF HeapRange, HeapPages, HeapStart, Static, StaticOf, InitPages, InitOf
  <2>3. at = "vga_clear" => InitLeft = InitOf(img)
    BY DEF InitLeft, Cleaning
  <2>4. ASSUME NEW v \in Used PROVE Present(Walk(m, v))
    <3>1. \/ v \in StaticOf(img)
          \/ v \in HeapPages(m, img)
          \/ at = "vga_clear" /\ v \in InitOf(img)
          \/ PID # 0 /\ v = USER_STACK
      BY <2>2, <2>4 DEF Used
    <3>2. CASE v \in StaticOf(img)
      <4>1. PICK r \in Sections(img) : r.vma = v
        BY <3>2 DEF StaticOf
      <4>2. Walk(m, v) = r.to
        BY <2>1, <4>1 DEF Layout
      <4> QED
        BY <2>1, <4>2, SectionFacts
    <3>3. CASE v \in HeapPages(m, img)
      BY <2>1, <3>3, Rights DEF Layout, Present
    <3>4. CASE at = "vga_clear" /\ v \in InitOf(img)
      <4>1. Walk(m, v) = [pma |-> v, flags |-> Kernel]
        BY <2>1, <2>3, <3>4 DEF Layout
      <4> QED
        BY <4>1, Rights DEF Present
    <3>5. CASE PID # 0 /\ v = USER_STACK
      BY <3>5, StackIs, Rights DEF Present
    <3> QED
      BY <3>1, <3>2, <3>3, <3>4, <3>5
  <2>5. ASSUME NEW c \in tlb, c.to # Walk(m, c.vma) PROVE c.vma \notin Used
    <3>1. c \notin Cacheable(m)
      <4> SUFFICES ASSUME c \in Cacheable(m) PROVE FALSE
        OBVIOUS
      <4>1. PICK v \in Pages : c = [vma |-> v, to |-> Walk(m, v)]
        BY DEF Cacheable
      <4> QED
        BY <2>5, <4>1
    <3>2. c.vma \in InitOf(img) \ InitLeft
      BY <2>1, <3>1 DEF Cached
    <3>3. c.vma \notin StaticOf(img) /\ c.vma \notin HeapPages(m, img) /\ c.vma # USER_STACK
      BY <2>1, <3>2, InitApart
    <3> QED
      BY <2>2, <2>3, <3>2, <3>3 DEF Used
  <2> QED
    BY <2>4, <2>5
<1> QED
  BY <1>1, BootCorrect, PTL

-----------------------------------------------------------------------------
(* Memory that nobody wrote to.                                            *)

\* Entries that were written stay so.
EntriesKept(x, y) ==
    \A f \in DOMAIN x.tables, j \in Indexes : y.tables[f][j] = JUNK => x.tables[f][j] = JUNK

\* A memory is a record of its fields.
Fields(x) ==
    x = [dir |-> x.dir, lookup |-> x.lookup, tables |-> x.tables,
         next_pma |-> x.next_pma, heap |-> x.heap, offset |-> x.offset,
         free |-> x.free, zero |-> x.zero, fault |-> x.fault]

Typed(x) == x.tables \in [DOMAIN x.tables -> [Indexes -> Entries]]

\* The memory y has no entry unwritten that x has written.
Keeps(x, y) == Fields(y) /\ EntriesKept(x, y) /\ y.dir = x.dir

\* What is mapped for the heap is written.
LEMMA MapHeapWrites ==
    ASSUME NEW x, Fields(x), NEW frames
    PROVE  Keeps(x, MapHeap(x, frames))
<1> DEFINE y == MapHeap(x, frames)
           here(f, i) == {j \in DOMAIN frames :
                            /\ page_get_table(x, x.heap + j - 1).pma = f
                            /\ page_get_table_idx(x.heap + j - 1) = i}
<1>1. CASE \E j \in DOMAIN frames : ~Reachable(x, x.heap + j - 1)
  <2>1. y = [x EXCEPT !.fault = TRUE]
    BY <1>1 DEF MapHeap
  <2>2. y.tables = x.tables /\ y.dir = x.dir /\ Fields(y)
    BY <2>1 DEF Fields
  <2> QED
    BY <2>2 DEF EntriesKept, Keeps
<1>2. CASE ~\E j \in DOMAIN frames : ~Reachable(x, x.heap + j - 1)
  <2> DEFINE T == [f \in DOMAIN x.tables |-> [i \in Indexes |->
                     IF here(f, i) = {} THEN x.tables[f][i]
                     ELSE [pma |-> frames[CHOOSE j \in here(f, i) : TRUE], flags |-> Kernel]]]
  <2>1. y = [x EXCEPT !.heap = @ + Len(frames), !.tables = T]
    BY <1>2 DEF MapHeap
  <2> HIDE DEF T
  <2>2. y.tables = T /\ y.dir = x.dir /\ Fields(y)
    BY <2>1 DEF Fields
  <2>3. ASSUME NEW f \in DOMAIN x.tables, NEW i \in Indexes, T[f][i] = JUNK
        PROVE  x.tables[f][i] = JUNK
    <3> HIDE DEF here
    <3>1. T[f][i] = IF here(f, i) = {} THEN x.tables[f][i]
                    ELSE [pma |-> frames[CHOOSE j \in here(f, i) : TRUE], flags |-> Kernel]
      BY DEF T
    <3>2. JUNK.flags # Kernel
      BY Rights
    <3> QED
      BY <2>3, <3>1, <3>2
  <2> QED
    BY <2>2, <2>3 DEF EntriesKept, Keeps
<1> QED
  BY <1>1, <1>2

\* page_new writes no entries.
LEMMA TakingWrites ==
    ASSUME NEW x, Fields(x), NEW n
    PROVE  LET y == AfterNew(x, n) IN Fields(y) /\ y.tables = x.tables /\ y.dir = x.dir
<1> DEFINE free == SubSeq(x.free, n + 1, Len(x.free))
           next == IF n <= Len(x.free) THEN x.next_pma ELSE x.next_pma + n - Len(x.free)
<1>1. AfterNew(x, n) = [x EXCEPT !.free = free, !.next_pma = next]
  BY DEF AfterNew
<1> HIDE DEF free, next
<1> QED
  BY <1>1 DEF Fields

\* Nor does the heap as a whole unwrite one.
LEMMA GrowingWrites ==
    ASSUME NEW x, Fields(x)
    PROVE  /\ \A n : Keeps(x, GrowHeap(x, n))
           /\ Keeps(x, kalloc(x)) /\ Keeps(x, LapicPages(x))
<1>1. ASSUME NEW n, NEW frames PROVE Keeps(x, MapHeap(AfterNew(x, n), frames))
  <2> DEFINE z == AfterNew(x, n)
  <2>1. Fields(z) /\ z.tables = x.tables /\ z.dir = x.dir
    BY TakingWrites
  <2> HIDE DEF z
  <2>2. Keeps(z, MapHeap(z, frames))
    BY <2>1, MapHeapWrites
  <2>3. Keeps(x, MapHeap(z, frames))
    BY <2>1, <2>2 DEF EntriesKept, Keeps
  <2> QED
    BY <2>3 DEF z
<1> QED
  BY <1>1 DEF GrowHeap, kalloc, LapicPages

\* Writing one entry.
LEMMA EntryWrites ==
    ASSUME NEW D, NEW T \in [D -> [Indexes -> Entries]], NEW F, NEW J, NEW e, e # JUNK,
           NEW f \in D, NEW j \in Indexes, [T EXCEPT ![F] = [T[F] EXCEPT ![J] = e]][f][j] = JUNK
    PROVE  T[f][j] = JUNK
<1> DEFINE W == [T[F] EXCEPT ![J] = e]
<1>1. CASE f = F
  <2>1. [T EXCEPT ![F] = W][f] = W
    BY <1>1
  <2>2. T[f] \in [Indexes -> Entries]
    OBVIOUS
  <2>3. W[j] = IF j = J THEN e ELSE T[f][j]
    BY <1>1, <2>2
  <2> QED
    BY <2>1, <2>3
<1>2. CASE f # F
  <2>1. [T EXCEPT ![F] = W][f] = T[f]
    BY <1>2
  <2> QED
    BY <2>1
<1> QED
  BY <1>1, <1>2

\* Unmapping a page leaves its frame in the entry.
LEMMA UnmapWrites ==
    ASSUME NEW x, NEW g \in Images, NEW left, NEW p, NEW stacks,
           Space(x, g, left, p, stacks), NEW v \in left
    PROVE  Keeps(x, page_unmap(x, v)) /\ Keeps(x, page_free(x, v))
<1> DEFINE e == [page_get_entry(x, v) EXCEPT !.flags = @ \ {PRESENT}]
           y == page_unmap(x, v)
           F == page_get_table(x, v).pma
           J == page_get_table_idx(v)
           T == [x.tables EXCEPT ![F] = [x.tables[F] EXCEPT ![J] = e]]
<1>1. Fields(x) /\ Typed(x)
  BY SpaceParts, MemoryParts DEF Fields, Typed
<1>2. e # JUNK
  <2>1. v \in Pages /\ page_get_entry(x, v) \in Entries /\ page_get_entry(x, v).pma = v
    BY LeftMapped
  <2>2. v \in Nat
    BY <2>1, PageParts
  <2>3. e.pma = v
    BY <2>1 DEF Entries
  <2>4. JUNK.pma = -1 /\ JUNK.pma # v
    BY <2>2 DEF JUNK
  <2> QED
    BY <2>3, <2>4
<1>3. Reachable(x, v)
  BY LeftMapped, ReachIs, SpaceParts
<1>4. y = [x EXCEPT !.tables = T]
  BY <1>3 DEF page_unmap, page_set_entry
<1>5. \A f \in DOMAIN x.tables, j \in Indexes : T[f][j] = JUNK => x.tables[f][j] = JUNK
  <2> HIDE DEF e, F, J
  <2> QED
    BY <1>1, <1>2, EntryWrites DEF Typed
<1> HIDE DEF T
<1>6. y.tables = T /\ y.dir = x.dir /\ Fields(y)
  BY <1>1, <1>4 DEF Fields
<1> DEFINE l == <<page_get_entry(x, v).pma>> \o y.free
<1>7. page_free(x, v) = [y EXCEPT !.free = l]
  BY DEF page_free
<1> HIDE DEF y, l
<1>8. page_free(x, v).tables = y.tables /\ page_free(x, v).dir = y.dir /\ Fields(page_free(x, v))
  BY <1>6, <1>7 DEF Fields
<1> QED
  BY <1>5, <1>6, <1>8 DEF EntriesKept, Keeps, y

\* Tables that ring 3 may walk stay swept if their entries stay written.
LEMMA SweptKept ==
    ASSUME NEW x, NEW y, Swept(x), Rooted(x), Keeps(x, y)
    PROVE  Swept(y)
<1> SUFFICES ASSUME NEW i \in Indexes \ {USER_DIR}, Present(y.dir[i]), PUBLIC \in y.dir[i].flags,
                    NEW j \in Indexes
             PROVE  y.tables[y.dir[i].pma][j] # JUNK
  BY DEF Swept
<1>1. y.dir[i] = x.dir[i]
  BY DEF Keeps
<1>2. x.dir[i].pma \in DOMAIN x.tables /\ x.tables[x.dir[i].pma][j] # JUNK
  BY <1>1 DEF Swept, Rooted
<1> QED
  BY <1>1, <1>2 DEF EntriesKept, Keeps

\* And if a table is put into a frame that ring 3 does not walk.
LEMMA SweptPut ==
    ASSUME NEW x, NEW y, Swept(x), Rooted(y), NEW f,
           \A h \in DOMAIN y.tables : h # f => y.tables[h] = x.tables[h],
           \A i \in Indexes \ {USER_DIR} : Present(y.dir[i]) /\ PUBLIC \in y.dir[i].flags =>
             y.dir[i] = x.dir[i] /\ y.dir[i].pma # f
    PROVE  Swept(y)
<1> SUFFICES ASSUME NEW i \in Indexes \ {USER_DIR}, Present(y.dir[i]), PUBLIC \in y.dir[i].flags,
                    NEW j \in Indexes
             PROVE  y.tables[y.dir[i].pma][j] # JUNK
  BY DEF Swept
<1>1. y.dir[i] = x.dir[i] /\ y.dir[i].pma # f /\ y.dir[i].pma \in DOMAIN y.tables
  BY DEF Rooted
<1>2. y.tables[y.dir[i].pma] = x.tables[y.dir[i].pma]
  BY <1>1
<1>3. x.tables[x.dir[i].pma][j] # JUNK
  BY <1>1 DEF Swept
<1> QED
  BY <1>1, <1>2, <1>3

\* Directory entries lead to tables, tables lie below the APIC's frame.
Grounded(x) == Rooted(x) /\ DOMAIN x.tables \subseteq 0 .. LAPIC_BASE - 1 /\ MemoryOK(x)

LEMMA GroundedNow == BootInvariant => Grounded(m)
<1> SUFFICES ASSUME BootInvariant PROVE Grounded(m)
  OBVIOUS
<1>1. img \in Images /\ MemoryOK(m) /\ LAPIC_BASE \in Nat
  BY Numbers DEF BootInvariant
<1>2. m.next_pma \in Nat /\ m.next_pma < LAPIC_BASE
  BY <1>1 DEF MemoryOK
<1>3. CASE at \in Setup
  <2>1. Numbered(m, img)
    BY <1>3, SetupState
  <2>2. Rooted(m) /\ DOMAIN m.tables = kernel_end_pma(img) .. m.next_pma - 1
    BY <1>1, <2>1, NumberedParts
  <2>3. kernel_end_pma(img) \in Nat
    BY <1>1, ImageFacts
  <2> QED
    BY <1>1, <1>2, <2>2, <2>3 DEF Grounded
<1>4. CASE at \notin Setup
  <2>1. Space(m, img, InitLeft, PID, StackFrames)
    BY <1>4, KernelSpace DEF Enabled
  <2>2. Rooted(m) /\ DOMAIN m.tables \subseteq Frames(m, img, InitLeft) /\ kernel_end_pma(img) <= m.next_pma
    BY <2>1, ConnectedRooted DEF Space, Apart
  <2>3. \A f \in Frames(m, img, InitLeft) : f \in Nat /\ f < m.next_pma
    BY <1>1, <1>2, <2>2, FrameRange
  <2>4. \A f \in DOMAIN m.tables : f \in 0 .. LAPIC_BASE - 1
    BY <1>1, <1>2, <2>2, <2>3
  <2> QED
    BY <1>1, <2>2, <2>4 DEF Grounded
<1> QED
  BY <1>3, <1>4

LEMMA GroundedNext == BootInvariant' => Grounded(m)'
BY GroundedNow, PTL

\* What init_map_kernel's loops map are pages with frames.
LEMMA NextPage ==
    ASSUME BootInvariant, InitMap
    PROVE  todo[k + 1].pma \in Nat
<1> DEFINE r == todo[k + 1]
<1>1. at \in Setup /\ k < Len(todo)
  BY DEF InitMap
<1>2. /\ img \in Images /\ MemoryOK(m) /\ Numbered(m, img) /\ k \in Nat /\ k \in 0 .. Len(todo)
  BY <1>1, SetupState
<1>3. r \in First(todo, k + 1)
  BY <1>2, FirstNext
<1>4. CASE at = "map"
  <2>1. todo = Predictable(img)
    BY <1>1, <1>4, SetupState
  <2>2. todo \in Seq(Rec) /\ Elems(todo) = Loaded(img)
    BY <1>2, <2>1, PredictableIs
  <2>3. PICK l \in Nat : l = Len(todo)
    BY <2>2, LenProperties
  <2>4. k + 1 \in Nat /\ k + 1 <= l
    BY <1>1, <1>2, <2>3
  <2>5. r \in Loaded(img)
    BY <1>3, <2>2, <2>3, <2>4, FirstSome DEF Elems
  <2> QED
    BY <1>2, <2>5, LoadedFacts DEF PageRec
<1>5. CASE at = "tables"
  <2>1. PICK n \in Nat : n = m.offset - 1
    <3>1. m.offset - 1 \in 0 .. BootTables(img) /\ BootTables(img) \in Nat
      BY <1>2, NumberedParts, ImageFacts
    <3>2. m.offset - 1 \in Nat
      BY <3>1
    <3> QED
      BY <3>2
  <2>2. todo = PageRun(n, HeapStart(img), kernel_end_pma(img), Kernel)
    BY <1>1, <1>5, <2>1, SetupState
  <2>3. kernel_end_pma(img) \in Nat
    BY <1>2, ImageFacts
  <2>4. Len(todo) = n
    BY <2>1, <2>2 DEF PageRun
  <2>5. k + 1 \in 1 .. n
    BY <1>1, <1>2, <2>4
  <2>6. r.pma = kernel_end_pma(img) + (k + 1) - 1
    BY <2>2, <2>5 DEF PageRun
  <2> QED
    BY <1>2, <2>3, <2>6
<1> QED
  BY <1>1, <1>4, <1>5 DEF Setup

\* An entry that init_page_map writes.
LEMMA SetEntryWrites ==
    ASSUME NEW x, Fields(x), Typed(x), NEW r, r.pma \in Nat
    PROVE  Keeps(x, SetEntry(x, r))
<1> DEFINE F == x.dir[page_get_dir_idx(r.vma)].pma
           J == page_get_table_idx(r.vma)
           e == [pma |-> r.pma, flags |-> x.tables[F][J].flags \cup r.flags]
           T == [x.tables EXCEPT ![F] = [x.tables[F] EXCEPT ![J] = e]]
<1>1. SetEntry(x, r) = [x EXCEPT !.tables = T]
  BY DEF SetEntry
<1>2. e # JUNK
  <2>1. e.pma = r.pma /\ JUNK.pma = -1
    BY DEF JUNK
  <2> QED
    BY <2>1
<1>3. \A f \in DOMAIN x.tables, j \in Indexes : T[f][j] = JUNK => x.tables[f][j] = JUNK
  <2> HIDE DEF e, F, J
  <2> QED
    BY <1>2, EntryWrites DEF Typed
<1> HIDE DEF T
<1> QED
  BY <1>1, <1>3 DEF Fields, Keeps, EntriesKept

\* init_page_table_new clears what it allocates.
LEMMA InitMapSweeps ==
    ASSUME BootInvariant, InitMap, Swept(m)
    PROVE  Swept(m')
<1> DEFINE r == todo[k + 1]
           i == page_get_dir_idx(r.vma)
           n == m.next_pma
           z == init_page_table_new(m, i)
           T == WithTable(m, n, NONE)
<1>1. m' = init_page_map(m, r) /\ at \in Setup /\ r.pma \in Nat
  BY NextPage DEF InitMap
<1>2. img \in Images /\ MemoryOK(m) /\ Numbered(m, img) /\ Rooted(m)
  BY <1>1, SetupState, NumberedParts
<1>3. Fields(m) /\ Typed(m) /\ m.dir \in [Indexes -> Entries]
  BY <1>2, MemoryParts DEF Fields, Typed
<1> HIDE DEF r, i
<1>4. CASE Present(m.dir[i])
  <2>1. m' = SetEntry(m, r)
    BY <1>1, <1>4 DEF init_page_map, i
  <2> QED
    BY <1>1, <1>2, <1>3, <2>1, SetEntryWrites, SweptKept
<1>5. CASE ~Present(m.dir[i])
  <2>1. m' = SetEntry(z, r)
    BY <1>1, <1>5 DEF init_page_map, i
  <2>2. /\ z.tables = T /\ z.dir = [m.dir EXCEPT ![i] = [pma |-> n, flags |-> User]] /\ Fields(z)
    <3> HIDE DEF T, n
    <3>1. z = [m EXCEPT !.tables = T, !.dir[i] = [pma |-> n, flags |-> User], !.next_pma = @ + 1,
                        !.lookup[i] = m.offset, !.offset = @ + 1]
      BY DEF init_page_table_new, T, n
    <3> HIDE DEF z
    <3> QED
      BY <1>3, <3>1 DEF Fields
  <2>3. DOMAIN T = DOMAIN m.tables \cup {n} /\ (\A j \in Indexes : T[n][j] = NONE)
        /\ \A f \in DOMAIN m.tables : f # n => T[f] = m.tables[f]
    BY DEF WithTable
  <2>4. n \notin DOMAIN m.tables
    <3>1. DOMAIN m.tables = kernel_end_pma(img) .. n - 1 /\ n \in Nat
      BY <1>2, NumberedParts, MemoryParts
    <3> HIDE DEF n
    <3> QED
      BY <3>1
  <2>5. Typed(z)
    <3>1. T \in [DOMAIN m.tables \cup {n} -> [Indexes -> Entries]]
      BY <1>3, Rights DEF WithTable, Typed
    <3> HIDE DEF T
    <3> QED
      BY <2>2, <2>3, <3>1 DEF Typed
  <2> HIDE DEF T, z, n
  <2>6. Rooted(z) /\ Swept(z)
    <3>1. ASSUME NEW h \in Indexes, Present(z.dir[h])
          PROVE  /\ z.dir[h].pma \in DOMAIN z.tables
                 /\ h # USER_DIR /\ PUBLIC \in z.dir[h].flags =>
                      \A j \in Indexes : z.tables[z.dir[h].pma][j] # JUNK
      <4>1. CASE h = i
        <5>1. z.dir[h].pma = n
          BY <1>3, <2>2, <4>1
        <5>2. NONE # JUNK
          BY DEF NONE, JUNK
        <5> QED
          BY <2>2, <2>3, <5>1, <5>2
      <4>2. CASE h # i
        <5>1. z.dir[h] = m.dir[h]
          BY <1>3, <2>2, <4>2
        <5>2. m.dir[h].pma \in DOMAIN m.tables /\ m.dir[h].pma # n
          BY <1>2, <2>4, <3>1, <5>1 DEF Rooted
        <5>3. z.tables[z.dir[h].pma] = m.tables[m.dir[h].pma]
          BY <2>2, <2>3, <5>1, <5>2
        <5> QED
          BY <2>2, <2>3, <3>1, <5>1, <5>2, <5>3 DEF Swept
      <4> QED
        BY <4>1, <4>2
    <3> QED
      BY <3>1 DEF Rooted, Swept
  <2> QED
    BY <1>1, <2>1, <2>2, <2>5, <2>6, SetEntryWrites, SweptKept
<1> QED
  BY <1>4, <1>5

\* What is freed or unmapped of the init section.
LEMMA CleanupSweeps ==
    ASSUME BootInvariant, CleanupFree \/ CleanupUnmap, Swept(m)
    PROVE  Swept(m')
<1>1. at = "free" /\ k \in InitOf(img) /\ k < INIT_BSS_END(img)
      /\ at \notin Setup \cup {"proc_loop", "handler"} /\ at # "register"
      /\ Space(m, img, InitLeft, 0, {}) /\ img \in Images /\ MemoryOK(m)
  <2>1. at = "free" /\ at \notin Setup \cup {"proc_loop", "handler"} /\ at # "register"
    BY DEF CleanupFree, CleanupUnmap, Setup
  <2>2. Space(m, img, InitLeft, 0, {}) /\ img \in Images /\ Progress /\ MemoryOK(m)
    BY <2>1, EarlyState
  <2>3. INIT_START \in Nat /\ INIT_BSS_END(img) \in Nat /\ k \in INIT_START .. INIT_BSS_END(img)
    BY <2>1, <2>2, ImageFacts, Numbers DEF Progress
  <2>4. k < INIT_BSS_END(img)
    <3>1. INIT_STRUCT(img) \in Nat /\ INIT_STRUCT(img) + 3 <= INIT_BSS_END(img)
      BY <2>2, ImageFacts
    <3> QED
      BY <2>3, <3>1 DEF CleanupFree, CleanupUnmap, StructPages
  <2> QED
    BY <2>1, <2>2, <2>3, <2>4 DEF InitOf
<1>2. k \in InitLeft
  BY <1>1, ImageFacts, Numbers DEF InitLeft, InitOf
<1>3. Fields(m) /\ Rooted(m)
  BY <1>1, MemoryParts, SpaceParts, ConnectedRooted DEF Fields
<1>4. CASE CleanupUnmap
  <2>1. m' = page_unmap(m, k)
    BY <1>4 DEF CleanupUnmap
  <2> QED
    BY <1>1, <1>2, <1>3, <2>1, UnmapWrites, SweptKept
<1>5. CASE CleanupFree
  <2>1. PICK grow \in BOOLEAN :
          /\ grow => m.heap = BSS_END_VMA(img) + 2 + VGA_PAGES + Len(todo) + 1
          /\ LET x == page_clear(m, k)
             IN  m' = page_free(IF grow THEN GrowHeap(x, 1) ELSE x, k)
    BY <1>5 DEF CleanupFree
  <2> DEFINE x == page_clear(m, k)
             y == IF grow THEN GrowHeap(x, 1) ELSE x
  <2>2. Space(y, img, InitLeft, 0, {})
    BY <1>1, <1>2, <2>1, NodeSpace
  <2>3. m' = page_free(y, k)
    BY <2>1
  <2>4. x.tables = m.tables /\ x.dir = m.dir /\ Fields(x)
    BY <1>3 DEF page_clear, Fields
  <2> HIDE DEF x
  <2>5. Swept(x) /\ Rooted(x)
    BY <1>3, <2>4 DEF Swept, Rooted
  <2>6. Swept(y)
    <3>1. CASE grow
      BY <2>4, <2>5, <3>1, GrowingWrites, SweptKept
    <3>2. CASE ~grow
      BY <2>5, <3>2
    <3> QED
      BY <3>1, <3>2
  <2> HIDE DEF y
  <2>7. Rooted(y)
    BY <1>1, <2>2, SpaceParts, ConnectedRooted
  <2> QED
    BY <1>1, <1>2, <2>2, <2>3, <2>6, <2>7, UnmapWrites, SweptKept
<1> QED
  BY <1>4, <1>5

\* Tables that page_init_cleanup adds are private, whatever they hold.
LEMMA TableSweeps ==
    ASSUME BootInvariant, BootInvariant', CleanupTable, Swept(m)
    PROVE  Swept(m')
<1>1. /\ m' = IF Present(m.dir[k]) THEN m ELSE KernelTable(kalloc(m), k, m.heap)
      /\ at = "kernel_tables" /\ Enabled
  BY DEF CleanupTable, Go, Enabled, Setup
<1>2. MemoryOK(m) /\ Rooted(m) /\ Rooted(m')
  BY GroundedNow, GroundedNext DEF Grounded
<1>3. CASE Present(m.dir[k])
  BY <1>1, <1>3
<1>4. CASE ~Present(m.dir[k])
  <2> DEFINE x == kalloc(m)
             f == page_get_entry(x, m.heap).pma
             e == IF f \in x.zero THEN NONE ELSE JUNK
             T == WithTable(x, f, e)
  <2>1. Fields(m)
    BY <1>2, MemoryParts DEF Fields
  <2>2. Keeps(m, x) /\ Swept(x)
    BY <1>2, <2>1, GrowingWrites, SweptKept
  <2>3. m' = [x EXCEPT !.lookup[k] = m.heap, !.dir[k] = [pma |-> f, flags |-> Kernel], !.tables = T]
    BY <1>1, <1>4 DEF KernelTable
  <2>4. \A h \in DOMAIN x.tables \cup {f} : h # f => T[h] = x.tables[h]
    BY DEF WithTable
  <2>5. DOMAIN T = DOMAIN x.tables \cup {f}
    BY DEF WithTable
  <2> HIDE DEF x, f, T
  <2>6. m'.tables = T /\ m'.dir = [x.dir EXCEPT ![k] = [pma |-> f, flags |-> Kernel]]
    BY <2>2, <2>3 DEF Keeps, Fields
  <2>7. x.dir \in [Indexes -> Entries]
    BY <1>2, <2>2, MemoryParts DEF Keeps
  <2>8. k \in Indexes
    BY <1>1, TableProgress DEF CleanupTable
  <2>9. m'.dir[k].pma = f /\ m'.dir[k].flags = Kernel /\ Present(m'.dir[k])
    BY <2>6, <2>7, <2>8, Rights DEF Present
  <2>10. Connected(m', img')
    <3>1. Enabled'
      <4>1. at' # "map" /\ at' # "tables"
        BY DEF CleanupTable, Go, Faulted
      <4> QED
        BY <4>1 DEF Enabled, Setup
    <3> QED
      BY <3>1 DEF BootInvariant, KernelPhase
  <2>11. ASSUME NEW i \in Indexes \ {USER_DIR}, Present(m'.dir[i]), PUBLIC \in m'.dir[i].flags
         PROVE  m'.dir[i] = x.dir[i] /\ m'.dir[i].pma # f
    <3>1. i # k
      BY <2>9, <2>11, Rights
    <3>2. m'.dir[i] = x.dir[i]
      BY <2>6, <2>7, <3>1
    <3>3. m'.dir[i].pma # f
      BY <2>8, <2>9, <2>10, <2>11, <3>1 DEF Connected
    <3> QED
      BY <3>2, <3>3
  <2>12. \A h \in DOMAIN m'.tables : h # f => m'.tables[h] = x.tables[h]
    BY <2>4, <2>5, <2>6
  <2> QED
    BY <1>2, <2>2, <2>11, <2>12, SweptPut
<1> QED
  BY <1>3, <1>4

\* The table of a process is not swept, but not in force either.
LEMMA RegisterSweeps ==
    ASSUME BootInvariant, BootInvariant', ProcRegister, Swept(m)
    PROVE  Swept(m')
<1> DEFINE x == kalloc(m)
           f == page_get_entry(x, m.heap).pma
           z == AfterNew(x, 1)
           s == page_new(x, 1)[1]
           U == [i \in Indexes |->
                  IF i = page_get_table_idx(USER_STACK) THEN [pma |-> s, flags |-> User]
                  ELSE IF f \in x.zero THEN NONE ELSE JUNK]
           T == [g \in DOMAIN z.tables \cup {f} |-> IF g # f THEN z.tables[g] ELSE U]
           u == [vma |-> m.heap, entry |-> [pma |-> f, flags |-> User]]
<1>1. /\ m' = UserTable(x, f) /\ at = "register" /\ k < NPROC /\ k' = k + 1 /\ img' = img
      /\ user' = [user EXCEPT ![k + 1] = u]
      /\ at' = IF m'.fault THEN Faulted ELSE "register"
  BY DEF ProcRegister, Go
<1>2. MemoryOK(m) /\ Rooted(m) /\ Rooted(m')
  BY GroundedNow, GroundedNext DEF Grounded
<1>3. Fields(m)
  BY <1>2, MemoryParts DEF Fields
<1>4. Keeps(m, x) /\ Swept(x)
  BY <1>2, <1>3, GrowingWrites, SweptKept
<1>5. m' = [z EXCEPT !.tables = T]
  BY <1>1 DEF UserTable
<1> HIDE DEF x, f, z, U
<1>6. Fields(z) /\ z.tables = x.tables /\ z.dir = x.dir
  BY <1>4, TakingWrites DEF Keeps, z
<1>7. \A h \in DOMAIN T : h # f => T[h] = x.tables[h]
  BY <1>6
<1> HIDE DEF T
<1>8. m'.tables = T /\ m'.dir = x.dir
  BY <1>5, <1>6 DEF Fields
<1>9. ProcessTable(m', img, u)
  <2>1. at' = "register"
    BY <1>1 DEF BootInvariant, Faulted
  <2>2. Enabled' /\ Registered' = k + 1
    BY <1>1, <2>1 DEF Enabled, Setup, Registered
  <2>3. \A p \in 1 .. k + 1 : ProcessTable(m', img, user'[p])
    BY <1>1, <2>2 DEF BootInvariant, KernelPhase, UserTables
  <2>4. k \in 0 .. NPROC /\ user \in [Procs -> [vma : Pages, entry : Entries]] /\ NPROC \in Nat
    BY <1>1, LateState, Numbers DEF Progress
  <2>5. k + 1 \in Procs /\ k + 1 \in 1 .. k + 1
    BY <1>1, <2>4 DEF Procs
  <2> HIDE DEF u
  <2>6. user'[k + 1] = u
    BY <1>1, <2>4, <2>5
  <2> QED
    BY <2>3, <2>5, <2>6
<1>10. \A i \in Indexes \ {USER_DIR} : Present(m'.dir[i]) => m'.dir[i].pma # f
  <2>1. u.entry.pma = f
    OBVIOUS
  <2> HIDE DEF u
  <2> QED
    BY <1>9, <2>1 DEF ProcessTable
<1>11. \A h \in DOMAIN m'.tables : h # f => m'.tables[h] = x.tables[h]
  BY <1>7, <1>8
<1>12. \A i \in Indexes \ {USER_DIR} : Present(m'.dir[i]) /\ PUBLIC \in m'.dir[i].flags =>
         m'.dir[i] = x.dir[i] /\ m'.dir[i].pma # f
  BY <1>8, <1>10
<1>13. Swept(x) /\ Rooted(m')
  BY <1>2, <1>4
<1>14. PICK y, t, h : y = m' /\ t = x /\ h = f
  OBVIOUS
<1> HIDE DEF u, s
<1> QED
  BY <1>11, <1>12, <1>13, <1>14, SweptPut

\* Nor does a switch put it in force elsewhere.
LEMMA SwitchSweeps ==
    ASSUME BootInvariant, ProcNext, Swept(m)
    PROVE  Swept(m')
<1>1. PICK q : m' = Map(Unmap(m, PID), q)
  BY DEF ProcNext
<1> DEFINE x == Unmap(m, PID)
<1>2. Fields(m) /\ m.dir \in [Indexes -> Entries]
  BY MemoryParts DEF BootInvariant, Fields
<1>3. Fields(x) /\ x.tables = m.tables /\ DOMAIN x.dir = Indexes /\ \A i \in Indexes \ {USER_DIR} : x.dir[i] = m.dir[i]
  BY <1>2 DEF Unmap, page_set_dir_entry, Fields
<1> HIDE DEF x
<1>4. m' = Map(x, q)
  BY <1>1 DEF x
<1>5. m'.tables = x.tables /\ \A i \in Indexes \ {USER_DIR} : m'.dir[i] = x.dir[i]
  BY <1>3, <1>4 DEF Map, page_set_dir_entry, Fields
<1> QED
  BY <1>3, <1>5 DEF Swept

\* No step leaves ring 3 a table with an entry nobody wrote, other than the
\* one of the process that runs.
LEMMA SweptStep ==
    ASSUME BootInvariant, BootInvariant', Swept(m), [Next]_vars
    PROVE  Swept(m)'
<1> SUFFICES Swept(m')
  OBVIOUS
<1>1. MemoryOK(m) /\ Rooted(m) /\ Fields(m)
  BY GroundedNow, MemoryParts DEF Grounded, Fields
<1>2. (m'.dir = m.dir /\ m'.tables = m.tables) => Swept(m')
  BY DEF Swept
<1>3. m' = m => Swept(m')
  OBVIOUS
<1>4. Keeps(m, m') => Swept(m')
  BY <1>1, SweptKept
<1>5. CASE InitMap
  BY <1>5, InitMapSweeps
<1>6. CASE InitEnable
  <2> DEFINE L == [i \in Indexes |-> IF m.lookup[i] = NULL THEN NULL ELSE m.lookup[i] + m.heap - 1]
  <2>1. m' = [m EXCEPT !.lookup = L, !.heap = @ + Len(todo)]
    BY <1>6 DEF InitEnable, LookupAbsolute
  <2> HIDE DEF L
  <2>2. m'.dir = m.dir /\ m'.tables = m.tables
    BY <1>1, <2>1 DEF Fields
  <2> QED
    BY <1>2, <2>2
<1>7. CASE VgaClear
  <2>1. PICK b : m' = [m EXCEPT !.fault = b]
    BY <1>7 DEF VgaClear, Go
  <2>2. m'.dir = m.dir /\ m'.tables = m.tables
    BY <1>1, <2>1 DEF Fields
  <2> QED
    BY <1>2, <2>2
<1>8. CASE KmallocInit
  <2>1. m' = [m EXCEPT !.heap = @ + 1] \/ m' = GrowHeap(m, 1)
    BY <1>8 DEF KmallocInit, Go
  <2>2. CASE m' = [m EXCEPT !.heap = @ + 1]
    <3>1. m'.dir = m.dir /\ m'.tables = m.tables
      BY <1>1, <2>2 DEF Fields
    <3> QED
      BY <1>2, <3>1
  <2>3. CASE m' = GrowHeap(m, 1)
    BY <1>1, <1>4, <2>3, GrowingWrites
  <2> QED
    BY <2>1, <2>2, <2>3
<1>9. CASE CleanupFree \/ CleanupUnmap
  BY <1>9, CleanupSweeps
<1>10. CASE CleanupTable
  BY <1>10, TableSweeps
<1>11. CASE ApicInit
  BY <1>1, <1>4, <1>11, GrowingWrites DEF ApicInit, Go
<1>12. CASE ProcTable
  <2>1. m' = m \/ m' = GrowHeap(m, 1)
    BY <1>12 DEF ProcTable, Go
  <2> QED
    BY <1>1, <1>4, <2>1, GrowingWrites
<1>13. CASE ProcInit
  BY <1>1, <1>4, <1>13, GrowingWrites DEF ProcInit, Go
<1>14. CASE ProcRegister
  BY <1>14, RegisterSweeps
<1>15. CASE ProcNext
  BY <1>15, SwitchSweeps
<1>16. CASE \/ InitTables \/ GdtInit \/ IntInit \/ CleanupDone \/ CleanupEnd \/ ApicMissing
            \/ ProcLoop \/ Tick \/ ProcStay \/ Stopped \/ UNCHANGED vars
  <2>1. m' = m
    BY <1>16 DEF InitTables, GdtInit, IntInit, CleanupDone, CleanupEnd, ApicMissing, ProcLoop,
                 Tick, ProcStay, Stopped, vars
  <2> QED
    BY <1>3, <2>1
<1> QED
  BY <1>5, <1>6, <1>7, <1>8, <1>9, <1>10, <1>11, <1>12, <1>13, <1>14, <1>15, <1>16 DEF Next, Steps

\* Through an entry nobody wrote ring 3 reaches nothing but in the table of the
\* process that runs, whatever the memory holds.
LEMMA StrayIs ==
    ASSUME NEW x, Grounded(x), Swept(x), NEW c \in Strays(x)
    PROVE  /\ c.vma \in Pages /\ c.to \in Entries /\ Present(x.dir[page_get_dir_idx(c.vma)])
           /\ PUBLIC \in c.to.flags => page_get_dir_idx(c.vma) = USER_DIR
<1>1. PICK v \in Unwritten(x) : c = [vma |-> v, to |-> Found(x, v)]
  BY DEF Strays
<1> DEFINE i == page_get_dir_idx(v)
           j == page_get_table_idx(v)
           d == x.dir[i]
           e == Ram[d.pma][j]
<1>2. v \in Pages /\ Present(d) /\ x.tables[d.pma][j] = JUNK /\ c.vma = v /\ c.to = Found(x, v)
  BY <1>1 DEF Unwritten
<1>3. i \in Indexes /\ j \in Indexes
  BY <1>2, PageParts
<1>4. d.pma \in 0 .. LAPIC_BASE - 1
  BY <1>2, <1>3 DEF Grounded, Rooted
<1>5. e \in Entries
  BY <1>3, <1>4, RamAssumption
<1>6. Found(x, v) = [e EXCEPT !.flags = e.flags \cap d.flags]
  BY DEF Found
<1> HIDE DEF e, d
<1>7. Found(x, v) \in Entries /\ Found(x, v).flags \subseteq d.flags
  BY <1>5, <1>6 DEF Entries
<1>8. PUBLIC \in c.to.flags => i = USER_DIR
  BY <1>2, <1>3, <1>7 DEF Swept, d
<1> QED
  BY <1>2, <1>7, <1>8 DEF d

\* What may be cached from such memory.
LEMMA StrayStep ==
    ASSUME BootInvariant, BootInvariant', Swept(m'), StraysPrivate, [Next]_vars
    PROVE  StraysPrivate'
<1>1. Grounded(m) /\ Grounded(m')
  BY GroundedNow, GroundedNext
<1>2. ASSUME NEW c \in Strays(m'), Enabled'
      PROVE  /\ Enabled' /\ c.vma \in Pages /\ c.to \in Entries
             /\ PUBLIC \in c.to.flags => c \in Inherited'
  BY <1>1, <1>2, StrayIs DEF Inherited
<1>3. ASSUME at \notin Setup, at \notin {"proc_loop", "handler"}, NEW c \in stray
      PROVE  c.vma \in Pages /\ c.to \in Entries /\ PUBLIC \notin c.to.flags
  <2>1. c.vma \in Pages /\ c.to \in Entries /\ (PUBLIC \in c.to.flags => c \in Inherited)
    BY DEF StraysPrivate
  <2>2. ~Present(m.dir[USER_DIR])
    BY <1>3 DEF BootInvariant, KernelPhase, Enabled, UserTables
  <2>3. c \notin Inherited
    <3> SUFFICES ASSUME c \in Inherited PROVE FALSE
      OBVIOUS
    <3>1. c \in Strays(m) /\ page_get_dir_idx(c.vma) = USER_DIR
      BY DEF Inherited
    <3>2. PICK v \in Unwritten(m) : c = [vma |-> v, to |-> Found(m, v)]
      BY <3>1 DEF Strays
    <3>3. c.vma = v
      BY <3>2
    <3>4. Present(m.dir[page_get_dir_idx(v)])
      BY <3>2 DEF Unwritten
    <3> QED
      BY <2>2, <3>1, <3>3, <3>4
  <2> QED
    BY <2>1, <2>3
<1>4. CASE InitMap \/ InitTables
  <2>1. at \in Setup /\ stray' = stray
    BY <1>4 DEF InitMap, InitTables, Setup
  <2>2. stray = {}
    BY <2>1 DEF StraysPrivate, Enabled
  <2> QED
    BY <2>1, <2>2 DEF StraysPrivate
<1>5. CASE InitEnable \/ ProcNext
  <2>1. stray' = Strays(m') /\ Enabled'
    BY <1>5 DEF InitEnable, ProcNext, Enabled, Setup
  <2> QED
    BY <1>2, <2>1 DEF StraysPrivate
<1>6. CASE \/ VgaClear \/ KmallocInit \/ CleanupFree \/ CleanupUnmap \/ CleanupTable
           \/ ApicInit \/ ProcTable \/ ProcInit \/ ProcRegister
  <2>1. /\ stray' = stray \cup Strays(m') /\ at \notin Setup /\ at \notin {"proc_loop", "handler"}
        /\ at' \notin Setup
    BY <1>6 DEF VgaClear, KmallocInit, CleanupFree, CleanupUnmap, CleanupTable, ApicInit, ProcTable,
                ProcInit, ProcRegister, Go, Faulted, Setup
  <2>2. Enabled'
    BY <2>1 DEF Enabled
  <2>3. ASSUME NEW c \in stray'
        PROVE  /\ Enabled' /\ c.vma \in Pages /\ c.to \in Entries
               /\ PUBLIC \in c.to.flags => c \in Inherited'
    <3>1. CASE c \in Strays(m')
      BY <1>2, <2>2, <3>1
    <3>2. CASE c \in stray
      BY <1>3, <2>1, <2>2, <3>2
    <3> QED
      BY <2>1, <3>1, <3>2
  <2> QED
    BY <2>3 DEF StraysPrivate
<1>7. CASE \/ GdtInit \/ IntInit \/ CleanupDone \/ CleanupEnd \/ ApicMissing
           \/ ProcLoop \/ Tick \/ ProcStay
  <2>1. m' = m /\ stray' = stray /\ Enabled'
    BY <1>7 DEF GdtInit, IntInit, CleanupDone, CleanupEnd, ApicMissing, ProcLoop, Tick, ProcStay,
                Enabled, Setup
  <2> QED
    BY <2>1 DEF StraysPrivate, Inherited
<1>8. CASE Stopped \/ UNCHANGED vars
  <2>1. m' = m /\ stray' = stray /\ at' = at
    BY <1>8 DEF Stopped, vars
  <2> QED
    BY <2>1 DEF StraysPrivate, Inherited, Enabled
<1> QED
  BY <1>4, <1>5, <1>6, <1>7, <1>8 DEF Next, Steps

\* Kernel tables in memory nobody cleared are private, and tables that are not
\* were cleared, all but the one of the process that runs: for every content
\* of the memory, nothing else it holds comes into ring 3's reach.
THEOREM StrayCorrect == Spec => []StrayInvariant
<1>1. Init => StrayInvariant
  <2> SUFFICES ASSUME Init PROVE StrayInvariant
    OBVIOUS
  <2>1. stray = {} /\ m.dir = [i \in Indexes |-> NONE]
    BY DEF Init, Memory
  <2>2. \A i \in Indexes : ~Present(m.dir[i])
    BY <2>1, Rights
  <2> QED
    BY <2>1, <2>2 DEF StrayInvariant, Swept, StraysPrivate
<1>2. BootInvariant /\ BootInvariant' /\ StrayInvariant /\ [Next]_vars => StrayInvariant'
  <2> SUFFICES ASSUME BootInvariant, BootInvariant', StrayInvariant, [Next]_vars
               PROVE  StrayInvariant'
    OBVIOUS
  <2>1. Swept(m')
    BY SweptStep DEF StrayInvariant
  <2> QED
    BY <2>1, StrayStep DEF StrayInvariant
<1> QED
  BY <1>1, <1>2, BootCorrect, PTL DEF Spec

\* Where a translation was found that nobody made, nothing is mapped.
LEMMA StrayUnmapped ==
    ASSUME NEW x, NEW c \in Strays(x)
    PROVE  ~Present(Walk(x, c.vma))
<1>1. PICK v \in Unwritten(x) : c = [vma |-> v, to |-> Found(x, v)]
  BY DEF Strays
<1> DEFINE d == x.dir[page_get_dir_idx(v)]
<1>2. Present(d) /\ x.tables[d.pma][page_get_table_idx(v)] = JUNK /\ c.vma = v
  BY <1>1 DEF Unwritten
<1>3. Walk(x, v) = [JUNK EXCEPT !.flags = JUNK.flags \cap d.flags]
  BY <1>2 DEF Walk
<1>4. JUNK = [pma |-> -1, flags |-> {}]
  BY DEF JUNK
<1> HIDE DEF d
<1> QED
  BY <1>2, <1>3, <1>4 DEF Present

\* Ring 3 reaches the public sections and the stack of the process that runs,
\* through the tables and through what may be cached, and beyond that, whatever
\* the memory held, at most what the entries proc_register does not write in
\* that process's own table say.
THEOREM UserCorrect == Spec => []UserReach
<1>1. BootInvariant /\ StrayInvariant => UserReach
  <2> SUFFICES ASSUME BootInvariant, StrayInvariant, Enabled
               PROVE  Reach \ Inherited = UserPages(PID)
    BY DEF UserReach
  <2>1. /\ img \in Images /\ Layout(m, img, InitLeft, PID) /\ Cached /\ InitLeft \subseteq InitOf(img)
    BY KernelSpace DEF BootInvariant, KernelPhase, Space
  <2> DEFINE mine == {[vma |-> USER_STACK,
                       to |-> m.tables[user[q].entry.pma][page_get_table_idx(USER_STACK)]] :
                        q \in {PID} \ {0}}
             public == {r \in Sections(img) : PUBLIC \in r.to.flags}
  <2>2. UserPages(PID) = public \cup mine
    BY DEF UserPages, Static
  <2>3. PID # 0 => mine = {[vma |-> USER_STACK, to |-> Walk(m, USER_STACK)]}
    <3> SUFFICES ASSUME PID # 0 PROVE mine = {[vma |-> USER_STACK, to |-> Walk(m, USER_STACK)]}
      OBVIOUS
    <3>1. Walk(m, USER_STACK) = m.tables[user[PID].entry.pma][page_get_table_idx(USER_STACK)]
      BY StackIs DEF StackEntry
    <3>2. {PID} \ {0} = {PID}
      OBVIOUS
    <3> QED
      BY <3>1, <3>2
  <2>4. PID = 0 => mine = {}
    OBVIOUS
  <2> HIDE DEF mine
  <2>5. ASSUME NEW c \in tlb, PUBLIC \in c.to.flags PROVE c \in public \cup mine
    <3>1. c \in Cacheable(m)
      <4> SUFFICES ASSUME c \notin Cacheable(m) PROVE FALSE
        OBVIOUS
      <4>1. c.to = [pma |-> c.vma, flags |-> Kernel]
        BY <2>1 DEF Cached
      <4>2. c.to.flags = Kernel
        BY <4>1
      <4> QED
        BY <2>5, <4>2, Rights
    <3>2. PICK v \in Pages : Present(Walk(m, v)) /\ c = [vma |-> v, to |-> Walk(m, v)]
      BY <3>1 DEF Cacheable
    <3>3. c.vma = v /\ c.to = Walk(m, v)
      BY <3>2
    <3>4. v \notin HeapPages(m, img) /\ v \notin InitLeft
      <4>1. v \in HeapPages(m, img) => Walk(m, v).flags = Kernel
        BY <2>1 DEF Layout
      <4>2. v \in InitLeft => Walk(m, v) = [pma |-> v, flags |-> Kernel]
        BY <2>1 DEF Layout
      <4>3. v \in InitLeft => Walk(m, v).flags = Kernel
        BY <4>2
      <4> QED
        BY <2>5, <3>3, <4>1, <4>3, Rights
    <3>5. v \in StaticOf(img) \/ (PID # 0 /\ v = USER_STACK)
      BY <2>1, <3>2, <3>4 DEF Layout
    <3>6. CASE v \in StaticOf(img)
      <4>1. PICK r \in Sections(img) : r.vma = v
        BY <3>6 DEF StaticOf
      <4>2. Walk(m, v) = r.to /\ r = [vma |-> r.vma, to |-> r.to]
        BY <2>1, <4>1, SectionFacts DEF Layout
      <4>3. c = r
        BY <3>2, <4>1, <4>2
      <4> QED
        BY <2>5, <4>3
    <3>7. CASE PID # 0 /\ v = USER_STACK
      BY <2>3, <3>2, <3>7
    <3> QED
      BY <3>5, <3>6, <3>7
  <2>a. \A c \in Inherited : ~Present(Walk(m, c.vma))
    BY StrayUnmapped DEF Inherited
  <2>6. ASSUME NEW r \in public PROVE r \in tlb /\ PUBLIC \in r.to.flags /\ r \notin Inherited
    <3>1. Walk(m, r.vma) = r.to /\ r = [vma |-> r.vma, to |-> r.to] /\ Present(r.to) /\ r.vma \in Pages
      BY <2>1, SectionFacts, Regions DEF Layout
    <3>2. r \in Cacheable(m)
      BY <3>1 DEF Cacheable
    <3> QED
      BY <2>1, <2>a, <3>1, <3>2 DEF Cached
  <2>7. ASSUME NEW c \in mine PROVE c \in tlb /\ PUBLIC \in c.to.flags /\ c \notin Inherited
    <3>1. PID # 0
      BY <2>4, <2>7
    <3>2. c = [vma |-> USER_STACK, to |-> Walk(m, USER_STACK)]
      BY <2>3, <2>7, <3>1
    <3>3. Walk(m, USER_STACK).flags = User
      BY <3>1, StackIs
    <3>4. Present(Walk(m, USER_STACK)) /\ USER_STACK \in Pages
      BY <3>3, Rights, Constants DEF Present
    <3>5. c \in Cacheable(m)
      BY <3>2, <3>4 DEF Cacheable
    <3>6. c.vma = USER_STACK /\ c.to.flags = User
      BY <3>2, <3>3
    <3> QED
      BY <2>1, <2>a, <3>4, <3>5, <3>6, Rights DEF Cached
  <2>8. ASSUME NEW c \in stray, PUBLIC \in c.to.flags PROVE c \in Inherited
    BY <2>8 DEF StrayInvariant, StraysPrivate
  <2> QED
    BY <2>2, <2>5, <2>6, <2>7, <2>8 DEF Reach
<1> QED
  BY <1>1, BootCorrect, StrayCorrect, PTL

\* The timer's registers, as lapic_timer_init leaves them.
LEMMA TimerDelivers == Delivers(lapic_timer_init({16}), IDT_VECTOR_TIMER)
<1> DEFINE regs == lapic_timer_init({16})
           timer == lvt(Bits(IDT_VECTOR_TIMER), APIC_TIMER_PERIODIC)
<1>1. APIC_LVT_TR_IDX = 200 /\ APIC_INIT_COUNT_IDX = 224 /\ APIC_DIV_CONFIG_IDX = 248
  BY DEF APIC_LVT_TR_IDX, APIC_INIT_COUNT_IDX, APIC_DIV_CONFIG_IDX
<1>2. DOMAIN regs = {200, 248, 224} /\ regs[200] = timer /\ regs[224] = {16}
  BY <1>1 DEF lapic_timer_init
<1>3. IDT_VECTOR_TIMER = 65
  BY DEF IDT_VECTOR_TIMER
\* The vector has eight bits.
<1>4. Bits(65) \subseteq 0 .. 7
  <2>1. /\ (65 \div 2 ^ 8) % 2 # 1 /\ (65 \div 2 ^ 9) % 2 # 1 /\ (65 \div 2 ^ 10) % 2 # 1
        /\ (65 \div 2 ^ 11) % 2 # 1 /\ (65 \div 2 ^ 12) % 2 # 1 /\ (65 \div 2 ^ 13) % 2 # 1
        /\ (65 \div 2 ^ 14) % 2 # 1 /\ (65 \div 2 ^ 15) % 2 # 1
    OBVIOUS
  <2>2. \A b \in 0 .. 15 : \/ b \in 0 .. 7
                           \/ b = 8 \/ b = 9 \/ b = 10 \/ b = 11 \/ b = 12 \/ b = 13 \/ b = 14 \/ b = 15
    OBVIOUS
  <2>3. \A b \in 0 .. 15 : (65 \div 2 ^ b) % 2 = 1 => b \in 0 .. 7
    BY <2>1, <2>2, Zenon
  <2> QED
    BY <2>3 DEF Bits
<1> DEFINE B == Bits(65)
<1>5. B \in SUBSET Int /\ B \in SUBSET (0 .. 7)
  BY <1>4
<1> HIDE DEF B
<1>6. timer = B \cup Shl({0}, 17)
  <2>1. B \cap (0 .. 7) = B /\ APIC_TIMER_PERIODIC \cap {0, 1} = {0}
    BY <1>5 DEF APIC_TIMER_PERIODIC
  <2> QED
    BY <1>3, <2>1 DEF lvt, B
<1>7. Shl({0}, 17) = {17}
  BY DEF Shl
<1> HIDE DEF timer, regs
<1>8. timer = B \cup {17} /\ timer \in SUBSET Int
  <2>1. timer = B \cup {17}
    BY <1>6, <1>7
  <2> QED
    BY <1>5, <2>1
<1>9. Field(timer, 0, 7) = B
  <2>1. timer \cap (0 .. 7) = B
    <3>1. 17 \notin 0 .. 7
      OBVIOUS
    <3>2. timer = B \cup {17} /\ B \subseteq 0 .. 7
      BY <1>5, <1>8
    <3> QED
      BY <3>1, <3>2, Zenon
  <2>2. \A b \in Int : b \in Shr(B, 0) <=> b \in B
    BY <1>5, ShrBit
  <2>3. Shr(B, 0) \in SUBSET Int
    BY <1>5, ShiftType
  <2> QED
    BY <1>5, <2>1, <2>2, <2>3, SameBits DEF Field
<1>10. Field(timer, 8, 10) = {}
  <2>1. timer \cap (8 .. 10) = {}
    BY <1>5, <1>8
  <2> QED
    BY <2>1 DEF Field, Shr
<1>11. Field(timer, 17, 18) = {0}
  <2>1. timer \cap (17 .. 18) = {17}
    BY <1>5, <1>8
  <2> QED
    BY <2>1 DEF Field, Shr
<1>12. 16 \notin timer
  BY <1>5, <1>8
<1>13. {200, 224} \subseteq DOMAIN regs /\ regs[224] # {}
  BY <1>2
<1> QED
  BY <1>2, <1>3, <1>9, <1>10, <1>11, <1>12, <1>13 DEF Delivers, regs, B

\* When interrupts are enabled, everything an interrupt needs is in place.
THEOREM InterruptCorrect == Spec => []InterruptReady
<1>1. BootInvariant => InterruptReady
  <2> SUFFICES ASSUME BootInvariant, cpu.ie = 1 PROVE InterruptReady
    BY DEF InterruptReady
  <2>1. at = "proc_loop"
    BY DEF BootInvariant, CpuSet
  <2>2. Enabled /\ cpu.gdt /\ cpu.idt
    BY <2>1 DEF BootInvariant, CpuSet, Enabled, Setup
  <2>3. Devices /\ Layout(m, img, InitLeft, PID)
    BY <2>2 DEF BootInvariant, KernelPhase
  <2>4. HeapRange = HeapPages(m, img)
    BY DEF HeapRange, HeapPages, HeapStart
  <2>5. /\ cpu.lapic \in HeapPages(m, img) /\ Walk(m, cpu.lapic).pma = LAPIC_BASE
        /\ cpu.regs = lapic_timer_init({16})
        /\ cpu.esp0 - 1 \in HeapPages(m, img)
        /\ Walk(m, cpu.esp0 - 1).pma \notin DOMAIN m.tables \cup {LAPIC_BASE}
    BY <2>1, <2>3 DEF Devices
  <2>6. StackReady
    <3>1. TaskReady(TssAddr)
      BY BootAssumption, TaskAlwaysReady
    <3>2. Walk(m, cpu.esp0 - 1).flags = Kernel
      BY <2>3, <2>5 DEF Layout
    <3> QED
      BY <2>4, <2>5, <3>1, <3>2 DEF StackReady
  <2>7. \A v \in 0 .. IDT_SIZE - 1 : Enters(HandlerAddr, TssAddr, v)
    BY BootAssumption, EveryVectorEnters
  <2>8. \E v \in 0 .. IDT_SIZE - 1 : Delivers(cpu.regs, v) /\ Handler(v) = "proc_switch"
    <3>1. IDT_VECTOR_TIMER \in 0 .. IDT_SIZE - 1 /\ Handler(IDT_VECTOR_TIMER) = "proc_switch"
      BY DEF IDT_VECTOR_TIMER, IDT_SIZE, Handler
    <3> QED
      BY <2>5, <3>1, TimerDelivers
  <2>9. Walk(m, cpu.lapic) = [pma |-> LAPIC_BASE, flags |-> Kernel]
    <3>1. Walk(m, cpu.lapic).flags = Kernel
      BY <2>3, <2>5 DEF Layout
    <3>2. Walk(m, cpu.lapic) \in Entries
      <4>1. MemoryOK(m) /\ Rooted(m) /\ cpu.lapic \in Pages
        BY <2>2, ConnectedRooted DEF BootInvariant, KernelPhase, CpuSet
      <4> QED
        BY <4>1, WalkIs
    <3> QED
      BY <2>5, <3>1, <3>2 DEF Entries
  <2> QED
    BY <2>2, <2>6, <2>7, <2>8, <2>9 DEF InterruptReady
<1> QED
  BY <1>1, BootCorrect, PTL


\* An injective function onto a set counts it.
LEMMA ImageCard ==
    ASSUME NEW S, IsFiniteSet(S), NEW f, DOMAIN f = S, f = [a \in S |-> f[a]],
           \A a, b \in S : f[a] = f[b] => a = b
    PROVE  Cardinality({f[a] : a \in S}) = Cardinality(S)
<1> DEFINE T == {f[a] : a \in S}
<1>1. f \in [S -> T] /\ \A t \in T : \E a \in S : f[a] = t
  <2>1. \A a \in S : f[a] \in T
    OBVIOUS
  <2>2. f \in [S -> T]
    BY <2>1
  <2> QED
    BY <2>2
<1> HIDE DEF T
<1>2. f \in Bijection(S, T)
  BY <1>1, Fun_IsBij
<1>3. ExistsBijection(S, T)
  BY <1>2, Fun_ExistsBij
<1>4. Cardinality(T) = Cardinality(S)
  BY <1>3, FS_Bijection
<1> QED
  BY <1>4 DEF T

\* There are finitely many translations.
LEMMA CacheableFinite ==
    ASSUME NEW x
    PROVE  IsFiniteSet(Cacheable(x))
<1> DEFINE S == {u \in Pages : Present(Walk(x, u))}
           f == [v \in S |-> [vma |-> v, to |-> Walk(x, v)]]
<1>1. IsFiniteSet(S)
  <2>1. IsFiniteSet(Pages)
    <3>1. Pages = 0 .. STACK_VMA /\ STACK_VMA \in Nat /\ 0 \in Int
      BY Constants
    <3>2. IsFiniteSet(0 .. STACK_VMA)
      BY <3>1, FS_Interval
    <3> QED
      BY <3>1, <3>2
  <2> QED
    BY <2>1, FS_Subset
<1>2. f \in Surjection(S, Cacheable(x))
  <2>1. f \in [S -> Cacheable(x)] /\ \A t \in Cacheable(x) : \E s \in S : f[s] = t
    BY DEF Cacheable
  <2> HIDE DEF f, S
  <2> QED
    BY <2>1, Fun_IsSurj
<1> HIDE DEF f, S
<1> QED
  BY <1>1, <1>2, FS_Surjection

\* The frames of the sections are never those of the heap or of a stack.
LEMMA SectionsApart ==
    ASSUME NEW x, NEW g \in Images, NEW left, x.next_pma \in Nat, kernel_end_pma(g) <= x.next_pma,
           NEW f \in SectionFrames(g)
    PROVE  /\ f \notin Frames(x, g, left) /\ f \notin Freed(g, left)
           /\ f \in Nat /\ f < kernel_end_pma(g)
<1>1. /\ INIT_BSS_END(g) \in Nat /\ INIT_STRUCT(g) \in Nat /\ kernel_end_pma(g) \in Nat
      /\ INIT_START <= INIT_STRUCT(g) /\ INIT_STRUCT(g) + 3 <= INIT_BSS_END(g)
      /\ INIT_BSS_END(g) <= kernel_end_pma(g)
  BY ImageFacts, Numbers
<1>2. /\ INIT_START \in Nat /\ VGA_PAGES \in Nat /\ VGA_PADDR_BUFFER \in Nat
      /\ VGA_PADDR_BUFFER + VGA_PAGES <= INIT_START
  BY Numbers
<1>3. f \in Nat /\ f < kernel_end_pma(g)
  BY <1>1, <1>2 DEF SectionFrames, StructOf
<1>4. f \notin Freed(g, left)
  <2>1. CASE f \in StructOf(g)
    BY <2>1 DEF Freed
  <2>2. CASE f \notin StructOf(g)
    <3>1. f \notin InitOf(g)
      BY <1>1, <1>2, <2>2 DEF SectionFrames, InitOf
    <3> QED
      BY <3>1 DEF Freed
  <2> QED
    BY <2>1, <2>2
<1>5. f \notin kernel_end_pma(g) .. x.next_pma - 1
  BY <1>1, <1>3
<1> QED
  BY <1>3, <1>4, <1>5 DEF Frames

\* Frames and their uses.
MappedAs(v) ==
    \/ v \in StaticOf(img) /\ Walk(m, v).pma \in SectionFrames(img)
    \/ v \in HeapPages(m, img) /\ Walk(m, v).pma \in HeapFrames(m, img)
                               /\ Walk(m, v).pma \in Frames(m, img, InitLeft)
    \/ v \in InitLeft /\ Walk(m, v).pma = v
    \/ PID # 0 /\ v = USER_STACK /\ Walk(m, v).pma \in StackFrames

\* Every page that is mapped has one of these uses.
LEMMA MappedIs ==
    ASSUME BootInvariant, Enabled, NEW v \in Pages, Present(Walk(m, v)), Walk(m, v).pma # LAPIC_BASE
    PROVE  MappedAs(v)
<1>1. /\ img \in Images /\ Layout(m, img, InitLeft, PID) /\ Apart(m, img, InitLeft, StackFrames)
  BY DEF BootInvariant, KernelPhase
<1>2. v \in StaticOf(img) \/ v \in HeapPages(m, img) \/ v \in InitLeft \/ (PID # 0 /\ v = USER_STACK)
  BY <1>1 DEF Layout
<1>3. CASE v \in StaticOf(img)
  <2>1. PICK r \in Sections(img) : r.vma = v
    BY <1>3 DEF StaticOf
  <2>2. Walk(m, v) = r.to /\ r.to.pma \in SectionFrames(img)
    BY <1>1, <2>1, SectionFacts DEF Layout
  <2> QED
    BY <1>3, <2>2 DEF MappedAs
<1>4. CASE v \in HeapPages(m, img)
  <2>1. Walk(m, v).pma \in HeapFrames(m, img)
    BY <1>4 DEF HeapFrames
  <2>2. HeapFrames(m, img) \subseteq Frames(m, img, InitLeft) \cup {LAPIC_BASE}
    BY <1>1 DEF Apart
  <2> QED
    BY <1>4, <2>1, <2>2 DEF MappedAs
<1>5. CASE v \in InitLeft
  <2>1. Walk(m, v) = [pma |-> v, flags |-> Kernel]
    BY <1>1, <1>5 DEF Layout
  <2> QED
    BY <1>5, <2>1 DEF MappedAs
<1>6. CASE PID # 0 /\ v = USER_STACK
  BY <1>6, StackIs DEF MappedAs
<1> QED
  BY <1>2, <1>3, <1>4, <1>5, <1>6

\* Every frame has one use: on the list, mapped, a page table or part of
\* init_page_struct; none is handed out twice.
THEOREM FramesCorrect == Spec => []FramesOwned
<1>1. BootInvariant => FramesOwned
  <2> SUFFICES ASSUME BootInvariant, Enabled, at \notin Halts PROVE FramesOwned
    BY DEF FramesOwned
  <2> DEFINE listed == {m.free[j] : j \in DOMAIN m.free}
             used == {c.to.pma : c \in Mapped} \cup DOMAIN m.tables \cup StructPages
  <2>1. /\ img \in Images /\ MemoryOK(m) /\ Layout(m, img, InitLeft, PID)
        /\ Apart(m, img, InitLeft, StackFrames)
    BY DEF BootInvariant, KernelPhase
  <2>2. /\ m.next_pma \in Nat /\ kernel_end_pma(img) <= m.next_pma /\ kernel_end_pma(img) \in Nat
        /\ InitLeft \subseteq InitOf(img)
    BY <2>1, KernelSpace, SpaceParts
  <2>3. listed = Listed(m)
    BY DEF Listed
  <2>4. /\ Listed(m) \subseteq Freed(img, InitLeft) /\ StackFrames \subseteq Frames(m, img, InitLeft)
        /\ DOMAIN m.tables \subseteq HeapFrames(m, img) \cap Frames(m, img, InitLeft)
        /\ HeapFrames(m, img) \cap StackFrames = {}
        /\ Listed(m) \cap (HeapFrames(m, img) \cup StackFrames) = {}
        /\ \A u, v \in HeapPages(m, img) : Walk(m, u).pma = Walk(m, v).pma => u = v
        /\ \A i, j \in DOMAIN m.free : m.free[i] = m.free[j] => i = j
    BY <2>1 DEF Apart
  <2>5. StructPages = StructOf(img) /\ StructOf(img) \subseteq InitOf(img)
    BY <2>1, Regions DEF StructPages, StructOf
  \* What is mapped.
  <2>6. ASSUME NEW c \in Mapped
        PROVE  /\ c.vma \in Pages /\ c = [vma |-> c.vma, to |-> Walk(m, c.vma)]
               /\ c.to = Walk(m, c.vma) /\ MappedAs(c.vma)
    <3>1. PICK v \in Pages : Present(Walk(m, v)) /\ c = [vma |-> v, to |-> Walk(m, v)]
      BY DEF Mapped, Cacheable
    <3>2. c.vma = v /\ c.to = Walk(m, v) /\ c.to.pma # LAPIC_BASE
      BY <3>1 DEF Mapped
    <3> QED
      BY <3>1, <3>2, MappedIs
  <2>7. ASSUME NEW c \in Mapped
        PROVE  c.to.pma \notin Listed(m) /\ c.to.pma < m.next_pma
    <3>1. c.to = Walk(m, c.vma) /\ MappedAs(c.vma)
      BY <2>6
    <3> DEFINE f == Walk(m, c.vma).pma
    <3>2. CASE f \in SectionFrames(img)
      <4>1. f \notin Freed(img, InitLeft) /\ f \in Nat /\ f < kernel_end_pma(img)
        BY <2>1, <2>2, <3>2, SectionsApart
      <4> HIDE DEF f
      <4>2. f < m.next_pma
        BY <2>2, <4>1
      <4> QED
        BY <2>4, <3>1, <4>1, <4>2 DEF f
    <3>3. CASE f \in HeapFrames(m, img) /\ f \in Frames(m, img, InitLeft)
      BY <2>1, <2>2, <2>4, <3>1, <3>3, FrameRange
    <3>4. CASE c.vma \in InitLeft /\ f = c.vma
      <4>1. f \notin Freed(img, InitLeft)
        BY <3>4 DEF Freed
      <4>2. f \in Nat /\ f < kernel_end_pma(img)
        BY <2>1, <2>2, <3>4, InitApart
      <4> HIDE DEF f
      <4>3. f < m.next_pma
        BY <2>2, <4>2
      <4> QED
        BY <2>4, <3>1, <4>1, <4>3 DEF f
    <3>5. CASE f \in StackFrames
      BY <2>1, <2>2, <2>4, <3>1, <3>5, FrameRange
    <3> QED
      BY <3>1, <3>2, <3>3, <3>4, <3>5 DEF MappedAs
  <2>8. \A f \in StructPages : f \notin Listed(m) /\ f < m.next_pma
    <3>1. ASSUME NEW f \in StructPages PROVE f \notin Listed(m) /\ f < m.next_pma
      <4>1. f \in StructOf(img) /\ f \in InitOf(img)
        BY <2>5
      <4>2. f \in Nat /\ f < kernel_end_pma(img)
        BY <2>1, <4>1, InitApart
      <4>3. f < m.next_pma
        BY <2>2, <4>2
      <4> QED
        BY <2>4, <4>1, <4>3 DEF Freed
    <3> QED
      BY <3>1
  <2>9. \A f \in DOMAIN m.tables : f \notin Listed(m) /\ f < m.next_pma
    BY <2>1, <2>2, <2>4, FrameRange
  <2>10. \A f \in Listed(m) : f < m.next_pma
    BY <2>1, <2>2, <2>4, FrameRange
  <2>11. listed \cap used = {} /\ \A f \in listed \cup used : f < m.next_pma
    BY <2>3, <2>7, <2>8, <2>9, <2>10
  \* Nothing is listed twice.
  <2>12. Cardinality(listed) = Len(m.free)
    <3>1. /\ m.free \in Seq(Nat) /\ Len(m.free) \in Nat /\ DOMAIN m.free = 1 .. Len(m.free)
          /\ m.free \in [1 .. Len(m.free) -> Nat]
      BY <2>1, SeqParts, LenProperties DEF MemoryOK
    <3>2. PICK l \in Nat : l = Len(m.free)
      BY <3>1
    <3>3. IsFiniteSet(1 .. l) /\ Cardinality(1 .. l) = l
      <4>1. 1 \in Int /\ l \in Int
        BY <3>2
      <4>2. IsFiniteSet(1 .. l) /\ Cardinality(1 .. l) = IF 1 > l THEN 0 ELSE l - 1 + 1
        BY <4>1, FS_Interval
      <4> QED
        BY <3>2, <4>2
    <3>4. m.free \in [1 .. l -> Nat] /\ DOMAIN m.free = 1 .. l
      BY <3>1, <3>2
    <3>5. m.free = [j \in 1 .. l |-> m.free[j]]
      BY <3>4
    <3>6. \A i, j \in 1 .. l : m.free[i] = m.free[j] => i = j
      BY <2>4, <3>4
    <3>7. Cardinality({m.free[j] : j \in 1 .. l}) = Cardinality(1 .. l)
      BY <3>3, <3>4, <3>5, <3>6, ImageCard
    <3> QED
      BY <3>2, <3>3, <3>4, <3>7
  \* Nothing is mapped twice.
  <2>13. ASSUME at \notin Cleaning
         PROVE  Cardinality(Mapped) = Cardinality({c.to.pma : c \in Mapped})
    <3> DEFINE f == [c \in Mapped |-> c.to.pma]
    <3>1. IsFiniteSet(Mapped)
      <4>1. Mapped \subseteq Cacheable(m) /\ IsFiniteSet(Cacheable(m))
        BY CacheableFinite DEF Mapped
      <4> QED
        BY <4>1, FS_Subset
    <3>2. InitLeft = {}
      BY <2>13, LeftIs
    <3>3. \A g \in SectionFrames(img) : g \notin Frames(m, img, InitLeft)
      BY <2>1, <2>2, SectionsApart
    <3>4. ASSUME NEW c \in Mapped, NEW d \in Mapped, c.to.pma = d.to.pma PROVE c = d
      <4>1. /\ c = [vma |-> c.vma, to |-> Walk(m, c.vma)] /\ c.to = Walk(m, c.vma) /\ MappedAs(c.vma)
            /\ d = [vma |-> d.vma, to |-> Walk(m, d.vma)] /\ d.to = Walk(m, d.vma) /\ MappedAs(d.vma)
        BY <2>6
      <4>2. c.vma = d.vma
        <5> DEFINE u == c.vma
                   v == d.vma
        <5>1. Walk(m, u).pma = Walk(m, v).pma /\ MappedAs(u) /\ MappedAs(v)
          BY <3>4, <4>1
        <5> SUFFICES u = v
          BY DEF u, v
        <5> HIDE DEF u, v
        <5>2. CASE u \in StaticOf(img) /\ v \in StaticOf(img)
          <6>1. PICK r \in Sections(img) : r.vma = u
            BY <5>2 DEF StaticOf
          <6>2. PICK s \in Sections(img) : s.vma = v
            BY <5>2 DEF StaticOf
          <6>3. Walk(m, u) = r.to /\ Walk(m, v) = s.to
            BY <2>1, <6>1, <6>2 DEF Layout
          <6>4. r.to.pma = s.to.pma
            BY <5>1, <6>3
          <6>5. r = s
            BY <2>1, <6>4, SectionFacts
          <6> QED
            BY <6>1, <6>2, <6>5
        <5>3. CASE u \in HeapPages(m, img) /\ v \in HeapPages(m, img)
          BY <2>4, <5>1, <5>3
        <5>4. CASE u = USER_STACK /\ v = USER_STACK
          BY <5>4
        <5>5. CASE ~(\/ u \in StaticOf(img) /\ v \in StaticOf(img)
                     \/ u \in HeapPages(m, img) /\ v \in HeapPages(m, img)
                     \/ u = USER_STACK /\ v = USER_STACK)
          BY <2>4, <3>2, <3>3, <5>1, <5>5 DEF MappedAs
        <5> QED
          BY <5>2, <5>3, <5>4, <5>5
      <4> QED
        BY <4>1, <4>2
    <3>5. \A c, d \in Mapped : f[c] = f[d] => c = d
      BY <3>4
    <3>6. {f[c] : c \in Mapped} = {c.to.pma : c \in Mapped} /\ DOMAIN f = Mapped /\ f = [c \in Mapped |-> f[c]]
      OBVIOUS
    <3> HIDE DEF f
    <3>7. Cardinality({f[c] : c \in Mapped}) = Cardinality(Mapped)
      BY <3>1, <3>5, <3>6, ImageCard
    <3> QED
      BY <3>6, <3>7
  <2> QED
    BY <2>11, <2>12, <2>13 DEF FramesOwned
<1> QED
  BY <1>1, BootCorrect, PTL

\* The loops of init_map_kernel have fewer steps than there are pages.
LEMMA SetupCounter ==
    ASSUME BootInvariant, at \in Setup
    PROVE  k \in 0 .. PAGE_ENTRIES * PAGE_ENTRIES
<1>1. img \in Images /\ MemoryOK(m) /\ Numbered(m, img) /\ k \in 0 .. Len(todo)
  BY DEF BootInvariant, SetupPhase
<1>2. /\ INIT_BSS_END(img) \in Nat /\ BSS_END_VMA(img) \in Nat /\ HeapStart(img) \in Nat
      /\ INIT_BSS_END(img) <= KERNEL_START_VMA - PAGE_ENTRIES
      /\ HeapStart(img) = BSS_END_VMA(img) + 2 + VGA_PAGES
      /\ BootTables(img) \in Nat
      /\ HeapStart(img) + BootTables(img) + 4 <= KERNEL_START_VMA + PAGE_ENTRIES
      /\ KERNEL_START_VMA <= HeapStart(img)
  <2>1. /\ RODATA_END_VMA(img) \in Nat /\ BSS_END_VMA(img) \in Nat
        /\ KERNEL_START_VMA < RODATA_END_VMA(img) /\ RODATA_END_VMA(img) < BSS_END_VMA(img)
        /\ HeapStart(img) = BSS_END_VMA(img) + 2 + VGA_PAGES
    BY <1>1, ImageFacts
  <2>2. KERNEL_START_VMA <= HeapStart(img)
    BY <2>1, Numbers
  <2> QED
    BY <1>1, <2>2, ImageFacts
<1>3. img.ro \in Nat /\ img.rw \in Nat /\ BSS_END_VMA(img) = KERNEL_START_VMA + img.ro + img.rw
  BY <1>1, PagingAssumption DEF BSS_END_VMA
<1>4. /\ PAGE_ENTRIES \in Nat /\ KERNEL_START_VMA \in Nat /\ STACK_VMA \in Nat /\ INIT_START \in Nat
      /\ VGA_PAGES \in Nat /\ KERNEL_START_VMA + PAGE_ENTRIES <= STACK_VMA + 1
      /\ PAGE_ENTRIES * PAGE_ENTRIES = STACK_VMA + 1
  <2>1. PAGE_ENTRIES * PAGE_ENTRIES \in Nat
    BY Numbers, Product
  <2> QED
    BY <2>1, Numbers DEF STACK_VMA
<1>5. Len(todo) \in Nat /\ Len(todo) <= STACK_VMA
  <2>1. CASE at = "map"
    <3>1. Len(todo) = (INIT_BSS_END(img) - INIT_START) + img.ro + img.rw + 3 + VGA_PAGES
      BY <1>1, <2>1, PredictableElems DEF BootInvariant, SetupPhase
    <3>2. todo \in Seq(Rec)
      BY <1>1, <2>1, PredictableElems DEF BootInvariant, SetupPhase
    <3>3. PICK l \in Nat : l = Len(todo)
      BY <3>2, LenProperties
    <3>4. l = (INIT_BSS_END(img) - INIT_START) + img.ro + img.rw + 3 + VGA_PAGES
      BY <3>1, <3>3
    <3>5. l <= STACK_VMA
      BY <1>2, <1>3, <1>4, <3>4
    <3> QED
      BY <3>3, <3>5
  <2>2. CASE at = "tables"
    <3>1. todo = PageRun(m.offset - 1, HeapStart(img), kernel_end_pma(img), Kernel)
      BY <2>2 DEF BootInvariant, SetupPhase, Setup
    <3>2. m.offset - 1 \in Nat /\ m.offset - 1 <= BootTables(img)
      BY <1>1, <1>2, NumberedParts
    <3>3. kernel_end_pma(img) \in Nat /\ Kernel \in SUBSET User
      BY <1>1, ImageFacts, Rights
    <3>4. PICK l \in Nat : l = m.offset - 1
      BY <3>2
    <3>5. Len(todo) = l
      BY <1>2, <3>1, <3>3, <3>4, RunElems
    <3>6. l <= STACK_VMA
      BY <1>2, <1>4, <3>2, <3>4
    <3> QED
      BY <3>5, <3>6
  <2> QED
    BY <2>1, <2>2 DEF Setup
<1>6. PICK l \in Nat : l = Len(todo)
  BY <1>5
<1> QED
  BY <1>1, <1>4, <1>5, <1>6

\* Type correctness: the loop counters stay within the address space, every
\* entry of the directory, of a table and of what may be cached is an entry,
\* and next_pma stays below the APIC's frame.
THEOREM TypeCorrect == Spec => []TypeOK
<1>1. BootInvariant /\ StrayInvariant => TypeOK
  <2> SUFFICES ASSUME BootInvariant, StrayInvariant PROVE TypeOK
    OBVIOUS
  <2>1. /\ img \in Images /\ at \in Phases /\ MemoryOK(m) /\ CpuSet
    BY DEF BootInvariant
  <2>2. k \in 0 .. PAGE_ENTRIES * PAGE_ENTRIES
    <3>1. CASE at \in Setup
      BY <3>1, SetupCounter
    <3>2. CASE at \notin Setup
      BY <3>2 DEF BootInvariant, KernelPhase, Enabled, Progress
    <3> QED
      BY <3>1, <3>2
  <2>3. \A c \in tlb : c.vma \in Pages /\ c.to \in Entries
    <3>1. CASE at \in Setup
      BY <3>1 DEF BootInvariant, SetupPhase
    <3>2. CASE at \notin Setup
      <4>1. Cached /\ Connected(m, img)
        BY <3>2 DEF BootInvariant, KernelPhase, Enabled
      <4>2. ASSUME NEW c \in tlb PROVE c.vma \in Pages /\ c.to \in Entries
        <5>1. CASE c \in Cacheable(m)
          <6>1. PICK v \in Pages : c = [vma |-> v, to |-> Walk(m, v)]
            BY <5>1 DEF Cacheable
          <6>2. Walk(m, v) \in Entries
            BY <2>1, <4>1, ConnectedRooted, WalkIs
          <6> QED
            BY <6>1, <6>2
        <5>2. CASE c \notin Cacheable(m)
          <6>1. c.vma \in InitOf(img) /\ c.to = [pma |-> c.vma, flags |-> Kernel]
            BY <4>1, <5>2 DEF Cached
          <6>2. c.vma \in Pages /\ c.vma \in Nat /\ c.vma < LAPIC_BASE
            BY <2>1, <6>1, InitApart
          <6>3. c.vma \in -1 .. LAPIC_BASE /\ Kernel \in SUBSET User
            BY <6>2, Numbers, Rights
          <6> QED
            BY <6>1, <6>2, <6>3 DEF Entries
        <5> QED
          BY <5>1, <5>2
      <4> QED
        BY <4>2
    <3> QED
      BY <3>1, <3>2
  <2>4. PID \in 0 .. NPROC
    <3>1. CASE at \in Setup
      BY <3>1, Numbers DEF BootInvariant, SetupPhase
    <3>2. CASE at \notin Setup
      <4>1. PID \in 0 .. Registered /\ Progress /\ NPROC \in Nat
        BY <3>2, Numbers DEF BootInvariant, KernelPhase, Enabled, UserTables
      <4>2. Registered \in 0 .. NPROC
        BY <4>1 DEF Registered, Progress
      <4> QED
        BY <4>1, <4>2
    <3> QED
      BY <3>1, <3>2
  <2>5. /\ m.dir \in [Indexes -> Entries] /\ m.lookup \in [Indexes -> Pages]
        /\ \A f \in DOMAIN m.tables : m.tables[f] \in [Indexes -> Entries]
        /\ m.next_pma \in 0 .. LAPIC_BASE - 1 /\ m.heap \in Pages
    <3>1. /\ m.dir \in [Indexes -> Entries] /\ m.lookup \in [Indexes -> Pages]
          /\ m.tables \in [DOMAIN m.tables -> [Indexes -> Entries]]
          /\ m.next_pma \in 0 .. LAPIC_BASE - 1 /\ m.heap \in Pages
      BY <2>1 DEF MemoryOK
    <3> QED
      BY <3>1
  <2>6. cpu.esp0 \in Pages /\ cpu.lapic \in Pages
    BY <2>1 DEF CpuSet
  <2>7. \A c \in stray : c.vma \in Pages /\ c.to \in Entries
    BY DEF StrayInvariant, StraysPrivate
  <2> QED
    BY <2>1, <2>2, <2>3, <2>4, <2>5, <2>6, <2>7 DEF TypeOK
<1> QED
  BY <1>1, BootCorrect, StrayCorrect, PTL

=============================================================================
