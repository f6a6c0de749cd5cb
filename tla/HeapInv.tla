------------------------------ MODULE HeapInv ------------------------------
(***************************************************************************)
(* The inductive invariant of Heap, in named parts.                        *)
(*                                                                         *)
(* Sizes, links and flags of the heap are spread over memory cells.  The   *)
(* parts relate a state x to what the cells stand for: the set C of chunks *)
(* with their sizes z, tiling the heap up to e; the free chunks F and the  *)
(* nodes P of the page list, in the order of their ranks; the blocks B of  *)
(* the kernel; and the chunks U that are between two owners.  While alloc  *)
(* extends the heap, e is the end of the chunks and x.end the end to come. *)
(***************************************************************************)
EXTENDS Heap

First == HEAP_START + DESC

\* Chunks follow each other without holes and overlaps.
Tiling(C, e, z) ==
    /\ z \in [Cells -> Nat] /\ C \subseteq Cells
    /\ e \in First .. HEAP_LIMIT /\ e % 8 = 0
    /\ First \in C \cup {e}
    /\ \A n \in C :
        /\ First <= n /\ n < e /\ z[n] >= 8 /\ z[n] % 8 = 0
        /\ n + z[n] + DESC \in C \cup {e}
    /\ \A n \in C \cup {e} : n = First \/ \E m \in C : m + z[m] + DESC = n
    /\ \A m, n \in C : m < n => m + z[m] + DESC <= n

\* Both copies of every size, with the free flag.
Tag(size, isFree) == IF isFree THEN size + KM_CHUNK_FREE ELSE size
Tagged(x, C, z, F) ==
    /\ x.mem[HEAP_START].lo = 0
    /\ \A n \in C : /\ x.mem[n - DESC].hi = Tag(z[n], n \in F)
                    /\ x.mem[n + z[n]].lo = Tag(z[n], n \in F)

\* A chunk in use at the end does not find a free chunk behind it.
EndTag(x, C, e, z, F) ==
    \A n \in C \ F : n + z[n] + DESC = e => ~IsFree(x.mem[e - DESC].hi)

\* The cells of S are linked by their second words, in the order of their
\* ranks, from head on.
Linked(x, head, S, r) ==
    /\ r \in [Cells -> Int] /\ S \subseteq Cells
    /\ IF head = NULL THEN S = {} ELSE head \in S /\ \A n \in S : r[head] <= r[n]
    /\ \A n \in S : x.mem[n].hi = NULL \/ (x.mem[n].hi \in S /\ r[n] < r[x.mem[n].hi])
    /\ \A m, n \in S : r[m] < r[n] => x.mem[m].hi # NULL /\ r[x.mem[m].hi] <= r[n]
    /\ \A m, n \in S : r[m] = r[n] => m = n

\* Back pointers.
BackLinked(x, head, S) ==
    \A n \in S : IF n = head THEN x.mem[n].lo = NULL
                 ELSE x.mem[n].lo \in S /\ x.mem[x.mem[n].lo].hi = n

\* The blocks of the kernel hold what was written into them.
Filled(x, B, z) ==
    \A v \in DOMAIN B :
        /\ B[v] \in 0 .. z[v]
        /\ \A a \in Cells : v <= a /\ a < v + B[v] => x.mem[a] = Payload(v)

\* Every chunk has one owner.
Owners(C, F, P, B, U) ==
    /\ C = F \cup P \cup DOMAIN B \cup U
    /\ F \cap P = {} /\ (F \cup P) \cap DOMAIN B = {} /\ (F \cup P \cup DOMAIN B) \cap U = {}

\* No two free chunks are adjacent.
Merged(F, z) == \A n \in F : n + z[n] + DESC \notin F

States ==
    [mem : [Cells -> [lo : Int, hi : Int]],
     free_list : Cells \cup {NULL}, end : HEAP_START .. HEAP_LIMIT,
     page_free_list : Cells \cup {NULL}, heap_end_pma : Nat,
     pte : [Pages -> [pma : Nat, present : BOOLEAN]],
     first_run : BOOLEAN, nested : BOOLEAN]

HeapOK(x, e, C, z, F, r, P, q, B, U) ==
    /\ x \in States /\ Tiling(C, e, z) /\ Tagged(x, C, z, F)
    /\ Linked(x, x.free_list, F, r) /\ BackLinked(x, x.free_list, F)
    /\ Linked(x, x.page_free_list, P, q)
    /\ Filled(x, B, z) /\ Owners(C, F, P, B, U) /\ Merged(F, z)

\* Between two operations the heap ends where its chunks end, and the last
\* chunk is in use.
Settled(x, e, C, z, F) ==
    /\ x.end = e /\ EndTag(x, C, e, z, F)
    /\ \A n \in F : n + z[n] + DESC # e

-----------------------------------------------------------------------------
(* Physical pages.                                                         *)

\* The pages below top are mapped.  The physical pages in K are each in one
\* place: the page list, the heap or T.
Frames(x, top, P, T, K) ==
    /\ \A p \in Pages : x.pte[p].present <=> p < top
    /\ \A m, n \in P : x.mem[m].lo = x.mem[n].lo => m = n
    /\ \A p, s \in Pages : p < top /\ s < top /\ x.pte[p].pma = x.pte[s].pma => p = s
    /\ \A n \in P : /\ x.mem[n].lo \in K \ T
                    /\ \A p \in Pages : p < top => x.pte[p].pma # x.mem[n].lo
    /\ \A p \in Pages : p < top => x.pte[p].pma \in K \ T
    /\ T \subseteq K
    /\ \A f \in K : \/ f \in T \/ \E n \in P : x.mem[n].lo = f
                    \/ \E p \in Pages : p < top /\ x.pte[p].pma = f

\* The physical pages known: those of the init section freed so far, those
\* page_new took from kernel_heap_end_pma, and the APIC's once it is mapped.
Freed == {InitPages[k] : k \in 1 .. (IF done < Len(InitPages) THEN done ELSE Len(InitPages))}
Known(x) ==
    Freed \cup FREE_START .. x.heap_end_pma - 1
          \cup (IF x.first_run THEN {} ELSE {LAPIC_PMA})

\* page_new has taken no more of the latter than are mapped or handed out.
Drawn(x, top, T) ==
    /\ x.heap_end_pma >= FREE_START
    /\ (x.heap_end_pma - FREE_START - Cardinality(T)) * PAGE_SIZE <= top - HEAP_START

-----------------------------------------------------------------------------
(* The invariant.                                                          *)

\* What the cells of h stand for.
SizeOf == [n \in Cells |-> IF n \in Chunks THEN alloc_get_size(h, n) ELSE 0]
RankOn(way) ==
    [n \in Cells |-> IF n \in Passed(way) THEN CHOOSE k \in DOMAIN way : way[k] = n ELSE 0]

HeapInvariant ==
    /\ TypeOK /\ ~h.nested /\ IsFiniteSet(taken) /\ Cardinality(taken) <= MaxLive
    /\ phase = "kmalloc_init" => h = InitialHeap /\ live = <<>> /\ taken = {} /\ done = 0
    /\ phase # "kmalloc_init" =>
        /\ HeapOK(h, h.end, Chunks, SizeOf, FreeChunks, RankOn(ListWay(h, h.free_list)),
                  PageNodes, RankOn(ListWay(h, h.page_free_list)), live, {})
        /\ Settled(h, h.end, Chunks, SizeOf, FreeChunks)
        /\ Frames(h, align(h.end, PAGE_SIZE), PageNodes, taken, Known(h))
        /\ Drawn(h, align(h.end, PAGE_SIZE), taken)

=============================================================================
