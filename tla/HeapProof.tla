----------------------------- MODULE HeapProof -----------------------------
(***************************************************************************)
(* The kernel heap keeps its invariant, for every page size, every number  *)
(* of pages and tables of the init section and every sequence of calls, and*)
(* the safety properties of Heap follow from it.                           *)
(***************************************************************************)
EXTENDS HeapChunks

-----------------------------------------------------------------------------
(* The heap grows.                                                         *)

\* y has the lists of x and the memory of x below e.
Below(x, y, e) ==
    /\ y \in States /\ y.free_list = x.free_list /\ y.page_free_list = x.page_free_list
    /\ \A c \in Cells : c < e => y.mem[c] = x.mem[c]

\* Nothing above the chunks matters to them.
LEMMA Above ==
    ASSUME NEW x, NEW e, NEW C, NEW z, NEW F, NEW r, NEW P, NEW q, NEW B, NEW U,
           HeapOK(x, e, C, z, F, r, P, q, B, U), NEW y, Below(x, y, e)
    PROVE  /\ HeapOK(y, e, C, z, F, r, P, q, B, U)
           /\ EndTag(x, C, e, z, F) => EndTag(y, C, e, z, F)
<1>1. /\ x \in States /\ Tiling(C, e, z) /\ Tagged(x, C, z, F)
      /\ F \subseteq C /\ P \subseteq C /\ DOMAIN B \subseteq C
  BY ChunkWords
<1>2. /\ Linked(x, x.free_list, F, r) /\ BackLinked(x, x.free_list, F)
      /\ Linked(x, x.page_free_list, P, q) /\ Filled(x, B, z)
      /\ Owners(C, F, P, B, U) /\ Merged(F, z)
  BY DEF HeapOK
<1>3. /\ e \in Nat /\ First <= e /\ e - 8 \in Cells
      /\ \A n \in C : /\ n \in Nat /\ n \in Cells /\ z[n] \in Nat /\ n < e
                      /\ n - 8 \in Cells /\ n + z[n] \in Cells /\ n + z[n] + 8 <= e
  BY <1>1, TileCells
<1>4. /\ y \in States /\ y.free_list = x.free_list /\ y.page_free_list = x.page_free_list
      /\ \A c \in Cells : c < e => y.mem[c] = x.mem[c]
  BY DEF Below
<1>5. /\ HEAP_START \in Cells /\ HEAP_START < e
  BY <1>3, CellIs, HeapNumbers
<1>6. ASSUME NEW n \in C
      PROVE  /\ y.mem[n - 8] = x.mem[n - 8] /\ y.mem[n + z[n]] = x.mem[n + z[n]]
             /\ y.mem[n] = x.mem[n]
  <2>1. n - 8 < e /\ n + z[n] < e /\ n < e
    BY <1>3
  <2> QED
    BY <1>3, <1>4, <2>1
<1>7. Tagged(y, C, z, F)
  BY <1>1, <1>4, <1>5, <1>6, HeapNumbers DEF Tagged
<1>8. Linked(y, y.free_list, F, r) /\ Linked(y, y.page_free_list, P, q)
  BY <1>1, <1>2, <1>4, <1>6, LinkedSame
<1>9. BackLinked(y, y.free_list, F)
  BY <1>1, <1>2, <1>4, <1>6, BackLinkedSame
<1>10. Filled(y, B, z)
  <2> SUFFICES ASSUME NEW v \in DOMAIN B, NEW a \in Cells, v <= a, a < v + B[v]
               PROVE  y.mem[a] = Payload(v)
    BY <1>2 DEF Filled
  <2>1. B[v] \in 0 .. z[v] /\ x.mem[a] = Payload(v) /\ v \in C
    BY <1>1, <1>2 DEF Filled
  <2>2. a < e
    BY <1>3, <2>1, CellIs
  <2> QED
    BY <1>4, <2>1, <2>2
<1>11. HeapOK(y, e, C, z, F, r, P, q, B, U)
  BY <1>1, <1>2, <1>4, <1>7, <1>8, <1>9, <1>10 DEF HeapOK
<1>12. y.mem[e - 8] = x.mem[e - 8]
  BY <1>3, <1>4
<1>13. EndTag(x, C, e, z, F) => EndTag(y, C, e, z, F)
  BY <1>12, HeapNumbers DEF EndTag
<1> QED
  BY <1>11, <1>13

\* y is x with the descriptors of a new chunk of b bytes at e.
Grows(x, y, e, b) ==
    /\ y \in States /\ y.free_list = x.free_list /\ y.page_free_list = x.page_free_list
    /\ \A c \in Cells : c < e - 8 => y.mem[c] = x.mem[c]
    /\ y.mem[e - 8].lo = x.mem[e - 8].lo /\ y.mem[e - 8].hi = b /\ y.mem[e + b].lo = b

\* A new chunk at the end of the others.
LEMMA GrowOK ==
    ASSUME NEW x, NEW e, NEW C, NEW z, NEW F, NEW r, NEW P, NEW q, NEW B,
           HeapOK(x, e, C, z, F, r, P, q, B, {}),
           NEW b \in Nat, b >= 8, b % 8 = 0, e + b + 8 <= HEAP_LIMIT, NEW y, Grows(x, y, e, b)
    PROVE  /\ HeapOK(y, e + b + 8, C \cup {e}, [z EXCEPT ![e] = b], F, r, P, q, B, {e})
           /\ e \in Cells /\ e \notin C
<1> DEFINE t == [z EXCEPT ![e] = b]
           D == C \cup {e}
<1>1. /\ x \in States /\ Tiling(C, e, z) /\ Tagged(x, C, z, F)
      /\ F \subseteq C /\ P \subseteq C /\ DOMAIN B \subseteq C
  BY ChunkWords
<1>2. /\ Linked(x, x.free_list, F, r) /\ BackLinked(x, x.free_list, F)
      /\ Linked(x, x.page_free_list, P, q) /\ Filled(x, B, z)
      /\ Owners(C, F, P, B, {}) /\ Merged(F, z)
  BY DEF HeapOK
<1>3. /\ e \in Nat /\ First <= e /\ e - 8 \in Cells /\ e - 8 \in Nat /\ z \in [Cells -> Nat]
      /\ \A n \in C : /\ n \in Nat /\ n \in Cells /\ z[n] \in Nat /\ n < e /\ z[n] >= 8
                      /\ n - 8 \in Cells /\ n + z[n] \in Cells /\ n + z[n] + 8 <= e
                      /\ n + z[n] + 8 \in C \cup {e}
  BY <1>1, TileCells, CellIs
<1>4. /\ y \in States /\ y.free_list = x.free_list /\ y.page_free_list = x.page_free_list
      /\ \A c \in Cells : c < e - 8 => y.mem[c] = x.mem[c]
      /\ y.mem[e - 8].lo = x.mem[e - 8].lo /\ y.mem[e - 8].hi = b /\ y.mem[e + b].lo = b
  BY DEF Grows
<1>5. Tiling(D, e + b + 8, t) /\ e \in Cells /\ e \notin C
  BY <1>1, TileGrow
<1>6. t[e] = b /\ \A n \in C : t[n] = z[n]
  BY <1>3, <1>5
<1> HIDE DEF t
<1>7. ASSUME NEW n \in C
      PROVE  /\ y.mem[n - 8].hi = x.mem[n - 8].hi /\ y.mem[n + z[n]].lo = x.mem[n + z[n]].lo
             /\ y.mem[n] = x.mem[n] /\ y.mem[n].hi = x.mem[n].hi
  <2>1. n - 8 < e - 8 /\ n < e - 8
    BY <1>3
  <2>2. n + z[n] < e - 8 \/ n + z[n] = e - 8
    BY <1>3
  <2> QED
    BY <1>3, <1>4, <2>1, <2>2
<1>8. Tagged(y, D, t, F)
  <2>1. y.mem[HEAP_START].lo = 0
    <3>1. HEAP_START \in Cells /\ (HEAP_START < e - 8 \/ HEAP_START = e - 8)
      BY <1>3, CellIs, HeapNumbers
    <3> QED
      BY <1>1, <1>4, <3>1 DEF Tagged
  <2>2. e \notin F
    BY <1>1, <1>5
  <2>3. ASSUME NEW n \in D
        PROVE  y.mem[n - 8].hi = Tag(t[n], n \in F) /\ y.mem[n + t[n]].lo = Tag(t[n], n \in F)
    <3>1. CASE n = e
      <4>1. Tag(b, e \in F) = b
        BY <2>2 DEF Tag
      <4> QED
        BY <1>4, <1>6, <3>1, <4>1
    <3>2. CASE n \in C
      BY <1>1, <1>6, <1>7, <3>2, HeapNumbers DEF Tagged
    <3> QED
      BY <3>1, <3>2
  <2> QED
    BY <2>1, <2>3, HeapNumbers DEF Tagged
<1>9. Linked(y, y.free_list, F, r) /\ Linked(y, y.page_free_list, P, q)
  BY <1>1, <1>2, <1>4, <1>7, LinkedSame
<1>10. BackLinked(y, y.free_list, F)
  BY <1>1, <1>2, <1>4, <1>7, BackLinkedSame
<1>11. Filled(y, B, t)
  <2>1. ASSUME NEW v \in DOMAIN B, NEW a \in Cells, v <= a, a < v + B[v]
        PROVE  y.mem[a] = Payload(v)
    <3>1. B[v] \in 0 .. z[v] /\ x.mem[a] = Payload(v) /\ v \in C
      BY <1>1, <1>2, <2>1 DEF Filled
    <3>2. a < e - 8
      BY <1>3, <2>1, <3>1, CellIs
    <3> QED
      BY <1>4, <3>1, <3>2
  <2>2. \A v \in DOMAIN B : B[v] \in 0 .. t[v]
    BY <1>1, <1>2, <1>6 DEF Filled
  <2> QED
    BY <2>1, <2>2 DEF Filled
<1>12. Owners(D, F, P, B, {e})
  BY <1>2, <1>5 DEF Owners
<1>13. Merged(F, t)
  BY <1>1, <1>2, <1>6 DEF Merged
<1>14. HeapOK(y, e + b + 8, D, t, F, r, P, q, B, {e})
  BY <1>4, <1>5, <1>8, <1>9, <1>10, <1>11, <1>12, <1>13 DEF HeapOK
<1> QED
  BY <1>5, <1>14 DEF t

\* States with the same parts are the same.
LEMMA StateEq ==
    ASSUME NEW x \in States, NEW y, Rest(x, y), y.free_list = x.free_list,
           \A c \in Cells : y.mem[c] = x.mem[c]
    PROVE  x = y
<1>1. y \in States /\ x.mem \in [Cells -> [lo : Int, hi : Int]]
      /\ y.mem \in [Cells -> [lo : Int, hi : Int]]
  BY StateWords DEF Rest
<1>2. y.mem = x.mem
  BY <1>1
<1> QED
  BY <1>1, <1>2 DEF Rest, States

\* The gap before an aligned chunk becomes a free chunk.
LEMMA GapOK ==
    ASSUME NEW x, NEW C, NEW z, NEW F, NEW r, NEW P, NEW q, NEW B,
           HeapOK(x, x.end, C, z, F, r, P, q, B, {}), Settled(x, x.end, C, z, F),
           NEW b \in Nat, b >= 8, b % 8 = 0, x.end + b + 8 <= HEAP_LIMIT
    PROVE  LET y == SetEnd(alloc_node_add(SetSize(x, x.end, WithFree(b)), x.end), x.end + (b + 8))
           IN  /\ Inner(y, x.end + b + 8, P, B) /\ RestButEnd(x, y, P) /\ SameSizes(x, y, B)
               /\ y.end = x.end + b + 8
<1>0. PICK e : e = x.end
  OBVIOUS
<1>1. /\ x \in States /\ Tiling(C, e, z) /\ P \subseteq C /\ DOMAIN B \subseteq C /\ F \subseteq C
      /\ \A n \in C : alloc_get_size(x, n) = z[n]
  BY <1>0, ChunkWords
<1>2. /\ e \in Nat /\ First <= e /\ e - 8 \in Cells /\ e - 8 \in Nat
      /\ \A n \in C : n \in Nat /\ n < e /\ n + z[n] + 8 <= e /\ n \in Cells /\ z[n] \in Nat
                      /\ z[n] >= 8
  BY <1>1, TileCells, CellIs
<1>3. e + b \in Cells /\ e + b # e - 8 /\ e \in Cells
  <2>1. e % 8 = 0 /\ (e + b) % 8 = 0
    <3>1. e % 8 = 0
      BY <1>1, TileCells
    <3> QED
      BY <1>2, <3>1
  <2> QED
    BY <1>0, <1>2, <2>1, CellIs, HeapNumbers
<1>4. /\ NoFlags(b) = b /\ WithFree(b) = b + 1 /\ NoFlags(b + 1) = b
  <2>1. Tag(b, TRUE) = b + 1 /\ Tag(b, FALSE) = b
    BY DEF Tag, KM_CHUNK_FREE
  <2> QED
    BY <2>1, TagFacts
<1>5. PICK x1 : x1 = SetSize(x, e, b)
  OBVIOUS
<1>6. Resized(x, x1, e, b, b)
  BY <1>1, <1>2, <1>3, <1>4, <1>5, SetSizeIs
<1>7. /\ Rest(x, x1) /\ x1.free_list = x.free_list /\ x1 \in States
      /\ \A c \in Cells : /\ x1.mem[c].hi = IF c = e - 8 THEN b ELSE x.mem[c].hi
                          /\ x1.mem[c].lo = IF c = e + b THEN b ELSE x.mem[c].lo
                          /\ c # e - 8 /\ c # e + b => x1.mem[c] = x.mem[c]
  BY <1>6 DEF Resized, Rest
<1>8. PICK x2 : x2 = SetSize(x, e, b + 1)
  OBVIOUS
<1>9. PICK x3 : x3 = SetSize(x1, e, b + 1)
  OBVIOUS
<1>10. Resized(x, x2, e, b + 1, b)
  BY <1>1, <1>2, <1>3, <1>4, <1>8, SetSizeIs
<1>11. Resized(x1, x3, e, b + 1, b)
  <2>1. x1 \in States /\ b + 1 \in Nat /\ e \in Nat /\ e - 8 \in Cells /\ e + b \in Cells
    BY <1>2, <1>3, <1>7
  <2> QED
    BY <1>4, <1>9, <2>1, SetSizeIs
<1>12. x3 = x2
  <2>1. x2 \in States /\ x3 \in States /\ Rest(x2, x3) /\ x3.free_list = x2.free_list
    BY <1>7, <1>10, <1>11 DEF Resized, Rest
  <2>2. ASSUME NEW c \in Cells PROVE x3.mem[c] = x2.mem[c]
    <3>1. /\ x2.mem[c].hi = IF c = e - 8 THEN b + 1 ELSE x.mem[c].hi
          /\ x2.mem[c].lo = IF c = e + b THEN b + 1 ELSE x.mem[c].lo
      BY <1>10 DEF Resized
    <3>2. /\ x3.mem[c].hi = IF c = e - 8 THEN b + 1 ELSE x1.mem[c].hi
          /\ x3.mem[c].lo = IF c = e + b THEN b + 1 ELSE x1.mem[c].lo
      BY <1>11 DEF Resized
    <3>3. x3.mem[c].hi = x2.mem[c].hi /\ x3.mem[c].lo = x2.mem[c].lo
      BY <1>7, <3>1, <3>2
    <3>4. /\ x2.mem[c] = [lo |-> x2.mem[c].lo, hi |-> x2.mem[c].hi]
          /\ x3.mem[c] = [lo |-> x3.mem[c].lo, hi |-> x3.mem[c].hi]
      BY <2>1, StateWords
    <3> QED
      BY <3>3, <3>4
  <2> QED
    BY <2>1, <2>2, StateEq
<1>13. x1.mem[e - 8].hi = b
  BY <1>2, <1>7
<1>14. AddFree(x1, e) = alloc_node_add(x2, e)
  <2>1. x1.mem[e + b].lo = b
    BY <1>3, <1>7
  <2>2. alloc_set_free(x1, e) = SetSize(x1, e, b + 1)
    <3>1. x1 \in States /\ e \in Nat /\ b + 1 \in Nat /\ e - 8 \in Cells /\ e + b \in Cells
      BY <1>2, <1>3, <1>7
    <3> QED
      BY <1>4, <1>13, <2>1, <3>1, FlagIs
  <2> QED
    BY <1>9, <1>12, <2>2 DEF AddFree
<1>15. Grows(x, x1, e, b)
  <2>1. \A c \in Cells : c < e - 8 => x1.mem[c] = x.mem[c]
    <3> SUFFICES ASSUME NEW c \in Cells, c < e - 8 PROVE x1.mem[c] = x.mem[c]
      OBVIOUS
    <3>1. c # e - 8 /\ c # e + b
      BY <1>2, CellIs
    <3> QED
      BY <1>7, <3>1
  <2>2. x1.page_free_list = x.page_free_list
    BY <1>7 DEF Rest
  <2>3. x1.mem[e - 8].lo = x.mem[e - 8].lo /\ x1.mem[e + b].lo = b
    BY <1>2, <1>3, <1>7
  <2> QED
    BY <1>7, <1>13, <2>1, <2>2, <2>3 DEF Grows
<1>16. PICK D, t : D = C \cup {e} /\ t = [z EXCEPT ![e] = b]
  OBVIOUS
<1>17. HeapOK(x1, e + b + 8, D, t, F, r, P, q, B, {e}) /\ e \in Cells /\ e \notin C
  BY <1>0, <1>15, <1>16, GrowOK
<1>18. t[e] = b /\ \A n \in C : t[n] = z[n]
  BY <1>1, <1>2, <1>16, <1>17 DEF Tiling
<1>19. e + t[e] + 8 \notin F /\ \A m \in F : m + t[m] + 8 # e
  <2>1. \A m \in F : m + z[m] + 8 # e
    BY <1>0, HeapNumbers DEF Settled
  <2>2. e + b + 8 \notin F
    BY <1>1, <1>2
  <2> QED
    BY <1>1, <1>18, <2>1, <2>2
<1>20. PICK y1 : y1 = AddFree(x1, e)
  OBVIOUS
<1>21. PICK G, u : /\ G = F \cup {e} /\ HeapOK(y1, e + b + 8, D, t, G, u, P, q, B, {})
                   /\ Quiet(x1, y1, P, e + b + 8)
  BY <1>17, <1>19, <1>20, AddFreeOK
<1>22. PICK y : y = SetEnd(y1, e + b + 8)
  OBVIOUS
<1>23. y1 \in States /\ Rest(x1, y1) /\ \A n \in P : y1.mem[n] = x1.mem[n]
  BY <1>21 DEF Quiet, Rest
<1>24. /\ y \in States /\ y.mem = y1.mem /\ y.free_list = y1.free_list /\ y.end = e + b + 8
       /\ y.page_free_list = y1.page_free_list /\ y.heap_end_pma = y1.heap_end_pma
       /\ y.pte = y1.pte /\ y.first_run = y1.first_run /\ y.nested = y1.nested
  <2>1. e + b + 8 \in HEAP_START .. HEAP_LIMIT
    BY <1>0, <1>2, HeapNumbers
  <2> QED
    BY <1>22, <1>23, <2>1 DEF SetEnd, States
<1>25. HeapOK(y, e + b + 8, D, t, G, u, P, q, B, {})
  <2>1. Below(y1, y, e + b + 8)
    BY <1>24 DEF Below
  <2> QED
    BY <1>21, <2>1, Above
<1>26. EndTag(y, D, e + b + 8, t, G)
  <2> SUFFICES ASSUME NEW n \in D \ G, n + t[n] + 8 = e + b + 8 PROVE FALSE
    BY HeapNumbers DEF EndTag
  <2>1. n \in C /\ n # e
    BY <1>16, <1>21
  <2> QED
    BY <1>2, <1>18, <2>1
<1>27. Inner(y, e + b + 8, P, B)
  BY <1>25, <1>26 DEF Inner
<1>28. \A n \in P : y.mem[n] = x.mem[n]
  <2> SUFFICES ASSUME NEW n \in P PROVE y.mem[n] = x.mem[n]
    OBVIOUS
  <2>1. n \in C /\ n # e - 8 /\ n # e + b
    BY <1>1, <1>2
  <2> QED
    BY <1>2, <1>7, <1>23, <1>24, <2>1
<1>29. RestButEnd(x, y, P)
  BY <1>7, <1>23, <1>24, <1>28 DEF RestButEnd, Rest
<1>30. SameSizes(x, y, B)
  <2>1. \A n \in D : alloc_get_size(y, n) = t[n]
    BY <1>25, ChunkWords
  <2> QED
    BY <1>1, <1>16, <1>18, <2>1 DEF SameSizes
<1>31. y = SetEnd(alloc_node_add(SetSize(x, x.end, WithFree(b)), x.end), x.end + (b + 8))
  <2>1. e + b + 8 = e + (b + 8)
    BY <1>2
  <2> QED
    BY <1>0, <1>4, <1>8, <1>14, <1>20, <1>22, <2>1
<1> QED
  BY <1>0, <1>24, <1>27, <1>29, <1>30, <1>31

\* What alloc asks for is a number of cells, enough for the bytes.
LEMMA RoundedIs ==
    ASSUME NEW asked \in Nat
    PROVE  LET b == Rounded(asked) IN b \in Nat /\ b >= 8 /\ b % 8 = 0 /\ asked <= b
<1>1. asked % 8 \in 0 .. 7 /\ asked - (asked % 8) >= 0 /\ (asked - (asked % 8)) % 8 = 0
      /\ asked - (asked % 8) \in Nat
  OBVIOUS
<1>2. (asked - (asked % 8) + 8) % 8 = 0
  BY <1>1
<1>3. CASE asked = 0
  BY <1>3 DEF Rounded, KM_MIN_ALLOC_SIZE
<1>4. CASE asked # 0
  BY <1>1, <1>2, <1>4 DEF Rounded, KM_MIN_ALLOC_SIZE, align
<1> QED
  BY <1>3, <1>4

\* The gap is a number of cells and ends where the same page ends.
LEMMA GapIs ==
    ASSUME NEW x, x.end \in Nat, x.end % 8 = 0, NEW a \in {8, PAGE_SIZE}
    PROVE  LET g == Gap(x, a)
           IN  /\ g \in Nat /\ g % 8 = 0
               /\ align(x.end + g, PAGE_SIZE) = align(x.end, PAGE_SIZE)
               /\ (a = 8 => g = 0) /\ (a = PAGE_SIZE => x.end + g = align(x.end, PAGE_SIZE))
<1>0. PICK e \in Nat : e = x.end
  OBVIOUS
<1>1. CASE a = 8
  <2>1. Gap(x, a) = 0
    BY <1>0, <1>1 DEF Gap, align
  <2>2. 8 # PAGE_SIZE
    BY HeapNumbers
  <2>3. e + 0 = e /\ 0 \in Nat /\ 0 % 8 = 0
    OBVIOUS
  <2>4. align(x.end + 0, PAGE_SIZE) = align(x.end, PAGE_SIZE)
    BY <1>0, <2>3
  <2> QED
    BY <1>1, <2>1, <2>2, <2>3, <2>4
<1>2. CASE a = PAGE_SIZE
  <2>1. PICK t \in Nat : t = align(e, PAGE_SIZE)
    BY PageAlign
  <2>2. /\ e <= t /\ t % PAGE_SIZE = 0
    BY <2>1, PageAlign
  <2>3. t % 8 = 0
    BY <2>2, PageCells
  <2>4. align(t, PAGE_SIZE) = t
    BY <2>2, PageAlign
  <2>5. Gap(x, a) = t - e
    BY <1>0, <1>2, <2>1 DEF Gap
  <2>6. t - e \in Nat /\ (t - e) % 8 = 0 /\ e + (t - e) = t
    BY <1>0, <2>2, <2>3
  <2>7. a = 8 => FALSE
    BY <1>2, HeapNumbers
  <2> QED
    BY <1>0, <1>2, <2>1, <2>4, <2>5, <2>6, <2>7
<1> QED
  BY <1>1, <1>2

\* The same, with the chunk that may lie in between.
LEMMA PushGapOK ==
    ASSUME NEW x, NEW P, NEW B, Whole(x, P, B), NEW a \in {8, PAGE_SIZE},
           Gap(x, a) \notin 1 .. 8, x.end + Gap(x, a) <= HEAP_LIMIT
    PROVE  LET y == PushGap(x, a)
           IN  /\ Inner(y, y.end, P, B) /\ RestButEnd(x, y, P) /\ SameSizes(x, y, B)
               /\ y.end = x.end + Gap(x, a)
               /\ align(y.end, PAGE_SIZE) = align(x.end, PAGE_SIZE)
<1>1. PICK C, z, F, r, q : /\ HeapOK(x, x.end, C, z, F, r, P, q, B, {})
                           /\ Settled(x, x.end, C, z, F)
  BY DEF Whole
<1>2. x \in States /\ x.end \in Nat /\ x.end % 8 = 0
  BY <1>1, ChunkWords, TileCells
<1>3. PICK g \in Nat : /\ g = Gap(x, a) /\ g % 8 = 0
                       /\ align(x.end + g, PAGE_SIZE) = align(x.end, PAGE_SIZE)
  BY <1>2, GapIs
<1>4. CASE g = 0
  <2>1. PushGap(x, a) = x /\ x.end = x.end + g
    BY <1>2, <1>3, <1>4 DEF PushGap
  <2>2. EndTag(x, C, x.end, z, F)
    BY <1>1 DEF Settled
  <2>3. Inner(x, x.end, P, B)
    BY <1>1, <2>2 DEF Inner
  <2>4. RestButEnd(x, x, P) /\ SameSizes(x, x, B)
    BY <1>2 DEF RestButEnd, SameSizes
  <2> QED
    BY <1>3, <2>1, <2>3, <2>4
<1>5. CASE g # 0
  <2>1. PICK b \in Nat : b = g - 8 /\ b >= 8 /\ b % 8 = 0 /\ g = b + 8
    <3>1. g > 8
      BY <1>3, <1>5
    <3>2. g - 8 \in Nat /\ g - 8 >= 8 /\ (g - 8) % 8 = 0 /\ g = (g - 8) + 8
      BY <1>3, <3>1
    <3> QED
      BY <3>2
  <2>2. PushGap(x, a) = SetEnd(alloc_node_add(SetSize(x, x.end, WithFree(b)), x.end), x.end + (b + 8))
    BY <1>3, <1>5, <2>1, HeapNumbers DEF PushGap
  <2>3. x.end + b + 8 = x.end + g /\ x.end + b + 8 <= HEAP_LIMIT
    BY <1>2, <1>3, <2>1
  <2>4. PICK y : y = PushGap(x, a)
    OBVIOUS
  <2>5. /\ Inner(y, x.end + b + 8, P, B) /\ RestButEnd(x, y, P) /\ SameSizes(x, y, B)
        /\ y.end = x.end + b + 8
    BY <1>1, <2>1, <2>2, <2>3, <2>4, GapOK
  <2> QED
    BY <1>3, <2>3, <2>4, <2>5
<1> QED
  BY <1>4, <1>5

-----------------------------------------------------------------------------
(* Physical pages.                                                         *)

\* The pages known when those in A were freed, and where those may come from.
Pool(x, A) ==
    A \cup FREE_START .. x.heap_end_pma - 1 \cup (IF x.first_run THEN {} ELSE {LAPIC_PMA})

\* Pages of the init section: below those page_new takes, and not the APIC's.
Early(A) == A \subseteq 1 .. FREE_START - 1 /\ LAPIC_PMA \notin A

\* The page table entries and the pages in the nodes P are the same.
SamePages(x, y, P) == y.pte = x.pte /\ \A n \in P : y.mem[n].lo = x.mem[n].lo

\* The places of physical pages depend on entries and page list nodes only.
LEMMA FramesSame ==
    ASSUME NEW x, NEW y, NEW top, NEW P, NEW T, NEW K, Frames(x, top, P, T, K),
           SamePages(x, y, P)
    PROVE  Frames(y, top, P, T, K)
BY DEF Frames, SamePages

\* The first page of the page list is taken out.
LEMMA FramesTake ==
    ASSUME NEW x, NEW y, NEW top, NEW P, NEW T, NEW K, Frames(x, top, P, T, K),
           SamePages(x, y, P), NEW k \in P,
           NEW f, f = x.mem[k].lo
    PROVE  Frames(y, top, P \ {k}, T \cup {f}, K) /\ f \notin T
<1>1. /\ \A p \in Pages : y.pte[p].present <=> p < top
      /\ \A m, n \in P : x.mem[m].lo = x.mem[n].lo => m = n
      /\ \A p, s \in Pages : p < top /\ s < top /\ y.pte[p].pma = y.pte[s].pma => p = s
      /\ \A n \in P : /\ x.mem[n].lo \in K \ T
                      /\ \A p \in Pages : p < top => y.pte[p].pma # x.mem[n].lo
      /\ \A p \in Pages : p < top => y.pte[p].pma \in K \ T
      /\ T \subseteq K
      /\ \A g \in K : \/ g \in T \/ \E n \in P : x.mem[n].lo = g
                      \/ \E p \in Pages : p < top /\ y.pte[p].pma = g
  BY DEF Frames, SamePages
<1>2. f \in K \ T
  BY <1>1
<1>3. \A m, n \in P \ {k} : y.mem[m].lo = y.mem[n].lo => m = n
  BY <1>1 DEF SamePages
<1>4. \A n \in P \ {k} : /\ y.mem[n].lo \in K \ (T \cup {f})
                         /\ \A p \in Pages : p < top => y.pte[p].pma # y.mem[n].lo
  BY <1>1 DEF SamePages
<1>5. \A p \in Pages : p < top => y.pte[p].pma \in K \ (T \cup {f})
  BY <1>1
<1>6. \A g \in K : \/ g \in T \cup {f} \/ \E n \in P \ {k} : y.mem[n].lo = g
                   \/ \E p \in Pages : p < top /\ y.pte[p].pma = g
  BY <1>1 DEF SamePages
<1> QED
  BY <1>1, <1>2, <1>3, <1>4, <1>5, <1>6 DEF Frames

\* A page not known so far is taken.
LEMMA FramesNew ==
    ASSUME NEW x, NEW y, NEW top, NEW P, NEW T, NEW K, Frames(x, top, P, T, K),
           SamePages(x, y, P), NEW f, f \notin K
    PROVE  Frames(y, top, P, T \cup {f}, K \cup {f}) /\ f \notin T
<1>1. /\ \A p \in Pages : y.pte[p].present <=> p < top
      /\ \A m, n \in P : y.mem[m].lo = y.mem[n].lo => m = n
      /\ \A p, s \in Pages : p < top /\ s < top /\ y.pte[p].pma = y.pte[s].pma => p = s
      /\ \A n \in P : /\ y.mem[n].lo \in K \ T
                      /\ \A p \in Pages : p < top => y.pte[p].pma # y.mem[n].lo
      /\ \A p \in Pages : p < top => y.pte[p].pma \in K \ T
      /\ T \subseteq K
      /\ \A g \in K : \/ g \in T \/ \E n \in P : y.mem[n].lo = g
                      \/ \E p \in Pages : p < top /\ y.pte[p].pma = g
  BY DEF Frames, SamePages
<1> QED
  BY <1>1 DEF Frames

\* The page taken is mapped behind the others.
LEMMA FramesMap ==
    ASSUME NEW x \in States, NEW y, NEW top \in Pages, NEW P, NEW T, NEW f \in Nat, f \notin T,
           NEW K, Frames(x, top, P, T \cup {f}, K),
           y.pte = [x.pte EXCEPT ![top] = [pma |-> f, present |-> TRUE]],
           \A n \in P : y.mem[n].lo = x.mem[n].lo
    PROVE  Frames(y, top + PAGE_SIZE, P, T, K)
<1>1. /\ \A p \in Pages : x.pte[p].present <=> p < top
      /\ \A m, n \in P : y.mem[m].lo = y.mem[n].lo => m = n
      /\ \A p, s \in Pages : p < top /\ s < top /\ x.pte[p].pma = x.pte[s].pma => p = s
      /\ \A n \in P : /\ y.mem[n].lo \in K \ (T \cup {f})
                      /\ \A p \in Pages : p < top => x.pte[p].pma # y.mem[n].lo
      /\ \A p \in Pages : p < top => x.pte[p].pma \in K \ (T \cup {f})
      /\ T \cup {f} \subseteq K
      /\ \A g \in K : \/ g \in T \cup {f} \/ \E n \in P : y.mem[n].lo = g
                      \/ \E p \in Pages : p < top /\ x.pte[p].pma = g
  BY DEF Frames, SamePages
<1>2. /\ y.pte[top].pma = f /\ y.pte[top].present = TRUE
      /\ \A p \in Pages : p # top => y.pte[p] = x.pte[p]
  BY StateWords
<1>3. ASSUME NEW p \in Pages PROVE p < top + PAGE_SIZE <=> p < top \/ p = top
  <2>1. p \in Nat /\ top \in Nat /\ p % PAGE_SIZE = 0 /\ top % PAGE_SIZE = 0
    BY PageIs, CellIs
  <2>2. top < p => top + PAGE_SIZE <= p
    BY <2>1, PageOrder
  <2> QED
    BY <2>1, <2>2, HeapNumbers
<1>4. ~(top < top)
  BY PageIs, CellIs
<1>5. \A p \in Pages : y.pte[p].present <=> p < top + PAGE_SIZE
  BY <1>1, <1>2, <1>3
<1>6. \A p \in Pages : p < top => y.pte[p] = x.pte[p]
  BY <1>2, <1>4
<1>7. \A p, s \in Pages : p < top + PAGE_SIZE /\ s < top + PAGE_SIZE /\ y.pte[p].pma = y.pte[s].pma
                          => p = s
  BY <1>1, <1>2, <1>3, <1>6
<1>8. \A n \in P : /\ y.mem[n].lo \in K \ T
                   /\ \A p \in Pages : p < top + PAGE_SIZE => y.pte[p].pma # y.mem[n].lo
  BY <1>1, <1>2, <1>3, <1>6
<1>9. \A p \in Pages : p < top + PAGE_SIZE => y.pte[p].pma \in K \ T
  BY <1>1, <1>2, <1>3, <1>6
<1>10. ASSUME NEW g \in K
       PROVE  \/ g \in T \/ \E n \in P : y.mem[n].lo = g
              \/ \E p \in Pages : p < top + PAGE_SIZE /\ y.pte[p].pma = g
  <2>1. CASE g = f
    BY <1>2, <1>3, <2>1
  <2>2. CASE g # f
    BY <1>1, <1>3, <1>6, <2>2
  <2> QED
    BY <2>1, <2>2
<1> QED
  BY <1>1, <1>5, <1>7, <1>8, <1>9, <1>10 DEF Frames

\* A page not known so far gets a node of the page list.
LEMMA FramesPut ==
    ASSUME NEW x, NEW y, NEW top, NEW P, NEW T, NEW K, Frames(x, top, P, T, K),
           SamePages(x, y, P), NEW k, k \notin P,
           NEW f, f \notin K, y.mem[k].lo = f
    PROVE  Frames(y, top, P \cup {k}, T, K \cup {f})
<1>1. /\ \A p \in Pages : y.pte[p].present <=> p < top
      /\ \A m, n \in P : y.mem[m].lo = y.mem[n].lo => m = n
      /\ \A p, s \in Pages : p < top /\ s < top /\ y.pte[p].pma = y.pte[s].pma => p = s
      /\ \A n \in P : /\ y.mem[n].lo \in K \ T
                      /\ \A p \in Pages : p < top => y.pte[p].pma # y.mem[n].lo
      /\ \A p \in Pages : p < top => y.pte[p].pma \in K \ T
      /\ T \subseteq K
      /\ \A g \in K : \/ g \in T \/ \E n \in P : y.mem[n].lo = g
                      \/ \E p \in Pages : p < top /\ y.pte[p].pma = g
  BY DEF Frames, SamePages
<1> QED
  BY <1>1 DEF Frames

\* A factor of a product is bounded with the product.
LEMMA Factor ==
    ASSUME NEW k \in Int, NEW l \in Nat, NEW n \in Nat, n > 0, k * n < (l + 1) * n
    PROVE  k <= l
<1> SUFFICES ASSUME k > l PROVE FALSE
  OBVIOUS
<1>1. k \in Nat /\ l + 1 \in Nat /\ l + 1 <= k
  OBVIOUS
<1>2. (l + 1) * n <= k * n /\ k * n \in Nat /\ (l + 1) * n \in Nat
  BY <1>1, Times
<1> QED
  BY <1>2

\* page_new never reaches a page that is known, and the APIC's page is none of
\* those it took.
LEMMA Fresh ==
    ASSUME NEW x \in States, NEW A, Early(A), NEW T, IsFiniteSet(T), Cardinality(T) <= MaxLive,
           NEW top \in Nat, top % PAGE_SIZE = 0, HEAP_START <= top, top <= HEAP_LIMIT,
           Drawn(x, top, T)
    PROVE  /\ top < HEAP_LIMIT \/ Cardinality(T) < MaxLive => x.heap_end_pma \notin Pool(x, A)
           /\ x.first_run => LAPIC_PMA \notin Pool(x, A)
<1>0. PICK c \in Nat : c = Cardinality(T)
  BY FS_CardinalityType
<1>1. /\ MaxLive \in Nat /\ FREE_START \in Nat /\ LAPIC_PMA \in Nat /\ x.heap_end_pma \in Nat
      /\ A \subseteq 1 .. FREE_START - 1 /\ LAPIC_PMA \notin A
  BY CallAssumption, FrameAssumption, StateWords DEF Early
<1>2. PICK l \in Nat : l = HEAP_LIMIT - HEAP_START
  BY HeapNumbers
<1>3. PICK N \in Nat : N = l \div PAGE_SIZE /\ l < (N + 1) * PAGE_SIZE /\ N * PAGE_SIZE <= l
  <2>1. /\ l \div PAGE_SIZE \in Nat /\ l % PAGE_SIZE \in Nat /\ l % PAGE_SIZE < PAGE_SIZE
        /\ (l \div PAGE_SIZE) * PAGE_SIZE \in Nat /\ l = (l \div PAGE_SIZE) * PAGE_SIZE + (l % PAGE_SIZE)
    BY HeapNumbers, Divide
  <2>2. (l \div PAGE_SIZE + 1) * PAGE_SIZE = (l \div PAGE_SIZE) * PAGE_SIZE + PAGE_SIZE
    BY <2>1, HeapNumbers, Times
  <2> QED
    BY <2>1, <2>2, HeapNumbers
<1>4. PICK k \in Int : k = x.heap_end_pma - FREE_START - c
  BY <1>1
<1>5. k * PAGE_SIZE <= top - HEAP_START /\ x.heap_end_pma >= FREE_START
  BY <1>0, <1>4 DEF Drawn
<1>6. k * PAGE_SIZE \in Int /\ (k + 1) * PAGE_SIZE = k * PAGE_SIZE + PAGE_SIZE
  BY HeapNumbers
<1>7. k <= N
  <2>1. k * PAGE_SIZE < (N + 1) * PAGE_SIZE
    BY <1>2, <1>3, <1>5, <1>6, HeapNumbers, Times
  <2> QED
    BY <2>1, HeapNumbers, Factor
<1>8. top < HEAP_LIMIT => k + 1 <= N
  <2> SUFFICES ASSUME top < HEAP_LIMIT PROVE k + 1 <= N
    OBVIOUS
  <2>1. top + PAGE_SIZE <= HEAP_LIMIT
    BY HeapNumbers, PageOrder
  <2>2. (N + 1) * PAGE_SIZE \in Nat
    BY HeapNumbers, Times
  <2>3. (k + 1) * PAGE_SIZE < (N + 1) * PAGE_SIZE
    BY <1>2, <1>3, <1>5, <1>6, <2>1, <2>2, HeapNumbers
  <2>4. k + 1 \in Int
    OBVIOUS
  <2> QED
    BY <2>3, <2>4, HeapNumbers, Factor
<1>9. \/ LAPIC_PMA < FREE_START \/ LAPIC_PMA >= FREE_START + N + MaxLive
  BY <1>2, <1>3, FrameAssumption
<1>10. ASSUME top < HEAP_LIMIT \/ c < MaxLive PROVE x.heap_end_pma \notin Pool(x, A)
  <2>1. x.heap_end_pma # LAPIC_PMA
    <3>1. x.heap_end_pma < FREE_START + N + MaxLive
      BY <1>0, <1>1, <1>4, <1>7, <1>8, <1>10
    <3> QED
      BY <1>1, <1>5, <1>9, <3>1
  <2>2. x.heap_end_pma \notin A
    BY <1>1, <1>5
  <2> QED
    BY <1>1, <2>1, <2>2 DEF Pool
<1>11. ASSUME x.first_run PROVE LAPIC_PMA \notin Pool(x, A)
  <2>1. LAPIC_PMA < FREE_START \/ LAPIC_PMA >= x.heap_end_pma
    BY <1>0, <1>1, <1>4, <1>7, <1>9
  <2> QED
    BY <1>1, <1>11, <2>1 DEF Pool
<1> QED
  BY <1>0, <1>10, <1>11

\* y differs from x in its page list and in kernel_heap_end_pma only.
Apart(x, y, head, pma) ==
    /\ y \in States /\ y.mem = x.mem /\ y.free_list = x.free_list /\ y.end = x.end
    /\ y.pte = x.pte /\ y.first_run = x.first_run /\ y.nested = x.nested
    /\ y.page_free_list = head /\ y.heap_end_pma = pma

\* page_new takes the first node of the page list.
LEMMA TakeListed ==
    ASSUME NEW x, NEW e, NEW C, NEW z, NEW F, NEW r, NEW P, NEW q, NEW B,
           HeapOK(x, e, C, z, F, r, P, q, B, {}), NEW top, NEW T, NEW A,
           Frames(x, top, P, T, Pool(x, A)), x.page_free_list # NULL
    PROVE  LET g == TakePage(x)
               n == x.page_free_list
           IN  /\ g.node = n /\ n \in P /\ g.pma = x.mem[n].lo
               /\ HeapOK(g.h, e, C, z, F, r, P \ {n}, q, B, {n})
               /\ EndTag(x, C, e, z, F) => EndTag(g.h, C, e, z, F)
               /\ Apart(x, g.h, x.mem[n].hi, x.heap_end_pma)
               /\ Frames(g.h, top, P \ {n}, T \cup {g.pma}, Pool(g.h, A)) /\ g.pma \notin T
               /\ g.pma \in Pool(x, A)
<1>1. PICK n, y, f : /\ n = x.page_free_list /\ y = [x EXCEPT !.page_free_list = x.mem[n].hi]
                     /\ f = x.mem[n].lo
  OBVIOUS
<1>2. TakePage(x) = [h |-> y, pma |-> f, node |-> n]
  BY <1>1 DEF TakePage
<1>3. /\ x \in States /\ Tiling(C, e, z) /\ Tagged(x, C, z, F) /\ P \subseteq Cells
      /\ Linked(x, x.free_list, F, r) /\ BackLinked(x, x.free_list, F)
      /\ Linked(x, x.page_free_list, P, q) /\ Filled(x, B, z)
      /\ Owners(C, F, P, B, {}) /\ Merged(F, z)
  BY DEF HeapOK, Linked
<1>4. n \in P /\ Linked(x, x.mem[n].hi, P \ {n}, q) /\ x.mem[n].hi \in Cells \cup {NULL}
  BY <1>1, <1>3, Pop
<1>5. Apart(x, y, x.mem[n].hi, x.heap_end_pma)
  BY <1>1, <1>3, <1>4 DEF States, Apart
<1>6. HeapOK(y, e, C, z, F, r, P \ {n}, q, B, {n})
  <2>1. /\ y \in States /\ y.mem = x.mem /\ y.free_list = x.free_list
        /\ y.page_free_list = x.mem[n].hi
    BY <1>5 DEF Apart
  <2>2. Tagged(y, C, z, F) /\ Filled(y, B, z)
    BY <1>3, <2>1 DEF Tagged, Filled
  <2>3. Linked(y, y.free_list, F, r) /\ BackLinked(y, y.free_list, F)
    BY <1>3, <2>1 DEF Linked, BackLinked
  <2>4. Linked(y, y.page_free_list, P \ {n}, q)
    BY <1>4, <2>1 DEF Linked
  <2>5. Owners(C, F, P \ {n}, B, {n})
    BY <1>3, <1>4 DEF Owners
  <2> QED
    BY <1>3, <2>1, <2>2, <2>3, <2>4, <2>5 DEF HeapOK
<1>7. EndTag(x, C, e, z, F) => EndTag(y, C, e, z, F)
  BY <1>5 DEF EndTag, Apart
<1>8. Pool(y, A) = Pool(x, A)
  BY <1>5 DEF Apart, Pool
<1>9. Frames(y, top, P \ {n}, T \cup {f}, Pool(y, A)) /\ f \notin T
  <2>1. y.pte = x.pte /\ y.mem = x.mem
    BY <1>5 DEF Apart
  <2>2. PICK K : K = Pool(x, A)
    OBVIOUS
  <2>3. Frames(x, top, P, T, K)
    BY <2>2
  <2>4. Frames(y, top, P \ {n}, T \cup {f}, K) /\ f \notin T
    <3>1. f = x.mem[n].lo /\ n \in P /\ SamePages(x, y, P)
      BY <1>1, <1>4, <2>1 DEF SamePages
    <3> QED
      BY <2>3, <3>1, FramesTake
  <2> QED
    BY <1>8, <2>2, <2>4
<1>10. f \in Pool(x, A)
  BY <1>1, <1>4 DEF Frames
<1> QED
  BY <1>1, <1>2, <1>4, <1>5, <1>6, <1>7, <1>9, <1>10

\* page_new takes the next page that was never used.
LEMMA TakeUnused ==
    ASSUME NEW x, NEW e, NEW C, NEW z, NEW F, NEW r, NEW P, NEW q, NEW B,
           HeapOK(x, e, C, z, F, r, P, q, B, {}), NEW top, NEW T, NEW A,
           Frames(x, top, P, T, Pool(x, A)), x.page_free_list = NULL,
           x.heap_end_pma \notin Pool(x, A), x.heap_end_pma >= FREE_START
    PROVE  LET g == TakePage(x)
           IN  /\ g.node = NULL /\ g.pma = x.heap_end_pma
               /\ HeapOK(g.h, e, C, z, F, r, P, q, B, {})
               /\ EndTag(x, C, e, z, F) => EndTag(g.h, C, e, z, F)
               /\ Apart(x, g.h, x.page_free_list, x.heap_end_pma + 1)
               /\ Frames(g.h, top, P, T \cup {g.pma}, Pool(g.h, A)) /\ g.pma \notin T
<1>1. PICK y, f : y = [x EXCEPT !.heap_end_pma = x.heap_end_pma + 1] /\ f = x.heap_end_pma
  OBVIOUS
<1>2. TakePage(x) = [h |-> y, pma |-> f, node |-> NULL]
  BY <1>1 DEF TakePage
<1>3. x \in States /\ f \in Nat /\ FREE_START \in Nat
  BY <1>1, StateWords, FrameAssumption DEF HeapOK
<1>4. Apart(x, y, x.page_free_list, x.heap_end_pma + 1)
  BY <1>1, <1>3 DEF States, Apart
<1>5. Below(x, y, e)
  BY <1>4 DEF Below, Apart
<1>6. /\ HeapOK(y, e, C, z, F, r, P, q, B, {})
      /\ EndTag(x, C, e, z, F) => EndTag(y, C, e, z, F)
  BY <1>5, Above
<1>7. Pool(y, A) = Pool(x, A) \cup {f}
  <2>1. FREE_START .. (f + 1) - 1 = (FREE_START .. f - 1) \cup {f}
    BY <1>1, <1>3
  <2>2. y.heap_end_pma = f + 1 /\ y.first_run = x.first_run
    BY <1>1, <1>4 DEF Apart
  <2> QED
    BY <1>1, <2>1, <2>2 DEF Pool
<1>8. Frames(y, top, P, T \cup {f}, Pool(y, A)) /\ f \notin T
  <2>1. y.pte = x.pte /\ y.mem = x.mem
    BY <1>4 DEF Apart
  <2>2. PICK K : K = Pool(x, A)
    OBVIOUS
  <2>3. Frames(x, top, P, T, K) /\ f \notin K
    BY <1>1, <2>2
  <2>4. Frames(y, top, P, T \cup {f}, K \cup {f}) /\ f \notin T
    BY <2>1, <2>3, FramesNew DEF SamePages
  <2> QED
    BY <1>7, <2>2, <2>4
<1> QED
  BY <1>1, <1>2, <1>4, <1>6, <1>8

\* The page in hand after page_new, inside alloc.
Held(x, g, e, top, B, T, A) ==
    /\ \E P : Inner(g.h, e, P, B) /\ Frames(g.h, top, P, T \cup {g.pma}, Pool(g.h, A))
    /\ g.pma \notin T /\ g.pma \in Nat
    /\ g.h.end = x.end /\ g.h.nested = x.nested
    /\ g.h.heap_end_pma \in {x.heap_end_pma, x.heap_end_pma + 1}
    /\ SameSizes(x, g.h, B)

\* Physical pages are numbers.
LEMMA PoolNat ==
    ASSUME NEW x \in States, NEW A, Early(A) PROVE Pool(x, A) \subseteq Nat
<1>1. A \subseteq Nat /\ LAPIC_PMA \in Nat /\ FREE_START \in Nat /\ x.heap_end_pma \in Nat
  BY FrameAssumption, StateWords DEF Early
<1>2. FREE_START .. x.heap_end_pma - 1 \subseteq Nat
  BY <1>1
<1> QED
  BY <1>1, <1>2 DEF Pool

\* page_new inside alloc.
LEMMA PageNewInsideOK ==
    ASSUME NEW x, NEW e, NEW P, NEW B, Inner(x, e, P, B), e < x.end,
           NEW top, NEW T, NEW A, Early(A), Frames(x, top, P, T, Pool(x, A)),
           x.heap_end_pma \notin Pool(x, A), x.heap_end_pma >= FREE_START
    PROVE  Held(x, PageNewInside(x), e, top, B, T, A)
<1>1. PICK C, z, F, r, q : HeapOK(x, e, C, z, F, r, P, q, B, {}) /\ EndTag(x, C, e, z, F)
  BY DEF Inner
<1>2. /\ x \in States /\ DOMAIN B \subseteq C
      /\ \A n \in C : alloc_get_size(x, n) = z[n]
  BY <1>1, ChunkWords
<1>3. PICK g, y : g = PageNewInside(x) /\ y = TakePage(x).h
  OBVIOUS
<1>4. CASE x.page_free_list # NULL
  <2>1. PICK n, f, Q : /\ n = x.page_free_list /\ f = TakePage(x).pma /\ Q = P \ {n}
    OBVIOUS
  <2>2. /\ TakePage(x).node = n /\ n \in P
        /\ HeapOK(y, e, C, z, F, r, Q, q, B, {n}) /\ EndTag(y, C, e, z, F)
        /\ Apart(x, y, x.mem[n].hi, x.heap_end_pma)
        /\ Frames(y, top, Q, T \cup {f}, Pool(y, A)) /\ f \notin T
        /\ f \in Pool(x, A)
    BY <1>1, <1>3, <1>4, <2>1, TakeListed
  <2>3. e < y.end
    BY <2>2 DEF Apart
  <2>4. PICK w : w = FreeInside(y, n)
    OBVIOUS
  <2>5. Inner(w, e, Q, B) /\ Quiet(y, w, Q, e) /\ SameSizes(y, w, B)
    BY <2>2, <2>3, <2>4, FreeInsideOK
  <2>6. g.h = w /\ g.pma = f
    BY <1>3, <1>4, <2>1, <2>2, <2>4 DEF PageNewInside
  <2>7. /\ w.pte = y.pte /\ w.heap_end_pma = y.heap_end_pma /\ w.first_run = y.first_run
        /\ w.nested = y.nested /\ w.end = y.end /\ \A m \in Q : w.mem[m] = y.mem[m]
    BY <2>5 DEF Quiet, Rest
  <2>8. Pool(w, A) = Pool(y, A)
    BY <2>7 DEF Pool
  <2>9. Frames(w, top, Q, T \cup {f}, Pool(w, A))
    BY <2>2, <2>7, <2>8, FramesSame DEF SamePages
  <2>10. f \in Nat
    BY <1>2, <2>2, PoolNat
  <2>11. SameSizes(x, w, B)
    <3>1. \A k \in DOMAIN B : alloc_get_size(y, k) = alloc_get_size(x, k)
      BY <2>2 DEF Apart, alloc_get_size
    <3> QED
      BY <2>5, <3>1 DEF SameSizes
  <2>12. w.end = x.end /\ w.nested = x.nested /\ w.heap_end_pma = x.heap_end_pma
    BY <2>2, <2>7 DEF Apart
  <2> QED
    BY <1>3, <2>2, <2>5, <2>6, <2>9, <2>10, <2>11, <2>12 DEF Held
<1>5. CASE x.page_free_list = NULL
  <2>1. PICK f : f = TakePage(x).pma
    OBVIOUS
  <2>2. /\ TakePage(x).node = NULL /\ f = x.heap_end_pma
        /\ HeapOK(y, e, C, z, F, r, P, q, B, {}) /\ EndTag(y, C, e, z, F)
        /\ Apart(x, y, x.page_free_list, x.heap_end_pma + 1)
        /\ Frames(y, top, P, T \cup {f}, Pool(y, A)) /\ f \notin T
    BY <1>1, <1>3, <1>5, <2>1, TakeUnused
  <2>3. g.h = y /\ g.pma = f
    BY <1>3, <2>1, <2>2 DEF PageNewInside
  <2>4. Inner(y, e, P, B)
    BY <2>2 DEF Inner
  <2>5. f \in Nat
    BY <1>2, <2>2, StateWords
  <2>6. SameSizes(x, y, B)
    BY <2>2 DEF Apart, SameSizes, alloc_get_size
  <2>7. y.end = x.end /\ y.nested = x.nested /\ y.heap_end_pma = x.heap_end_pma + 1
    BY <2>2 DEF Apart
  <2> QED
    BY <1>3, <2>2, <2>3, <2>4, <2>5, <2>6, <2>7 DEF Held
<1> QED
  BY <1>4, <1>5

\* The same from either source of alloc.
LEMMA GetPageOK ==
    ASSUME NEW x, NEW e, NEW P, NEW B, Inner(x, e, P, B), e < x.end,
           NEW top, NEW T, NEW A, Early(A), Frames(x, top, P, T, Pool(x, A)),
           x.heap_end_pma \notin Pool(x, A), x.heap_end_pma >= FREE_START,
           x.first_run => LAPIC_PMA \notin Pool(x, A), NEW src
    PROVE  Held(x, GetPage(x, src), e, top, B, T, A)
<1>1. PICK C, z, F, r, q : HeapOK(x, e, C, z, F, r, P, q, B, {}) /\ EndTag(x, C, e, z, F)
  BY DEF Inner
<1>2. CASE src = "lvt" /\ x.first_run
  <2>1. PICK y : y = [x EXCEPT !.first_run = FALSE]
    OBVIOUS
  <2>2. GetPage(x, src) = [h |-> y, pma |-> LAPIC_PMA]
    BY <1>2, <2>1 DEF GetPage, lvt_get_page_pma
  <2>3. x \in States
    BY <1>1 DEF HeapOK
  <2>4. /\ y \in States /\ y.mem = x.mem /\ y.free_list = x.free_list /\ y.end = x.end
        /\ y.pte = x.pte /\ y.first_run = FALSE /\ y.nested = x.nested
        /\ y.page_free_list = x.page_free_list /\ y.heap_end_pma = x.heap_end_pma
    BY <2>1, <2>3 DEF States
  <2>5. Below(x, y, e)
    BY <2>4 DEF Below
  <2>6. Inner(y, e, P, B)
    BY <1>1, <2>5, Above DEF Inner
  <2>7. Pool(y, A) = Pool(x, A) \cup {LAPIC_PMA}
    BY <1>2, <2>4 DEF Pool
  <2>8. Frames(y, top, P, T \cup {LAPIC_PMA}, Pool(y, A)) /\ LAPIC_PMA \notin T
    BY <1>2, <2>4, <2>7, FramesNew DEF SamePages
  <2>9. LAPIC_PMA \in Nat
    BY FrameAssumption
  <2>10. SameSizes(x, y, B)
    BY <2>4 DEF SameSizes, alloc_get_size
  <2> QED
    BY <2>2, <2>4, <2>6, <2>8, <2>9, <2>10 DEF Held
<1>3. CASE ~(src = "lvt" /\ x.first_run)
  <2>1. GetPage(x, src) = PageNewInside(x)
    BY <1>3 DEF GetPage, lvt_get_page_pma
  <2> QED
    BY <2>1, PageNewInsideOK
<1> QED
  BY <1>2, <1>3

\* The page in hand is mapped behind the chunks.
LEMMA MapPageOK ==
    ASSUME NEW x, NEW g, NEW e, NEW top \in Pages, NEW B, NEW T, NEW A,
           Held(x, g, e, top, B, T, A), e <= top
    PROVE  LET y == MapPage(g, top)
           IN  /\ \E P : Inner(y, e, P, B) /\ Frames(y, top + PAGE_SIZE, P, T, Pool(y, A))
               /\ y.end = x.end /\ y.nested = x.nested
               /\ y.heap_end_pma \in {x.heap_end_pma, x.heap_end_pma + 1}
               /\ SameSizes(x, y, B)
<1>1. PICK P : Inner(g.h, e, P, B) /\ Frames(g.h, top, P, T \cup {g.pma}, Pool(g.h, A))
  BY DEF Held
<1>2. PICK w, f : w = g.h /\ f = g.pma
  OBVIOUS
<1>3. PICK C, z, F, r, q : HeapOK(w, e, C, z, F, r, P, q, B, {}) /\ EndTag(w, C, e, z, F)
  BY <1>1, <1>2 DEF Inner
<1>4. /\ w \in States /\ Tiling(C, e, z) /\ P \subseteq C /\ DOMAIN B \subseteq C
      /\ \A n \in C : alloc_get_size(w, n) = z[n]
  BY <1>3, ChunkWords
<1>5. e \in Nat /\ \A n \in C : n \in Nat /\ n < e /\ n \in Cells
  BY <1>4, TileCells
<1>6. f \in Nat /\ f \notin T /\ top \in Nat /\ Junk \in Int
  BY <1>2, CallAssumption, PageIs, CellIs DEF Held
<1>7. PICK y : y = MapPage(g, top)
  OBVIOUS
<1>8. PICK M : M = [a \in Cells |-> IF top <= a /\ a < top + PAGE_SIZE
                                    THEN [lo |-> Junk, hi |-> Junk] ELSE w.mem[a]]
  OBVIOUS
<1>9. y = [w EXCEPT !.pte[top] = [pma |-> f, present |-> TRUE], !.mem = M]
  BY <1>2, <1>7, <1>8 DEF MapPage
<1>10. M \in [Cells -> [lo : Int, hi : Int]] /\ \A c \in Cells : c < e => M[c] = w.mem[c]
  <2>1. w.mem \in [Cells -> [lo : Int, hi : Int]]
    BY <1>4, StateWords
  <2>2. [lo |-> Junk, hi |-> Junk] \in [lo : Int, hi : Int]
    BY <1>6
  <2>3. \A c \in Cells : c < e => ~(top <= c)
    BY <1>5, <1>6, CellIs
  <2> QED
    BY <1>8, <2>1, <2>2, <2>3
<1>11. [w.pte EXCEPT ![top] = [pma |-> f, present |-> TRUE]] \in [Pages -> [pma : Nat, present : BOOLEAN]]
  BY <1>4, <1>6, StateWords
<1>12. /\ y \in States /\ y.mem = M /\ y.free_list = w.free_list /\ y.end = w.end
       /\ y.pte = [w.pte EXCEPT ![top] = [pma |-> f, present |-> TRUE]]
       /\ y.first_run = w.first_run /\ y.nested = w.nested
       /\ y.page_free_list = w.page_free_list /\ y.heap_end_pma = w.heap_end_pma
  BY <1>4, <1>9, <1>10, <1>11 DEF States
<1>13. Below(w, y, e)
  BY <1>10, <1>12 DEF Below
<1>14. HeapOK(y, e, C, z, F, r, P, q, B, {}) /\ EndTag(y, C, e, z, F)
  BY <1>3, <1>13, Above
<1>15. Inner(y, e, P, B)
  BY <1>14 DEF Inner
<1>16. Pool(y, A) = Pool(w, A)
  BY <1>12 DEF Pool
<1>17. Frames(y, top + PAGE_SIZE, P, T, Pool(y, A))
  <2>1. \A n \in P : y.mem[n].lo = w.mem[n].lo
    BY <1>4, <1>5, <1>10, <1>12
  <2>2. PICK K : K = Pool(w, A)
    OBVIOUS
  <2>3. Frames(w, top, P, T \cup {f}, K)
    BY <1>1, <1>2, <2>2
  <2>4. Frames(y, top + PAGE_SIZE, P, T, K)
    BY <1>4, <1>6, <1>12, <2>1, <2>3, FramesMap
  <2> QED
    BY <1>16, <2>2, <2>4
<1>18. SameSizes(x, y, B)
  <2>1. \A n \in C : alloc_get_size(y, n) = z[n]
    BY <1>14, ChunkWords
  <2>2. SameSizes(x, w, B)
    BY <1>2 DEF Held
  <2> QED
    BY <1>4, <2>1, <2>2 DEF SameSizes
<1> QED
  BY <1>2, <1>7, <1>12, <1>15, <1>17, <1>18 DEF Held

\* While alloc maps pages for a heap whose chunks end at e: y has come from x
\* and is mapped up to top.
Mid(x, y, e, top, B, T, A) ==
    /\ \E P : Inner(y, e, P, B) /\ Frames(y, top, P, T, Pool(y, A))
    /\ Drawn(y, top, T)
    /\ y.end = x.end /\ y.nested = x.nested /\ SameSizes(x, y, B)

\* The sets of pages alloc may be called with.
Taken(T) == IsFiniteSet(T) /\ Cardinality(T) <= MaxLive

\* One pass of the loop.
LEMMA PassOK ==
    ASSUME NEW x, NEW y, NEW e, NEW top \in Pages, NEW B, NEW T, NEW A,
           Mid(x, y, e, top, B, T, A), e <= top, e < x.end, Early(A), Taken(T), NEW src
    PROVE  Mid(x, MapPage(GetPage(y, src), top), e, top + PAGE_SIZE, B, T, A)
<1>1. PICK P : Inner(y, e, P, B) /\ Frames(y, top, P, T, Pool(y, A))
  BY DEF Mid
<1>2. /\ Drawn(y, top, T) /\ y.end = x.end /\ y.nested = x.nested /\ SameSizes(x, y, B)
  BY DEF Mid
<1>3. y \in States
  BY <1>1 DEF Inner, HeapOK
<1>4. /\ top \in Nat /\ top % PAGE_SIZE = 0 /\ HEAP_START <= top /\ top < HEAP_LIMIT
  BY PageIs, CellIs
<1>5. y.heap_end_pma \notin Pool(y, A) /\ (y.first_run => LAPIC_PMA \notin Pool(y, A))
  <2>1. top <= HEAP_LIMIT
    BY <1>4, HeapNumbers
  <2> QED
    BY <1>2, <1>3, <1>4, <2>1, Fresh DEF Taken
<1>6. y.heap_end_pma >= FREE_START /\ e < y.end
  BY <1>2 DEF Drawn
<1>7. PICK g : g = GetPage(y, src)
  OBVIOUS
<1>8. Held(y, g, e, top, B, T, A)
  BY <1>1, <1>5, <1>6, <1>7, GetPageOK
<1>9. PICK w : w = MapPage(g, top)
  OBVIOUS
<1>10. /\ \E Q : Inner(w, e, Q, B) /\ Frames(w, top + PAGE_SIZE, Q, T, Pool(w, A))
       /\ w.end = y.end /\ w.nested = y.nested
       /\ w.heap_end_pma \in {y.heap_end_pma, y.heap_end_pma + 1}
       /\ SameSizes(y, w, B)
  BY <1>8, <1>9, MapPageOK
<1>11. Drawn(w, top + PAGE_SIZE, T)
  <2>1. PICK c \in Nat : c = Cardinality(T)
    BY FS_CardinalityType DEF Taken
  <2>2. PICK i \in Int, j \in Int : i = y.heap_end_pma - FREE_START - c
                                    /\ j = w.heap_end_pma - FREE_START - c
    BY <1>3, <1>10, StateWords, FrameAssumption
  <2>3. j = i \/ j = i + 1
    <3>1. PICK u \in Nat, v \in Nat : u = y.heap_end_pma /\ v = w.heap_end_pma /\ (v = u \/ v = u + 1)
      BY <1>3, <1>10, StateWords
    <3>2. FREE_START \in Nat
      BY FrameAssumption
    <3>3. i = u - FREE_START - c /\ j = v - FREE_START - c
      BY <2>2, <3>1
    <3> QED
      BY <3>1, <3>2, <3>3
  <2>4. i * PAGE_SIZE <= top - HEAP_START
    BY <1>2, <2>1, <2>2 DEF Drawn
  <2>5. (i + 1) * PAGE_SIZE = i * PAGE_SIZE + PAGE_SIZE /\ i * PAGE_SIZE \in Int
    BY HeapNumbers
  <2>6. j * PAGE_SIZE <= (top + PAGE_SIZE) - HEAP_START
    BY <1>4, <2>3, <2>4, <2>5, HeapNumbers
  <2>7. w.heap_end_pma >= FREE_START
    BY <1>3, <1>6, <1>10, StateWords, FrameAssumption
  <2>8. (w.heap_end_pma - FREE_START - Cardinality(T)) * PAGE_SIZE = j * PAGE_SIZE
    BY <2>1, <2>2
  <2> QED
    BY <2>6, <2>7, <2>8 DEF Drawn
<1>12. SameSizes(x, w, B)
  BY <1>2, <1>10 DEF SameSizes
<1> QED
  BY <1>2, <1>7, <1>9, <1>10, <1>11, <1>12 DEF Mid

\* The loop over the new pages.
LEMMA MappingOK ==
    ASSUME NEW x, NEW e, NEW top \in Nat, top % PAGE_SIZE = 0, HEAP_START <= top,
           NEW B, NEW T, NEW A, Mid(x, x, e, top, B, T, A),
           e <= top, e < x.end, Early(A), Taken(T), NEW src,
           NEW n \in Nat, top + n * PAGE_SIZE <= HEAP_LIMIT
    PROVE  Mid(x, Mapping(x, top, n, src)[n], e, top + n * PAGE_SIZE, B, T, A)
<1> DEFINE Step(y, k) == MapPage(GetPage(y, src), top + k * PAGE_SIZE)
           OK(y, k) == Mid(x, y, e, top + k * PAGE_SIZE, B, T, A)
           Loop(g) == g = [k \in 0 .. n |-> IF k = 0 THEN x ELSE Step(g[k - 1], k - 1)]
           w == CHOOSE g : Loop(g)
<1>1. x \in States /\ e \in Nat
  BY TileCells DEF Mid, Inner, HeapOK
<1>2. OK(x, 0)
  <2>1. top + 0 * PAGE_SIZE = top
    BY HeapNumbers
  <2> QED
    BY <2>1
<1>3. ASSUME NEW k \in 0 .. n - 1, NEW y, OK(y, k) PROVE OK(Step(y, k), k + 1) /\ Step(y, k) \in States
  <2>1. /\ k * PAGE_SIZE \in Nat /\ (k + 1) * PAGE_SIZE = k * PAGE_SIZE + PAGE_SIZE
        /\ (k + 1) * PAGE_SIZE <= n * PAGE_SIZE /\ n * PAGE_SIZE \in Nat
    BY HeapNumbers, Times
  <2>2. PICK p \in Nat : p = top + k * PAGE_SIZE
    BY <2>1
  <2>3. p + PAGE_SIZE <= HEAP_LIMIT /\ top <= p /\ e <= p /\ p + PAGE_SIZE = top + (k + 1) * PAGE_SIZE
    BY <1>1, <2>1, <2>2, HeapNumbers
  <2>4. p % PAGE_SIZE = 0
    <3>1. top = (top \div PAGE_SIZE) * PAGE_SIZE /\ top \div PAGE_SIZE \in Nat
      BY HeapNumbers, Divide
    <3>2. PICK i \in Nat : i = top \div PAGE_SIZE
      BY <3>1
    <3>3. p = (i + k) * PAGE_SIZE + 0
      <4>1. (i + k) * PAGE_SIZE = i * PAGE_SIZE + k * PAGE_SIZE
        BY HeapNumbers
      <4> QED
        BY <2>2, <3>1, <3>2, <4>1, HeapNumbers
    <3> QED
      BY <3>3, HeapNumbers, DivideUnique
  <2>5. p \in Pages
    BY <2>3, <2>4, PageCells, PageIs, CellIs, HeapNumbers
  <2>6. Mid(x, y, e, p, B, T, A)
    BY <1>3, <2>2
  <2>7. Mid(x, MapPage(GetPage(y, src), p), e, p + PAGE_SIZE, B, T, A)
    BY <2>3, <2>5, <2>6, PassOK
  <2>8. OK(Step(y, k), k + 1)
    BY <2>2, <2>3, <2>7
  <2> QED
    BY <2>8 DEF Mid, Inner, HeapOK
<1>4. PICK f \in [0 .. n -> States] :
          /\ f[0] = x /\ \A k \in 0 .. n - 1 : Step(f[k], k) \in States => f[k + 1] = Step(f[k], k)
  <2> HIDE DEF Step
  <2> DEFINE W(k) == [s \in States |-> IF Step(s, k) \in States THEN Step(s, k) ELSE x]
             D == [k \in 0 .. n - 1 |-> W(k)]
  <2>1. \A k \in 0 .. n - 1 : W(k) \in [States -> States]
    BY <1>1
  <2>2. D \in RecursionSteps(0, n, States)
    <3> HIDE DEF W
    <3> QED
      BY <2>1 DEF RecursionSteps
  <2>3. PICK f : Recursion(f, 0, n, States, x, D)
    <3> HIDE DEF D
    <3> QED
      BY <1>1, <2>2, PrimRec
  <2>4. /\ f \in [0 .. n -> States] /\ f[0] = x
        /\ \A k \in 0 .. n - 1 : f[k + 1] = D[k][f[k]]
    BY <2>3 DEF Recursion
  <2>5. ASSUME NEW k \in 0 .. n - 1, Step(f[k], k) \in States PROVE f[k + 1] = Step(f[k], k)
    <3>1. f[k] \in States /\ D[k] = W(k)
      BY <2>4
    <3> QED
      BY <2>4, <2>5, <3>1
  <2> QED
    BY <2>4, <2>5
<1> HIDE DEF OK, Step
<1>5. \A k \in 0 .. n : OK(f[k], k)
  <2> DEFINE S == {k \in Int : OK(f[k], k)}
  <2>1. 0 \in S
    BY <1>2, <1>4
  <2>2. \A k \in 0 .. n - 1 : k \in S => k + 1 \in S
    BY <1>3, <1>4
  <2>3. \A k \in 0 .. n : k \in S
    <3> HIDE DEF S
    <3> QED
      BY <2>1, <2>2, Induct
  <2> QED
    BY <2>3
<1>6. Loop(f)
  <2>1. ASSUME NEW k \in 0 .. n PROVE f[k] = IF k = 0 THEN x ELSE Step(f[k - 1], k - 1)
    <3>1. CASE k = 0
      BY <1>4, <3>1
    <3>2. CASE k # 0
      <4>1. k - 1 \in 0 .. n - 1 /\ (k - 1) + 1 = k /\ k - 1 \in 0 .. n
        BY <3>2
      <4>2. Step(f[k - 1], k - 1) \in States
        BY <1>3, <1>5, <4>1
      <4>3. f[k] = Step(f[k - 1], k - 1)
        BY <1>4, <4>1, <4>2
      <4> QED
        BY <3>2, <4>3
    <3> QED
      BY <3>1, <3>2
  <2> QED
    BY <1>4, <2>1
<1>7. Loop(w)
  <2> HIDE DEF Loop
  <2> QED
    BY <1>6
<1>8. Mapping(x, top, n, src) = w
  BY DEF Mapping, Step
<1> HIDE DEF w
<1>9. w[0] = x /\ \A k \in 0 .. n - 1 : w[k + 1] = Step(w[k], k)
  <2>1. \A k \in 0 .. n : w[k] = IF k = 0 THEN x ELSE Step(w[k - 1], k - 1)
    BY <1>7
  <2>2. ASSUME NEW k \in 0 .. n - 1 PROVE w[k + 1] = Step(w[k], k)
    <3>1. k + 1 \in 0 .. n /\ k + 1 # 0 /\ (k + 1) - 1 = k
      OBVIOUS
    <3> QED
      BY <2>1, <3>1
  <2> QED
    BY <2>1, <2>2
<1> HIDE DEF Loop
<1>10. \A k \in 0 .. n : OK(w[k], k)
  <2> DEFINE S == {k \in Int : OK(w[k], k)}
  <2>1. 0 \in S
    BY <1>2, <1>9
  <2>2. \A k \in 0 .. n - 1 : k \in S => k + 1 \in S
    BY <1>3, <1>9
  <2>3. \A k \in 0 .. n : k \in S
    <3> HIDE DEF S
    <3> QED
      BY <2>1, <2>2, Induct
  <2> QED
    BY <2>3
<1>11. OK(w[n], n)
  BY <1>10
<1> QED
  BY <1>8, <1>11 DEF OK

-----------------------------------------------------------------------------
(* alloc.                                                                  *)

\* The pages from the one behind a up to the one that new ends in.
LEMMA PagesUpToIs ==
    ASSUME NEW a \in Nat, NEW new \in Nat, a <= new, new <= HEAP_LIMIT,
           NEW top, top = align(a, PAGE_SIZE)
    PROVE  /\ PagesUpTo(top, new) \in Nat
           /\ top + PagesUpTo(top, new) * PAGE_SIZE = align(new, PAGE_SIZE)
           /\ align(new, PAGE_SIZE) <= HEAP_LIMIT
<1>1. PICK t \in Nat : t = align(new, PAGE_SIZE)
  BY PageAlign
<1>2. /\ top \in Nat /\ a <= top /\ top < a + PAGE_SIZE /\ top % PAGE_SIZE = 0
      /\ top = (top \div PAGE_SIZE) * PAGE_SIZE
  BY PageAlign
<1>3. /\ new <= t /\ t < new + PAGE_SIZE /\ t % PAGE_SIZE = 0
      /\ t = (t \div PAGE_SIZE) * PAGE_SIZE
  BY <1>1, PageAlign
<1>4. top <= t
  <2>1. t < top => t + PAGE_SIZE <= top
    BY <1>2, <1>3, PageOrder
  <2> QED
    BY <1>2, <1>3, <2>1, HeapNumbers
<1>5. t <= HEAP_LIMIT
  <2>1. HEAP_LIMIT < t => HEAP_LIMIT + PAGE_SIZE <= t
    BY <1>3, PageOrder, HeapNumbers
  <2> QED
    BY <1>3, <2>1, HeapNumbers
<1>6. PICK i \in Nat, j \in Nat : i = top \div PAGE_SIZE /\ j = t \div PAGE_SIZE
  BY <1>2, HeapNumbers, Divide
<1>7. top = i * PAGE_SIZE /\ t = j * PAGE_SIZE
  BY <1>2, <1>3, <1>6
<1>8. i <= j
  <2>1. j < i => j * PAGE_SIZE + PAGE_SIZE <= i * PAGE_SIZE
    BY Multiples, HeapNumbers
  <2> QED
    BY <1>4, <1>7, <2>1, HeapNumbers
<1>9. PICK n \in Nat : n = j - i
  BY <1>8
<1>10. PagesUpTo(top, new) = n
  BY <1>1, <1>6, <1>9 DEF PagesUpTo
<1>11. i * PAGE_SIZE + n * PAGE_SIZE = j * PAGE_SIZE
  <2>1. (i + n) * PAGE_SIZE = i * PAGE_SIZE + n * PAGE_SIZE
    BY HeapNumbers
  <2>2. i + n = j
    BY <1>9
  <2> QED
    BY <2>1, <2>2
<1> QED
  BY <1>1, <1>5, <1>7, <1>10, <1>11

\* alloc came from x to y: the chunk n of b bytes is its caller's.
Alloced(x, y, n, b, B, T, A) ==
    /\ \E P : Given(y, n, b, P, B) /\ Frames(y, align(y.end, PAGE_SIZE), P, T, Pool(y, A))
    /\ Drawn(y, align(y.end, PAGE_SIZE), T)
    /\ y.nested = x.nested /\ SameSizes(x, y, B)

\* A heap that ends at e and may be extended by b bytes.
Extendable(x, P, B, e, T, A, b) ==
    /\ e = x.end /\ Inner(x, e, P, B) /\ Taken(T) /\ Early(A)
    /\ Frames(x, align(e, PAGE_SIZE), P, T, Pool(x, A)) /\ Drawn(x, align(e, PAGE_SIZE), T)
    /\ b \in Nat /\ b >= 8 /\ b % 8 = 0 /\ e + b + 8 <= HEAP_LIMIT

\* extend_heap.
LEMMA ExtendOK ==
    ASSUME NEW x, NEW P, NEW B, NEW e, NEW T, NEW A, NEW b,
           Extendable(x, P, B, e, T, A, b), NEW src
    PROVE  LET y == Extend(x, b, src)
           IN  Alloced(x, y, e, b, B, T, A) /\ y.end = e + b + 8
<1>0. PICK top : top = align(e, PAGE_SIZE)
  OBVIOUS
<1> SUFFICES ASSUME e = x.end, Inner(x, e, P, B), Taken(T), Early(A),
                    Frames(x, top, P, T, Pool(x, A)), Drawn(x, top, T),
                    b \in Nat, b >= 8, b % 8 = 0, e + b + 8 <= HEAP_LIMIT
             PROVE  LET y == Extend(x, b, src)
                    IN  Alloced(x, y, e, b, B, T, A) /\ y.end = e + b + 8
  BY <1>0 DEF Extendable
<1>1. PICK C0, z0, F0, r0, q0 : HeapOK(x, e, C0, z0, F0, r0, P, q0, B, {}) /\ EndTag(x, C0, e, z0, F0)
  BY DEF Inner
<1>2. x \in States /\ Tiling(C0, e, z0) /\ e \in Nat /\ First <= e
  BY <1>1, ChunkWords, TileCells
<1>3. PICK new \in Nat : new = e + b + 8
  BY <1>2
<1>4. PICK x1 : x1 = SetEnd(x, new)
  OBVIOUS
<1>5. /\ x1 \in States /\ x1.mem = x.mem /\ x1.free_list = x.free_list /\ x1.end = new
      /\ x1.page_free_list = x.page_free_list /\ x1.heap_end_pma = x.heap_end_pma
      /\ x1.pte = x.pte /\ x1.first_run = x.first_run /\ x1.nested = x.nested
  <2>1. new \in HEAP_START .. HEAP_LIMIT
    BY <1>2, <1>3, HeapNumbers
  <2> QED
    BY <1>2, <1>4, <2>1 DEF SetEnd, States
<1>6. Inner(x1, e, P, B)
  <2>1. Below(x, x1, e)
    BY <1>5 DEF Below
  <2> QED
    BY <1>1, <2>1, Above DEF Inner
<1>7. Frames(x1, top, P, T, Pool(x1, A))
  <2>1. Pool(x1, A) = Pool(x, A) /\ SamePages(x, x1, P)
    BY <1>5 DEF Pool, SamePages
  <2> QED
    BY <2>1, FramesSame
<1>8. Mid(x1, x1, e, top, B, T, A)
  <2>1. Drawn(x1, top, T)
    BY <1>5 DEF Drawn
  <2> QED
    BY <1>6, <1>7, <2>1 DEF Mid, SameSizes
<1>9. /\ PagesUpTo(top, new) \in Nat
      /\ top + PagesUpTo(top, new) * PAGE_SIZE = align(new, PAGE_SIZE)
      /\ align(new, PAGE_SIZE) <= HEAP_LIMIT
  <2>1. e <= new /\ new <= HEAP_LIMIT
    BY <1>2, <1>3
  <2> QED
    BY <1>0, <1>2, <2>1, PagesUpToIs
<1>10. /\ top \in Nat /\ top % PAGE_SIZE = 0 /\ HEAP_START <= top /\ e <= top
  <2>1. /\ top \in Nat /\ top % PAGE_SIZE = 0 /\ e <= top
    BY <1>0, <1>2, PageAlign
  <2> QED
    BY <1>2, <2>1, HeapNumbers
<1>11. PICK n \in Nat : n = PagesUpTo(top, new)
  BY <1>9
<1>12. PICK x2 : x2 = Mapping(x1, top, n, src)[n]
  OBVIOUS
<1>13. Mid(x1, x2, e, align(new, PAGE_SIZE), B, T, A)
  <2>1. e < x1.end
    BY <1>2, <1>3, <1>5
  <2>2. top + n * PAGE_SIZE = align(new, PAGE_SIZE) /\ top + n * PAGE_SIZE <= HEAP_LIMIT
    BY <1>9, <1>11
  <2> QED
    BY <1>8, <1>10, <1>12, <2>1, <2>2, MappingOK
<1>14. PICK P2 : Inner(x2, e, P2, B) /\ Frames(x2, align(new, PAGE_SIZE), P2, T, Pool(x2, A))
  BY <1>13 DEF Mid
<1>15. /\ Drawn(x2, align(new, PAGE_SIZE), T) /\ x2.end = new
       /\ x2.nested = x.nested /\ SameSizes(x1, x2, B)
  BY <1>5, <1>13 DEF Mid
<1>16. PICK C, z, F, r, q : HeapOK(x2, e, C, z, F, r, P2, q, B, {})
  BY <1>14 DEF Inner
<1>17. /\ x2 \in States /\ Tiling(C, e, z) /\ P2 \subseteq C /\ DOMAIN B \subseteq C /\ F \subseteq C
       /\ \A k \in C : alloc_get_size(x2, k) = z[k]
  BY <1>16, ChunkWords
<1>18. /\ e - 8 \in Cells /\ e % 8 = 0
       /\ \A k \in C : k \in Nat /\ k < e /\ k \in Cells /\ z[k] \in Nat /\ k + z[k] + 8 <= e
                       /\ z[k] >= 8
  BY <1>17, TileCells
<1>19. e + b \in Cells /\ e + b # e - 8
  BY <1>2, <1>18, CellIs, HeapNumbers
<1>20. PICK y1, y : y1 = SetHi(x2, e - 8, b) /\ y = Put(y1, e + b, b, 0)
  OBVIOUS
<1>21. /\ Rest(x2, y1) /\ y1.free_list = x2.free_list /\ y1 \in States
       /\ y1.mem[e - 8].hi = b /\ y1.mem[e - 8].lo = x2.mem[e - 8].lo
       /\ \A c \in Cells : c # e - 8 => y1.mem[c] = x2.mem[c]
  <2>1. PICK a \in Cells : a = e - 8
    BY <1>18
  <2>2. y1 = SetHi(x2, a, b) /\ b \in Int
    BY <1>20, <2>1
  <2>3. /\ Rest(x2, y1) /\ y1.free_list = x2.free_list
        /\ y1.mem[a].hi = b /\ y1.mem[a].lo = x2.mem[a].lo
        /\ \A c \in Cells : c # a => y1.mem[c] = x2.mem[c]
    BY <1>17, <2>2, SetHiIs
  <2> QED
    BY <2>1, <2>3 DEF Rest
<1>22. /\ Rest(y1, y) /\ y.free_list = y1.free_list
       /\ y.mem[e + b] = [lo |-> b, hi |-> 0]
       /\ \A c \in Cells : c # e + b => y.mem[c] = y1.mem[c]
  BY <1>19, <1>20, <1>21, PutIs
<1>23. Extend(x, b, src) = y
  <2>1. NewChunk(x2, e, b) = y
    BY <1>20, HeapNumbers DEF NewChunk, alloc_get_desc
  <2>2. MapPages(x1, top, new, src) = x2
    BY <1>11, <1>12 DEF MapPages
  <2>3. new = x.end + b + DESC
    BY <1>3, HeapNumbers
  <2>4. Extend(x, b, src) = NewChunk(MapPages(SetEnd(x, new), top, new, src), e, b)
    BY <1>0, <2>3 DEF Extend
  <2> QED
    BY <1>4, <2>1, <2>2, <2>4
<1>24. /\ Rest(x2, y) /\ y.free_list = x2.free_list /\ y \in States
       /\ y.mem[e - 8].hi = b /\ y.mem[e - 8].lo = x2.mem[e - 8].lo
       /\ y.mem[e + b].lo = b /\ y.mem[e + b].hi = 0
       /\ \A c \in Cells : c < e - 8 => y.mem[c] = x2.mem[c]
  <2>1. /\ y.mem[e - 8] = y1.mem[e - 8]
    BY <1>18, <1>19, <1>22
  <2>2. \A c \in Cells : c < e - 8 => c # e - 8 /\ c # e + b
    BY <1>2, CellIs
  <2> QED
    BY <1>21, <1>22, <2>1, <2>2 DEF Rest
<1>25. Grows(x2, y, e, b)
  BY <1>24 DEF Grows, Rest
<1>26. PICK D, t : D = C \cup {e} /\ t = [z EXCEPT ![e] = b]
  OBVIOUS
<1>27. HeapOK(y, new, D, t, F, r, P2, q, B, {e}) /\ e \in Cells /\ e \notin C
  BY <1>3, <1>16, <1>25, <1>26, GrowOK
<1>28. t[e] = b /\ \A k \in C : t[k] = z[k]
  BY <1>17, <1>18, <1>26, <1>27 DEF Tiling
<1>29. y.end = new
  BY <1>15, <1>24 DEF Rest
<1>30. Settled(y, new, D, t, F)
  <2>1. \A k \in F : k + t[k] + 8 # new
    BY <1>2, <1>3, <1>17, <1>18, <1>28
  <2>2. EndTag(y, D, new, t, F)
    <3>1. y.mem[new - 8].hi = 0
      <4>1. new - 8 = e + b
        BY <1>2, <1>3
      <4> QED
        BY <1>24, <4>1
    <3>2. ~IsFree(0)
      BY DEF IsFree, KM_CHUNK_FREE
    <3> QED
      BY <3>1, <3>2, HeapNumbers DEF EndTag
  <2> QED
    BY <1>29, <2>1, <2>2, HeapNumbers DEF Settled
<1>31. Given(y, e, b, P2, B)
  BY <1>27, <1>28, <1>29, <1>30 DEF Given
<1>32. Frames(y, align(new, PAGE_SIZE), P2, T, Pool(y, A))
  <2>1. \A k \in P2 : y.mem[k] = x2.mem[k]
    <3> TAKE k \in P2
    <3>1. k \in C /\ k < e - 8
      BY <1>2, <1>17, <1>18
    <3> QED
      BY <1>18, <1>24, <3>1
  <2>2. SamePages(x2, y, P2) /\ Pool(y, A) = Pool(x2, A)
    BY <1>24, <2>1 DEF SamePages, Pool, Rest
  <2> QED
    BY <1>14, <2>2, FramesSame
<1>33. Drawn(y, align(new, PAGE_SIZE), T)
  BY <1>15, <1>24 DEF Drawn, Rest
<1>34. SameSizes(x, y, B)
  <2>1. \A k \in D : alloc_get_size(y, k) = t[k]
    BY <1>27, ChunkWords
  <2>2. \A k \in DOMAIN B : alloc_get_size(x1, k) = alloc_get_size(x, k)
    BY <1>5 DEF alloc_get_size
  <2> QED
    BY <1>15, <1>17, <1>26, <1>28, <2>1, <2>2 DEF SameSizes
<1>35. y.nested = x.nested
  BY <1>15, <1>24 DEF Rest
<1> QED
  BY <1>3, <1>23, <1>29, <1>31, <1>32, <1>33, <1>34, <1>35 DEF Alloced

\* The heap and its pages between two operations.
Stock(x, B, T, A) ==
    /\ \E P : Whole(x, P, B) /\ Frames(x, align(x.end, PAGE_SIZE), P, T, Pool(x, A))
    /\ Drawn(x, align(x.end, PAGE_SIZE), T)

\* alloc: what it returns is a chunk of its own, large enough, and everything
\* else is as it was.
LEMMA AllocOK ==
    ASSUME NEW x, NEW B, NEW T, Taken(T), NEW A, Early(A), Stock(x, B, T, A),
           NEW src, NEW a \in {8, PAGE_SIZE}, NEW asked \in Nat, ~Dies(x, a, asked),
           x.end + Gap(x, a) + Rounded(asked) + 8 <= HEAP_LIMIT
    PROVE  LET g == alloc(x, src, a, asked)
           IN  /\ Alloced(x, g.h, g.vma, Rounded(asked), B, T, A)
               /\ (a = 8 /\ g.h.end = x.end) \/ g.h.end = g.vma + Rounded(asked) + 8
<1>1. PICK b \in Nat : b = Rounded(asked) /\ b >= 8 /\ b % 8 = 0 /\ asked <= b
  BY RoundedIs
<1>2. PICK P : Whole(x, P, B) /\ Frames(x, align(x.end, PAGE_SIZE), P, T, Pool(x, A))
  BY DEF Stock
<1>3. PICK C, z, F, r, q : /\ HeapOK(x, x.end, C, z, F, r, P, q, B, {})
                           /\ Settled(x, x.end, C, z, F)
  BY <1>2 DEF Whole
<1>4. x \in States /\ x.end \in Nat /\ x.end % 8 = 0 /\ F \subseteq Cells
  BY <1>3, ChunkWords, TileCells
<1>5. PICK n : n = Found(x, a, b)
  OBVIOUS
<1>6. PICK g : g = alloc(x, src, a, asked)
  OBVIOUS
<1>7. CASE n # NULL
  <2>1. a = 8 /\ n = FirstFit(x, b)
    BY <1>5, <1>7 DEF Found, KM_MIN_ALLOC_SIZE
  <2>2. n \in F /\ Suits(x, n, b)
    BY <1>3, <1>7, <2>1, FirstFitIs
  <2>3. g.h = TakeChunk(x, n, b) /\ g.vma = n
    BY <1>1, <1>5, <1>6, <1>7 DEF alloc
  <2>4. PICK y : y = g.h
    OBVIOUS
  <2>5. Given(y, n, b, P, B) /\ Quiet(x, y, P, x.end) /\ SameSizes(x, y, B)
    BY <1>1, <1>3, <2>2, <2>3, <2>4, TakeChunkOK
  <2>6. /\ y.end = x.end /\ y.nested = x.nested /\ Pool(y, A) = Pool(x, A) /\ SamePages(x, y, P)
        /\ y.heap_end_pma = x.heap_end_pma
    BY <2>5 DEF Quiet, Rest, Pool, SamePages
  <2>7. Frames(y, align(y.end, PAGE_SIZE), P, T, Pool(y, A))
    BY <1>2, <2>6, FramesSame
  <2>8. Drawn(y, align(y.end, PAGE_SIZE), T)
    BY <2>6 DEF Stock, Drawn
  <2>9. Alloced(x, y, n, b, B, T, A)
    BY <2>5, <2>6, <2>7, <2>8 DEF Alloced
  <2> QED
    BY <1>1, <1>6, <2>1, <2>3, <2>4, <2>6, <2>9
<1>8. CASE n = NULL
  <2>1. PICK e \in Nat : e = x.end + Gap(x, a)
    <3>1. Gap(x, a) \in Nat
      BY <1>4, GapIs
    <3> QED
      BY <1>4, <3>1
  <2>2. Gap(x, a) \notin 1 .. 8
    BY <1>1, <1>5, <1>8, HeapNumbers DEF Dies
  <2>3. e + b + 8 <= HEAP_LIMIT /\ e <= HEAP_LIMIT
    BY <1>1, <2>1, HeapNumbers
  <2>4. PICK w : w = PushGap(x, a)
    OBVIOUS
  <2>5. /\ Inner(w, w.end, P, B) /\ RestButEnd(x, w, P) /\ SameSizes(x, w, B)
        /\ w.end = e /\ align(w.end, PAGE_SIZE) = align(x.end, PAGE_SIZE)
    BY <1>2, <2>1, <2>2, <2>3, <2>4, PushGapOK
  <2>6. Pool(w, A) = Pool(x, A) /\ SamePages(x, w, P)
    BY <2>5 DEF RestButEnd, Pool, SamePages
  <2>7. Frames(w, align(e, PAGE_SIZE), P, T, Pool(w, A))
    BY <1>2, <2>5, <2>6, FramesSame
  <2>8. Drawn(w, align(e, PAGE_SIZE), T)
    BY <2>5 DEF Stock, Drawn, RestButEnd
  <2>9. PICK y : y = Extend(w, b, src)
    OBVIOUS
  <2>10. Alloced(w, y, e, b, B, T, A) /\ y.end = e + b + 8
    <3>1. Extendable(w, P, B, e, T, A, b)
      BY <1>1, <2>3, <2>5, <2>7, <2>8 DEF Extendable
    <3> QED
      BY <2>9, <3>1, ExtendOK
  <2>11. g.h = y /\ g.vma = e
    BY <1>1, <1>5, <1>6, <1>8, <2>1, <2>4, <2>9 DEF alloc
  <2>12. y.nested = x.nested /\ SameSizes(x, y, B)
    BY <2>5, <2>10 DEF Alloced, RestButEnd, SameSizes
  <2>13. Alloced(x, y, e, b, B, T, A)
    BY <2>10, <2>12 DEF Alloced
  <2> QED
    BY <1>1, <1>6, <2>10, <2>11, <2>13
<1> QED
  BY <1>7, <1>8

-----------------------------------------------------------------------------
(* What the kernel does with the chunks.                                   *)

\* The caller fills the chunk it was given.
Fill(y, n, asked) ==
    [y EXCEPT !.mem = [a \in Cells |-> IF n <= a /\ a < n + asked THEN Payload(n) ELSE @[a]]]

\* The blocks of the kernel with a new one.
Owned(B, n, asked) == [v \in DOMAIN B \cup {n} |-> IF v = n THEN asked ELSE B[v]]

\* The chunk that alloc returned becomes a block of the kernel, filled by it.
LEMMA GrantOK ==
    ASSUME NEW x, NEW y, NEW n, NEW b, NEW B, NEW T, NEW A, Alloced(x, y, n, b, B, T, A),
           NEW asked \in Nat, asked <= b
    PROVE  LET w == Fill(y, n, asked)
           IN  /\ Stock(w, Owned(B, n, asked), T, A) /\ n \notin DOMAIN B
               /\ w.end = y.end /\ w.nested = x.nested /\ alloc_get_size(w, n) = b
               /\ SameSizes(x, w, B)
<1>1. PICK P : Given(y, n, b, P, B) /\ Frames(y, align(y.end, PAGE_SIZE), P, T, Pool(y, A))
  BY DEF Alloced
<1>2. PICK C, z, F, r, q : /\ HeapOK(y, y.end, C, z, F, r, P, q, B, {n})
                           /\ Settled(y, y.end, C, z, F) /\ z[n] = b
  BY <1>1 DEF Given
<1>3. PICK e : e = y.end
  OBVIOUS
<1>4. /\ y \in States /\ Tiling(C, e, z) /\ Tagged(y, C, z, F) /\ n \in C
      /\ F \subseteq C /\ P \subseteq C /\ DOMAIN B \subseteq C
      /\ \A k \in C : alloc_get_size(y, k) = z[k]
  BY <1>2, <1>3, ChunkWords
<1>5. /\ Linked(y, y.free_list, F, r) /\ BackLinked(y, y.free_list, F)
      /\ Linked(y, y.page_free_list, P, q) /\ Filled(y, B, z)
      /\ Owners(C, F, P, B, {n}) /\ Merged(F, z)
  BY <1>2 DEF HeapOK
<1>6. /\ e \in Nat /\ e - 8 \in Cells
      /\ \A k \in C : /\ k \in Nat /\ k \in Cells /\ z[k] \in Nat /\ First <= k
                      /\ k - 8 \in Cells /\ k + z[k] \in Cells
  BY <1>4, TileCells
<1>7. PICK w, D : w = Fill(y, n, asked) /\ D = Owned(B, n, asked)
  OBVIOUS
<1>8. PICK M : M = [a \in Cells |-> IF n <= a /\ a < n + asked THEN Payload(n) ELSE y.mem[a]]
  OBVIOUS
<1>9. Payload(n) \in [lo : Int, hi : Int]
  BY <1>4, <1>6 DEF Payload
<1>10. M \in [Cells -> [lo : Int, hi : Int]]
  BY <1>4, <1>8, <1>9, StateWords
<1>11. /\ w \in States /\ w.mem = M /\ w.free_list = y.free_list /\ w.end = e
       /\ w.pte = y.pte /\ w.first_run = y.first_run /\ w.nested = y.nested
       /\ w.page_free_list = y.page_free_list /\ w.heap_end_pma = y.heap_end_pma
  <2>1. w = [y EXCEPT !.mem = M]
    BY <1>7, <1>8 DEF Fill
  <2> QED
    BY <1>3, <1>4, <1>10, <2>1 DEF States
<1>12. ASSUME NEW a \in Cells, w.mem[a] # y.mem[a]
       PROVE  /\ n <= a /\ a < n + asked /\ (a \in C => a = n) /\ a # e - 8 /\ a # HEAP_START
              /\ \A m \in C : a # m - 8 /\ a # m + z[m]
              /\ \A m \in C : m <= a /\ a < m + z[m] => m = n
  <2>1. n <= a /\ a < n + asked
    BY <1>8, <1>11, <1>12
  <2>2. a < n + z[n] /\ a \in Nat
    BY <1>2, <1>4, <1>6, <2>1, CellIs
  <2>3. a # HEAP_START
    BY <1>4, <1>6, <2>1, HeapNumbers
  <2> QED
    BY <1>4, <2>1, <2>2, <2>3, TileApart
<1>13. n \notin F /\ n \notin P /\ n \notin DOMAIN B
  BY <1>5 DEF Owners
<1>14. Tagged(w, C, z, F)
  <2>1. \A m \in C : w.mem[m - 8] = y.mem[m - 8] /\ w.mem[m + z[m]] = y.mem[m + z[m]]
    BY <1>6, <1>12
  <2>2. HEAP_START \in Cells
    BY CellIs, HeapNumbers
  <2>3. w.mem[HEAP_START] = y.mem[HEAP_START]
    BY <1>12, <2>2
  <2> QED
    BY <1>4, <2>1, <2>3, HeapNumbers DEF Tagged
<1>15. \A c \in F \cup P : w.mem[c] = y.mem[c]
  BY <1>4, <1>6, <1>12, <1>13
<1>16. Linked(w, w.free_list, F, r) /\ Linked(w, w.page_free_list, P, q)
  BY <1>5, <1>11, <1>15, LinkedSame
<1>17. BackLinked(w, w.free_list, F)
  BY <1>5, <1>11, <1>15, BackLinkedSame
<1>18. DOMAIN D = DOMAIN B \cup {n} /\ D[n] = asked /\ \A v \in DOMAIN B : v # n /\ D[v] = B[v]
  BY <1>7, <1>13 DEF Owned
<1>19. Filled(w, D, z)
  <2> SUFFICES ASSUME NEW v \in DOMAIN D
               PROVE  /\ D[v] \in 0 .. z[v]
                      /\ \A a \in Cells : v <= a /\ a < v + D[v] => w.mem[a] = Payload(v)
    BY DEF Filled
  <2>1. CASE v = n
    <3>1. asked \in 0 .. z[n]
      BY <1>2, <1>4, <1>6
    <3> QED
      BY <1>8, <1>11, <1>18, <2>1, <3>1
  <2>2. CASE v # n
    <3>1. v \in DOMAIN B /\ v \in C /\ D[v] = B[v] /\ B[v] \in 0 .. z[v]
          /\ \A a \in Cells : v <= a /\ a < v + B[v] => y.mem[a] = Payload(v)
      BY <1>4, <1>5, <1>18, <2>2 DEF Filled
    <3>2. \A a \in Cells : v <= a /\ a < v + B[v] => v <= a /\ a < v + z[v]
      BY <1>6, <3>1, CellIs
    <3>3. \A a \in Cells : v <= a /\ a < v + B[v] => w.mem[a] = y.mem[a]
      BY <1>12, <2>2, <3>1, <3>2
    <3> QED
      BY <3>1, <3>3
  <2> QED
    BY <2>1, <2>2
<1>20. Owners(C, F, P, D, {})
  BY <1>5, <1>13, <1>18 DEF Owners
<1>21. HeapOK(w, e, C, z, F, r, P, q, D, {})
  BY <1>4, <1>5, <1>11, <1>14, <1>16, <1>17, <1>19, <1>20 DEF HeapOK
<1>22. Settled(w, e, C, z, F)
  <2>1. w.mem[e - 8] = y.mem[e - 8]
    BY <1>6, <1>12
  <2>2. EndTag(y, C, e, z, F) /\ \A k \in F : k + z[k] + DESC # e
    BY <1>2, <1>3 DEF Settled
  <2>3. EndTag(w, C, e, z, F)
    BY <2>1, <2>2, HeapNumbers DEF EndTag
  <2> QED
    BY <1>11, <2>2, <2>3 DEF Settled
<1>23. Whole(w, P, D)
  BY <1>11, <1>21, <1>22 DEF Whole
<1>24. Frames(w, align(e, PAGE_SIZE), P, T, Pool(w, A))
  <2>1. Pool(w, A) = Pool(y, A) /\ SamePages(y, w, P)
    BY <1>11, <1>15 DEF Pool, SamePages
  <2> QED
    BY <1>1, <1>3, <2>1, FramesSame
<1>25. Drawn(w, align(e, PAGE_SIZE), T)
  BY <1>3, <1>11 DEF Alloced, Drawn
<1>26. Stock(w, D, T, A)
  BY <1>11, <1>23, <1>24, <1>25 DEF Stock
<1>27. \A k \in C : alloc_get_size(w, k) = z[k]
  BY <1>21, ChunkWords
<1>28. SameSizes(x, w, B) /\ alloc_get_size(w, n) = b
  BY <1>2, <1>4, <1>27 DEF Alloced, SameSizes
<1>29. w.nested = x.nested
  BY <1>11 DEF Alloced
<1> QED
  BY <1>3, <1>7, <1>11, <1>13, <1>26, <1>28, <1>29

\* page_free puts the chunk it was given in front of the page list.
LEMMA ListPageOK ==
    ASSUME NEW x, NEW y, NEW n, NEW b, NEW B, NEW T, NEW A, Alloced(x, y, n, b, B, T, A),
           NEW f \in Nat, f \notin Pool(y, A), NEW g, g.h = y, g.vma = n
    PROVE  LET w == ListPage(g, f)
           IN  /\ Stock(w, B, T, A \cup {f}) /\ w.end = y.end /\ w.nested = x.nested
               /\ SameSizes(x, w, B)
<1>1. PICK P : Given(y, n, b, P, B) /\ Frames(y, align(y.end, PAGE_SIZE), P, T, Pool(y, A))
  BY DEF Alloced
<1>2. PICK C, z, F, r, q : /\ HeapOK(y, y.end, C, z, F, r, P, q, B, {n})
                           /\ Settled(y, y.end, C, z, F) /\ z[n] = b
  BY <1>1 DEF Given
<1>3. PICK e : e = y.end
  OBVIOUS
<1>4. /\ y \in States /\ Tiling(C, e, z) /\ Tagged(y, C, z, F) /\ n \in C
      /\ F \subseteq C /\ P \subseteq C /\ DOMAIN B \subseteq C
      /\ \A k \in C : alloc_get_size(y, k) = z[k]
  BY <1>2, <1>3, ChunkWords
<1>5. /\ Linked(y, y.free_list, F, r) /\ BackLinked(y, y.free_list, F)
      /\ Linked(y, y.page_free_list, P, q) /\ Filled(y, B, z)
      /\ Owners(C, F, P, B, {n}) /\ Merged(F, z)
  BY <1>2 DEF HeapOK
<1>6. /\ e \in Nat /\ e - 8 \in Cells /\ n \in Cells
      /\ \A k \in C : /\ k \in Nat /\ k \in Cells /\ z[k] \in Nat /\ First <= k
                      /\ k - 8 \in Cells /\ k + z[k] \in Cells
  BY <1>4, TileCells
<1>7. PICK w, v : w = ListPage(g, f) /\ v = [lo |-> f, hi |-> y.page_free_list]
  OBVIOUS
<1>8. v \in [lo : Int, hi : Int] /\ v.lo = f /\ v.hi = y.page_free_list
  BY <1>4, <1>7, StateWords, CellIs, HeapNumbers
<1>9. PICK M : M = [y.mem EXCEPT ![n] = v]
  OBVIOUS
<1>10. /\ M \in [Cells -> [lo : Int, hi : Int]] /\ M[n] = v
       /\ \A c \in Cells : c # n => M[c] = y.mem[c]
  BY <1>4, <1>6, <1>8, <1>9, StateWords
<1>11. /\ w \in States /\ w.mem = M /\ w.free_list = y.free_list /\ w.end = e
       /\ w.pte = y.pte /\ w.first_run = y.first_run /\ w.nested = y.nested
       /\ w.page_free_list = n /\ w.heap_end_pma = y.heap_end_pma
  <2>1. w = [y EXCEPT !.mem = M, !.page_free_list = n]
    <3>1. w = [y EXCEPT !.mem[n] = v, !.page_free_list = n]
      BY <1>7 DEF ListPage
    <3> QED
      BY <1>9, <3>1
  <2> QED
    BY <1>3, <1>4, <1>6, <1>10, <2>1 DEF States
<1>12. n \notin F /\ n \notin P /\ n \notin DOMAIN B
  BY <1>5 DEF Owners
<1>13. /\ \A k \in C : n # k - 8 /\ n # k + z[k]
       /\ n # e - 8 /\ n # HEAP_START
  BY <1>4, <1>6, TileApart, HeapNumbers
<1>14. Tagged(w, C, z, F)
  <2>1. \A m \in C : w.mem[m - 8] = y.mem[m - 8] /\ w.mem[m + z[m]] = y.mem[m + z[m]]
    BY <1>6, <1>10, <1>11, <1>13
  <2>2. HEAP_START \in Cells
    BY CellIs, HeapNumbers
  <2>3. w.mem[HEAP_START] = y.mem[HEAP_START]
    BY <1>10, <1>11, <1>13, <2>2
  <2> QED
    BY <1>4, <2>1, <2>3, HeapNumbers DEF Tagged
<1>15. \A c \in F \cup P : w.mem[c] = y.mem[c]
  BY <1>4, <1>6, <1>10, <1>11, <1>12
<1>16. Linked(w, w.free_list, F, r)
  BY <1>5, <1>11, <1>15, LinkedSame
<1>17. BackLinked(w, w.free_list, F)
  BY <1>5, <1>11, <1>15, BackLinkedSame
<1>18. PICK u : Linked(w, n, P \cup {n}, u)
  <2>1. w.mem[n].hi = y.page_free_list
    BY <1>8, <1>10, <1>11
  <2> QED
    BY <1>5, <1>6, <1>12, <1>15, <2>1, Push
<1>19. Filled(w, B, z)
  <2>1. \A a \in Cells : w.mem[a] = y.mem[a] \/ a \in C \ DOMAIN B
    BY <1>4, <1>10, <1>11, <1>12
  <2> QED
    BY <1>4, <1>5, <2>1, FilledSame
<1>20. Owners(C, F, P \cup {n}, B, {})
  BY <1>5, <1>12 DEF Owners
<1>21. HeapOK(w, e, C, z, F, r, P \cup {n}, u, B, {})
  BY <1>4, <1>5, <1>11, <1>14, <1>16, <1>17, <1>18, <1>19, <1>20 DEF HeapOK
<1>22. Settled(w, e, C, z, F)
  <2>1. w.mem[e - 8] = y.mem[e - 8]
    BY <1>6, <1>10, <1>11, <1>13
  <2>2. EndTag(y, C, e, z, F) /\ \A k \in F : k + z[k] + DESC # e
    BY <1>2, <1>3 DEF Settled
  <2>3. EndTag(w, C, e, z, F)
    BY <2>1, <2>2, HeapNumbers DEF EndTag
  <2> QED
    BY <1>11, <2>2, <2>3 DEF Settled
<1>23. Whole(w, P \cup {n}, B)
  BY <1>11, <1>21, <1>22 DEF Whole
<1>24. Frames(w, align(e, PAGE_SIZE), P \cup {n}, T, Pool(w, A \cup {f}))
  <2>1. Pool(w, A \cup {f}) = Pool(y, A) \cup {f} /\ SamePages(y, w, P) /\ w.mem[n].lo = f
    BY <1>8, <1>10, <1>11, <1>15 DEF Pool, SamePages
  <2>2. PICK K : K = Pool(y, A)
    OBVIOUS
  <2>3. Frames(y, align(e, PAGE_SIZE), P, T, K) /\ f \notin K
    BY <1>1, <1>3, <2>2
  <2>4. Frames(w, align(e, PAGE_SIZE), P \cup {n}, T, K \cup {f})
    BY <1>12, <2>1, <2>3, FramesPut
  <2> QED
    BY <2>1, <2>2, <2>4
<1>25. Drawn(w, align(e, PAGE_SIZE), T)
  BY <1>3, <1>11 DEF Alloced, Drawn
<1>26. Stock(w, B, T, A \cup {f})
  BY <1>11, <1>23, <1>24, <1>25 DEF Stock
<1>27. \A k \in C : alloc_get_size(w, k) = z[k]
  BY <1>21, ChunkWords
<1>28. SameSizes(x, w, B)
  BY <1>4, <1>27 DEF Alloced, SameSizes
<1>29. w.nested = x.nested
  BY <1>11 DEF Alloced
<1> QED
  BY <1>3, <1>7, <1>11, <1>26, <1>28, <1>29

\* Nothing of its owner is left in the block at v.
Scrub(x, v) ==
    [x EXCEPT !.mem = [a \in Cells |-> IF @[a] = Payload(v) THEN [lo |-> Junk, hi |-> Junk] ELSE @[a]]]

\* The blocks of the kernel without one.
Without(B, v) == [k \in DOMAIN B \ {v} |-> B[k]]

\* A block is given up by its owner: no descriptor, no node and no other block
\* looks like what the owner wrote.
LEMMA ScrubOK ==
    ASSUME NEW x, NEW e, NEW C, NEW z, NEW F, NEW r, NEW P, NEW q, NEW B,
           HeapOK(x, e, C, z, F, r, P, q, B, {}), NEW v \in DOMAIN B
    PROVE  LET w == Scrub(x, v)
           IN  /\ HeapOK(w, e, C, z, F, r, P, q, Without(B, v), {v}) /\ Quiet(x, w, P, e)
<1>1. PICK w, D : w = Scrub(x, v) /\ D = Without(B, v)
  OBVIOUS
<1>2. /\ x \in States /\ Tiling(C, e, z) /\ Tagged(x, C, z, F) /\ v \in C
      /\ F \subseteq C /\ P \subseteq C /\ DOMAIN B \subseteq C
      /\ \A k \in C : /\ x.mem[k - 8].hi = Tag(z[k], k \in F)
                      /\ x.mem[k + z[k]].lo = Tag(z[k], k \in F)
  BY ChunkWords
<1>3. /\ Linked(x, x.free_list, F, r) /\ BackLinked(x, x.free_list, F)
      /\ Linked(x, x.page_free_list, P, q) /\ Filled(x, B, z)
      /\ Owners(C, F, P, B, {}) /\ Merged(F, z)
  BY DEF HeapOK
<1>4. /\ e \in Nat /\ e - 8 \in Cells
      /\ \A k \in C : /\ k \in Nat /\ k \in Cells /\ z[k] \in Nat /\ First <= k /\ z[k] % 8 = 0
                      /\ k - 8 \in Cells /\ k + z[k] \in Cells
  BY <1>2, TileCells
<1>5. PICK M : M = [a \in Cells |-> IF x.mem[a] = Payload(v) THEN [lo |-> Junk, hi |-> Junk]
                                    ELSE x.mem[a]]
  OBVIOUS
<1>6. M \in [Cells -> [lo : Int, hi : Int]]
  BY <1>2, <1>5, StateWords, CallAssumption
<1>7. /\ w \in States /\ w.mem = M /\ w.free_list = x.free_list /\ w.end = x.end
      /\ w.pte = x.pte /\ w.first_run = x.first_run /\ w.nested = x.nested
      /\ w.page_free_list = x.page_free_list /\ w.heap_end_pma = x.heap_end_pma
  <2>1. w = [x EXCEPT !.mem = M]
    BY <1>1, <1>5 DEF Scrub
  <2> QED
    BY <1>2, <1>6, <2>1 DEF States
<1>8. v \in Nat /\ v > 0 /\ 0 - v \in Int /\ 0 - v < 0
  BY <1>2, <1>4, HeapNumbers
<1>9. ASSUME NEW a \in Cells, x.mem[a].lo >= 0 \/ x.mem[a].hi >= 0 PROVE w.mem[a] = x.mem[a]
  <2>1. Payload(v).lo = 0 - v /\ Payload(v).hi = 0 - v
    BY DEF Payload
  <2>2. x.mem[a] # Payload(v)
    BY <1>8, <1>9, <2>1
  <2> QED
    BY <1>5, <1>7, <2>2
<1>10. \A k \in C : Tag(z[k], k \in F) >= 0
  <2> TAKE k \in C
  <2>1. z[k] \in Nat /\ z[k] % 8 = 0 /\ (k \in F) \in BOOLEAN
    BY <1>4
  <2> QED
    BY <2>1 DEF Tag, KM_CHUNK_FREE
<1>11. \A k \in C : w.mem[k - 8] = x.mem[k - 8] /\ w.mem[k + z[k]] = x.mem[k + z[k]]
  BY <1>2, <1>4, <1>9, <1>10
<1>12. HEAP_START \in Cells /\ w.mem[HEAP_START] = x.mem[HEAP_START]
  <2>1. HEAP_START \in Cells
    BY CellIs, HeapNumbers
  <2>2. x.mem[HEAP_START].lo >= 0
    BY <1>2 DEF Tagged
  <2> QED
    BY <1>9, <2>1, <2>2
<1>13. w.mem[e - 8] = x.mem[e - 8]
  <2>1. e = First \/ \E m \in C : m + z[m] + 8 = e
    BY <1>2, HeapNumbers DEF Tiling
  <2>2. CASE e = First
    BY <1>12, <2>2, HeapNumbers
  <2>3. CASE \E m \in C : m + z[m] + 8 = e
    <3>1. PICK m \in C : m + z[m] + 8 = e
      BY <2>3
    <3>2. m + z[m] = e - 8
      BY <1>4, <3>1
    <3> QED
      BY <1>11, <3>2
  <2> QED
    BY <2>1, <2>2, <2>3
<1>14. Tagged(w, C, z, F)
  BY <1>2, <1>11, <1>12, HeapNumbers DEF Tagged
<1>15. \A c \in F \cup P : w.mem[c] = x.mem[c]
  <2> TAKE c \in F \cup P
  <2>1. x.mem[c].hi = NULL \/ x.mem[c].hi \in F \cup P
    BY <1>3 DEF Linked
  <2>2. x.mem[c].hi >= 0
    BY <1>2, <1>4, <2>1, HeapNumbers
  <2> QED
    BY <1>2, <1>4, <1>9, <2>2
<1>16. Linked(w, w.free_list, F, r) /\ Linked(w, w.page_free_list, P, q)
  BY <1>3, <1>7, <1>15, LinkedSame
<1>17. BackLinked(w, w.free_list, F)
  BY <1>3, <1>7, <1>15, BackLinkedSame
<1>18. DOMAIN D = DOMAIN B \ {v} /\ \A k \in DOMAIN D : D[k] = B[k]
  BY <1>1 DEF Without
<1>19. Filled(w, D, z)
  <2> SUFFICES ASSUME NEW k \in DOMAIN D
               PROVE  /\ D[k] \in 0 .. z[k]
                      /\ \A a \in Cells : k <= a /\ a < k + D[k] => w.mem[a] = Payload(k)
    BY DEF Filled
  <2>1. k # v /\ k \in DOMAIN B /\ D[k] = B[k] /\ k \in C
    BY <1>2, <1>18
  <2>2. B[k] \in 0 .. z[k] /\ \A a \in Cells : k <= a /\ a < k + B[k] => x.mem[a] = Payload(k)
    BY <1>3, <2>1 DEF Filled
  <2>3. Payload(k) # Payload(v)
    <3>1. Payload(k).lo = 0 - k /\ Payload(v).lo = 0 - v
      BY DEF Payload
    <3>2. 0 - k # 0 - v
      BY <1>4, <1>8, <2>1
    <3> QED
      BY <3>1, <3>2
  <2> QED
    BY <1>5, <1>7, <2>1, <2>2, <2>3
<1>20. Owners(C, F, P, D, {v})
  BY <1>3, <1>18 DEF Owners
<1>21. HeapOK(w, e, C, z, F, r, P, q, D, {v})
  BY <1>2, <1>3, <1>7, <1>14, <1>16, <1>17, <1>19, <1>20 DEF HeapOK
<1>22. Quiet(x, w, P, e)
  BY <1>7, <1>13, <1>15 DEF Quiet, Rest
<1> QED
  BY <1>1, <1>21, <1>22

\* free leaves the heap in order.
LEMMA FreedStock ==
    ASSUME NEW x, NEW y, NEW P, NEW B, Freeing(x, y, P, B), NEW T, NEW A,
           Frames(x, align(x.end, PAGE_SIZE), P, T, Pool(x, A)),
           Drawn(x, align(x.end, PAGE_SIZE), T)
    PROVE  Stock(y, B, T, A) /\ y.nested = x.nested
<1>1. /\ Whole(y, P, B) /\ RestButEnd(x, y, P)
      /\ align(y.end, PAGE_SIZE) = align(x.end, PAGE_SIZE)
  BY DEF Freeing
<1>2. /\ Pool(y, A) = Pool(x, A) /\ SamePages(x, y, P) /\ y.nested = x.nested
      /\ y.heap_end_pma = x.heap_end_pma
  BY <1>1 DEF RestButEnd, Pool, SamePages
<1>3. Frames(y, align(y.end, PAGE_SIZE), P, T, Pool(y, A))
  BY <1>1, <1>2, FramesSame
<1>4. Drawn(y, align(y.end, PAGE_SIZE), T)
  BY <1>1, <1>2 DEF Drawn
<1> QED
  BY <1>1, <1>2, <1>3, <1>4 DEF Stock

\* kfree of a block.
LEMMA KfreeOK ==
    ASSUME NEW x, NEW B, NEW T, NEW A, Stock(x, B, T, A), NEW v \in DOMAIN B,
           ~GivesPages(Scrub(x, v), v)
    PROVE  LET y == free(Scrub(x, v), v)
           IN  Stock(y, Without(B, v), T, A) /\ y.nested = x.nested
<1>1. PICK P : Whole(x, P, B) /\ Frames(x, align(x.end, PAGE_SIZE), P, T, Pool(x, A))
  BY DEF Stock
<1>2. PICK C, z, F, r, q : /\ HeapOK(x, x.end, C, z, F, r, P, q, B, {})
                           /\ Settled(x, x.end, C, z, F)
  BY <1>1 DEF Whole
<1>3. PICK w, D : w = Scrub(x, v) /\ D = Without(B, v)
  OBVIOUS
<1>4. HeapOK(w, x.end, C, z, F, r, P, q, D, {v}) /\ Quiet(x, w, P, x.end)
  BY <1>2, <1>3, ScrubOK
<1>5. /\ w.end = x.end /\ w.nested = x.nested /\ Pool(w, A) = Pool(x, A) /\ SamePages(x, w, P)
      /\ w.heap_end_pma = x.heap_end_pma /\ w.mem[x.end - 8].hi = x.mem[x.end - 8].hi
  BY <1>4 DEF Quiet, Rest, Pool, SamePages
<1>6. Settled(w, w.end, C, z, F)
  BY <1>2, <1>5, HeapNumbers DEF Settled, EndTag
<1>7. PICK y : y = free(w, v)
  OBVIOUS
<1>8. Freeing(w, y, P, D)
  BY <1>3, <1>4, <1>5, <1>6, <1>7, FreeOK
<1>9. Frames(w, align(w.end, PAGE_SIZE), P, T, Pool(w, A))
  BY <1>1, <1>5, FramesSame
<1>10. Drawn(w, align(w.end, PAGE_SIZE), T)
  BY <1>5 DEF Stock, Drawn
<1>11. Stock(y, D, T, A) /\ y.nested = w.nested
  BY <1>8, <1>9, <1>10, FreedStock
<1> QED
  BY <1>3, <1>5, <1>7, <1>11

\* page_new takes a page without giving pages of the heap up.
LEMMA PageNewOK ==
    ASSUME NEW x, NEW B, NEW T, NEW A, Stock(x, B, T, A), Early(A), IsFiniteSet(T),
           Cardinality(T) < MaxLive,
           x.page_free_list # NULL => ~GivesPages(TakePage(x).h, x.page_free_list)
    PROVE  LET g == page_new(x)
           IN  /\ Stock(g.h, B, T \cup {g.pma}, A) /\ g.h.nested = x.nested
               /\ g.pma \notin T /\ g.pma \in Nat
               /\ LastBlock(x, B) => LastBlock(g.h, B)
<1>1. PICK P : Whole(x, P, B) /\ Frames(x, align(x.end, PAGE_SIZE), P, T, Pool(x, A))
  BY DEF Stock
<1>2. PICK C, z, F, r, q : /\ HeapOK(x, x.end, C, z, F, r, P, q, B, {})
                           /\ Settled(x, x.end, C, z, F)
  BY <1>1 DEF Whole
<1>3. x \in States /\ Tiling(C, x.end, z)
  BY <1>2, ChunkWords
<1>4. PICK top : top = align(x.end, PAGE_SIZE)
  OBVIOUS
<1>5. top \in Nat /\ top % PAGE_SIZE = 0 /\ HEAP_START <= top /\ top <= HEAP_LIMIT
  <2>1. x.end \in Nat /\ First <= x.end /\ x.end <= HEAP_LIMIT
    BY <1>3, TileCells
  <2>2. /\ top \in Nat /\ x.end <= top /\ top < x.end + PAGE_SIZE /\ top % PAGE_SIZE = 0
    BY <1>4, <2>1, PageAlign
  <2>3. HEAP_LIMIT < top => HEAP_LIMIT + PAGE_SIZE <= top
    BY <2>2, PageOrder, HeapNumbers
  <2> QED
    BY <2>1, <2>2, <2>3, HeapNumbers
<1>6. Drawn(x, top, T) /\ x.heap_end_pma >= FREE_START
  BY <1>4 DEF Stock, Drawn
<1>7. PICK c \in Nat : c = Cardinality(T)
  BY FS_CardinalityType
<1>8. MaxLive \in Nat
  BY CallAssumption
<1>9. x.heap_end_pma \notin Pool(x, A)
  <2>1. Cardinality(T) <= MaxLive
    BY <1>7, <1>8
  <2> QED
    BY <1>3, <1>5, <1>6, <2>1, Fresh
<1>10. PICK g, y : g = page_new(x) /\ y = TakePage(x).h
  OBVIOUS
<1>11. PICK f, S : f = TakePage(x).pma /\ S = T \cup {f}
  OBVIOUS
<1>12. g.pma = f
  BY <1>10, <1>11 DEF page_new
<1>13. ASSUME f \notin T, NEW w, w.heap_end_pma = x.heap_end_pma \/ w.heap_end_pma = x.heap_end_pma + 1
       PROVE  Drawn(w, top, S)
  <2>1. Cardinality(S) = c + 1
    BY <1>7, <1>11, <1>13, FS_AddElement
  <2>2. PICK i \in Int : i = x.heap_end_pma - FREE_START - c
    BY <1>3, StateWords, FrameAssumption
  <2>3. PICK j \in Int : j = w.heap_end_pma - FREE_START - (c + 1) /\ (j = i \/ j = i - 1)
    <3>1. PICK u \in Nat, k \in Nat : u = x.heap_end_pma /\ k = w.heap_end_pma
                                      /\ (k = u \/ k = u + 1)
      BY <1>3, <1>13, StateWords
    <3>2. FREE_START \in Nat
      BY FrameAssumption
    <3>3. k - FREE_START - (c + 1) \in Int
          /\ (k - FREE_START - (c + 1) = i \/ k - FREE_START - (c + 1) = i - 1)
      <4>1. i = u - FREE_START - c
        BY <2>2, <3>1
      <4>2. CASE k = u
        BY <3>2, <4>1, <4>2
      <4>3. CASE k = u + 1
        BY <3>2, <4>1, <4>3
      <4> QED
        BY <3>1, <4>2, <4>3
    <3> QED
      BY <3>1, <3>3
  <2>4. i * PAGE_SIZE <= top - HEAP_START
    BY <1>6, <1>7, <2>2 DEF Drawn
  <2>5. j * PAGE_SIZE <= i * PAGE_SIZE
    <3>1. (i - 1) * PAGE_SIZE = i * PAGE_SIZE - PAGE_SIZE /\ i * PAGE_SIZE \in Int
      BY HeapNumbers
    <3> QED
      BY <2>3, <3>1, HeapNumbers
  <2>6. j * PAGE_SIZE <= top - HEAP_START
    <3>1. i * PAGE_SIZE \in Int /\ j * PAGE_SIZE \in Int
      BY HeapNumbers
    <3> QED
      BY <1>5, <2>4, <2>5, <3>1, HeapNumbers
  <2>7. w.heap_end_pma >= FREE_START
    BY <1>3, <1>6, <1>13, StateWords, FrameAssumption
  <2>8. (w.heap_end_pma - FREE_START - Cardinality(S)) * PAGE_SIZE = j * PAGE_SIZE
    BY <2>1, <2>3
  <2> QED
    BY <2>6, <2>7, <2>8 DEF Drawn
<1>14. EndTag(x, C, x.end, z, F) /\ \A n \in F : n + z[n] + DESC # x.end
  BY <1>2 DEF Settled
<1>15. CASE x.page_free_list # NULL
  <2>1. PICK n, Q : n = x.page_free_list /\ Q = P \ {n}
    OBVIOUS
  <2>2. /\ TakePage(x).node = n /\ n \in P
        /\ HeapOK(y, x.end, C, z, F, r, Q, q, B, {n}) /\ EndTag(y, C, x.end, z, F)
        /\ Apart(x, y, x.mem[n].hi, x.heap_end_pma)
        /\ Frames(y, top, Q, S, Pool(y, A)) /\ f \notin T
        /\ f \in Pool(x, A)
    BY <1>1, <1>2, <1>4, <1>10, <1>11, <1>14, <1>15, <2>1, TakeListed
  <2>3. y.end = x.end /\ y.heap_end_pma = x.heap_end_pma /\ y.nested = x.nested /\ y.mem = x.mem
    BY <2>2 DEF Apart
  <2>4. HeapOK(y, y.end, C, z, F, r, Q, q, B, {n}) /\ Settled(y, y.end, C, z, F)
    BY <1>14, <2>2, <2>3 DEF Settled
  <2>5. ~GivesPages(y, n)
    BY <1>10, <1>15, <2>1
  <2>6. PICK w : w = free(y, n)
    OBVIOUS
  <2>7. Freeing(y, w, Q, B)
    BY <2>4, <2>5, <2>6, FreeOK
  <2>8. Frames(y, align(y.end, PAGE_SIZE), Q, S, Pool(y, A)) /\ Drawn(y, align(y.end, PAGE_SIZE), S)
    BY <1>4, <1>13, <2>2, <2>3
  <2>9. Stock(w, B, S, A) /\ w.nested = y.nested
    BY <2>7, <2>8, FreedStock
  <2>10. g.h = w
    BY <1>10, <1>15, <2>1, <2>2, <2>6 DEF page_new
  <2>11. f \in Nat
    BY <1>3, <2>2, PoolNat
  <2>12. LastBlock(x, B) => LastBlock(w, B)
    <3> SUFFICES ASSUME LastBlock(x, B) PROVE LastBlock(w, B)
      OBVIOUS
    <3>1. LastBlock(y, B)
      BY <2>3 DEF LastBlock, alloc_get_size
    <3>2. w.end = y.end /\ SameSizes(y, w, B)
      BY <2>7, <3>1 DEF Freeing
    <3> QED
      BY <3>1, <3>2 DEF LastBlock, SameSizes
  <2> QED
    BY <1>10, <1>11, <1>12, <2>2, <2>3, <2>9, <2>10, <2>11, <2>12
<1>16. CASE x.page_free_list = NULL
  <2>2. /\ TakePage(x).node = NULL /\ f = x.heap_end_pma
        /\ HeapOK(y, x.end, C, z, F, r, P, q, B, {}) /\ EndTag(y, C, x.end, z, F)
        /\ Apart(x, y, x.page_free_list, x.heap_end_pma + 1)
        /\ Frames(y, top, P, S, Pool(y, A)) /\ f \notin T
    BY <1>1, <1>2, <1>4, <1>6, <1>9, <1>10, <1>11, <1>14, <1>16, TakeUnused
  <2>3. y.end = x.end /\ y.heap_end_pma = x.heap_end_pma + 1 /\ y.nested = x.nested /\ y.mem = x.mem
    BY <2>2 DEF Apart
  <2>4. HeapOK(y, y.end, C, z, F, r, P, q, B, {}) /\ Settled(y, y.end, C, z, F)
    BY <1>14, <2>2, <2>3 DEF Settled
  <2>5. Whole(y, P, B)
    BY <2>4 DEF Whole
  <2>6. Drawn(y, top, S)
    BY <1>13, <2>2, <2>3
  <2>7. Stock(y, B, S, A)
    BY <1>4, <2>2, <2>3, <2>5, <2>6 DEF Stock
  <2>8. g.h = y
    BY <1>10, <2>2 DEF page_new
  <2>9. f \in Nat
    BY <1>3, <2>2, StateWords
  <2>10. LastBlock(x, B) => LastBlock(y, B)
    BY <2>3 DEF LastBlock, alloc_get_size
  <2> QED
    BY <1>10, <1>11, <1>12, <2>2, <2>3, <2>7, <2>8, <2>9, <2>10
<1> QED
  BY <1>15, <1>16

\* Behind a block of the kernel that ends the heap, page_new gives no page up.
LEMMA PageNewKeeps ==
    ASSUME NEW x, NEW B, NEW T, NEW A, Stock(x, B, T, A), LastBlock(x, B), x.page_free_list # NULL
    PROVE  ~GivesPages(TakePage(x).h, x.page_free_list)
<1>1. PICK P : Whole(x, P, B) /\ Frames(x, align(x.end, PAGE_SIZE), P, T, Pool(x, A))
  BY DEF Stock
<1>2. PICK C, z, F, r, q : /\ HeapOK(x, x.end, C, z, F, r, P, q, B, {})
                           /\ Settled(x, x.end, C, z, F)
  BY <1>1 DEF Whole
<1>3. EndTag(x, C, x.end, z, F) /\ \A n \in F : n + z[n] + DESC # x.end
  BY <1>2 DEF Settled
<1>4. PICK n, y, Q : n = x.page_free_list /\ y = TakePage(x).h /\ Q = P \ {n}
  OBVIOUS
<1>5. /\ HeapOK(y, x.end, C, z, F, r, Q, q, B, {n}) /\ EndTag(y, C, x.end, z, F)
      /\ Apart(x, y, x.mem[n].hi, x.heap_end_pma)
  BY <1>1, <1>2, <1>3, <1>4, TakeListed
<1>6. y.end = x.end /\ y.mem = x.mem
  BY <1>5 DEF Apart
<1>7. HeapOK(y, y.end, C, z, F, r, Q, q, B, {n}) /\ Settled(y, y.end, C, z, F)
  BY <1>3, <1>5, <1>6 DEF Settled
<1>8. LastBlock(y, B)
  BY <1>6 DEF LastBlock, alloc_get_size
<1>9. ~AtHeapEnd(MergePrev(MergeNext(y, n), n), MergedAt(MergeNext(y, n), n))
  BY <1>7, <1>8, NotLast
<1> QED
  BY <1>4, <1>9 DEF GivesPages

\* kmalloc_init: an empty heap on its first page.
LEMMA InitOK ==
    LET w == [MapPage(PageNewInside(InitialHeap), HEAP_START) EXCEPT
                 !.mem[HEAP_START].lo = 0, !.end = HEAP_START + DESC]
    IN  Stock(w, <<>>, {}, {}) /\ w.nested = FALSE
<1>1. PICK x : x = InitialHeap
  OBVIOUS
<1>2. /\ x.mem = [a \in Cells |-> [lo |-> Junk, hi |-> Junk]]
      /\ x.free_list = NULL /\ x.end = HEAP_START /\ x.page_free_list = NULL
      /\ x.heap_end_pma = FREE_START
      /\ x.pte = [p \in Pages |-> [pma |-> 0, present |-> FALSE]]
      /\ x.first_run = TRUE /\ x.nested = FALSE
  BY <1>1 DEF InitialHeap
<1>3. x \in States
  <2>1. Junk \in Int /\ FREE_START \in Nat /\ HEAP_START \in HEAP_START .. HEAP_LIMIT
    BY CallAssumption, FrameAssumption, HeapNumbers
  <2> QED
    BY <1>1, <2>1 DEF InitialHeap, States
<1>4. PICK y, g : /\ y = [x EXCEPT !.heap_end_pma = FREE_START + 1]
                  /\ g = [h |-> y, pma |-> FREE_START]
  OBVIOUS
<1>5. PageNewInside(x) = g
  <2>1. TakePage(x) = [h |-> y, pma |-> FREE_START, node |-> NULL]
    BY <1>2, <1>4 DEF TakePage
  <2> QED
    BY <1>4, <2>1 DEF PageNewInside
<1>6. /\ y \in States /\ y.mem = x.mem /\ y.free_list = NULL /\ y.page_free_list = NULL
      /\ y.heap_end_pma = FREE_START + 1 /\ y.pte = x.pte /\ y.first_run = TRUE /\ y.nested = FALSE
  BY <1>2, <1>3, <1>4, FrameAssumption DEF States
<1>7. HEAP_START \in Pages /\ HEAP_START \in Cells /\ FREE_START \in Nat /\ Junk \in Int
  BY PageIs, CellIs, HeapNumbers, FrameAssumption, CallAssumption
<1>8. PICK M : M = [a \in Cells |-> IF HEAP_START <= a /\ a < HEAP_START + PAGE_SIZE
                                    THEN [lo |-> Junk, hi |-> Junk] ELSE y.mem[a]]
  OBVIOUS
<1>9. PICK m, E : /\ m = [M EXCEPT ![HEAP_START].lo = 0]
                  /\ E = [y.pte EXCEPT ![HEAP_START] = [pma |-> FREE_START, present |-> TRUE]]
  OBVIOUS
<1>10. M \in [Cells -> [lo : Int, hi : Int]]
  BY <1>6, <1>7, <1>8, StateWords
<1>11. m \in [Cells -> [lo : Int, hi : Int]] /\ m[HEAP_START].lo = 0
  BY <1>7, <1>9, <1>10
<1>12. /\ E \in [Pages -> [pma : Nat, present : BOOLEAN]]
       /\ E[HEAP_START].pma = FREE_START /\ E[HEAP_START].present = TRUE
       /\ \A p \in Pages : p # HEAP_START => E[p].present = FALSE
  <2>1. PICK D : D = y.pte
    OBVIOUS
  <2>2. D = [p \in Pages |-> [pma |-> 0, present |-> FALSE]]
    BY <1>2, <1>6, <2>1
  <2>3. PICK e : e = [pma |-> FREE_START, present |-> TRUE]
    OBVIOUS
  <2>4. e \in [pma : Nat, present : BOOLEAN] /\ e.pma = FREE_START /\ e.present = TRUE
    BY <1>7, <2>3
  <2>5. E = [D EXCEPT ![HEAP_START] = e]
    BY <1>9, <2>1, <2>3
  <2>6. D \in [Pages -> [pma : Nat, present : BOOLEAN]] /\ \A p \in Pages : D[p].present = FALSE
    BY <2>2
  <2>7. E[HEAP_START] = e /\ \A p \in Pages : p # HEAP_START => E[p] = D[p]
    BY <1>7, <2>5, <2>6
  <2>8. E \in [Pages -> [pma : Nat, present : BOOLEAN]]
    BY <1>7, <2>4, <2>5, <2>6
  <2> QED
    BY <2>4, <2>6, <2>7, <2>8
<1>13. PICK w : w = [MapPage(g, HEAP_START) EXCEPT !.mem[HEAP_START].lo = 0, !.end = HEAP_START + DESC]
  OBVIOUS
<1>14. First \in HEAP_START .. HEAP_LIMIT /\ First = HEAP_START + DESC
  <2>1. HEAP_START + PAGE_SIZE <= HEAP_LIMIT
    BY PageOrder, HeapNumbers
  <2> QED
    BY <2>1, HeapNumbers
<1>15. /\ w \in States /\ w.mem = m /\ w.free_list = NULL /\ w.end = First /\ w.page_free_list = NULL
       /\ w.heap_end_pma = FREE_START + 1 /\ w.pte = E /\ w.first_run = TRUE /\ w.nested = FALSE
  <2>1. MapPage(g, HEAP_START) = [y EXCEPT !.pte = E, !.mem = M]
    BY <1>4, <1>8, <1>9 DEF MapPage
  <2>2. w = [y EXCEPT !.pte = E, !.mem = m, !.end = First]
    <3>1. PICK u : u = [y EXCEPT !.pte = E, !.mem = M]
      OBVIOUS
    <3>2. /\ u.mem = M /\ u.pte = E
      BY <1>6, <3>1 DEF States
    <3>3. w = [u EXCEPT !.mem = m, !.end = First]
      BY <1>9, <1>13, <1>14, <2>1, <3>1, <3>2
    <3> QED
      BY <1>6, <3>1, <3>3 DEF States
  <2> QED
    BY <1>6, <1>11, <1>12, <1>14, <2>2 DEF States
<1>16. PICK z : z = [c \in Cells |-> 0]
  OBVIOUS
<1>17. HeapOK(w, First, {}, z, {}, z, {}, z, <<>>, {})
  <2>1. Tiling({}, First, z)
    BY <1>14, <1>16, HeapNumbers DEF Tiling
  <2>2. Tagged(w, {}, z, {})
    BY <1>11, <1>15 DEF Tagged
  <2>3. Linked(w, NULL, {}, z) /\ BackLinked(w, NULL, {})
    BY <1>16 DEF Linked, BackLinked
  <2>4. DOMAIN <<>> = {}
    OBVIOUS
  <2>5. Filled(w, <<>>, z) /\ Owners({}, {}, {}, <<>>, {})
    BY <2>4 DEF Filled, Owners
  <2> QED
    BY <1>15, <2>1, <2>2, <2>3, <2>5 DEF HeapOK, Merged
<1>18. Whole(w, {}, <<>>)
  <2>1. Settled(w, First, {}, z, {})
    BY <1>15 DEF Settled, EndTag
  <2> QED
    BY <1>15, <1>17, <2>1 DEF Whole
<1>19. align(First, PAGE_SIZE) = HEAP_START + PAGE_SIZE
  <2>1. PICK t \in Nat : t = align(First, PAGE_SIZE)
    BY HeapNumbers, PageAlign
  <2>2. First <= t /\ t < First + PAGE_SIZE /\ t % PAGE_SIZE = 0
    BY <2>1, HeapNumbers, PageAlign
  <2>3. HEAP_START + PAGE_SIZE <= t
    <3>1. HEAP_START < t /\ HEAP_START \in Nat /\ HEAP_START % PAGE_SIZE = 0
      BY <1>14, <2>2, HeapNumbers
    <3> QED
      BY <2>2, <3>1, PageOrder
  <2>4. PICK s \in Nat : s = HEAP_START + PAGE_SIZE
    BY HeapNumbers
  <2>5. s % PAGE_SIZE = 0
    <3>1. PICK i \in Nat : HEAP_START = i * PAGE_SIZE
      BY HeapNumbers, Divide
    <3>2. s = (i + 1) * PAGE_SIZE + 0
      BY <2>4, <3>1, HeapNumbers, Times
    <3> QED
      BY <3>2, HeapNumbers, DivideUnique
  <2>6. s < t => s + PAGE_SIZE <= t
    BY <2>2, <2>5, PageOrder
  <2> QED
    BY <2>1, <2>2, <2>3, <2>4, <2>6, HeapNumbers
<1>20. Pool(w, {}) = {FREE_START}
  <2>1. FREE_START .. (FREE_START + 1) - 1 = {FREE_START}
    BY <1>7
  <2> QED
    BY <1>15, <2>1 DEF Pool
<1>21. \A p \in Pages : p < HEAP_START + PAGE_SIZE <=> p = HEAP_START
  <2> TAKE p \in Pages
  <2>1. p \in Nat /\ p % PAGE_SIZE = 0 /\ HEAP_START <= p
    BY PageIs, CellIs
  <2>2. HEAP_START < p => HEAP_START + PAGE_SIZE <= p
    BY <2>1, PageOrder, HeapNumbers
  <2> QED
    BY <2>1, <2>2, HeapNumbers
<1>22. Frames(w, HEAP_START + PAGE_SIZE, {}, {}, {FREE_START})
  BY <1>7, <1>12, <1>15, <1>21 DEF Frames
<1>23. Drawn(w, HEAP_START + PAGE_SIZE, {})
  <2>1. Cardinality({}) = 0
    BY FS_EmptySet
  <2>2. FREE_START + 1 - FREE_START - 0 = 1
    BY <1>7
  <2>3. (w.heap_end_pma - FREE_START - Cardinality({})) * PAGE_SIZE = PAGE_SIZE
    <3>1. w.heap_end_pma - FREE_START - Cardinality({}) = 1
      BY <1>7, <1>15, <2>1
    <3> QED
      BY <3>1, HeapNumbers
  <2> QED
    BY <1>7, <1>15, <2>3, HeapNumbers DEF Drawn
<1>24. Stock(w, <<>>, {}, {})
  BY <1>15, <1>18, <1>19, <1>20, <1>22, <1>23 DEF Stock
<1> QED
  BY <1>1, <1>5, <1>13, <1>15, <1>24

-----------------------------------------------------------------------------
(* What the words of the heap stand for.                                   *)

\* The places on the way along a list rank its nodes.
LEMMA Rerank ==
    ASSUME NEW x, NEW head, NEW S, NEW r, Linked(x, head, S, r),
           NEW C, NEW e, NEW z, Tiling(C, e, z), S \subseteq C
    PROVE  Linked(x, head, S, RankOn(ListWay(x, head)))
<1>1. PICK s : s = ListWay(x, head)
  OBVIOUS
<1>2. Whither(s, head, S, NULL, NextNode(x, S))
  BY <1>1, ListWayIs
<1>3. Trail(s, head, S, NULL, NextNode(x, S)) /\ Passed(s) = S /\ s[Len(s)] = NULL
  BY <1>2, Zenon DEF Whither
<1>4. \A j, k \in 1 .. Len(s) - 1 : s[j] = s[k] => j = k
  BY <1>2, Zenon DEF Whither
<1>5. PICK l \in Nat : l = Len(s) /\ l >= 1 /\ DOMAIN s = 1 .. l
  BY <1>3 DEF Trail
<1>6. /\ s[1] = head /\ s[l] = NULL
      /\ \A j \in 1 .. l - 1 : s[j] \in S /\ s[j + 1] = x.mem[s[j]].hi
      /\ \A j, k \in 1 .. l - 1 : s[j] = s[k] => j = k
      /\ \A n \in S : \E k \in 1 .. l - 1 : s[k] = n
  <2>1. s[1] = head /\ s[l] = NULL
    BY <1>3, <1>5 DEF Trail
  <2>2. \A j \in 1 .. l - 1 : s[j] \in S /\ s[j + 1] = x.mem[s[j]].hi
    BY <1>3, <1>5 DEF Trail, NextNode
  <2>3. \A j, k \in 1 .. l - 1 : s[j] = s[k] => j = k
    BY <1>4, <1>5
  <2>4. \A n \in S : \E k \in 1 .. l - 1 : s[k] = n
    BY <1>3, <1>5 DEF Passed
  <2> QED
    BY <2>1, <2>2, <2>3, <2>4
<1>7. S \subseteq Cells /\ NULL \notin S
  BY CellIs, HeapNumbers DEF Linked
<1>8. PICK w : w = RankOn(s)
  OBVIOUS
<1>9. /\ w \in [Cells -> Int]
      /\ \A n \in S : w[n] \in 1 .. l - 1 /\ s[w[n]] = n
  <2>1. w = [n \in Cells |-> IF n \in S THEN CHOOSE k \in 1 .. l : s[k] = n ELSE 0]
    BY <1>3, <1>5, <1>8 DEF RankOn
  <2>2. ASSUME NEW n \in S
        PROVE  (CHOOSE k \in 1 .. l : s[k] = n) \in 1 .. l - 1
               /\ s[CHOOSE k \in 1 .. l : s[k] = n] = n
    <3>1. PICK j : j = CHOOSE k \in 1 .. l : s[k] = n
      OBVIOUS
    <3>2. \E k \in 1 .. l : s[k] = n
      BY <1>5, <1>6
    <3>3. j \in 1 .. l /\ s[j] = n
      BY <3>1, <3>2, Zenon
    <3>4. j # l
      BY <1>6, <1>7, <3>3
    <3>5. j \in 1 .. l - 1
      BY <1>5, <3>3, <3>4
    <3> QED
      BY <3>1, <3>3, <3>5
  <2>3. \A n \in S : w[n] = CHOOSE k \in 1 .. l : s[k] = n
    BY <1>7, <2>1
  <2>4. \A n \in S : w[n] \in 1 .. l - 1 /\ s[w[n]] = n
    BY <2>2, <2>3
  <2>5. \A n \in Cells : w[n] \in Int
    <3> TAKE n \in Cells
    <3>1. CASE n \in S
      BY <2>4, <3>1
    <3>2. CASE n \notin S
      BY <2>1, <3>2
    <3> QED
      BY <3>1, <3>2
  <2> QED
    BY <2>1, <2>4, <2>5
<1>10. \A k \in 1 .. l - 1 : w[s[k]] = k
  BY <1>6, <1>9
<1>11. ASSUME NEW n \in S
       PROVE  IF w[n] + 1 = l THEN x.mem[n].hi = NULL
              ELSE x.mem[n].hi \in S /\ w[x.mem[n].hi] = w[n] + 1 /\ w[n] + 1 < l
  <2>1. PICK k \in 1 .. l - 1 : k = w[n] /\ s[k] = n
    BY <1>9
  <2>2. x.mem[n].hi = s[k + 1]
    BY <1>6, <2>1
  <2>3. k + 1 # l => k + 1 \in 1 .. l - 1
    BY <1>5
  <2> QED
    BY <1>5, <1>6, <1>10, <2>1, <2>2, <2>3
<1>12. IF head = NULL THEN S = {} ELSE head \in S /\ \A n \in S : w[head] <= w[n]
  <2>1. head = NULL => S = {}
    BY DEF Linked
  <2>2. ASSUME head # NULL
        PROVE  head \in S /\ \A n \in S : w[head] <= w[n]
    <3>1. head \in S
      BY <2>2 DEF Linked
    <3>2. w[head] = 1
      BY <1>5, <1>6, <1>9, <3>1
    <3> QED
      BY <1>9, <3>1, <3>2
  <2> QED
    BY <2>1, <2>2
<1>13. \A n \in S : x.mem[n].hi = NULL \/ (x.mem[n].hi \in S /\ w[n] < w[x.mem[n].hi])
  BY <1>9, <1>11
<1>14. \A m, n \in S : w[m] < w[n] => x.mem[m].hi # NULL /\ w[x.mem[m].hi] <= w[n]
  <2> TAKE m, n \in S
  <2>1. w[m] \in 1 .. l - 1 /\ w[n] \in 1 .. l - 1
    BY <1>9
  <2>2. w[m] < w[n] => w[m] + 1 # l
    BY <2>1, <1>5
  <2> QED
    BY <1>7, <1>11, <2>1, <2>2
<1>15. \A m, n \in S : w[m] = w[n] => m = n
  BY <1>9
<1>16. w = RankOn(ListWay(x, head))
  BY <1>1, <1>8
<1>17. Linked(x, head, S, w)
  BY <1>7, <1>9, <1>12, <1>13, <1>14, <1>15 DEF Linked
<1> QED
  BY <1>16, <1>17

\* Only the sizes of chunks matter.
LEMMA Resize ==
    ASSUME NEW x, NEW e, NEW C, NEW z, NEW F, NEW r, NEW P, NEW q, NEW B,
           HeapOK(x, e, C, z, F, r, P, q, B, {}), Settled(x, e, C, z, F),
           NEW t \in [Cells -> Nat], \A n \in C : t[n] = z[n]
    PROVE  HeapOK(x, e, C, t, F, r, P, q, B, {}) /\ Settled(x, e, C, t, F)
<1>1. F \subseteq C /\ DOMAIN B \subseteq C
  BY ChunkWords
<1>2. Tiling(C, e, t)
  <2>1. Tiling(C, e, z)
    BY DEF HeapOK
  <2> QED
    BY <2>1 DEF Tiling
<1>3. Tagged(x, C, t, F)
  BY DEF HeapOK, Tagged
<1>4. Filled(x, B, t)
  BY <1>1 DEF HeapOK, Filled
<1>5. Merged(F, t) /\ Settled(x, e, C, t, F)
  BY <1>1 DEF HeapOK, Merged, Settled, EndTag
<1> QED
  BY <1>2, <1>3, <1>4, <1>5 DEF HeapOK

\* What the invariant says of a heap is what following its words finds.
LEMMA Reading ==
    ASSUME phase # "kmalloc_init",
           NEW C, NEW z, NEW F, NEW r, NEW P, NEW q, NEW B,
           HeapOK(h, h.end, C, z, F, r, P, q, B, {})
    PROVE  /\ Chunks = C /\ Last(ChunkWay(h)) = h.end
           /\ FreeChunks = F /\ Last(ListWay(h, h.free_list)) = NULL
           /\ Passed(ListWay(h, h.free_list)) = F
           /\ PageNodes = P /\ Last(ListWay(h, h.page_free_list)) = NULL
<1>1. /\ Tiling(C, h.end, z) /\ F \subseteq C /\ P \subseteq C
      /\ \A n \in C : IsFree(h.mem[n - 8].hi) <=> n \in F
  BY ChunkWords
<1>2. Linked(h, h.free_list, F, r) /\ Linked(h, h.page_free_list, P, q)
  BY DEF HeapOK
<1>3. Passed(ChunkWay(h)) = C /\ Last(ChunkWay(h)) = h.end
  <2>1. Whither(ChunkWay(h), First, C, h.end, NextChunk(C, z))
    BY ChunkWayIs
  <2> QED
    BY <2>1, Zenon DEF Whither
<1>4. Passed(ListWay(h, h.free_list)) = F /\ Last(ListWay(h, h.free_list)) = NULL
  <2>1. Whither(ListWay(h, h.free_list), h.free_list, F, NULL, NextNode(h, F))
    BY <1>1, <1>2, ListWayIs
  <2> QED
    BY <2>1, Zenon DEF Whither
<1>5. Passed(ListWay(h, h.page_free_list)) = P /\ Last(ListWay(h, h.page_free_list)) = NULL
  <2>1. Whither(ListWay(h, h.page_free_list), h.page_free_list, P, NULL, NextNode(h, P))
    BY <1>1, <1>2, ListWayIs
  <2> QED
    BY <2>1, Zenon DEF Whither
<1>6. Chunks = C
  BY <1>3, Zenon DEF Chunks
<1>7. FreeChunks = F
  <2>1. \A n : alloc_get_desc(n) = n - 8
    BY DEF alloc_get_desc, DESC
  <2>2. FreeChunks = {n \in C : IsFree(h.mem[n - 8].hi)}
    BY <1>6, <2>1, Zenon DEF FreeChunks
  <2> QED
    BY <1>1, <2>2
<1> QED
  BY <1>3, <1>4, <1>5, <1>6, <1>7, Zenon DEF PageNodes

-----------------------------------------------------------------------------
(* The invariant of the proof, and alloc as the kernel calls it.           *)

\* The invariant that the proof carries along: what the cells stand for exists.
Sound ==
    /\ phase \in {"kmalloc_init", "free", "run", "dead"}
    /\ done \in 0 .. Len(InitPages) + InitTables
    /\ live \in [DOMAIN live -> Nat]
    /\ h.nested = FALSE /\ Taken(taken)
    /\ phase = "kmalloc_init" => h = InitialHeap /\ live = <<>> /\ taken = {} /\ done = 0
    /\ phase # "kmalloc_init" => Stock(h, live, taken, Freed)

\* The pages of the init section lie below those page_new takes.
LEMMA FreedEarly ==
    ASSUME NEW d \in Nat, NEW A,
           A = {InitPages[k] : k \in 1 .. (IF d < Len(InitPages) THEN d ELSE Len(InitPages))}
    PROVE  Early(A)
<1>1. PICK l \in Nat : l = Len(InitPages) /\ DOMAIN InitPages = 1 .. l
  BY FrameAssumption
<1>2. \A k \in 1 .. l : InitPages[k] \in 1 .. FREE_START - 1 /\ InitPages[k] # LAPIC_PMA
  BY <1>1, FrameAssumption
<1>3. \A k \in 1 .. (IF d < l THEN d ELSE l) : k \in 1 .. l
  BY <1>1
<1> QED
  BY <1>1, <1>2, <1>3 DEF Early

\* The next page of the init section is a new one.
LEMMA FreedNext ==
    ASSUME NEW d \in Nat, d < Len(InitPages), NEW A, NEW D,
           A = {InitPages[k] : k \in 1 .. (IF d < Len(InitPages) THEN d ELSE Len(InitPages))},
           D = {InitPages[k] : k \in 1 .. (IF d + 1 < Len(InitPages) THEN d + 1 ELSE Len(InitPages))},
           NEW y
    PROVE  /\ InitPages[d + 1] \in Nat /\ D = A \cup {InitPages[d + 1]}
           /\ InitPages[d + 1] \notin Pool(y, A)
<1>1. PICK l \in Nat : l = Len(InitPages) /\ DOMAIN InitPages = 1 .. l /\ d < l
  BY FrameAssumption
<1>2. \A k \in 1 .. l : InitPages[k] \in 1 .. FREE_START - 1 /\ InitPages[k] # LAPIC_PMA
  BY <1>1, FrameAssumption
<1>3. \A j, k \in 1 .. l : InitPages[j] = InitPages[k] => j = k
  BY <1>1, FrameAssumption
<1>4. A = {InitPages[k] : k \in 1 .. d}
  BY <1>1
<1>5. D = {InitPages[k] : k \in 1 .. d + 1}
  <2>1. (IF d + 1 < l THEN d + 1 ELSE l) = d + 1
    BY <1>1
  <2> QED
    BY <1>1, <2>1
<1>6. PICK f : f = InitPages[d + 1]
  OBVIOUS
<1>7. d + 1 \in 1 .. l /\ 1 .. d + 1 = (1 .. d) \cup {d + 1} /\ d + 1 \notin 1 .. d /\ 1 .. d \subseteq 1 .. l
  BY <1>1
<1>8. f \in Nat /\ f < FREE_START /\ f # LAPIC_PMA
  BY <1>2, <1>6, <1>7, FrameAssumption
<1>9. f \notin A
  BY <1>3, <1>4, <1>6, <1>7
<1>10. D = A \cup {f}
  BY <1>4, <1>5, <1>6, <1>7
<1>11. f \notin FREE_START .. y.heap_end_pma - 1
  BY <1>8, FrameAssumption
<1>12. f \notin Pool(y, A)
  BY <1>8, <1>9, <1>11 DEF Pool
<1> QED
  BY <1>6, <1>8, <1>10, <1>12

\* Once the init section is freed, its pages stay the same.
LEMMA FreedAll ==
    ASSUME NEW d \in Nat, NEW k \in Nat, d >= Len(InitPages), k >= Len(InitPages)
    PROVE  {InitPages[j] : j \in 1 .. (IF d < Len(InitPages) THEN d ELSE Len(InitPages))}
            = {InitPages[j] : j \in 1 .. (IF k < Len(InitPages) THEN k ELSE Len(InitPages))}
<1>1. PICK l \in Nat : l = Len(InitPages)
  BY FrameAssumption
<1>2. (IF d < l THEN d ELSE l) = (IF k < l THEN k ELSE l)
  BY <1>1
<1> QED
  BY <1>1, <1>2

\* The heap after a call that returned.
Calling(y, B, T, A, next, n) ==
    /\ phase' = next /\ done' = n
    /\ Stock(y, B, T, A) /\ y.nested = FALSE /\ B \in [DOMAIN B -> Nat]

\* alloc as the kernel calls it, with what its caller writes into the block.
LEMMA CallOK ==
    ASSUME NEW A, Stock(h, live, taken, A), h.nested = FALSE, live \in [DOMAIN live -> Nat],
           Taken(taken), Early(A),
           NEW src, NEW a \in {8, PAGE_SIZE}, NEW asked \in Nat, Room(a, asked),
           NEW next, NEW n, Call(src, a, asked, next, n)
    PROVE  \/ phase' = "dead" /\ UNCHANGED <<h, done, live>>
           \/ /\ Calling(h', live', taken, A, next, n)
              /\ LastBlock(h, live) => LastBlock(h', live')
              /\ a = PAGE_SIZE => LastBlock(h', live')
<1>1. CASE Dies(h, a, asked)
  BY <1>1 DEF Call
<1>2. CASE ~Dies(h, a, asked)
  <2>1. PICK g : g = alloc(h, src, a, asked)
    OBVIOUS
  <2>2. phase' = next /\ done' = n /\ Granted(g, asked)
    BY <1>2, <2>1 DEF Call
  <2>3. h.end + Gap(h, a) + Rounded(asked) + 8 <= HEAP_LIMIT
    <3>1. PICK P : Whole(h, P, live)
      BY DEF Stock
    <3>2. h.end \in Nat /\ h.end % 8 = 0
      <4>1. PICK C, z, F, r, q : HeapOK(h, h.end, C, z, F, r, P, q, live, {})
        BY <3>1 DEF Whole
      <4> QED
        BY <4>1, TileCells DEF HeapOK
    <3>3. Gap(h, a) \in Nat
      BY <3>2, GapIs
    <3>4. Rounded(asked) \in Nat
      BY RoundedIs
    <3>5. h.end + Gap(h, a) + Rounded(asked) + 8 < HEAP_BOUND
      BY DEF Room, DESC
    <3> QED
      BY <3>2, <3>3, <3>4, <3>5, HeapNumbers
  <2>4. PICK b : b = Rounded(asked)
    OBVIOUS
  <2>5. /\ Alloced(h, g.h, g.vma, b, live, taken, A)
        /\ (a = 8 /\ g.h.end = h.end) \/ g.h.end = g.vma + b + 8
    BY <1>2, <2>1, <2>3, <2>4, AllocOK
  <2>6. asked <= b
    BY <2>4, RoundedIs
  <2>7. PICK w, B : w = Fill(g.h, g.vma, asked) /\ B = Owned(live, g.vma, asked)
    OBVIOUS
  <2>8. /\ Stock(w, B, taken, A)
        /\ w.end = g.h.end /\ w.nested = h.nested /\ alloc_get_size(w, g.vma) = b
        /\ SameSizes(h, w, live)
    BY <2>5, <2>6, <2>7, GrantOK
  <2>9. h' = w /\ live' = B
    BY <2>2, <2>7 DEF Granted, Fill, Owned
  <2>10. B \in [DOMAIN B -> Nat] /\ g.vma \in DOMAIN B /\ DOMAIN live \subseteq DOMAIN B
    BY <2>7 DEF Owned
  <2>11. g.h.end = g.vma + b + 8 => LastBlock(w, B)
    BY <2>8, <2>10 DEF LastBlock
  <2>12. g.h.end = h.end /\ LastBlock(h, live) => LastBlock(w, B)
    BY <2>8, <2>10 DEF LastBlock, SameSizes
  <2>13. a = PAGE_SIZE => a # 8
    BY HeapNumbers
  <2>14. Calling(w, B, taken, A, next, n)
    BY <2>2, <2>8, <2>10 DEF Calling
  <2> QED
    BY <2>5, <2>9, <2>11, <2>12, <2>13, <2>14
<1> QED
  BY <1>1, <1>2

-----------------------------------------------------------------------------
(* The steps.                                                              *)

\* apic_init leaves a block at the end of the heap, and it stays there as long
\* as nothing is given back with kfree.
Ended == phase = "run" => LastBlock(h, live)

\* kmalloc_init.
LEMMA KmallocInitStep ==
    ASSUME Sound, KmallocInit PROVE Sound' /\ Ended'
<1>1. h = InitialHeap /\ live = <<>> /\ taken = {} /\ done = 0 /\ Taken(taken)
  BY DEF Sound, KmallocInit
<1>2. PICK w : w = [MapPage(PageNewInside(InitialHeap), HEAP_START) EXCEPT
                        !.mem[HEAP_START].lo = 0, !.end = HEAP_START + DESC]
  OBVIOUS
<1>3. Stock(w, <<>>, {}, {}) /\ w.nested = FALSE
  BY <1>2, InitOK
<1>4. h' = w /\ phase' = "free" /\ done' = 0 /\ live' = <<>> /\ taken' = {}
  BY <1>1, <1>2 DEF KmallocInit
<1>5. Freed' = {}
  <2>1. PICK l \in Nat : l = Len(InitPages)
    BY FrameAssumption
  <2>2. 1 .. (IF 0 < l THEN 0 ELSE l) = {}
    BY <2>1
  <2> QED
    BY <1>4, <2>1, <2>2 DEF Freed
<1>6. Stock(h', live', taken', Freed')
  BY <1>3, <1>4, <1>5
<1>7. Taken(taken') /\ live' \in [DOMAIN live' -> Nat]
  BY <1>1, <1>4 DEF Sound
<1>8. done' \in 0 .. Len(InitPages) + InitTables
  BY <1>1, <1>4 DEF Sound
<1> QED
  BY <1>3, <1>4, <1>6, <1>7, <1>8 DEF Sound, Ended

\* page_free of a page of the init section.
LEMMA CleanupFreeStep ==
    ASSUME Sound, CleanupFree PROVE Sound' /\ Ended'
<1>1. /\ phase = "free" /\ done < Len(InitPages) /\ Room(8, 8)
      /\ h' = PushPage(h, InitPages[done + 1]) /\ done' = done + 1
      /\ phase' = "free" /\ live' = live /\ taken' = taken
  BY DEF CleanupFree, KM_MIN_ALLOC_SIZE
<1>2. /\ Stock(h, live, taken, Freed) /\ Taken(taken) /\ h.nested = FALSE
      /\ live \in [DOMAIN live -> Nat] /\ done \in 0 .. Len(InitPages) + InitTables
  BY <1>1 DEF Sound
<1>3. done \in Nat /\ done + 1 \in 0 .. Len(InitPages) + InitTables
  BY <1>1, <1>2, FrameAssumption, CallAssumption
<1>4. PICK A, D : A = Freed /\ D = Freed'
  OBVIOUS
<1>5. Early(A)
  BY <1>3, <1>4, FreedEarly DEF Freed
<1>6. PICK P : Whole(h, P, live)
  BY <1>2 DEF Stock
<1>7. h.end \in Nat /\ h.end % 8 = 0
  <2>1. PICK C, z, F, r, q : HeapOK(h, h.end, C, z, F, r, P, q, live, {})
    BY <1>6 DEF Whole
  <2> QED
    BY <2>1, TileCells DEF HeapOK
<1>8. Gap(h, 8) = 0
  BY <1>7, GapIs
<1>9. ~Dies(h, 8, 8)
  BY <1>8 DEF Dies
<1>10. h.end + Gap(h, 8) + Rounded(8) + 8 <= HEAP_LIMIT
  <2>1. Rounded(8) \in Nat
    BY RoundedIs
  <2>2. h.end + Gap(h, 8) + Rounded(8) + 8 < HEAP_BOUND
    BY <1>1 DEF Room, DESC
  <2>3. Gap(h, 8) \in Nat
    BY <1>7, GapIs
  <2> QED
    BY <1>7, <2>1, <2>2, <2>3, HeapNumbers
<1>11. PICK g, b : g = alloc(h, "page_new", 8, 8) /\ b = Rounded(8)
  OBVIOUS
<1>12. Alloced(h, g.h, g.vma, b, live, taken, A)
  BY <1>2, <1>4, <1>5, <1>9, <1>10, <1>11, AllocOK
<1>13. PICK f : f = InitPages[done + 1]
  OBVIOUS
<1>14. f \in Nat /\ D = A \cup {f} /\ f \notin Pool(g.h, A)
  <2>1. /\ A = {InitPages[k] : k \in 1 .. (IF done < Len(InitPages) THEN done ELSE Len(InitPages))}
        /\ D = {InitPages[k] : k \in 1 .. (IF done + 1 < Len(InitPages) THEN done + 1 ELSE Len(InitPages))}
    BY <1>1, <1>4 DEF Freed
  <2> QED
    BY <1>1, <1>3, <1>13, <2>1, FreedNext
<1>15. Stock(ListPage(g, f), live, taken, A \cup {f}) /\ ListPage(g, f).nested = FALSE
  <2>1. PICK y, n : y = g.h /\ n = g.vma
    OBVIOUS
  <2>2. Alloced(h, y, n, b, live, taken, A) /\ f \notin Pool(y, A)
    BY <1>12, <1>14, <2>1
  <2>3. LET w == ListPage(g, f) IN Stock(w, live, taken, A \cup {f}) /\ w.nested = h.nested
    BY <1>14, <2>1, <2>2, ListPageOK
  <2> QED
    BY <1>2, <2>3
<1>16. h' = ListPage(g, f)
  BY <1>1, <1>11, <1>13 DEF PushPage, kmalloc, KM_MIN_ALLOC_SIZE
<1>17. Stock(h', live', taken', Freed')
  BY <1>1, <1>4, <1>14, <1>15, <1>16
<1> QED
  BY <1>1, <1>2, <1>3, <1>15, <1>16, <1>17 DEF Sound, Ended

\* A call of alloc once the init section is freed.
LEMMA CallStep ==
    ASSUME Sound, phase # "kmalloc_init",
           NEW src, NEW a \in {8, PAGE_SIZE}, NEW asked \in Nat, Room(a, asked),
           NEW next \in {"free", "run"}, NEW n \in 0 .. Len(InitPages) + InitTables,
           n = done \/ (done >= Len(InitPages) /\ n >= Len(InitPages)),
           Call(src, a, asked, next, n), taken' = taken
    PROVE  /\ Sound'
           /\ next = "run" /\ (LastBlock(h, live) \/ a = PAGE_SIZE) => Ended'
           /\ next # "run" => Ended'
<1>1. /\ Stock(h, live, taken, Freed) /\ Taken(taken) /\ h.nested = FALSE
      /\ live \in [DOMAIN live -> Nat] /\ done \in 0 .. Len(InitPages) + InitTables
      /\ done \in Nat /\ n \in Nat
  BY FrameAssumption, CallAssumption DEF Sound
<1>2. PICK A : A = Freed
  OBVIOUS
<1>3. Early(A)
  BY <1>1, <1>2, FreedEarly DEF Freed
<1>4. CASE phase' = "dead" /\ UNCHANGED <<h, done, live>>
  <2>1. Freed' = Freed
    BY <1>4 DEF Freed
  <2>2. Stock(h', live', taken', Freed')
    BY <1>1, <1>4, <2>1
  <2> QED
    BY <1>1, <1>4, <2>2 DEF Sound, Ended
<1>5. CASE /\ Calling(h', live', taken, A, next, n)
           /\ LastBlock(h, live) => LastBlock(h', live')
           /\ a = PAGE_SIZE => LastBlock(h', live')
  <2>1. /\ phase' = next /\ done' = n /\ Stock(h', live', taken', A)
        /\ h'.nested = FALSE /\ live' \in [DOMAIN live' -> Nat]
    BY <1>5 DEF Calling
  <2>2. Freed' = A
    <3>1. CASE n = done
      BY <1>2, <2>1, <3>1 DEF Freed
    <3>2. CASE done >= Len(InitPages) /\ n >= Len(InitPages)
      BY <1>1, <1>2, <2>1, <3>2, FreedAll DEF Freed
    <3> QED
      BY <3>1, <3>2
  <2>3. Stock(h', live', taken', Freed')
    BY <2>1, <2>2
  <2>4. Sound'
    BY <1>1, <2>1, <2>3 DEF Sound
  <2> QED
    BY <1>5, <2>1, <2>4 DEF Ended
<1> QED
  BY <1>1, <1>2, <1>3, <1>4, <1>5, CallOK

\* kalloc of a kernel page table.
LEMMA CleanupTableStep ==
    ASSUME Sound, CleanupTable PROVE Sound' /\ Ended'
<1>1. /\ phase = "free" /\ done \in Len(InitPages) .. Len(InitPages) + InitTables - 1
      /\ Room(PAGE_SIZE, PAGE_SIZE)
      /\ Call("page_new", PAGE_SIZE, PAGE_SIZE, "free", done + 1) /\ taken' = taken
  BY DEF CleanupTable
<1>2. PICK l \in Nat : l = Len(InitPages)
  BY FrameAssumption
<1>3. /\ done + 1 \in 0 .. Len(InitPages) + InitTables
      /\ done >= Len(InitPages) /\ done + 1 >= Len(InitPages)
  BY <1>1, <1>2, CallAssumption
<1> QED
  BY <1>1, <1>3, HeapNumbers, CallStep

\* The APIC's page.
LEMMA LapicMapStep ==
    ASSUME Sound, LapicMap PROVE Sound' /\ Ended'
<1>1. /\ phase = "free" /\ Room(PAGE_SIZE, PAGE_SIZE)
      /\ Call("lvt", PAGE_SIZE, PAGE_SIZE, "run", done) /\ taken' = taken
  BY DEF LapicMap
<1>2. done \in 0 .. Len(InitPages) + InitTables
  BY DEF Sound
<1> QED
  BY <1>1, <1>2, HeapNumbers, CallStep

\* kmalloc.
LEMMA KmallocStep ==
    ASSUME Sound, Kmalloc PROVE Sound' /\ (Ended => Ended')
<1>1. PICK asked \in Sizes : /\ Room(8, asked)
                             /\ Call("page_new", 8, asked, "run", done)
  BY DEF Kmalloc, KM_MIN_ALLOC_SIZE
<1>2. phase = "run" /\ taken' = taken /\ asked \in Nat
  BY CallAssumption DEF Kmalloc
<1>3. done \in 0 .. Len(InitPages) + InitTables
  BY DEF Sound
<1>4. Sound' /\ (LastBlock(h, live) => Ended')
  BY <1>1, <1>2, <1>3, CallStep
<1> QED
  BY <1>2, <1>4 DEF Ended

\* kalloc.
LEMMA KallocStep ==
    ASSUME Sound, Kalloc PROVE Sound' /\ Ended'
<1>1. /\ phase = "run" /\ Room(PAGE_SIZE, PAGE_SIZE)
      /\ Call("page_new", PAGE_SIZE, PAGE_SIZE, "run", done) /\ taken' = taken
  BY DEF Kalloc
<1>2. done \in 0 .. Len(InitPages) + InitTables
  BY DEF Sound
<1> QED
  BY <1>1, <1>2, HeapNumbers, CallStep

\* page_new.
LEMMA PageNewStep ==
    ASSUME Sound, PageNew, Keeps PROVE Sound' /\ (Ended => Ended')
<1>1. PICK g : g = page_new(h)
  OBVIOUS
<1>2. /\ phase = "run" /\ Cardinality(taken) < MaxLive
      /\ h' = g.h /\ taken' = taken \cup {g.pma}
      /\ phase' = phase /\ done' = done /\ live' = live
  BY <1>1 DEF PageNew
<1>3. /\ Stock(h, live, taken, Freed) /\ IsFiniteSet(taken) /\ h.nested = FALSE
      /\ done \in Nat
  BY <1>2, FrameAssumption, CallAssumption DEF Sound, Taken
<1>4. PICK A : A = Freed
  OBVIOUS
<1>5. Early(A)
  BY <1>3, <1>4, FreedEarly DEF Freed
<1>6. h.page_free_list # NULL => ~GivesPages(TakePage(h).h, h.page_free_list)
  BY DEF Keeps
<1>7. /\ Stock(g.h, live, taken \cup {g.pma}, A) /\ g.h.nested = FALSE
      /\ LastBlock(h, live) => LastBlock(g.h, live)
  BY <1>1, <1>2, <1>3, <1>4, <1>5, <1>6, PageNewOK
<1>8. Freed' = Freed
  BY <1>2 DEF Freed
<1>9. Stock(h', live', taken', Freed')
  BY <1>2, <1>4, <1>7, <1>8
<1>10. Taken(taken')
  <2>1. Cardinality(taken) \in Nat
    BY <1>3, FS_CardinalityType
  <2>2. /\ IsFiniteSet(taken \cup {g.pma})
        /\ Cardinality(taken \cup {g.pma}) = Cardinality(taken)
           \/ Cardinality(taken \cup {g.pma}) = Cardinality(taken) + 1
    BY <1>3, FS_AddElement
  <2> QED
    BY <1>2, <2>1, <2>2, CallAssumption DEF Taken
<1>11. Sound'
  BY <1>2, <1>7, <1>9, <1>10 DEF Sound
<1>12. Ended => Ended'
  BY <1>2, <1>7 DEF Ended
<1> QED
  BY <1>11, <1>12

\* kfree.
LEMMA KfreeStep ==
    ASSUME Sound, Kfree, Keeps PROVE Sound'
<1>1. PICK v \in DOMAIN live : /\ h' = free(Scrubbed(v), v)
                               /\ live' = [k \in DOMAIN live \ {v} |-> live[k]]
  BY DEF Kfree
<1>2. phase = "run" /\ phase' = phase /\ done' = done /\ taken' = taken
  BY DEF Kfree
<1>3. Stock(h, live, taken, Freed) /\ h.nested = FALSE /\ live \in [DOMAIN live -> Nat]
  BY <1>2 DEF Sound
<1>4. Scrubbed(v) = Scrub(h, v)
  BY DEF Scrubbed, Scrub
<1>5. live' = Without(live, v) /\ v \notin DOMAIN live'
  BY <1>1 DEF Without
<1>6. ~GivesPages(Scrub(h, v), v)
  BY <1>4, <1>5 DEF Keeps
<1>7. Stock(h', live', taken, Freed) /\ h'.nested = FALSE
  BY <1>1, <1>3, <1>4, <1>5, <1>6, KfreeOK
<1>8. Freed' = Freed
  BY <1>2 DEF Freed
<1>9. live' \in [DOMAIN live' -> Nat]
  BY <1>3, <1>5 DEF Without
<1> QED
  BY <1>2, <1>7, <1>8, <1>9 DEF Sound

\* No call the kernel makes gives pages of the heap up.
LEMMA KernelKeeps ==
    ASSUME "kfree" \notin Calls, Sound, Ended, Next PROVE Keeps
<1>1. Kfree => FALSE
  BY DEF Kfree
<1>2. ASSUME PageNew, h.page_free_list # NULL
      PROVE  ~GivesPages(TakePage(h).h, h.page_free_list)
  <2>1. phase = "run"
    BY <1>2 DEF PageNew
  <2>2. Stock(h, live, taken, Freed) /\ LastBlock(h, live)
    BY <2>1 DEF Sound, Ended
  <2> QED
    BY <1>2, <2>2, PageNewKeeps
<1> QED
  BY <1>1, <1>2 DEF Keeps

\* What the theorems are about: free gives no pages up, because such calls are
\* left out or because nobody but page_new calls kfree.
NoShrink == ~MayShrink \/ "kfree" \notin Calls

\* Then every step keeps the pages.
LEMMA NextKeeps ==
    ASSUME NoShrink, Sound, "kfree" \notin Calls => Ended, Next PROVE Keeps
<1>1. CASE "kfree" \notin Calls
  BY <1>1, KernelKeeps
<1>2. CASE ~MayShrink
  <2>1. PageNew /\ h.page_free_list # NULL => ~GivesPages(TakePage(h).h, h.page_free_list)
    BY <1>2 DEF PageNew
  <2>2. ASSUME Kfree, NEW v \in DOMAIN live \ DOMAIN live' PROVE ~GivesPages(Scrubbed(v), v)
    <3>1. PICK w \in DOMAIN live : /\ ~GivesPages(Scrubbed(w), w)
                                   /\ live' = [k \in DOMAIN live \ {w} |-> live[k]]
      BY <1>2, <2>2 DEF Kfree
    <3>2. v = w
      BY <2>2, <3>1
    <3> QED
      BY <3>1, <3>2
  <2> QED
    BY <2>1, <2>2 DEF Keeps
<1> QED
  BY <1>1, <1>2 DEF NoShrink

\* The invariant at the start.
LEMMA SoundInit == Init => Sound /\ Ended
<1> SUFFICES ASSUME Init PROVE Sound /\ Ended
  OBVIOUS
<1>1. h = InitialHeap /\ phase = "kmalloc_init" /\ done = 0 /\ live = <<>> /\ taken = {}
  BY DEF Init
<1>2. h.nested = FALSE
  BY <1>1 DEF InitialHeap
<1>3. Taken(taken)
  BY <1>1, FS_EmptySet, CallAssumption DEF Taken
<1>4. done \in 0 .. Len(InitPages) + InitTables
  BY <1>1, FrameAssumption, CallAssumption
<1>5. live \in [DOMAIN live -> Nat]
  BY <1>1
<1> QED
  BY <1>1, <1>2, <1>3, <1>4, <1>5 DEF Sound, Ended

\* The invariant is inductive.
LEMMA SoundStep ==
    ASSUME Sound, [Next /\ Keeps]_vars
    PROVE  Sound' /\ ("kfree" \notin Calls /\ Ended => Ended')
<1>1. CASE Next /\ Keeps
  <2>1. CASE KmallocInit
    BY <2>1, KmallocInitStep
  <2>2. CASE CleanupFree
    BY <2>2, CleanupFreeStep
  <2>3. CASE CleanupTable
    BY <2>3, CleanupTableStep
  <2>4. CASE LapicMap
    BY <2>4, LapicMapStep
  <2>5. CASE Kmalloc
    BY <2>5, KmallocStep
  <2>6. CASE Kalloc
    BY <2>6, KallocStep
  <2>7. CASE PageNew
    BY <1>1, <2>7, PageNewStep
  <2>8. CASE Kfree
    <3>1. "kfree" \in Calls
      BY <2>8 DEF Kfree
    <3> QED
      BY <1>1, <2>8, <3>1, KfreeStep
  <2> QED
    BY <1>1, <2>1, <2>2, <2>3, <2>4, <2>5, <2>6, <2>7, <2>8 DEF Next
<1>2. CASE UNCHANGED vars
  <2>1. h' = h /\ phase' = phase /\ done' = done /\ live' = live /\ taken' = taken
    BY <1>2 DEF vars
  <2>2. Freed' = Freed
    BY <2>1 DEF Freed
  <2> QED
    BY <2>1, <2>2 DEF Sound, Ended
<1> QED
  BY <1>1, <1>2

\* The heap before kmalloc_init: memory, and no list.
LEMMA Bare ==
    ASSUME NEW x, x = InitialHeap
    PROVE  /\ x \in States /\ x.free_list = NULL /\ x.page_free_list = NULL
           /\ x.end = HEAP_START /\ x.heap_end_pma = FREE_START
           /\ x.first_run = TRUE /\ x.nested = FALSE
           /\ \A p \in Pages : x.pte[p].present = FALSE
           /\ Last(ListWay(x, NULL)) = NULL /\ Passed(ListWay(x, NULL)) = {}
<1>1. /\ x.free_list = NULL /\ x.page_free_list = NULL /\ x.end = HEAP_START
      /\ x.heap_end_pma = FREE_START /\ x.first_run = TRUE /\ x.nested = FALSE
      /\ x.pte = [p \in Pages |-> [pma |-> 0, present |-> FALSE]]
  BY DEF InitialHeap
<1>2. x \in States
  <2>1. Junk \in Int /\ FREE_START \in Nat /\ HEAP_START \in HEAP_START .. HEAP_LIMIT
    BY CallAssumption, FrameAssumption, HeapNumbers
  <2> QED
    BY <2>1 DEF InitialHeap, States
<1>3. PICK z : z = [c \in Cells |-> 0]
  OBVIOUS
<1>4. First \in HEAP_START .. HEAP_LIMIT
  <2>1. HEAP_START + PAGE_SIZE <= HEAP_LIMIT
    BY PageOrder, HeapNumbers
  <2> QED
    BY <2>1, HeapNumbers
<1>5. Tiling({}, First, z)
  BY <1>3, <1>4, HeapNumbers DEF Tiling
<1>6. Linked(x, NULL, {}, z)
  BY <1>3 DEF Linked
<1>7. Whither(ListWay(x, NULL), NULL, {}, NULL, NextNode(x, {}))
  BY <1>5, <1>6, ListWayIs
<1>8. Last(ListWay(x, NULL)) = NULL /\ Passed(ListWay(x, NULL)) = {}
  BY <1>7, Zenon DEF Whither
<1> QED
  BY <1>1, <1>2, <1>8

\* The invariant of the proof implies the one whose parts are read off the cells.
LEMMA SoundMeans == Sound => HeapInvariant
<1> SUFFICES ASSUME Sound PROVE HeapInvariant
  OBVIOUS
<1>1. CASE phase = "kmalloc_init"
  <2>1. h = InitialHeap /\ live = <<>> /\ taken = {} /\ done = 0
    BY <1>1 DEF Sound
  <2>2. h \in States /\ h.nested = FALSE
    BY <2>1, Bare
  <2>3. DOMAIN live = {}
    BY <2>1
  <2>4. TypeOK
    BY <2>1, <2>2, <2>3 DEF TypeOK, States, Sound
  <2> QED
    BY <1>1, <2>1, <2>2, <2>4 DEF Sound, HeapInvariant, Taken
<1>2. CASE phase # "kmalloc_init"
  <2>1. Stock(h, live, taken, Freed)
    BY <1>2 DEF Sound
  <2>2. PICK top : top = align(h.end, PAGE_SIZE)
    OBVIOUS
  <2>3. PICK P : Whole(h, P, live) /\ Frames(h, top, P, taken, Pool(h, Freed))
    BY <2>1, <2>2 DEF Stock
  <2>4. PICK C, z, F, r, q : /\ HeapOK(h, h.end, C, z, F, r, P, q, live, {})
                             /\ Settled(h, h.end, C, z, F)
    BY <2>3 DEF Whole
  <2>5. Chunks = C /\ FreeChunks = F /\ PageNodes = P
    BY <1>2, <2>4, Reading
  <2>6. /\ h \in States /\ Tiling(C, h.end, z) /\ F \subseteq C /\ P \subseteq C
        /\ DOMAIN live \subseteq C /\ C \subseteq Cells
        /\ \A n \in C : alloc_get_size(h, n) = z[n] /\ z[n] \in Nat
    BY <2>4, ChunkWords, TileCells
  <2>7. PICK t, i, j : /\ t = SizeOf /\ i = RankOn(ListWay(h, h.free_list))
                       /\ j = RankOn(ListWay(h, h.page_free_list))
    OBVIOUS
  <2>8. t \in [Cells -> Nat] /\ \A n \in C : t[n] = z[n]
    BY <2>5, <2>6, <2>7 DEF SizeOf
  <2>9. HeapOK(h, h.end, C, t, F, r, P, q, live, {}) /\ Settled(h, h.end, C, t, F)
    BY <2>4, <2>8, Resize
  <2>10. Linked(h, h.free_list, F, i) /\ Linked(h, h.page_free_list, P, j)
    <3>1. Linked(h, h.free_list, F, r) /\ Linked(h, h.page_free_list, P, q)
      BY <2>4 DEF HeapOK
    <3> QED
      BY <2>6, <2>7, <3>1, Rerank
  <2>11. HeapOK(h, h.end, C, t, F, i, P, j, live, {})
    BY <2>9, <2>10 DEF HeapOK
  <2>12. Early(Freed)
    <3>1. done \in Nat
      BY FrameAssumption, CallAssumption DEF Sound
    <3>2. PICK A : A = Freed
      OBVIOUS
    <3>3. Early(A)
      BY <3>1, <3>2, FreedEarly DEF Freed
    <3> QED
      BY <3>2, <3>3
  <2>13. taken \subseteq Nat
    <3>1. Pool(h, Freed) \subseteq Nat
      BY <2>6, <2>12, PoolNat
    <3> QED
      BY <2>3, <3>1 DEF Frames
  <2>14. TypeOK
    BY <2>6, <2>13 DEF TypeOK, States, Sound
  <2>15. Pool(h, Freed) = Known(h)
    BY DEF Pool, Known
  <2>16. Frames(h, top, P, taken, Known(h)) /\ Drawn(h, top, taken)
    BY <2>1, <2>2, <2>3, <2>15 DEF Stock
  <2>17. h.nested = FALSE /\ IsFiniteSet(taken) /\ Cardinality(taken) <= MaxLive
    BY DEF Sound, Taken
  <2>18. /\ HeapOK(h, h.end, Chunks, SizeOf, FreeChunks, RankOn(ListWay(h, h.free_list)),
                   PageNodes, RankOn(ListWay(h, h.page_free_list)), live, {})
         /\ Settled(h, h.end, Chunks, SizeOf, FreeChunks)
         /\ Frames(h, align(h.end, PAGE_SIZE), PageNodes, taken, Known(h))
         /\ Drawn(h, align(h.end, PAGE_SIZE), taken)
    BY <2>2, <2>5, <2>7, <2>9, <2>11, <2>16
  <2> QED
    BY <1>2, <2>14, <2>17, <2>18 DEF HeapInvariant
<1> QED
  BY <1>1, <1>2

-----------------------------------------------------------------------------
(* What the invariant implies.                                             *)

\* What the words of the cells say between two operations.
LEMMA Cellwise ==
    ASSUME HeapInvariant, phase # "kmalloc_init"
    PROVE  \E C, z, F, r, P, q :
              /\ HeapOK(h, h.end, C, z, F, r, P, q, live, {}) /\ Settled(h, h.end, C, z, F)
              /\ Frames(h, align(h.end, PAGE_SIZE), P, taken, Known(h))
              /\ Chunks = C /\ FreeChunks = F /\ PageNodes = P
BY Zenon DEF HeapInvariant

\* Before kmalloc_init there is nothing.
LEMMA Nothing ==
    ASSUME HeapInvariant, phase = "kmalloc_init"
    PROVE  /\ Chunks = {} /\ FreeChunks = {} /\ PageNodes = {} /\ live = <<>> /\ taken = {}
           /\ done = 0 /\ DOMAIN live = {} /\ h = InitialHeap
<1>1. h = InitialHeap /\ live = <<>> /\ taken = {} /\ done = 0
  BY DEF HeapInvariant
<1>2. PageNodes = {}
  BY <1>1, Bare DEF PageNodes
<1>3. Chunks = {}
  BY DEF Chunks
<1>4. FreeChunks = {}
  BY <1>3 DEF FreeChunks
<1>5. DOMAIN live = {}
  BY <1>1
<1> QED
  BY <1>1, <1>2, <1>3, <1>4, <1>5

\* The chunks tile the heap.
LEMMA TiledOK == HeapInvariant => HeapTiled
<1> SUFFICES ASSUME HeapInvariant PROVE HeapTiled
  OBVIOUS
<1>1. CASE phase = "kmalloc_init"
  BY <1>1, Nothing DEF HeapTiled
<1>2. CASE phase # "kmalloc_init"
  <2>1. PICK C, z, F, r, P, q :
            /\ HeapOK(h, h.end, C, z, F, r, P, q, live, {})
            /\ Chunks = C /\ FreeChunks = F /\ PageNodes = P
    BY <1>2, Cellwise
  <2>2. Last(ChunkWay(h)) = h.end
    BY <1>2, <2>1, Reading
  <2>3. /\ DOMAIN live \subseteq C /\ C \subseteq Cells /\ C \subseteq Nat
        /\ \A n \in C : /\ alloc_get_size(h, n) = z[n] /\ z[n] \in Nat
                        /\ NoFlags(h.mem[n + z[n]].lo) = z[n]
                        /\ IsFree(h.mem[n - 8].hi) <=> n \in F
                        /\ IsFree(h.mem[n + z[n]].lo) <=> n \in F
    BY <2>1, ChunkWords, TileCells
  <2>4. ASSUME NEW n \in C
        PROVE  /\ alloc_get_size_prev(h, n + alloc_get_size(h, n) + DESC) = alloc_get_size(h, n)
               /\ IsFree(h.mem[alloc_get_next_desc(h, n)].lo)
                    <=> IsFree(h.mem[alloc_get_desc(n)].hi)
    <3>1. (n + z[n] + 8) - 8 = n + z[n]
      BY <2>3
    <3>2. alloc_get_size(h, n) = z[n] /\ DESC = 8
      BY <2>3, HeapNumbers
    <3>3. alloc_get_size_prev(h, n + z[n] + 8) = z[n]
      BY <2>3, <3>1 DEF alloc_get_size_prev, alloc_get_desc, DESC
    <3>4. alloc_get_next_desc(h, n) = n + z[n] /\ alloc_get_desc(n) = n - 8
      BY <3>2 DEF alloc_get_next_desc, alloc_get_desc
    <3> QED
      BY <2>3, <3>2, <3>3, <3>4
  <2>5. C \ F = DOMAIN live \cup P
    BY <2>1 DEF HeapOK, Owners
  <2>6. \A v \in DOMAIN live : alloc_get_size(h, v) >= live[v]
    <3>1. Filled(h, live, z)
      BY <2>1 DEF HeapOK
    <3>2. ASSUME NEW v \in DOMAIN live PROVE alloc_get_size(h, v) >= live[v]
      <4>1. live[v] \in 0 .. z[v] /\ v \in C
        BY <2>3, <3>1 DEF Filled
      <4>2. alloc_get_size(h, v) = z[v] /\ z[v] \in Nat
        BY <2>3, <4>1
      <4> QED
        BY <4>1, <4>2
    <3> QED
      BY <3>2
  <2> QED
    BY <2>1, <2>2, <2>4, <2>5, <2>6 DEF HeapTiled
<1> QED
  BY <1>1, <1>2

\* The free list is exact.
LEMMA ListExactOK == HeapInvariant => FreeListExact
<1> SUFFICES ASSUME HeapInvariant PROVE FreeListExact
  OBVIOUS
<1>1. CASE phase = "kmalloc_init"
  <2>1. h.free_list = NULL /\ Last(ListWay(h, NULL)) = NULL /\ Passed(ListWay(h, NULL)) = {}
    BY <1>1, Nothing, Bare
  <2> QED
    BY <1>1, <2>1, Nothing DEF FreeListExact
<1>2. CASE phase # "kmalloc_init"
  <2>1. PICK C, z, F, r, P, q :
            /\ HeapOK(h, h.end, C, z, F, r, P, q, live, {})
            /\ Chunks = C /\ FreeChunks = F /\ PageNodes = P
    BY <1>2, Cellwise
  <2>2. Last(ListWay(h, h.free_list)) = NULL /\ Passed(ListWay(h, h.free_list)) = F
    BY <1>2, <2>1, Reading
  <2>3. Linked(h, h.free_list, F, r) /\ BackLinked(h, h.free_list, F)
    BY <2>1 DEF HeapOK
  <2>4. ASSUME NEW n \in F
        PROVE  /\ h.mem[n].hi # NULL => h.mem[h.mem[n].hi].lo = n
               /\ h.mem[n].lo = NULL <=> n = h.free_list
    BY <2>3, Neighbours
  <2> QED
    BY <2>1, <2>2, <2>4 DEF FreeListExact
<1> QED
  BY <1>1, <1>2

\* Blocks keep what was written into them, and no two free chunks are adjacent.
LEMMA KeptOK == HeapInvariant => PayloadKept /\ Coalesced
<1> SUFFICES ASSUME HeapInvariant PROVE PayloadKept /\ Coalesced
  OBVIOUS
<1>1. CASE phase = "kmalloc_init"
  BY <1>1, Nothing DEF PayloadKept, Coalesced
<1>2. CASE phase # "kmalloc_init"
  <2>1. PICK C, z, F, r, P, q :
            /\ HeapOK(h, h.end, C, z, F, r, P, q, live, {})
            /\ Chunks = C /\ FreeChunks = F /\ PageNodes = P
    BY <1>2, Cellwise
  <2>2. F \subseteq C /\ \A n \in C : alloc_get_size(h, n) = z[n]
    BY <2>1, ChunkWords
  <2>3. PayloadKept
    BY <2>1 DEF PayloadKept, HeapOK, Filled
  <2>4. Coalesced
    BY <2>1, <2>2 DEF Coalesced, HeapOK, Merged
  <2> QED
    BY <2>3, <2>4
<1> QED
  BY <1>1, <1>2

\* The heap and the nodes of the page list lie on present pages.
LEMMA MappedOK == HeapInvariant => HeapMapped /\ PageListMapped
<1> SUFFICES ASSUME HeapInvariant PROVE HeapMapped /\ PageListMapped
  OBVIOUS
<1>1. CASE phase = "kmalloc_init"
  <2>1. h.end = HEAP_START /\ PageNodes = {}
    BY <1>1, Nothing, Bare
  <2>2. \A p \in Pages : ~(p < HEAP_START)
    BY PageIs, CellIs, HeapNumbers
  <2> QED
    BY <2>1, <2>2 DEF HeapMapped, PageListMapped
<1>2. CASE phase # "kmalloc_init"
  <2>1. PICK C, z, F, r, P, q :
            /\ HeapOK(h, h.end, C, z, F, r, P, q, live, {})
            /\ Frames(h, align(h.end, PAGE_SIZE), P, taken, Known(h))
            /\ PageNodes = P
    BY <1>2, Cellwise
  <2>2. P \subseteq C /\ h.end \in Nat /\ \A n \in C : n \in Cells /\ n \in Nat /\ n < h.end
    BY <2>1, ChunkWords, TileCells
  <2>3. PICK top : top = align(h.end, PAGE_SIZE)
    OBVIOUS
  <2>4. top \in Nat /\ h.end <= top
    BY <2>2, <2>3, PageAlign
  <2>5. \A p \in Pages : p < top => h.pte[p].present
    BY <2>1, <2>3 DEF Frames
  <2>6. \A p \in Pages : p \in Nat
    BY PageIs, CellIs
  <2>7. HeapMapped
    BY <2>2, <2>4, <2>5, <2>6 DEF HeapMapped
  <2>8. ASSUME NEW n \in P
        PROVE  n \in Cells /\ n < h.end /\ h.pte[n - (n % PAGE_SIZE)].present
    <3>1. n \in Nat /\ n \in Cells /\ n < h.end /\ HEAP_START <= n /\ n < HEAP_LIMIT
      BY <2>2, CellIs
    <3>2. PICK p \in Nat : p = n - (n % PAGE_SIZE) /\ p <= n /\ n < p + PAGE_SIZE /\ p % PAGE_SIZE = 0
      <4>1. PICK d \in Nat, m \in Nat : /\ d = n \div PAGE_SIZE /\ m = n % PAGE_SIZE /\ m < PAGE_SIZE
                                       /\ d * PAGE_SIZE \in Nat /\ n = d * PAGE_SIZE + m
        BY <3>1, HeapNumbers, Divide
      <4>2. n - m = d * PAGE_SIZE + 0
        BY <4>1
      <4>3. PICK p \in Nat : p = d * PAGE_SIZE
        BY <4>1
      <4>4. p % PAGE_SIZE = 0
        BY <4>3, HeapNumbers, DivideUnique
      <4> QED
        BY <4>1, <4>2, <4>3, <4>4, HeapNumbers
    <3>3. HEAP_START <= p
      <4>1. p < HEAP_START => p + PAGE_SIZE <= HEAP_START
        BY <3>2, PageOrder, HeapNumbers
      <4> QED
        BY <3>1, <3>2, <4>1, HeapNumbers
    <3>4. p \in Pages
      <4>1. p % 8 = 0
        BY <3>2, PageCells
      <4> QED
        BY <3>1, <3>2, <3>3, <4>1, PageIs, CellIs, HeapNumbers
    <3>5. p < top
      BY <2>2, <2>4, <3>1, <3>2
    <3> QED
      BY <2>5, <3>1, <3>2, <3>4, <3>5
  <2>9. PageListMapped
    BY <2>1, <2>8 DEF PageListMapped
  <2> QED
    BY <2>7, <2>9
<1> QED
  BY <1>1, <1>2

\* Every physical page has one place.
LEMMA PartitionedOK == HeapInvariant => PagesPartitioned
<1> SUFFICES ASSUME HeapInvariant PROVE PagesPartitioned
  OBVIOUS
<1> DEFINE mapped == {p \in Pages : h.pte[p].present}
           listed == {h.mem[n].lo : n \in PageNodes}
           inHeap == {h.pte[p].pma : p \in mapped}
           freed == IF done < Len(InitPages) THEN done ELSE Len(InitPages)
           known == {InitPages[k] : k \in 1 .. freed} \cup FREE_START .. h.heap_end_pma - 1
           all == known \cup (IF h.first_run THEN {} ELSE {LAPIC_PMA})
<1>1. all = Known(h)
  BY DEF Known, Freed
<1>2. CASE phase = "kmalloc_init"
  <2>1. /\ h.page_free_list = NULL /\ h.heap_end_pma = FREE_START /\ h.first_run = TRUE
        /\ \A p \in Pages : h.pte[p].present = FALSE
        /\ Last(ListWay(h, NULL)) = NULL
    BY <1>2, Nothing, Bare
  <2>2. mapped = {} /\ listed = {} /\ inHeap = {} /\ taken = {}
    BY <1>2, <2>1, Nothing
  <2>3. known = {}
    <3>1. PICK l \in Nat : l = Len(InitPages)
      BY FrameAssumption
    <3>2. done = 0
      BY <1>2, Nothing
    <3>3. 1 .. freed = {}
      BY <3>1, <3>2
    <3>4. FREE_START .. h.heap_end_pma - 1 = {}
      BY <2>1, FrameAssumption
    <3> QED
      BY <3>3, <3>4
  <2>4. all = {}
    BY <2>1, <2>3
  <2>5. PageNodes = {}
    BY <1>2, Nothing
  <2> HIDE DEF mapped, listed, inHeap, known, all
  <2>6. /\ Last(ListWay(h, h.page_free_list)) = NULL
        /\ \A m, n \in PageNodes : h.mem[m].lo = h.mem[n].lo => m = n
        /\ \A p, q \in mapped : h.pte[p].pma = h.pte[q].pma => p = q
        /\ listed \cap inHeap = {} /\ (listed \cup inHeap) \cap taken = {}
        /\ listed \cup inHeap \cup taken = all
    BY <2>1, <2>2, <2>4, <2>5
  <2> USE DEF mapped, listed, inHeap, known, all
  <2> QED
    BY <2>6, Zenon DEF PagesPartitioned
<1>3. CASE phase # "kmalloc_init"
  <2>1. PICK top : top = align(h.end, PAGE_SIZE)
    OBVIOUS
  <2>2. PICK C, z, F, r, P, q :
            /\ HeapOK(h, h.end, C, z, F, r, P, q, live, {})
            /\ Frames(h, top, P, taken, Known(h)) /\ PageNodes = P
    BY <1>3, <2>1, Cellwise
  <2>3. Last(ListWay(h, h.page_free_list)) = NULL
    BY <1>3, <2>2, Reading
  <2>4. mapped = {p \in Pages : p < top}
    BY <2>2 DEF Frames
  <2>5. PICK K : K = Known(h)
    OBVIOUS
  <2>6. /\ \A m, n \in P : h.mem[m].lo = h.mem[n].lo => m = n
        /\ \A p, s \in mapped : h.pte[p].pma = h.pte[s].pma => p = s
        /\ \A n \in P : /\ h.mem[n].lo \in K \ taken
                        /\ \A p \in mapped : h.pte[p].pma # h.mem[n].lo
        /\ \A p \in mapped : h.pte[p].pma \in K \ taken
        /\ taken \subseteq K
        /\ \A f \in K : \/ f \in taken \/ \E n \in P : h.mem[n].lo = f
                        \/ \E p \in mapped : h.pte[p].pma = f
    BY <2>2, <2>4, <2>5 DEF Frames
  <2>7. listed = {h.mem[n].lo : n \in P}
    BY <2>2
  <2> HIDE DEF mapped, all
  <2>8. /\ listed \cap inHeap = {} /\ (listed \cup inHeap) \cap taken = {}
        /\ listed \cup inHeap \cup taken = K
    <3>0. /\ \A f \in listed : \E n \in P : f = h.mem[n].lo
          /\ \A f \in inHeap : \E p \in mapped : f = h.pte[p].pma
      BY <2>7
    <3>1. ASSUME NEW f \in listed PROVE f \notin inHeap /\ f \notin taken
      <4> HIDE DEF listed, inHeap
      <4>1. PICK n \in P : f = h.mem[n].lo
        BY <3>0, <3>1
      <4> QED
        BY <2>6, <3>0, <4>1
    <3>2. ASSUME NEW f \in inHeap PROVE f \notin taken
      <4> HIDE DEF listed, inHeap
      <4>1. PICK p \in mapped : f = h.pte[p].pma
        BY <3>0, <3>2
      <4> QED
        BY <2>6, <4>1
    <3>3. listed \subseteq K /\ inHeap \subseteq K /\ taken \subseteq K
      BY <2>6, <2>7
    <3>4. \A f \in K : f \in listed \/ f \in inHeap \/ f \in taken
      BY <2>6, <2>7
    <3> HIDE DEF listed, inHeap
    <3> QED
      BY <3>1, <3>2, <3>3, <3>4
  <2>9. /\ Last(ListWay(h, h.page_free_list)) = NULL
        /\ \A m, n \in PageNodes : h.mem[m].lo = h.mem[n].lo => m = n
        /\ \A p, s \in mapped : h.pte[p].pma = h.pte[s].pma => p = s
        /\ listed \cap inHeap = {} /\ (listed \cup inHeap) \cap taken = {}
        /\ listed \cup inHeap \cup taken = all
    BY <1>1, <2>2, <2>3, <2>5, <2>6, <2>8
  <2> USE DEF mapped, all
  <2> QED
    BY <2>9, Zenon DEF PagesPartitioned
<1> QED
  BY <1>2, <1>3

-----------------------------------------------------------------------------
(* The theorems.                                                           *)

\* The invariant holds as long as no call of free gives pages of the heap up.
THEOREM HeapCorrect == NoShrink => (Spec => []HeapInvariant)
<1> SUFFICES ASSUME NoShrink PROVE Spec => []HeapInvariant
  OBVIOUS
<1> DEFINE SoundAndEnded == Sound /\ ("kfree" \notin Calls => Ended)
<1>1. Init => SoundAndEnded
  BY SoundInit
<1>2. SoundAndEnded /\ [Next]_vars => SoundAndEnded'
  <2> SUFFICES ASSUME SoundAndEnded, [Next]_vars PROVE SoundAndEnded'
    OBVIOUS
  <2>1. [Next /\ Keeps]_vars
    BY NextKeeps
  <2> QED
    BY <2>1, SoundStep
<1>3. SoundAndEnded => HeapInvariant
  BY SoundMeans
<1> HIDE DEF SoundAndEnded
<1> QED
  BY <1>1, <1>2, <1>3, PTL DEF Spec

\* Outside kmalloc_test the kernel calls kmalloc, kalloc and page_new, and kfree
\* only inside page_new.  Then free never gives pages of the heap up: the
\* APIC's block, or one allocated later, lies behind every node of the page
\* list.
THEOREM KernelKeepsPages == "kfree" \notin Calls => (Spec => PagesKept)
<1> SUFFICES ASSUME "kfree" \notin Calls PROVE Spec => PagesKept
  OBVIOUS
<1>1. Init => Sound /\ Ended
  BY SoundInit
<1>2. Sound /\ Ended /\ [Next]_vars => [Next /\ Keeps]_vars /\ [Keeps]_vars
  BY KernelKeeps
<1>3. Sound /\ Ended /\ [Next /\ Keeps]_vars => Sound' /\ Ended'
  BY SoundStep
<1> QED
  BY <1>1, <1>2, <1>3, PTL DEF Spec, PagesKept

\* The words of the heap keep their types, whatever is written over them.
THEOREM HeapTyped == NoShrink => (Spec => []TypeOK)
<1>1. HeapInvariant => TypeOK
  BY DEF HeapInvariant
<1> QED
  BY <1>1, HeapCorrect, PTL

\* While alloc extends the heap, the kfree inside page_new never finds its
\* chunk at the end of the heap: alloc is not entered a second time.
THEOREM AllocNotNested == NoShrink => (Spec => []NoNestedAlloc)
<1>1. HeapInvariant => NoNestedAlloc
  BY DEF HeapInvariant, NoNestedAlloc
<1> QED
  BY <1>1, HeapCorrect, PTL

\* The sizes lead from chunk to chunk to the end of the heap, both copies of
\* each agree, and every chunk in use has an owner.
THEOREM HeapStaysTiled == NoShrink => (Spec => []HeapTiled)
<1>1. HeapInvariant => HeapTiled
  BY TiledOK
<1> QED
  BY <1>1, HeapCorrect, PTL

\* The free list ends and links exactly the free chunks, in both directions.
THEOREM FreeListStaysExact == NoShrink => (Spec => []FreeListExact)
<1>1. HeapInvariant => FreeListExact
  BY ListExactOK
<1> QED
  BY <1>1, HeapCorrect, PTL

\* Nothing the allocator writes lands in a block that a caller holds.
THEOREM BlocksKeepContents == NoShrink => (Spec => []PayloadKept)
<1>1. HeapInvariant => PayloadKept
  BY KeptOK
<1> QED
  BY <1>1, HeapCorrect, PTL

\* No two free chunks are adjacent.
THEOREM HeapStaysCoalesced == NoShrink => (Spec => []Coalesced)
<1>1. HeapInvariant => Coalesced
  BY KeptOK
<1> QED
  BY <1>1, HeapCorrect, PTL

\* Every byte of the heap lies on a present page.
THEOREM HeapStaysMapped == NoShrink => (Spec => []HeapMapped)
<1>1. HeapInvariant => HeapMapped
  BY MappedOK
<1> QED
  BY <1>1, HeapCorrect, PTL

\* The nodes of the page list lie inside the heap on present pages, unless
\* free gives pages up (heap_shrink shows what happens then).
THEOREM PageListStaysMapped == NoShrink => (Spec => []PageListMapped)
<1>1. HeapInvariant => PageListMapped
  BY MappedOK
<1> QED
  BY <1>1, HeapCorrect, PTL

\* Every physical page the kernel knows of is in exactly one place: page_new
\* loses none and hands none out twice.
THEOREM PagesStayPartitioned == NoShrink => (Spec => []PagesPartitioned)
<1>1. HeapInvariant => PagesPartitioned
  BY PartitionedOK
<1> QED
  BY <1>1, HeapCorrect, PTL

=============================================================================
