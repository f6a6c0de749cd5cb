---------------------------- MODULE HeapChunks ----------------------------
(***************************************************************************)
(* What the operations of alloc.c do to chunks and lists, for every page   *)
(* size, heap and sequence of calls: numbers, stores, lists, tilings, free *)
(* with its merges, the search and the split of alloc.                     *)
(***************************************************************************)
EXTENDS HeapInv, Induction, FiniteSetTheorems, SequenceTheorems, TLAPS

-----------------------------------------------------------------------------
(* Numbers.                                                                *)

\* A product of naturals, as the provers need it.
LEMMA Times ==
    ASSUME NEW a \in Nat, NEW b \in Nat, NEW n \in Nat
    PROVE  a * n \in Nat /\ (a <= b => a * n <= b * n) /\ (a + 1) * n = a * n + n
OBVIOUS

\* Division with remainder.
LEMMA Divide ==
    ASSUME NEW N \in Nat, N > 0, NEW a \in Nat
    PROVE  /\ a \div N \in Nat /\ a % N \in Nat /\ a % N < N
           /\ (a \div N) * N \in Nat /\ a = (a \div N) * N + (a % N)
<1>1. /\ a \div N \in Nat /\ a % N \in Nat /\ a % N < N /\ a = (a \div N) * N + (a % N)
  OBVIOUS
<1>2. (a \div N) * N \in Nat
  BY <1>1, Times
<1> QED
  BY <1>1, <1>2

\* Multiples are apart.
LEMMA Multiples ==
    ASSUME NEW N \in Nat, N > 0, NEW j \in Nat, NEW k \in Nat
    PROVE  j * N \in Nat /\ k * N \in Nat /\ (j < k => j * N + N <= k * N)
<1>1. j * N \in Nat /\ k * N \in Nat /\ (j + 1) * N = j * N + N
  BY Times
<1>2. j + 1 \in Nat /\ (j + 1 <= k => (j + 1) * N <= k * N)
  BY Times
<1> QED
  BY <1>1, <1>2

\* Quotient and remainder are the only ones.
LEMMA DivideUnique ==
    ASSUME NEW N \in Nat, N > 0, NEW a \in Nat, NEW k \in Nat, NEW m \in Nat, m < N,
           a = k * N + m
    PROVE  a \div N = k /\ a % N = m
<1>1. /\ a \div N \in Nat /\ a % N \in Nat /\ a % N < N
      /\ (a \div N) * N \in Nat /\ a = (a \div N) * N + (a % N)
  BY Divide
<1> DEFINE d == a \div N
           i == a % N
<1>2. PICK dn \in Nat : dn = d * N
  BY <1>1
<1>3. PICK kn \in Nat : kn = k * N
  BY Multiples
<1>4. (k < d => kn + N <= dn) /\ (d < k => dn + N <= kn)
  BY <1>1, <1>2, <1>3, Multiples
<1>5. kn + m = dn + i /\ i \in Nat /\ i < N
  BY <1>1, <1>2, <1>3
<1> HIDE DEF d, i
<1>6. ~(k < d) /\ ~(d < k)
  BY <1>4, <1>5
<1>7. d = k
  BY <1>1, <1>6 DEF d
<1> QED
  BY <1>2, <1>3, <1>5, <1>7 DEF d, i

\* The number of the page a byte lies in, and where it ends.
LEMMA PageAlign ==
    ASSUME NEW a \in Nat
    PROVE  LET N == PAGE_SIZE
               t == align(a, N)
           IN  /\ t \in Nat /\ a <= t /\ t < a + N /\ t % N = 0
               /\ a % N = 0 => t = a
               /\ t \div N = IF a % N = 0 THEN a \div N ELSE a \div N + 1
               /\ t = (t \div N) * N
<1> DEFINE N == PAGE_SIZE
           d == a \div N
           i == a % N
           t == align(a, N)
<1>1. N \in Nat /\ N > 0
  BY PageAssumption
<1>2. d \in Nat /\ i \in Nat /\ i < N /\ d * N \in Nat /\ a = d * N + i
  BY <1>1, Divide
<1>3. t = a - i + (IF i = 0 THEN 0 ELSE N)
  BY DEF align
<1> HIDE DEF N, d, i, t
<1>4. (d + 1) * N = d * N + N /\ d + 1 \in Nat
  BY <1>1, <1>2, Times
<1>5. CASE i = 0
  <2>1. t = d * N + 0 /\ t = a
    BY <1>2, <1>3, <1>5
  <2>2. t \div N = d /\ t % N = 0
    BY <1>1, <1>2, <2>1, DivideUnique
  <2> QED
    BY <1>1, <1>2, <1>5, <2>1, <2>2 DEF N, d, i, t
<1>6. CASE i # 0
  <2>1. t = (d + 1) * N + 0 /\ t = a - i + N
    BY <1>1, <1>2, <1>3, <1>4, <1>6
  <2>2. t \in Nat /\ a <= t /\ t < a + N
    BY <1>1, <1>2, <1>6, <2>1
  <2>3. t \div N = d + 1 /\ t % N = 0
    BY <1>1, <1>4, <2>1, <2>2, DivideUnique
  <2>4. t = (d + 1) * N
    BY <1>1, <1>4, <2>1
  <2> QED
    BY <1>6, <2>2, <2>3, <2>4 DEF N, d, i, t
<1> QED
  BY <1>5, <1>6

\* Pages are apart, and one that begins before a byte ends before the next
\* page boundary.
LEMMA PageOrder ==
    ASSUME NEW p \in Nat, p % PAGE_SIZE = 0, NEW s \in Nat, s % PAGE_SIZE = 0
    PROVE  p < s => p + PAGE_SIZE <= s
<1> DEFINE N == PAGE_SIZE
<1>1. N \in Nat /\ N > 0
  BY PageAssumption
<1>2. /\ p \div N \in Nat /\ p = (p \div N) * N
      /\ s \div N \in Nat /\ s = (s \div N) * N
  <2>1. /\ p \div N \in Nat /\ p = (p \div N) * N + (p % N) /\ (p \div N) * N \in Nat
        /\ s \div N \in Nat /\ s = (s \div N) * N + (s % N) /\ (s \div N) * N \in Nat
    BY <1>1, Divide
  <2> QED
    BY <2>1
<1>3. p \div N < s \div N => p + N <= s
  BY <1>1, <1>2, Multiples
<1>4. ~(p \div N < s \div N) => s <= p
  <2>1. s \div N <= p \div N => (s \div N) * N <= (p \div N) * N
    BY <1>1, <1>2, Times
  <2> QED
    BY <1>2, <2>1
<1> QED
  BY <1>1, <1>3, <1>4

\* Two ends on one page.
LEMMA SamePage ==
    ASSUME NEW a \in Nat, NEW u \in Nat, a - (a % PAGE_SIZE) < u, u <= a
    PROVE  align(u, PAGE_SIZE) = align(a, PAGE_SIZE)
<1> DEFINE N == PAGE_SIZE
           d == a \div N
           i == a % N
<1>1. N \in Nat /\ N > 0
  BY PageAssumption
<1>2. d \in Nat /\ i \in Nat /\ i < N /\ d * N \in Nat /\ a = d * N + i
  BY <1>1, Divide
<1> DEFINE m == u - d * N
<1>3. m \in Nat /\ 0 < m /\ m <= i /\ m < N /\ u = d * N + m
  BY <1>1, <1>2
<1>4. u % N = m
  BY <1>1, <1>2, <1>3, DivideUnique
<1>5. align(u, N) = u - m + N /\ align(a, N) = a - i + N
  BY <1>2, <1>3, <1>4 DEF align
<1> HIDE DEF d, i
<1> QED
  BY <1>1, <1>2, <1>3, <1>5

\* Multiples of a page are multiples of a cell.
LEMMA PageCells ==
    ASSUME NEW a \in Nat, a % PAGE_SIZE = 0
    PROVE  a % 8 = 0
<1>1. PAGE_SIZE \in Nat /\ PAGE_SIZE > 0 /\ PAGE_SIZE % 8 = 0
  BY PageAssumption
<1>2. PICK k \in Nat : a = k * PAGE_SIZE
  <2>1. a = (a \div PAGE_SIZE) * PAGE_SIZE + (a % PAGE_SIZE) /\ a \div PAGE_SIZE \in Nat
    BY <1>1
  <2>2. a = (a \div PAGE_SIZE) * PAGE_SIZE
    BY <1>1, <2>1
  <2> QED
    BY <2>1, <2>2
<1>3. PICK j \in Nat : PAGE_SIZE = j * 8
  <2>1. PAGE_SIZE = (PAGE_SIZE \div 8) * 8 /\ PAGE_SIZE \div 8 \in Nat
    BY <1>1
  <2> QED
    BY <2>1
<1>4. a = (k * j) * 8
  BY <1>2, <1>3
<1>5. k * j \in Nat
  BY Times
<1>6. \A m \in Nat : (m * 8) % 8 = 0
  OBVIOUS
<1> QED
  BY <1>4, <1>5, <1>6

\* The constants.
LEMMA HeapNumbers ==
    /\ PAGE_SIZE \in Nat /\ PAGE_SIZE > 16 /\ PAGE_SIZE % 8 = 0
    /\ HEAP_START \in Nat /\ HEAP_START > 0 /\ HEAP_START % 8 = 0
    /\ HEAP_LIMIT \in Nat /\ HEAP_LIMIT % 8 = 0 /\ HEAP_LIMIT > HEAP_START
    /\ HEAP_BOUND \in Nat /\ HEAP_START <= HEAP_BOUND /\ HEAP_BOUND <= HEAP_LIMIT
    /\ First = HEAP_START + 8 /\ First \in Nat /\ First % 8 = 0 /\ DESC = 8 /\ NULL = 0
    /\ HEAP_START % PAGE_SIZE = 0 /\ HEAP_LIMIT % PAGE_SIZE = 0
<1>1. HEAP_START % 8 = 0 /\ HEAP_LIMIT % 8 = 0
  BY PageAssumption, PageCells
<1> QED
  BY <1>1, PageAssumption DEF First, DESC, NULL

\* Cells.
LEMMA CellIs ==
    \A a : a \in Cells <=> a \in Nat /\ HEAP_START <= a /\ a < HEAP_LIMIT /\ a % 8 = 0
BY HeapNumbers DEF Cells

\* Pages.
LEMMA PageIs ==
    \A a : a \in Pages <=> a \in Cells /\ a % PAGE_SIZE = 0
BY DEF Pages

\* What a tag says.
LEMMA TagFacts ==
    ASSUME NEW s \in Nat, s % 8 = 0, NEW b \in BOOLEAN
    PROVE  /\ Tag(s, b) \in Nat /\ Tag(s, b) >= s /\ NoFlags(Tag(s, b)) = s
           /\ IsFree(Tag(s, b)) = b
           /\ WithFree(Tag(s, b)) = Tag(s, TRUE) /\ WithoutFree(Tag(s, b)) = Tag(s, FALSE)
           /\ Tag(s, FALSE) = s
<1>1. s % 2 = 0 /\ (s + 1) % 2 = 1 /\ (s + 1) % 8 = 1
  OBVIOUS
<1> QED
  BY <1>1 DEF Tag, NoFlags, IsFree, WithFree, WithoutFree, KM_CHUNK_FREE

-----------------------------------------------------------------------------
(* Stores.                                                                 *)

\* y differs from x in memory and free list only.
Rest(x, y) ==
    /\ y \in States /\ y.end = x.end /\ y.page_free_list = x.page_free_list
    /\ y.heap_end_pma = x.heap_end_pma /\ y.pte = x.pte
    /\ y.first_run = x.first_run /\ y.nested = x.nested

\* A store into the second word of a cell.
LEMMA SetHiIs ==
    ASSUME NEW x \in States, NEW a \in Cells, NEW w \in Int
    PROVE  LET y == SetHi(x, a, w)
           IN  /\ Rest(x, y) /\ y.free_list = x.free_list
               /\ y.mem[a].hi = w /\ y.mem[a].lo = x.mem[a].lo
               /\ \A c \in Cells : c # a => y.mem[c] = x.mem[c]
BY DEF SetHi, States, Rest

\* A store into the first word of a cell.
LEMMA SetLoIs ==
    ASSUME NEW x \in States, NEW a \in Cells, NEW w \in Int
    PROVE  LET y == SetLo(x, a, w)
           IN  /\ Rest(x, y) /\ y.free_list = x.free_list
               /\ y.mem[a].lo = w /\ y.mem[a].hi = x.mem[a].hi
               /\ \A c \in Cells : c # a => y.mem[c] = x.mem[c]
BY DEF SetLo, States, Rest

\* A store into both words of a cell.
LEMMA PutIs ==
    ASSUME NEW x \in States, NEW a \in Cells, NEW l \in Int, NEW w \in Int
    PROVE  LET y == Put(x, a, l, w)
           IN  /\ Rest(x, y) /\ y.free_list = x.free_list
               /\ y.mem[a] = [lo |-> l, hi |-> w]
               /\ \A c \in Cells : c # a => y.mem[c] = x.mem[c]
BY DEF Put, States, Rest

\* A store into the head of the free list.
LEMMA SetHeadIs ==
    ASSUME NEW x \in States, NEW n \in Cells \cup {NULL}
    PROVE  LET y == SetHead(x, n)
           IN  Rest(x, y) /\ y.free_list = n /\ y.mem = x.mem
BY DEF SetHead, States, Rest

\* Words and addresses.
LEMMA StateWords ==
    ASSUME NEW x \in States
    PROVE  /\ x.free_list \in Cells \cup {NULL} /\ x.page_free_list \in Cells \cup {NULL}
           /\ x.end \in Nat /\ HEAP_START <= x.end /\ x.end <= HEAP_LIMIT
           /\ x.mem \in [Cells -> [lo : Int, hi : Int]]
           /\ \A c \in Cells : x.mem[c].lo \in Int /\ x.mem[c].hi \in Int
                               /\ x.mem[c] = [lo |-> x.mem[c].lo, hi |-> x.mem[c].hi]
           /\ x.pte \in [Pages -> [pma : Nat, present : BOOLEAN]]
           /\ x.heap_end_pma \in Nat /\ x.first_run \in BOOLEAN /\ x.nested \in BOOLEAN
BY HeapNumbers DEF States

-----------------------------------------------------------------------------
(* Lists.                                                                  *)

\* What leads to a node from in front changes, and nothing else.
LEMMA PointForwardIs ==
    ASSUME NEW x \in States, NEW p \in Cells \cup {NULL}, NEW n \in Cells \cup {NULL}
    PROVE  LET y == PointForward(x, p, n)
           IN  /\ Rest(x, y) /\ y.free_list = IF p = NULL THEN n ELSE x.free_list
               /\ \A c \in Cells : /\ y.mem[c].lo = x.mem[c].lo
                                   /\ y.mem[c].hi = IF c = p THEN n ELSE x.mem[c].hi
                                   /\ c # p => y.mem[c] = x.mem[c]
<1>1. n \in Int /\ NULL \notin Cells
  BY CellIs, HeapNumbers
<1>2. CASE p = NULL
  BY <1>1, <1>2, SetHeadIs DEF PointForward
<1>3. CASE p # NULL
  <2>1. p \in Cells
    BY <1>3
  <2> QED
    BY <1>1, <1>3, <2>1, SetHiIs DEF PointForward
<1> QED
  BY <1>2, <1>3

\* What leads back to a node from behind changes, and nothing else.
LEMMA PointBackIs ==
    ASSUME NEW x \in States, NEW s \in Cells \cup {NULL}, NEW n \in Cells \cup {NULL}
    PROVE  LET y == PointBack(x, s, n)
           IN  /\ Rest(x, y) /\ y.free_list = x.free_list
               /\ \A c \in Cells : /\ y.mem[c].hi = x.mem[c].hi
                                   /\ y.mem[c].lo = IF c = s THEN n ELSE x.mem[c].lo
                                   /\ c # s => y.mem[c] = x.mem[c]
<1>1. n \in Int /\ NULL \notin Cells
  BY CellIs, HeapNumbers
<1>2. CASE s = NULL
  BY <1>1, <1>2 DEF PointBack, Rest
<1>3. CASE s # NULL
  <2>1. s \in Cells
    BY <1>3
  <2> QED
    BY <1>1, <1>3, <2>1, SetLoIs DEF PointBack
<1> QED
  BY <1>2, <1>3

\* A list depends on the second words of its cells only.
LEMMA LinkedSame ==
    ASSUME NEW x, NEW y, NEW head, NEW S, NEW r, Linked(x, head, S, r),
           \A c \in S : y.mem[c].hi = x.mem[c].hi
    PROVE  Linked(y, head, S, r)
BY DEF Linked

\* The rank of a node in front of a list.
Ahead(r, head, n) == [r EXCEPT ![n] = IF head = NULL THEN 0 ELSE r[head] - 1]

\* A node put in front of a list.
LEMMA Push ==
    ASSUME NEW x, NEW y, NEW head, NEW S, NEW r, Linked(x, head, S, r),
           NEW n \in Cells, n \notin S, y.mem[n].hi = head,
           \A c \in S : y.mem[c].hi = x.mem[c].hi
    PROVE  Linked(y, n, S \cup {n}, Ahead(r, head, n))
<1> DEFINE u == Ahead(r, head, n)
<1>1. n # NULL /\ NULL \notin Cells /\ r \in [Cells -> Int] /\ S \subseteq Cells
  BY CellIs, HeapNumbers DEF Linked
<1>2. head \in S \cup {NULL} /\ (head = NULL => S = {})
  BY DEF Linked
<1>3. /\ u \in [Cells -> Int] /\ \A c \in S : u[c] = r[c]
      /\ head # NULL => u[n] = r[head] - 1
  BY <1>1, <1>2 DEF Ahead
<1>4. \A c \in S : head # NULL /\ r[head] \in Int /\ r[head] <= r[c] /\ u[n] < u[c]
  BY <1>1, <1>2, <1>3 DEF Linked
<1> HIDE DEF u
<1>5. \A m \in S : y.mem[m].hi = NULL \/ (y.mem[m].hi \in S /\ u[m] < u[y.mem[m].hi])
  BY <1>3 DEF Linked
<1>6. \A m, k \in S : u[m] < u[k] => y.mem[m].hi # NULL /\ u[y.mem[m].hi] <= u[k]
  BY <1>3, <1>5 DEF Linked
<1>7. \A m, k \in S : u[m] = u[k] => m = k
  BY <1>3 DEF Linked
<1>8. \A k \in S : y.mem[n].hi # NULL /\ u[y.mem[n].hi] <= u[k]
  BY <1>2, <1>3, <1>4
<1>9. y.mem[n].hi = NULL \/ (y.mem[n].hi \in S /\ u[n] < u[y.mem[n].hi])
  BY <1>2, <1>4
<1>10. \A c \in S : u[c] \in Int /\ u[n] \in Int /\ ~(u[c] < u[n]) /\ u[c] # u[n] /\ u[n] <= u[c]
  BY <1>1, <1>3, <1>4
<1>11. u[n] \in Int /\ u[n] <= u[n] /\ ~(u[n] < u[n])
  BY <1>3
<1> QED
  BY <1>1, <1>3, <1>5, <1>6, <1>7, <1>8, <1>9, <1>10, <1>11 DEF Linked, u

\* The first node taken from a list.
LEMMA Pop ==
    ASSUME NEW x, NEW head, NEW S, NEW r, Linked(x, head, S, r), head # NULL
    PROVE  /\ head \in S /\ Linked(x, x.mem[head].hi, S \ {head}, r)
           /\ x.mem[head].hi \in S \cup {NULL}
<1>1. NULL \notin Cells /\ r \in [Cells -> Int] /\ S \subseteq Cells
  BY CellIs, HeapNumbers DEF Linked
<1>2. head \in S /\ \A n \in S : r[head] <= r[n]
  BY DEF Linked
<1> DEFINE g == x.mem[head].hi
<1>3. g = NULL \/ (g \in S \ {head} /\ r[head] < r[g])
  BY <1>1, <1>2 DEF Linked
<1>4. \A n \in S \ {head} : r[head] < r[n]
  BY <1>1, <1>2 DEF Linked
<1>5. \A n \in S \ {head} : g # NULL /\ r[g] <= r[n]
  BY <1>2, <1>4 DEF Linked
<1>6. \A n \in S \ {head} : x.mem[n].hi = NULL \/ (x.mem[n].hi \in S \ {head} /\ r[n] < r[x.mem[n].hi])
  BY <1>1, <1>2 DEF Linked
<1> QED
  BY <1>1, <1>2, <1>3, <1>5, <1>6 DEF Linked

\* The neighbours of a node of the free list.
LEMMA Neighbours ==
    ASSUME NEW x, NEW head, NEW S, NEW r, Linked(x, head, S, r), BackLinked(x, head, S),
           NEW n \in S
    PROVE  LET p == x.mem[n].lo
               s == x.mem[n].hi
           IN  /\ p \in S \cup {NULL} /\ s \in S \cup {NULL}
               /\ p = NULL <=> n = head
               /\ p # NULL => x.mem[p].hi = n /\ r[p] < r[n]
               /\ s # NULL => x.mem[s].lo = n /\ r[n] < r[s]
               /\ \A m \in S : x.mem[m].hi = n => m = p
               /\ \A m \in S : x.mem[m].lo = n => m = s
<1>1. NULL \notin Cells /\ r \in [Cells -> Int] /\ S \subseteq Cells
  BY CellIs, HeapNumbers DEF Linked
<1>2. ASSUME NEW m \in S, NEW k \in S, x.mem[m].hi = x.mem[k].hi, x.mem[m].hi # NULL
      PROVE  m = k
  <2>1. r[m] < r[x.mem[m].hi] /\ r[k] < r[x.mem[k].hi] /\ x.mem[m].hi \in S
    BY <1>2 DEF Linked
  <2>2. ~(r[m] < r[k])
    <3>1. r[m] < r[k] => r[x.mem[m].hi] <= r[k]
      BY DEF Linked
    <3> QED
      BY <1>1, <1>2, <2>1, <3>1
  <2>3. ~(r[k] < r[m])
    <3>1. r[k] < r[m] => r[x.mem[k].hi] <= r[m]
      BY DEF Linked
    <3> QED
      BY <1>1, <1>2, <2>1, <3>1
  <2>4. r[m] = r[k]
    BY <1>1, <2>2, <2>3
  <2> QED
    BY <2>4 DEF Linked
<1>3. head \in S /\ \A m \in S : r[head] <= r[m]
  BY DEF Linked
<1>4. \A m \in S : IF m = head THEN x.mem[m].lo = NULL
                   ELSE x.mem[m].lo \in S /\ x.mem[x.mem[m].lo].hi = m
  BY DEF BackLinked
<1>5. \A m \in S : x.mem[m].hi = NULL \/ (x.mem[m].hi \in S /\ r[m] < r[x.mem[m].hi])
  BY DEF Linked
<1>6. \A m \in S : x.mem[m].hi # NULL => x.mem[m].hi # head /\ x.mem[x.mem[m].hi].lo = m
  <2> SUFFICES ASSUME NEW m \in S, x.mem[m].hi # NULL
               PROVE  x.mem[m].hi # head /\ x.mem[x.mem[m].hi].lo = m
    OBVIOUS
  <2>1. PICK g \in S : g = x.mem[m].hi /\ r[m] < r[g]
    BY <1>5
  <2>2. g # head
    BY <1>1, <1>3, <2>1
  <2>3. x.mem[g].lo \in S /\ x.mem[x.mem[g].lo].hi = g /\ g # NULL
    BY <1>1, <1>4, <2>2
  <2>4. x.mem[g].lo = m
    BY <1>2, <2>1, <2>3
  <2> QED
    BY <2>1, <2>2, <2>4
<1>7. \A m \in S : m # NULL
  BY <1>1
<1> QED
  BY <1>3, <1>4, <1>5, <1>6, <1>7

\* A node without its place in a list.
LEMMA Drop ==
    ASSUME NEW x, NEW y, NEW head, NEW top, NEW S, NEW r,
           Linked(x, head, S, r), BackLinked(x, head, S), NEW n \in S,
           top = IF x.mem[n].lo = NULL THEN x.mem[n].hi ELSE head,
           \A c \in S : /\ y.mem[c].hi = IF c = x.mem[n].lo THEN x.mem[n].hi ELSE x.mem[c].hi
                        /\ y.mem[c].lo = IF c = x.mem[n].hi THEN x.mem[n].lo ELSE x.mem[c].lo
    PROVE  Linked(y, top, S \ {n}, r) /\ BackLinked(y, top, S \ {n})
<1> DEFINE p == x.mem[n].lo
           s == x.mem[n].hi
           G == S \ {n}
<1>1. NULL \notin Cells /\ r \in [Cells -> Int] /\ S \subseteq Cells
  BY CellIs, HeapNumbers DEF Linked
<1>2. /\ p \in S \cup {NULL} /\ s \in S \cup {NULL}
      /\ p = NULL <=> n = head
      /\ p # NULL => x.mem[p].hi = n /\ r[p] < r[n]
      /\ s # NULL => x.mem[s].lo = n /\ r[n] < r[s]
      /\ \A m \in S : x.mem[m].hi = n => m = p
      /\ \A m \in S : x.mem[m].lo = n => m = s
  BY Neighbours
<1>3. head \in S /\ \A m \in S : r[head] <= r[m]
  BY DEF Linked
<1>4. \A m \in S : x.mem[m].hi = NULL \/ (x.mem[m].hi \in S /\ r[m] < r[x.mem[m].hi])
  BY DEF Linked
<1>5. \A m, k \in S : r[m] < r[k] => x.mem[m].hi # NULL /\ r[x.mem[m].hi] <= r[k]
  BY DEF Linked
<1>6. \A m, k \in S : r[m] = r[k] => m = k
  BY DEF Linked
<1>7. \A m \in S : IF m = head THEN x.mem[m].lo = NULL
                   ELSE x.mem[m].lo \in S /\ x.mem[x.mem[m].lo].hi = m
  BY DEF BackLinked
<1>8. p # n /\ s # n /\ \A m \in S : r[m] \in Int
  BY <1>1, <1>2
<1> HIDE DEF p, s
<1>9. /\ \A c \in S : y.mem[c].hi = IF c = p THEN s ELSE x.mem[c].hi
      /\ \A c \in S : y.mem[c].lo = IF c = s THEN p ELSE x.mem[c].lo
      /\ top = IF p = NULL THEN s ELSE head
      /\ x.mem[n].hi = s /\ x.mem[n].lo = p
  BY DEF p, s
<1>10. \A m \in G : y.mem[m].hi = NULL \/ (y.mem[m].hi \in G /\ r[m] < r[y.mem[m].hi])
  BY <1>1, <1>2, <1>4, <1>8, <1>9
<1>11. \A m, k \in G : r[m] < r[k] => y.mem[m].hi # NULL /\ r[y.mem[m].hi] <= r[k]
  <2> SUFFICES ASSUME NEW m \in G, NEW k \in G, r[m] < r[k]
               PROVE  y.mem[m].hi # NULL /\ r[y.mem[m].hi] <= r[k]
    OBVIOUS
  <2>1. x.mem[m].hi # NULL /\ r[x.mem[m].hi] <= r[k]
    BY <1>5
  <2>2. CASE m = p
    <3>1. x.mem[m].hi = n /\ r[n] < r[k]
      BY <1>1, <1>2, <1>6, <1>8, <2>1, <2>2
    <3>2. s # NULL /\ r[s] <= r[k]
      BY <1>5, <1>9, <3>1
    <3> QED
      BY <1>9, <2>2, <3>2
  <2>3. CASE m # p
    BY <1>9, <2>1, <2>3
  <2> QED
    BY <2>2, <2>3
<1>12. IF top = NULL THEN G = {} ELSE top \in G /\ \A m \in G : r[top] <= r[m]
  <2>1. CASE p # NULL
    <3>1. top = head /\ head \in G /\ head # NULL
      BY <1>1, <1>2, <1>3, <1>9, <2>1
    <3> QED
      BY <1>3, <3>1
  <2>2. CASE p = NULL
    <3>1. top = s /\ n = head
      BY <1>2, <1>9, <2>2
    <3>2. \A m \in G : r[n] < r[m]
      BY <1>3, <1>6, <1>8, <3>1
    <3>3. \A m \in G : s # NULL /\ r[s] <= r[m]
      BY <1>5, <1>9, <3>2
    <3>4. s # NULL => s \in G
      BY <1>2, <1>8
    <3> QED
      BY <3>1, <3>3, <3>4
  <2> QED
    BY <2>1, <2>2
<1>13. Linked(y, top, G, r)
  BY <1>1, <1>6, <1>10, <1>11, <1>12 DEF Linked
<1>14. ASSUME NEW m \in G
       PROVE  IF m = top THEN y.mem[m].lo = NULL
              ELSE y.mem[m].lo \in G /\ y.mem[y.mem[m].lo].hi = m
  <2>1. CASE m = s
    <3>1. y.mem[m].lo = p /\ m # NULL
      BY <1>1, <1>9, <2>1
    <3>2. CASE p = NULL
      BY <1>9, <2>1, <3>1, <3>2
    <3>3. CASE p # NULL
      <4>1. p \in G /\ y.mem[p].hi = m
        BY <1>2, <1>8, <1>9, <2>1, <3>3
      <4>2. r[p] < r[m] /\ r[head] <= r[p]
        BY <1>2, <1>3, <1>8, <2>1, <3>1, <3>3
      <4>3. m # top
        BY <1>8, <1>9, <3>3, <4>1, <4>2
      <4> QED
        BY <3>1, <4>1, <4>3
    <3> QED
      BY <3>2, <3>3
  <2>2. CASE m # s
    <3>1. y.mem[m].lo = x.mem[m].lo
      BY <1>9, <2>2
    <3>2. CASE m = head
      BY <1>2, <1>7, <1>9, <3>1, <3>2
    <3>3. CASE m # head
      <4>1. PICK k \in S : k = x.mem[m].lo /\ x.mem[k].hi = m
        BY <1>7, <3>3
      <4>2. k # n /\ k # p
        BY <1>1, <1>2, <1>9, <2>2, <4>1
      <4>3. y.mem[k].hi = m
        BY <1>9, <4>1, <4>2
      <4> QED
        BY <1>9, <2>2, <3>1, <3>3, <4>1, <4>2, <4>3
    <3> QED
      BY <3>2, <3>3
  <2> QED
    BY <2>1, <2>2
<1> QED
  BY <1>13, <1>14 DEF BackLinked

\* y has the free list G where x has F, and else the same memory.
Relinked(x, y, G, r) ==
    /\ Rest(x, y) /\ Linked(y, y.free_list, G, r) /\ BackLinked(y, y.free_list, G)
    /\ \A c \in Cells : c \notin G => y.mem[c] = x.mem[c]

\* alloc_node_unlink takes one node out of the free list.
LEMMA Unlink ==
    ASSUME NEW x \in States, NEW F, NEW r,
           Linked(x, x.free_list, F, r), BackLinked(x, x.free_list, F), NEW n \in F
    PROVE  Relinked(x, alloc_node_unlink(x, n), F \ {n}, r)
<1> DEFINE p == x.mem[n].lo
           s == x.mem[n].hi
           w == PointForward(x, p, s)
           y == PointBack(w, s, p)
<1>1. NULL \notin Cells /\ F \subseteq Cells /\ n \in Cells
  BY CellIs, HeapNumbers DEF Linked
<1>2. p \in F \cup {NULL} /\ s \in F \cup {NULL} /\ p # n /\ s # n
  <2>1. /\ p \in F \cup {NULL} /\ s \in F \cup {NULL}
        /\ p # NULL => r[p] < r[n]
        /\ s # NULL => r[n] < r[s]
    BY Neighbours
  <2>2. r \in [Cells -> Int]
    BY DEF Linked
  <2> QED
    BY <1>1, <2>1, <2>2
<1>3. p \in Cells \cup {NULL} /\ s \in Cells \cup {NULL}
  BY <1>1, <1>2
<1> HIDE DEF p, s
<1>4. /\ Rest(x, w) /\ w.free_list = IF p = NULL THEN s ELSE x.free_list
      /\ \A c \in Cells : /\ w.mem[c].lo = x.mem[c].lo
                          /\ w.mem[c].hi = IF c = p THEN s ELSE x.mem[c].hi
                          /\ c # p => w.mem[c] = x.mem[c]
  BY <1>3, PointForwardIs
<1>5. w \in States
  BY <1>4 DEF Rest
<1> HIDE DEF w
<1>6. /\ Rest(w, y) /\ y.free_list = w.free_list
      /\ \A c \in Cells : /\ y.mem[c].hi = w.mem[c].hi
                          /\ y.mem[c].lo = IF c = s THEN p ELSE w.mem[c].lo
                          /\ c # s => y.mem[c] = w.mem[c]
  BY <1>3, <1>5, PointBackIs
<1>7. y = alloc_node_unlink(x, n)
  BY DEF alloc_node_unlink, p, s, w
<1> HIDE DEF y
<1>8. Rest(x, y)
  BY <1>4, <1>6 DEF Rest
<1>9. \A c \in F : /\ y.mem[c].hi = IF c = x.mem[n].lo THEN x.mem[n].hi ELSE x.mem[c].hi
                   /\ y.mem[c].lo = IF c = x.mem[n].hi THEN x.mem[n].lo ELSE x.mem[c].lo
  BY <1>1, <1>4, <1>6 DEF p, s
<1>10. y.free_list = IF x.mem[n].lo = NULL THEN x.mem[n].hi ELSE x.free_list
  BY <1>4, <1>6 DEF p, s
<1>11. Linked(y, y.free_list, F \ {n}, r) /\ BackLinked(y, y.free_list, F \ {n})
  BY <1>9, <1>10, Drop
<1>12. \A c \in Cells : c \notin F \ {n} => y.mem[c] = x.mem[c]
  BY <1>1, <1>2, <1>4, <1>6
<1> QED
  BY <1>7, <1>8, <1>11, <1>12 DEF Relinked

\* alloc_node_add puts one node in front of the free list.
LEMMA AddNode ==
    ASSUME NEW x \in States, NEW F, NEW r,
           Linked(x, x.free_list, F, r), BackLinked(x, x.free_list, F),
           NEW n \in Cells, n \notin F
    PROVE  Relinked(x, alloc_node_add(x, n), F \cup {n}, Ahead(r, x.free_list, n))
<1> DEFINE s == x.free_list
           v == Put(x, n, NULL, s)
           w == PointBack(v, s, n)
           y == SetHead(w, n)
<1>1. NULL \notin Cells /\ F \subseteq Cells /\ NULL \in Int /\ n # NULL
  BY CellIs, HeapNumbers DEF Linked
<1>2. /\ s \in F \cup {NULL} /\ s \in Int /\ s # n /\ s \in Cells \cup {NULL}
      /\ n \in Cells \cup {NULL} /\ s = x.free_list
  BY <1>1, CellIs DEF Linked
<1> HIDE DEF s
<1>3. /\ Rest(x, v) /\ v.free_list = x.free_list
      /\ v.mem[n] = [lo |-> NULL, hi |-> s]
      /\ \A c \in Cells : c # n => v.mem[c] = x.mem[c]
  BY <1>1, <1>2, PutIs
<1>4. v \in States
  BY <1>3 DEF Rest
<1> HIDE DEF v
<1>5. /\ Rest(v, w) /\ w.free_list = v.free_list
      /\ \A c \in Cells : /\ w.mem[c].hi = v.mem[c].hi
                          /\ w.mem[c].lo = IF c = s THEN n ELSE v.mem[c].lo
                          /\ c # s => w.mem[c] = v.mem[c]
  BY <1>2, <1>4, PointBackIs
<1>6. w \in States
  BY <1>5 DEF Rest
<1> HIDE DEF w
<1>7. Rest(w, y) /\ y.free_list = n /\ y.mem = w.mem
  BY <1>6, SetHeadIs
<1>8. y = alloc_node_add(x, n)
  BY DEF alloc_node_add, s, v, w
<1> HIDE DEF y
<1>9. Rest(x, y)
  BY <1>3, <1>5, <1>7 DEF Rest
<1>10. y.mem[n].hi = x.free_list /\ y.mem[n].lo = NULL
  BY <1>2, <1>3, <1>5, <1>7
<1>11. \A c \in F : /\ y.mem[c].hi = x.mem[c].hi
                    /\ y.mem[c].lo = IF c = x.free_list THEN n ELSE x.mem[c].lo
  BY <1>1, <1>2, <1>3, <1>5, <1>7
<1>12. Linked(y, n, F \cup {n}, Ahead(r, x.free_list, n))
  BY <1>10, <1>11, Push
<1>13. BackLinked(y, n, F \cup {n})
  BY <1>10, <1>11 DEF BackLinked
<1>14. \A c \in Cells : c \notin F \cup {n} => y.mem[c] = x.mem[c]
  BY <1>1, <1>2, <1>3, <1>5, <1>7
<1> QED
  BY <1>7, <1>8, <1>9, <1>12, <1>13, <1>14 DEF Relinked

\* A node takes the place of another one.
LEMMA Replace ==
    ASSUME NEW x, NEW y, NEW head, NEW top, NEW S, NEW r,
           Linked(x, head, S, r), BackLinked(x, head, S), NEW n \in S,
           NEW m \in Cells, m \notin S,
           top = IF x.mem[n].lo = NULL THEN m ELSE head,
           y.mem[m].lo = x.mem[n].lo, y.mem[m].hi = x.mem[n].hi,
           \A c \in S : /\ y.mem[c].hi = IF c = x.mem[n].lo THEN m ELSE x.mem[c].hi
                        /\ y.mem[c].lo = IF c = x.mem[n].hi THEN m ELSE x.mem[c].lo
    PROVE  /\ Linked(y, top, (S \ {n}) \cup {m}, [r EXCEPT ![m] = r[n]])
           /\ BackLinked(y, top, (S \ {n}) \cup {m})
<1> DEFINE p == x.mem[n].lo
           s == x.mem[n].hi
           G == (S \ {n}) \cup {m}
           u == [r EXCEPT ![m] = r[n]]
<1>1. NULL \notin Cells /\ r \in [Cells -> Int] /\ S \subseteq Cells /\ m # NULL
  BY CellIs, HeapNumbers DEF Linked
<1>2. /\ p \in S \cup {NULL} /\ s \in S \cup {NULL}
      /\ p = NULL <=> n = head
      /\ p # NULL => x.mem[p].hi = n /\ r[p] < r[n]
      /\ s # NULL => x.mem[s].lo = n /\ r[n] < r[s]
      /\ \A k \in S : x.mem[k].hi = n => k = p
      /\ \A k \in S : x.mem[k].lo = n => k = s
  BY Neighbours
<1>3. head \in S /\ \A k \in S : r[head] <= r[k]
  BY DEF Linked
<1>4. \A k \in S : x.mem[k].hi = NULL \/ (x.mem[k].hi \in S /\ r[k] < r[x.mem[k].hi])
  BY DEF Linked
<1>5. \A j, k \in S : r[j] < r[k] => x.mem[j].hi # NULL /\ r[x.mem[j].hi] <= r[k]
  BY DEF Linked
<1>6. \A j, k \in S : r[j] = r[k] => j = k
  BY DEF Linked
<1>7. \A k \in S : IF k = head THEN x.mem[k].lo = NULL
                   ELSE x.mem[k].lo \in S /\ x.mem[x.mem[k].lo].hi = k
  BY DEF BackLinked
<1>8. p # n /\ s # n /\ (\A k \in S : r[k] \in Int) /\ p # m /\ s # m
  BY <1>1, <1>2
<1>9. u \in [Cells -> Int] /\ u[m] = r[n] /\ \A k \in S : u[k] = r[k]
  BY <1>1
<1> HIDE DEF p, s, u
<1>10. /\ \A c \in S : y.mem[c].hi = IF c = p THEN m ELSE x.mem[c].hi
       /\ \A c \in S : y.mem[c].lo = IF c = s THEN m ELSE x.mem[c].lo
       /\ y.mem[m].lo = p /\ y.mem[m].hi = s
       /\ top = IF p = NULL THEN m ELSE head
       /\ x.mem[n].hi = s /\ x.mem[n].lo = p
  BY DEF p, s
<1>11. ASSUME NEW k \in G
       PROVE  y.mem[k].hi = NULL \/ (y.mem[k].hi \in G /\ u[k] < u[y.mem[k].hi])
  <2>1. CASE k = m
    BY <1>2, <1>8, <1>9, <1>10, <2>1
  <2>2. CASE k # m
    <3>1. CASE k = p
      BY <1>1, <1>2, <1>9, <1>10, <2>2, <3>1
    <3>2. CASE k # p
      BY <1>2, <1>4, <1>9, <1>10, <2>2, <3>2
    <3> QED
      BY <3>1, <3>2
  <2> QED
    BY <2>1, <2>2
<1>12. ASSUME NEW j \in G, NEW k \in G, u[j] < u[k]
       PROVE  y.mem[j].hi # NULL /\ u[y.mem[j].hi] <= u[k]
  <2> DEFINE old(a) == IF a = m THEN n ELSE a
  <2>1. /\ old(j) \in S /\ old(k) \in S /\ u[j] = r[old(j)] /\ u[k] = r[old(k)]
    BY <1>9
  <2>2. x.mem[old(j)].hi # NULL /\ r[x.mem[old(j)].hi] <= r[old(k)]
    BY <1>5, <1>12, <2>1
  <2>3. CASE j = m
    <3>1. y.mem[j].hi = s /\ x.mem[old(j)].hi = s
      BY <1>10, <2>3
    <3> QED
      BY <1>2, <1>9, <2>1, <2>2, <3>1
  <2>4. CASE j # m
    <3>1. CASE j = p
      <4>1. y.mem[j].hi = m /\ x.mem[old(j)].hi = n
        BY <1>1, <1>2, <1>10, <2>4, <3>1
      <4> QED
        BY <1>1, <1>9, <2>1, <2>2, <4>1
    <3>2. CASE j # p
      <4>1. y.mem[j].hi = x.mem[old(j)].hi /\ x.mem[j].hi \in S \cup {NULL}
        BY <1>4, <1>10, <2>4, <3>2
      <4> QED
        BY <1>9, <2>1, <2>2, <2>4, <4>1
    <3> QED
      BY <3>1, <3>2
  <2> QED
    BY <2>3, <2>4
<1>13. \A j, k \in G : u[j] = u[k] => j = k
  BY <1>6, <1>9
<1>14. top # NULL /\ top \in G /\ \A k \in G : u[top] <= u[k]
  <2>1. CASE p = NULL
    <3>1. top = m /\ n = head
      BY <1>2, <1>10, <2>1
    <3>2. u[m] <= u[m]
      BY <1>8, <1>9
    <3> QED
      BY <1>1, <1>3, <1>9, <3>1, <3>2
  <2>2. CASE p # NULL
    <3>1. top = head /\ head \in S /\ head # n
      BY <1>2, <1>3, <1>10, <2>2
    <3> QED
      BY <1>1, <1>3, <1>9, <3>1
  <2> QED
    BY <2>1, <2>2
<1>15. G \subseteq Cells
  BY <1>1
<1>16. Linked(y, top, G, u)
  BY <1>9, <1>11, <1>12, <1>13, <1>14, <1>15 DEF Linked
<1>17. ASSUME NEW k \in G
       PROVE  IF k = top THEN y.mem[k].lo = NULL
              ELSE y.mem[k].lo \in G /\ y.mem[y.mem[k].lo].hi = k
  <2>1. CASE k = m
    <3>1. CASE p = NULL
      BY <1>10, <2>1, <3>1
    <3>2. CASE p # NULL
      <4>1. p \in G /\ y.mem[p].hi = m /\ y.mem[k].lo = p
        BY <1>2, <1>8, <1>10, <2>1, <3>2
      <4>2. top = head /\ head # m
        BY <1>3, <1>10, <3>2
      <4> QED
        BY <2>1, <4>1, <4>2
    <3> QED
      BY <3>1, <3>2
  <2>2. CASE k # m /\ k = s
    <3>1. y.mem[k].lo = m /\ y.mem[m].hi = k /\ m \in G /\ r[n] < r[k] /\ k \in S
      BY <1>1, <1>2, <1>10, <2>2
    <3>2. k # head
      BY <1>3, <1>8, <3>1
    <3> QED
      BY <1>10, <2>2, <3>1, <3>2
  <2>3. CASE k # m /\ k # s
    <3>1. y.mem[k].lo = x.mem[k].lo /\ k \in S /\ k # n
      BY <1>10, <2>3
    <3>2. CASE k = head
      BY <1>2, <1>7, <1>10, <3>1, <3>2
    <3>3. CASE k # head
      <4>1. PICK j \in S : j = x.mem[k].lo /\ x.mem[j].hi = k
        BY <1>7, <3>1, <3>3
      <4>2. j # n /\ j # p
        BY <1>1, <1>2, <1>10, <2>3, <3>1, <4>1
      <4>3. y.mem[j].hi = k
        BY <1>10, <4>1, <4>2
      <4> QED
        BY <1>10, <2>3, <3>1, <3>3, <4>1, <4>2, <4>3
    <3> QED
      BY <3>2, <3>3
  <2> QED
    BY <2>1, <2>2, <2>3
<1>18. BackLinked(y, top, G)
  BY <1>17 DEF BackLinked
<1> QED
  BY <1>16, <1>18 DEF u

-----------------------------------------------------------------------------
(* Tilings.                                                                *)

\* Where the cells of a chunk are.
LEMMA TileCells ==
    ASSUME NEW C, NEW e, NEW z, Tiling(C, e, z)
    PROVE  /\ e \in Nat /\ First <= e /\ e <= HEAP_LIMIT /\ e % 8 = 0
           /\ e - 8 \in Cells /\ C \subseteq Cells /\ z \in [Cells -> Nat]
           /\ \A n \in C :
                /\ n \in Nat /\ First <= n /\ n < e /\ n % 8 = 0 /\ n \in Cells
                /\ z[n] \in Nat /\ z[n] >= 8 /\ z[n] % 8 = 0
                /\ n - 8 \in Cells /\ n + z[n] \in Cells /\ n + z[n] + 8 <= e
                /\ n + z[n] + 8 \in C \cup {e}
           /\ \A m, n \in C : m < n => m + z[m] + 8 <= n
<1>1. /\ e \in Nat /\ First <= e /\ e <= HEAP_LIMIT /\ e % 8 = 0
      /\ C \subseteq Cells /\ z \in [Cells -> Nat]
  BY HeapNumbers DEF Tiling
<1>2. e - 8 \in Cells
  <2>1. \A k \in Nat : k % 8 = 0 /\ k >= 8 => (k - 8) % 8 = 0
    OBVIOUS
  <2> QED
    BY <1>1, <2>1, CellIs, HeapNumbers
<1>3. ASSUME NEW n \in C
      PROVE  /\ n \in Nat /\ First <= n /\ n < e /\ n % 8 = 0 /\ n \in Cells
             /\ z[n] \in Nat /\ z[n] >= 8 /\ z[n] % 8 = 0
             /\ n - 8 \in Cells /\ n + z[n] \in Cells /\ n + z[n] + 8 <= e
             /\ n + z[n] + 8 \in C \cup {e}
  <2>1. n \in Cells /\ n \in Nat /\ n % 8 = 0 /\ z[n] \in Nat
    BY <1>1, CellIs
  <2>2. First <= n /\ n < e /\ z[n] >= 8 /\ z[n] % 8 = 0 /\ n + z[n] + 8 \in C \cup {e}
    BY HeapNumbers DEF Tiling
  <2>3. n + z[n] + 8 <= e
    <3>1. \A m \in C : m < e
      BY DEF Tiling
    <3> QED
      BY <1>1, <2>1, <2>2, <3>1
  <2>4. (n - 8) % 8 = 0 /\ (n + z[n]) % 8 = 0
    BY <2>1, <2>2
  <2>5. n - 8 \in Cells /\ n + z[n] \in Cells
    BY <1>1, <2>1, <2>2, <2>3, <2>4, CellIs, HeapNumbers
  <2> QED
    BY <2>1, <2>2, <2>3, <2>5
<1>4. \A m, n \in C : m < n => m + z[m] + 8 <= n
  BY HeapNumbers DEF Tiling
<1> QED
  BY <1>1, <1>2, <1>3, <1>4

\* Chunks and the descriptors between them do not overlap.
LEMMA TileApart ==
    ASSUME NEW C, NEW e, NEW z, Tiling(C, e, z)
    PROVE  /\ \A n \in C : n - 8 \notin C /\ n + z[n] \notin C
           /\ e - 8 \notin C
           /\ \A m, n \in C : m - 8 = n - 8 => m = n
           /\ \A m, n \in C : m + z[m] = n + z[n] => m = n
           /\ \A n \in C : n + z[n] = e - 8 => \A m \in C : m - 8 # e - 8
           /\ \A n \in C : \A a \in Cells : n <= a /\ a < n + z[n] =>
                /\ a \in C => a = n
                /\ \A m \in C : a # m - 8 /\ a # m + z[m]
                /\ a # e - 8
                /\ \A m \in C : m <= a /\ a < m + z[m] => m = n
<1>1. /\ e \in Nat /\ First <= e
      /\ \A n \in C : n \in Nat /\ n < e /\ z[n] \in Nat /\ z[n] >= 8 /\ n + z[n] + 8 <= e
      /\ \A n \in C : n % 8 = 0 /\ z[n] % 8 = 0 /\ n + z[n] + 8 \in C \cup {e}
      /\ \A m, n \in C : m < n => m + z[m] + 8 <= n
  BY TileCells
<1>2. \A m, n \in C : m = n \/ m + z[m] + 8 <= n \/ n + z[n] + 8 <= m
  BY <1>1
<1>3. \A n \in C : n - 8 \notin C /\ n + z[n] \notin C
  BY <1>1, <1>2
<1>4. e - 8 \notin C
  BY <1>1
<1>5. \A m, n \in C : m + z[m] = n + z[n] => m = n
  BY <1>1, <1>2
<1>6. ASSUME NEW n \in C, NEW a \in Cells, n <= a, a < n + z[n]
      PROVE  /\ a \in C => a = n
             /\ \A m \in C : a # m - 8 /\ a # m + z[m]
             /\ a # e - 8
             /\ \A m \in C : m <= a /\ a < m + z[m] => m = n
  <2>1. a \in Nat /\ a % 8 = 0
    BY CellIs
  <2>2. a + 8 <= n + z[n]
    BY <1>1, <1>6, <2>1
  <2>3. \A m \in C : a # m - 8 /\ a # m + z[m] /\ (m <= a /\ a < m + z[m] => m = n)
    BY <1>1, <1>2, <1>6, <2>1, <2>2
  <2>4. a # e - 8
    BY <1>1, <2>1, <2>2
  <2>5. a \in C => a = n
    BY <1>1, <1>2, <1>6, <2>1, <2>2
  <2> QED
    BY <2>3, <2>4, <2>5
<1>7. \A m, n \in C : m - 8 = n - 8 => m = n
  BY <1>1
<1>8. \A m \in C : m - 8 # e - 8
  BY <1>1
<1> QED
  BY <1>3, <1>4, <1>5, <1>6, <1>7, <1>8

\* Two neighbours become one chunk.
LEMMA TileJoin ==
    ASSUME NEW C, NEW e, NEW z, Tiling(C, e, z), NEW v \in C, NEW w \in C,
           w = v + z[v] + 8
    PROVE  Tiling(C \ {w}, e, [z EXCEPT ![v] = z[v] + z[w] + 8])
<1> DEFINE y == [z EXCEPT ![v] = z[v] + z[w] + 8]
           D == C \ {w}
<1>1. /\ e \in Nat /\ First <= e /\ e <= HEAP_LIMIT /\ e % 8 = 0 /\ C \subseteq Cells
      /\ z \in [Cells -> Nat] /\ First \in Nat
      /\ \A n \in C : n \in Nat /\ First <= n /\ n < e /\ z[n] \in Nat /\ z[n] >= 8
      /\ \A n \in C : z[n] % 8 = 0 /\ n + z[n] + 8 \in C \cup {e} /\ n + z[n] + 8 <= e
      /\ \A m, n \in C : m < n => m + z[m] + 8 <= n
  BY TileCells, HeapNumbers
<1>2. First \in C \cup {e} /\ \A n \in C \cup {e} : n = First \/ \E m \in C : m + z[m] + 8 = n
  BY HeapNumbers DEF Tiling
<1>3. v < w /\ z[v] \in Nat /\ z[w] \in Nat /\ v \in D
  BY <1>1
<1>4. y \in [Cells -> Nat] /\ y[v] = z[v] + z[w] + 8 /\ \A n \in C : n # v => y[n] = z[n]
  BY <1>1, <1>3
<1>5. y[v] >= 8 /\ y[v] % 8 = 0 /\ v + y[v] + 8 = w + z[w] + 8
  BY <1>1, <1>3, <1>4
<1> HIDE DEF y
<1>6. First \in D \cup {e}
  BY <1>1, <1>2, <1>3
<1>7. \A m, n \in C : m = n \/ m + z[m] + 8 <= n \/ n + z[n] + 8 <= m
  BY <1>1
<1>8. ASSUME NEW n \in D
      PROVE  First <= n /\ n < e /\ y[n] >= 8 /\ y[n] % 8 = 0 /\ n + y[n] + 8 \in D \cup {e}
  <2>1. CASE n = v
    BY <1>1, <1>3, <1>4, <1>5, <2>1
  <2>2. CASE n # v
    <3>1. n + z[n] + 8 # w
      BY <1>1, <1>3, <1>7, <2>2
    <3> QED
      BY <1>1, <1>4, <2>2, <3>1
  <2> QED
    BY <2>1, <2>2
<1>9. ASSUME NEW n \in D \cup {e}
      PROVE  n = First \/ \E m \in D : m + y[m] + 8 = n
  <2>1. CASE n = First
    BY <2>1
  <2>2. CASE n # First
    <3>1. PICK m \in C : m + z[m] + 8 = n
      BY <1>2, <2>2
    <3>2. CASE m = w
      BY <1>3, <1>5, <3>1, <3>2
    <3>3. CASE m # w
      <4>1. m # v
        BY <1>1, <3>1
      <4> QED
        BY <1>4, <3>1, <3>3, <4>1
    <3> QED
      BY <3>2, <3>3
  <2> QED
    BY <2>1, <2>2
<1>10. ASSUME NEW m \in D, NEW n \in D, m < n PROVE m + y[m] + 8 <= n
  <2>1. CASE m = v
    <3>1. w < n
      BY <1>1, <1>10, <2>1
    <3> QED
      BY <1>1, <1>5, <2>1, <3>1
  <2>2. CASE m # v
    BY <1>1, <1>4, <1>10, <2>2
  <2> QED
    BY <2>1, <2>2
<1> QED
  BY <1>1, <1>4, <1>6, <1>8, <1>9, <1>10, HeapNumbers DEF Tiling, y

\* A chunk becomes two.
LEMMA TileSplit ==
    ASSUME NEW C, NEW e, NEW z, Tiling(C, e, z), NEW v \in C, NEW b \in Nat,
           b >= 8, b % 8 = 0, b + 8 < z[v]
    PROVE  LET w == v + b + 8
           IN  /\ w \notin C /\ w \in Cells
               /\ Tiling(C \cup {w}, e, [z EXCEPT ![v] = b, ![w] = z[v] - b - 8])
<1> DEFINE w == v + b + 8
           y == [z EXCEPT ![v] = b, ![w] = z[v] - b - 8]
           D == C \cup {w}
<1>1. /\ e \in Nat /\ First <= e /\ e <= HEAP_LIMIT /\ e % 8 = 0 /\ C \subseteq Cells
      /\ z \in [Cells -> Nat] /\ First \in Nat
      /\ \A n \in C : n \in Nat /\ First <= n /\ n < e /\ z[n] \in Nat /\ z[n] >= 8
      /\ \A n \in C : z[n] % 8 = 0 /\ n + z[n] + 8 \in C \cup {e} /\ n + z[n] + 8 <= e
      /\ \A m, n \in C : m < n => m + z[m] + 8 <= n
      /\ \A n \in C : n % 8 = 0
  BY TileCells, HeapNumbers
<1>2. First \in C \cup {e} /\ \A n \in C \cup {e} : n = First \/ \E m \in C : m + z[m] + 8 = n
  BY HeapNumbers DEF Tiling
<1>3. \A m, n \in C : m = n \/ m + z[m] + 8 <= n \/ n + z[n] + 8 <= m
  BY <1>1
<1>4. w \in Nat /\ v < w /\ w < v + z[v] /\ w % 8 = 0 /\ z[v] - b - 8 >= 8 /\ (z[v] - b - 8) % 8 = 0
  BY <1>1
<1>5. w \notin C
  BY <1>1, <1>3, <1>4
<1>6. w \in Cells
  BY <1>1, <1>4, CellIs, HeapNumbers
<1>7. z[v] - b - 8 \in Nat
  BY <1>1
<1>8. y \in [Cells -> Nat] /\ y[v] = b /\ y[w] = z[v] - b - 8 /\ \A n \in C : n # v => y[n] = z[n]
  BY <1>1, <1>4, <1>5, <1>6, <1>7
<1>9. v + y[v] + 8 = w /\ w + y[w] + 8 = v + z[v] + 8
  BY <1>1, <1>8
<1> HIDE DEF y
<1>10. w < e /\ First <= w
  BY <1>1, <1>4
<1> HIDE DEF w
<1>11. ASSUME NEW n \in D
       PROVE  First <= n /\ n < e /\ y[n] >= 8 /\ y[n] % 8 = 0 /\ n + y[n] + 8 \in D \cup {e}
  <2>1. CASE n = v
    BY <1>1, <1>8, <1>9, <2>1
  <2>2. CASE n = w
    BY <1>1, <1>4, <1>8, <1>9, <1>10, <2>2
  <2>3. CASE n # v /\ n # w
    BY <1>1, <1>8, <2>3
  <2> QED
    BY <2>1, <2>2, <2>3
<1>12. ASSUME NEW n \in D \cup {e}
       PROVE  n = First \/ \E m \in D : m + y[m] + 8 = n
  <2>1. CASE n = First
    BY <2>1
  <2>2. CASE n = w
    BY <1>9, <2>2
  <2>3. CASE n # First /\ n # w
    <3>1. PICK m \in C : m + z[m] + 8 = n
      BY <1>2, <2>3
    <3>2. CASE m = v
      BY <1>9, <3>1, <3>2
    <3>3. CASE m # v
      BY <1>8, <3>1, <3>3
    <3> QED
      BY <3>2, <3>3
  <2> QED
    BY <2>1, <2>2, <2>3
<1>13. ASSUME NEW m \in D, NEW n \in D, m < n PROVE m + y[m] + 8 <= n
  <2>0. m \in Nat /\ n \in Nat
    BY <1>1, <1>4
  <2>1. CASE m = v
    <3>1. CASE n = w
      BY <1>4, <1>9, <2>1, <3>1
    <3>2. CASE n # w
      BY <1>1, <1>4, <1>9, <1>13, <2>1, <3>2
    <3> QED
      BY <3>1, <3>2
  <2>2. CASE m = w
    <3>1. n \in C /\ v < n
      BY <1>1, <1>4, <1>13, <2>0, <2>2
    <3> QED
      BY <1>1, <1>9, <2>2, <3>1
  <2>3. CASE m # v /\ m # w /\ n # w
    BY <1>1, <1>8, <1>13, <2>3
  <2>4. CASE m # v /\ m # w /\ n = w
    <3>1. m \in C /\ m + z[m] + 8 <= v
      BY <1>1, <1>3, <1>4, <1>13, <2>4
    <3> QED
      BY <1>1, <1>4, <1>8, <2>4, <3>1
  <2> QED
    BY <2>1, <2>2, <2>3, <2>4
<1>14. Tiling(D, e, y)
  BY <1>1, <1>2, <1>6, <1>8, <1>11, <1>12, <1>13, HeapNumbers DEF Tiling
<1> QED
  BY <1>5, <1>6, <1>14 DEF w, y

\* A chunk is put at the end.
LEMMA TileGrow ==
    ASSUME NEW C, NEW e, NEW z, Tiling(C, e, z), NEW b \in Nat,
           b >= 8, b % 8 = 0, e + b + 8 <= HEAP_LIMIT
    PROVE  e \in Cells /\ e \notin C /\ Tiling(C \cup {e}, e + b + 8, [z EXCEPT ![e] = b])
<1> DEFINE y == [z EXCEPT ![e] = b]
           D == C \cup {e}
           f == e + b + 8
<1>1. /\ e \in Nat /\ First <= e /\ e <= HEAP_LIMIT /\ e % 8 = 0 /\ C \subseteq Cells
      /\ z \in [Cells -> Nat] /\ First \in Nat
      /\ \A n \in C : n \in Nat /\ First <= n /\ n < e /\ z[n] \in Nat /\ z[n] >= 8
      /\ \A n \in C : z[n] % 8 = 0 /\ n + z[n] + 8 \in C \cup {e} /\ n + z[n] + 8 <= e
      /\ \A m, n \in C : m < n => m + z[m] + 8 <= n
  BY TileCells, HeapNumbers
<1>2. First \in C \cup {e} /\ \A n \in C \cup {e} : n = First \/ \E m \in C : m + z[m] + 8 = n
  BY HeapNumbers DEF Tiling
<1>3. e \in Cells /\ e \notin C
  BY <1>1, CellIs, HeapNumbers
<1>4. y \in [Cells -> Nat] /\ y[e] = b /\ \A n \in C : y[n] = z[n]
  BY <1>1, <1>3
<1>5. f \in Nat /\ f % 8 = 0 /\ First <= f /\ f <= HEAP_LIMIT /\ e < f /\ e + y[e] + 8 = f
  BY <1>1, <1>4
<1> HIDE DEF y, f
<1>6. \A n \in D : First <= n /\ n < f /\ y[n] >= 8 /\ y[n] % 8 = 0 /\ n + y[n] + 8 \in D \cup {f}
  BY <1>1, <1>4, <1>5
<1>7. \A n \in D \cup {f} : n = First \/ \E m \in D : m + y[m] + 8 = n
  BY <1>2, <1>4, <1>5
<1>8. \A m, n \in D : m < n => m + y[m] + 8 <= n
  BY <1>1, <1>4
<1>9. Tiling(D, f, y)
  BY <1>1, <1>2, <1>3, <1>4, <1>5, <1>6, <1>7, <1>8, HeapNumbers DEF Tiling
<1> QED
  BY <1>3, <1>9 DEF f, y

\* The last chunk is given up.
LEMMA TileCut ==
    ASSUME NEW C, NEW e, NEW z, Tiling(C, e, z), NEW v \in C, v + z[v] + 8 = e
    PROVE  Tiling(C \ {v}, v, z)
<1> DEFINE D == C \ {v}
<1>1. /\ e \in Nat /\ First <= e /\ e <= HEAP_LIMIT /\ e % 8 = 0 /\ C \subseteq Cells
      /\ z \in [Cells -> Nat] /\ First \in Nat
      /\ \A n \in C : n \in Nat /\ First <= n /\ n < e /\ z[n] \in Nat /\ z[n] >= 8
      /\ \A n \in C : z[n] % 8 = 0 /\ n + z[n] + 8 \in C \cup {e} /\ n + z[n] + 8 <= e
      /\ \A m, n \in C : m < n => m + z[m] + 8 <= n
      /\ v % 8 = 0 /\ v <= HEAP_LIMIT
  BY TileCells, HeapNumbers
<1>2. First \in C \cup {e} /\ \A n \in C \cup {e} : n = First \/ \E m \in C : m + z[m] + 8 = n
  BY HeapNumbers DEF Tiling
<1>3. \A n \in D : n < v
  BY <1>1
<1>4. \A n \in D : First <= n /\ z[n] >= 8 /\ z[n] % 8 = 0 /\ n + z[n] + 8 \in D \cup {v}
  BY <1>1, <1>3
<1>5. ASSUME NEW n \in D \cup {v} PROVE n = First \/ \E m \in D : m + z[m] + 8 = n
  <2>1. n \in C /\ n <= v
    BY <1>1, <1>3
  <2>2. CASE n # First
    <3>1. PICK m \in C : m + z[m] + 8 = n
      BY <1>2, <2>1, <2>2
    <3>2. m # v
      BY <1>1, <2>1, <3>1
    <3> QED
      BY <3>1, <3>2
  <2> QED
    BY <2>2
<1>6. First \in D \cup {v}
  BY <1>1, <1>2
<1>7. v \in First .. HEAP_LIMIT
  BY <1>1, HeapNumbers
<1> QED
  BY <1>1, <1>3, <1>4, <1>5, <1>6, <1>7, HeapNumbers DEF Tiling

-----------------------------------------------------------------------------
(* What an operation leaves alone.                                         *)

\* y is x with the size word s of a chunk of t bytes at n, in both places.
Resized(x, y, n, s, t) ==
    /\ Rest(x, y) /\ y.free_list = x.free_list
    /\ \A c \in Cells : /\ y.mem[c].hi = IF c = n - 8 THEN s ELSE x.mem[c].hi
                        /\ y.mem[c].lo = IF c = n + t THEN s ELSE x.mem[c].lo
                        /\ c # n - 8 /\ c # n + t => y.mem[c] = x.mem[c]

\* Both copies of the size of a chunk change, and nothing else.
LEMMA SetSizeIs ==
    ASSUME NEW x \in States, NEW n \in Nat, NEW s \in Nat, NEW t \in Nat, NoFlags(s) = t,
           n - 8 \in Cells, n + t \in Cells
    PROVE  Resized(x, SetSize(x, n, s), n, s, t)
<1> DEFINE a == n - 8
           b == n + t
           w == SetHi(x, a, s)
           y == SetLo(w, b, s)
<1>1. a \in Cells /\ b \in Cells /\ s \in Int
  OBVIOUS
<1>2. y = SetSize(x, n, s)
  BY DEF SetSize, alloc_get_desc, DESC
<1> HIDE DEF a, b
<1>3. /\ Rest(x, w) /\ w.free_list = x.free_list
      /\ w.mem[a].hi = s /\ w.mem[a].lo = x.mem[a].lo
      /\ \A c \in Cells : c # a => w.mem[c] = x.mem[c]
  BY <1>1, SetHiIs
<1>4. w \in States
  BY <1>3 DEF Rest
<1> HIDE DEF w
<1>5. /\ Rest(w, y) /\ y.free_list = w.free_list
      /\ y.mem[b].lo = s /\ y.mem[b].hi = w.mem[b].hi
      /\ \A c \in Cells : c # b => y.mem[c] = w.mem[c]
  BY <1>1, <1>4, SetLoIs
<1> HIDE DEF y
<1>6. \A c \in Cells : y.mem[c].hi = IF c = a THEN s ELSE x.mem[c].hi
  BY <1>1, <1>3, <1>5
<1>7. \A c \in Cells : y.mem[c].lo = IF c = b THEN s ELSE x.mem[c].lo
  BY <1>1, <1>3, <1>5
<1>8. \A c \in Cells : c # a /\ c # b => y.mem[c] = x.mem[c]
  BY <1>3, <1>5
<1>9. Rest(x, y) /\ y.free_list = x.free_list
  BY <1>3, <1>5 DEF Rest
<1> QED
  BY <1>2, <1>6, <1>7, <1>8, <1>9 DEF a, b, Resized

\* Flags set or cleared in both copies of a size that agree.
LEMMA FlagIs ==
    ASSUME NEW x \in States, NEW n \in Nat, NEW k \in Nat, NEW s \in Nat, NEW t \in Nat,
           NoFlags(s) = t, n - 8 \in Cells, n + t \in Cells,
           x.mem[n - 8].hi = k, x.mem[n + t].lo = k
    PROVE  /\ WithFree(k) = s => alloc_set_free(x, n) = SetSize(x, n, s)
           /\ WithoutFree(k) = s => alloc_clear_free(x, n) = SetSize(x, n, s)
<1>1. PICK y : y = SetHi(x, n - 8, s)
  OBVIOUS
<1>2. alloc_get_desc(n) = n - 8
  BY DEF alloc_get_desc, DESC
<1>3. n + t # n - 8
  OBVIOUS
<1>4. y.mem[n - 8].hi = s /\ y.mem[n + t].lo = k
  BY <1>1, <1>3, SetHiIs
<1>5. alloc_get_next_desc(y, n) = n + t
  BY <1>2, <1>4 DEF alloc_get_next_desc, alloc_get_size
<1>6. SetSize(x, n, s) = SetLo(y, n + t, s)
  BY <1>1, <1>2 DEF SetSize
<1>7. WithFree(k) = s => alloc_set_free(x, n) = SetLo(y, n + t, s)
  BY <1>1, <1>2, <1>4, <1>5 DEF alloc_set_free
<1>8. WithoutFree(k) = s => alloc_clear_free(x, n) = SetLo(y, n + t, s)
  BY <1>1, <1>2, <1>4, <1>5 DEF alloc_clear_free
<1> QED
  BY <1>6, <1>7, <1>8

\* Back pointers depend on the cells of the list only.
LEMMA BackLinkedSame ==
    ASSUME NEW x, NEW y, NEW head, NEW S, BackLinked(x, head, S),
           \A c \in S : y.mem[c] = x.mem[c]
    PROVE  BackLinked(y, head, S)
BY DEF BackLinked

\* Blocks stay as they are when only descriptors and the first cells of other
\* chunks are written.
LEMMA FilledSame ==
    ASSUME NEW x, NEW y, NEW C, NEW e, NEW z, NEW B, Tiling(C, e, z), DOMAIN B \subseteq C,
           Filled(x, B, z),
           \A a \in Cells : \/ y.mem[a] = x.mem[a] \/ a \in C \ DOMAIN B \/ a = e - 8
                            \/ \E m \in C : a = m - 8 \/ a = m + z[m]
    PROVE  Filled(y, B, z)
<1> SUFFICES ASSUME NEW v \in DOMAIN B, NEW a \in Cells, v <= a, a < v + B[v]
             PROVE  y.mem[a] = x.mem[a]
  BY DEF Filled
<1>1. v \in C /\ z[v] \in Nat /\ v \in Nat /\ B[v] \in 0 .. z[v] /\ a \in Nat
  BY TileCells, CellIs DEF Filled
<1>2. a < v + z[v]
  BY <1>1
<1>3. (a \in C => a = v) /\ (\A m \in C : a # m - 8 /\ a # m + z[m]) /\ a # e - 8
  BY <1>1, <1>2, TileApart
<1> QED
  BY <1>3

\* Sizes matter for the blocks only.
LEMMA FilledSizes ==
    ASSUME NEW x, NEW B, NEW z, NEW y, Filled(x, B, z), \A v \in DOMAIN B : y[v] = z[v]
    PROVE  Filled(x, B, y)
BY DEF Filled

\* What the parts of the invariant say about the words of a chunk.
LEMMA ChunkWords ==
    ASSUME NEW x, NEW e, NEW C, NEW z, NEW F, NEW r, NEW P, NEW q, NEW B, NEW U,
           HeapOK(x, e, C, z, F, r, P, q, B, U)
    PROVE  /\ x \in States /\ Tiling(C, e, z) /\ Tagged(x, C, z, F)
           /\ F \subseteq C /\ P \subseteq C /\ DOMAIN B \subseteq C /\ U \subseteq C
           /\ \A n \in C :
                /\ x.mem[n - 8].hi = Tag(z[n], n \in F) /\ x.mem[n + z[n]].lo = Tag(z[n], n \in F)
                /\ alloc_get_size(x, n) = z[n] /\ NoFlags(x.mem[n - 8].hi) = z[n]
                /\ NoFlags(x.mem[n + z[n]].lo) = z[n]
                /\ IsFree(x.mem[n - 8].hi) <=> n \in F
                /\ IsFree(x.mem[n + z[n]].lo) <=> n \in F
                /\ n \notin F => x.mem[n - 8].hi = z[n]
<1>1. /\ x \in States /\ Tiling(C, e, z) /\ Tagged(x, C, z, F)
      /\ F \subseteq C /\ P \subseteq C /\ DOMAIN B \subseteq C /\ U \subseteq C
  BY DEF HeapOK, Owners
<1>2. ASSUME NEW n \in C
      PROVE /\ x.mem[n - 8].hi = Tag(z[n], n \in F) /\ x.mem[n + z[n]].lo = Tag(z[n], n \in F)
            /\ alloc_get_size(x, n) = z[n] /\ NoFlags(x.mem[n - 8].hi) = z[n]
            /\ NoFlags(x.mem[n + z[n]].lo) = z[n]
            /\ IsFree(x.mem[n - 8].hi) <=> n \in F
            /\ IsFree(x.mem[n + z[n]].lo) <=> n \in F
            /\ n \notin F => x.mem[n - 8].hi = z[n]
  <2>1. z[n] \in Nat /\ z[n] % 8 = 0 /\ (n \in F) \in BOOLEAN
    BY <1>1, TileCells
  <2>2. x.mem[n - 8].hi = Tag(z[n], n \in F) /\ x.mem[n + z[n]].lo = Tag(z[n], n \in F)
    BY <1>1, HeapNumbers DEF Tagged
  <2>3. NoFlags(Tag(z[n], n \in F)) = z[n] /\ IsFree(Tag(z[n], n \in F)) = (n \in F)
    BY <2>1, TagFacts
  <2>4. n \notin F => Tag(z[n], n \in F) = z[n]
    BY DEF Tag
  <2>5. alloc_get_size(x, n) = NoFlags(x.mem[n - 8].hi)
    BY HeapNumbers DEF alloc_get_size, alloc_get_desc
  <2> QED
    BY <2>2, <2>3, <2>4, <2>5
<1> QED
  BY <1>1, <1>2

\* An operation that leaves the page list, the pages and the last descriptor.
Quiet(x, y, P, e) ==
    /\ Rest(x, y) /\ \A n \in P : y.mem[n] = x.mem[n]
    /\ y.mem[e - 8].hi = x.mem[e - 8].hi

-----------------------------------------------------------------------------
(* free.                                                                   *)

\* v and w become one chunk after k, one of them, is unlinked.
Joins(x, y, C, z, t, v, w, k, u) ==
    /\ v \in C /\ w \in C /\ w = v + z[v] + 8 /\ ((k = v /\ u = w) \/ (k = w /\ u = v))
    /\ y = SetSize(alloc_node_unlink(x, k), v, z[v] + z[w] + 8)
    /\ t = [z EXCEPT ![v] = z[v] + z[w] + 8]

\* Of two neighbours one is free and the other between owners: the free one
\* is unlinked and they become one chunk.
LEMMA Join ==
    ASSUME NEW x, NEW e, NEW C, NEW z, NEW F, NEW r, NEW P, NEW q, NEW B, NEW u,
           HeapOK(x, e, C, z, F, r, P, q, B, {u}), NEW k \in F,
           NEW y, NEW t, NEW v, NEW w, Joins(x, y, C, z, t, v, w, k, u)
    PROVE  HeapOK(y, e, C \ {w}, t, F \ {k}, r, P, q, B, {v}) /\ Quiet(x, y, P, e)
<1> DEFINE s == z[v] + z[w] + 8
           a == alloc_node_unlink(x, k)
           G == F \ {k}
           D == C \ {w}
<1>j. /\ v \in C /\ w \in C /\ w = v + z[v] + 8 /\ ((k = v /\ u = w) \/ (k = w /\ u = v))
      /\ y = SetSize(a, v, s) /\ t = [z EXCEPT ![v] = s]
  BY DEF Joins
<1>1. /\ x \in States /\ Tiling(C, e, z) /\ Tagged(x, C, z, F)
      /\ F \subseteq C /\ P \subseteq C /\ DOMAIN B \subseteq C /\ u \in C
  BY ChunkWords
<1>2. /\ Linked(x, x.free_list, F, r) /\ BackLinked(x, x.free_list, F)
      /\ Linked(x, x.page_free_list, P, q) /\ Filled(x, B, z)
      /\ Owners(C, F, P, B, {u}) /\ Merged(F, z)
  BY DEF HeapOK
<1>3. /\ e \in Nat /\ e - 8 \in Cells /\ C \subseteq Cells /\ z \in [Cells -> Nat]
      /\ \A n \in C : /\ n \in Nat /\ n \in Cells /\ z[n] \in Nat /\ z[n] % 8 = 0
                      /\ n - 8 \in Cells /\ n + z[n] \in Cells /\ First <= n
  BY <1>1, TileCells
<1>4. /\ \A n \in C : n - 8 \notin C /\ n + z[n] \notin C
      /\ e - 8 \notin C
      /\ \A m, n \in C : m - 8 = n - 8 => m = n
      /\ \A m, n \in C : m + z[m] = n + z[n] => m = n
  BY <1>1, TileApart
<1>5. Tiling(D, e, t)
  BY <1>1, <1>j, TileJoin
<1>6. /\ Rest(x, a) /\ Linked(a, a.free_list, G, r) /\ BackLinked(a, a.free_list, G)
      /\ \A c \in Cells : c \notin G => a.mem[c] = x.mem[c]
  BY <1>1, <1>2, Unlink DEF Relinked
<1>7. a \in States
  BY <1>6 DEF Rest
<1>8. s \in Nat /\ s % 8 = 0 /\ v + s = w + z[w] /\ NoFlags(s) = s /\ Tag(s, FALSE) = s
  <2>0. z[v] \in Nat /\ z[w] \in Nat /\ z[v] % 8 = 0 /\ z[w] % 8 = 0 /\ v \in Nat
    BY <1>3, <1>j
  <2>1. s \in Nat /\ s % 8 = 0 /\ v + s = w + z[w]
    BY <1>j, <2>0
  <2>2. NoFlags(Tag(s, FALSE)) = s /\ Tag(s, FALSE) = s
    BY <2>1, TagFacts
  <2> QED
    BY <2>1, <2>2
<1>9. t \in [Cells -> Nat] /\ t[v] = s /\ \A n \in C : n # v => t[n] = z[n]
  BY <1>3, <1>8, <1>j
<1> HIDE DEF s, a
<1>10. v - 8 \in Cells /\ v + s \in Cells /\ v \in Nat
  BY <1>3, <1>8, <1>j
<1>11. /\ Rest(a, y) /\ y.free_list = a.free_list
       /\ \A c \in Cells : /\ y.mem[c].hi = IF c = v - 8 THEN s ELSE a.mem[c].hi
                           /\ y.mem[c].lo = IF c = v + s THEN s ELSE a.mem[c].lo
                           /\ c # v - 8 /\ c # v + s => y.mem[c] = a.mem[c]
  <2>1. Resized(a, y, v, s, s)
    BY <1>7, <1>j, <1>8, <1>10, SetSizeIs
  <2> QED
    BY <2>1 DEF Resized
<1>12. Rest(x, y)
  BY <1>6, <1>11 DEF Rest
<1>13. v \notin G /\ G \subseteq C /\ k \in C /\ v # w /\ w \notin G
       /\ u \notin F /\ u \notin P /\ u \notin DOMAIN B /\ k \notin P /\ k \notin DOMAIN B
  BY <1>j, <1>1, <1>2, <1>3 DEF Owners
<1>14. \A c \in C : y.mem[c] = a.mem[c]
  BY <1>j, <1>3, <1>4, <1>8, <1>11
<1>15. \A c \in C : c \notin G => y.mem[c] = x.mem[c]
  BY <1>j, <1>3, <1>6, <1>14
<1>16. Linked(y, y.free_list, G, r) /\ BackLinked(y, y.free_list, G)
  <2>1. \A c \in G : y.mem[c] = a.mem[c] /\ y.mem[c].hi = a.mem[c].hi
    BY <1>j, <1>13, <1>14
  <2>2. Linked(y, a.free_list, G, r)
    BY <1>j, <1>6, <2>1, LinkedSame
  <2>3. BackLinked(y, a.free_list, G)
    BY <1>j, <1>6, <2>1, BackLinkedSame
  <2> QED
    BY <1>j, <1>11, <2>2, <2>3
<1>17. \A n \in P : y.mem[n] = x.mem[n] /\ n \in C
  BY <1>j, <1>1, <1>2, <1>15 DEF Owners
<1>18. Linked(y, y.page_free_list, P, q)
  BY <1>j, <1>2, <1>12, <1>17, LinkedSame DEF Rest
<1>19. y.mem[e - 8].hi = x.mem[e - 8].hi
  <2>1. e - 8 # v - 8 /\ e - 8 \notin G
    BY <1>j, <1>1, <1>3, <1>4, <1>13, TileCells
  <2> QED
    BY <1>j, <1>3, <1>6, <1>11, <2>1
<1>20. Tagged(y, D, t, G)
  <2>1. y.mem[HEAP_START].lo = 0
    <3>1. HEAP_START \in Cells /\ HEAP_START \notin G /\ HEAP_START # v + s
      <4>1. HEAP_START \in Cells
        BY CellIs, HeapNumbers
      <4>2. HEAP_START \notin C
        BY <1>j, <1>3, HeapNumbers
      <4>3. HEAP_START # v + s
        BY <1>j, <1>3, <1>8, HeapNumbers
      <4> QED
        BY <1>j, <1>13, <4>1, <4>2, <4>3
    <3>2. x.mem[HEAP_START].lo = 0
      BY <1>j, <1>1 DEF Tagged
    <3> QED
      BY <1>j, <1>6, <1>11, <3>1, <3>2
  <2>2. ASSUME NEW n \in D
        PROVE y.mem[n - 8].hi = Tag(t[n], n \in G) /\ y.mem[n + t[n]].lo = Tag(t[n], n \in G)
    <3>1. CASE n = v
      <4>1. Tag(t[n], n \in G) = s /\ n + t[n] = v + s
        BY <1>j, <1>9, <1>13, <3>1 DEF Tag
      <4> QED
        BY <1>j, <1>10, <1>11, <3>1, <4>1
    <3>2. CASE n # v
      <4>1. t[n] = z[n] /\ (n \in G) = (n \in F)
        BY <1>j, <1>9, <1>13, <3>2
      <4>2. n - 8 # v - 8 /\ n + z[n] # v + s /\ n - 8 \notin G /\ n + z[n] \notin G
        BY <1>j, <1>3, <1>4, <1>8, <1>13, <3>2
      <4>3. x.mem[n - 8].hi = Tag(z[n], n \in F) /\ x.mem[n + z[n]].lo = Tag(z[n], n \in F)
        BY ChunkWords
      <4> QED
        BY <1>j, <1>3, <1>6, <1>11, <4>1, <4>2, <4>3
    <3> QED
      BY <3>1, <3>2
  <2> QED
    BY <2>1, <2>2, HeapNumbers DEF Tagged
<1>21. Filled(y, B, t)
  <2>1. \A c \in Cells : \/ y.mem[c] = x.mem[c] \/ c \in C \ DOMAIN B \/ c = e - 8
                         \/ \E m \in C : c = m - 8 \/ c = m + z[m]
    <3> SUFFICES ASSUME NEW c \in Cells, y.mem[c] # x.mem[c], c # v - 8, c # w + z[w]
                 PROVE  c \in C \ DOMAIN B
      BY <1>j
    <3>1. c \in G
      BY <1>j, <1>6, <1>8, <1>11
    <3> QED
      BY <1>j, <1>2, <1>13, <3>1 DEF Owners
  <2>2. Filled(y, B, z)
    BY <1>j, <1>1, <1>2, <2>1, FilledSame
  <2>3. v \notin DOMAIN B
    BY <1>j, <1>13
  <2>4. \A n \in DOMAIN B : t[n] = z[n]
    BY <1>j, <1>1, <1>9, <2>3
  <2> QED
    BY <2>2, <2>4, FilledSizes
<1>22. Owners(D, G, P, B, {v})
  BY <1>j, <1>2, <1>13 DEF Owners
<1>23. Merged(G, t)
  BY <1>j, <1>2, <1>9, <1>13 DEF Merged
<1>24. HeapOK(y, e, D, t, G, r, P, q, B, {v})
  BY <1>j, <1>5, <1>12, <1>16, <1>18, <1>20, <1>21, <1>22, <1>23 DEF HeapOK, Rest
<1>25. Quiet(x, y, P, e)
  BY <1>j, <1>12, <1>17, <1>19 DEF Quiet
<1> QED
  BY <1>j, <1>24, <1>25

\* No chunk becomes free; blocks, page nodes and free chunks keep their sizes.
Kept(z, t, F, G, P, B) ==
    G \subseteq F /\ \A n \in G \cup P \cup DOMAIN B : t[n] = z[n]

\* free combines its chunk with the next one if that is free.
LEMMA MergeNextOK ==
    ASSUME NEW x, NEW e, NEW C, NEW z, NEW F, NEW r, NEW P, NEW q, NEW B, NEW v,
           HeapOK(x, e, C, z, F, r, P, q, B, {v}),
           v + z[v] + 8 = e => ~IsFree(x.mem[e - 8].hi)
    PROVE  LET y == MergeNext(x, v)
           IN  \E D, t, G : /\ HeapOK(y, e, D, t, G, r, P, q, B, {v})
                            /\ Quiet(x, y, P, e) /\ Kept(z, t, F, G, P, B)
                            /\ v + t[v] + 8 \notin G
<1> DEFINE y == MergeNext(x, v)
           w == v + z[v] + 8
           next == v + z[v]
<1>1. /\ x \in States /\ Tiling(C, e, z)
      /\ F \subseteq C /\ P \subseteq C /\ DOMAIN B \subseteq C /\ v \in C
      /\ \A n \in C : /\ alloc_get_size(x, n) = z[n] /\ NoFlags(x.mem[n - 8].hi) = z[n]
                      /\ IsFree(x.mem[n - 8].hi) <=> n \in F
                      /\ n \notin F => x.mem[n - 8].hi = z[n]
  BY ChunkWords
<1>2. /\ e \in Nat /\ C \subseteq Cells
      /\ \A n \in C : /\ n \in Nat /\ z[n] \in Nat /\ n - 8 \in Cells /\ n + z[n] \in Cells
                      /\ n + z[n] + 8 \in C \cup {e}
  BY <1>1, TileCells
<1>3. alloc_get_next_desc(x, v) = next /\ alloc_get_node(next) = w /\ w - 8 = next
  BY <1>1, <1>2, HeapNumbers DEF alloc_get_next_desc, alloc_get_node
<1>4. v \notin F /\ v \notin P /\ v \notin DOMAIN B
  BY DEF HeapOK, Owners
<1>5. IsFree(x.mem[next].hi) <=> w \in F
  <2>1. CASE w \in C
    BY <1>1, <1>3, <2>1
  <2>2. CASE w \notin C
    <3>1. w = e /\ next = e - 8
      BY <1>1, <1>2, <2>2
    <3> QED
      BY <1>1, <2>2, <3>1
  <2> QED
    BY <2>1, <2>2
<1>6. CASE w \notin F
  <2>1. y = x
    BY <1>3, <1>5, <1>6 DEF MergeNext
  <2>2. Quiet(x, x, P, e)
    BY <1>1 DEF Quiet, Rest
  <2> QED
    BY <1>6, <2>1, <2>2 DEF Kept
<1>7. CASE w \in F
  <2> DEFINE a == alloc_node_unlink(x, w)
             s == z[v] + z[w] + 8
             t == [z EXCEPT ![v] = s]
  <2>1. \A c \in Cells : c \notin F \ {w} => a.mem[c] = x.mem[c]
    <3>1. x \in States /\ Linked(x, x.free_list, F, r) /\ BackLinked(x, x.free_list, F)
      BY DEF HeapOK
    <3>2. Relinked(x, a, F \ {w}, r)
      BY <1>7, <3>1, Unlink
    <3> QED
      BY <3>2 DEF Relinked
  <2> HIDE DEF a
  <2>2. w \in C /\ v - 8 \notin C /\ next \notin C
    BY <1>1, <1>7, TileApart
  <2>3. a.mem[v - 8].hi = z[v] /\ NoFlags(a.mem[next].hi) = z[w]
    BY <1>1, <1>2, <1>3, <1>4, <2>1, <2>2
  <2>4. JoinNext(a, v, next) = SetSize(a, v, s)
    BY <2>3, HeapNumbers DEF JoinNext, alloc_get_desc
  <2>5. y = SetSize(a, v, s)
    BY <1>3, <1>5, <1>7, <2>4 DEF MergeNext, a
  <2>6. HeapOK(y, e, C \ {w}, t, F \ {w}, r, P, q, B, {v}) /\ Quiet(x, y, P, e)
    <3>1. Joins(x, y, C, z, t, v, w, w, v)
      BY <1>1, <2>2, <2>5 DEF Joins, a
    <3> HIDE DEF t, w, y
    <3> QED
      BY <1>7, <3>1, Join
  <2> HIDE DEF y
  <2>7. z \in [Cells -> Nat] /\ v \in Cells /\ t[v] = s /\ \A n \in C : n # v => t[n] = z[n]
    BY <1>1, <1>2, TileCells
  <2> HIDE DEF t
  <2>8. Kept(z, t, F, F \ {w}, P, B)
    BY <1>1, <1>4, <2>7 DEF Kept
  <2>9. v + t[v] + 8 = w + z[w] + 8
    BY <1>1, <1>2, <2>2, <2>7
  <2>10. w + z[w] + 8 \notin F
    BY <1>7, HeapNumbers DEF HeapOK, Merged
  <2> QED
    BY <2>6, <2>8, <2>9, <2>10 DEF y
<1> QED
  BY <1>6, <1>7

\* y is x with the chunk u between owners, which has no free neighbour.
MergedTo(x, y, e, z, F, r, P, q, B, u) ==
    \E D, t, G : /\ HeapOK(y, e, D, t, G, r, P, q, B, {u})
                 /\ Quiet(x, y, P, e) /\ Kept(z, t, F, G, P, B)
                 /\ u + t[u] + 8 \notin G
                 /\ \A m \in G : m + t[m] + 8 # u

\* free combines its chunk with the previous one if that is free.
LEMMA MergePrevOK ==
    ASSUME NEW x, NEW e, NEW C, NEW z, NEW F, NEW r, NEW P, NEW q, NEW B, NEW v,
           HeapOK(x, e, C, z, F, r, P, q, B, {v}), v + z[v] + 8 \notin F
    PROVE  MergedTo(x, MergePrev(x, v), e, z, F, r, P, q, B, MergedAt(x, v))
<1> DEFINE y == MergePrev(x, v)
           u == MergedAt(x, v)
<1>1. /\ x \in States /\ Tiling(C, e, z) /\ Tagged(x, C, z, F)
      /\ F \subseteq C /\ P \subseteq C /\ DOMAIN B \subseteq C /\ v \in C
      /\ \A n \in C : /\ alloc_get_size(x, n) = z[n] /\ NoFlags(x.mem[n - 8].hi) = z[n]
                      /\ NoFlags(x.mem[n + z[n]].lo) = z[n]
                      /\ IsFree(x.mem[n + z[n]].lo) <=> n \in F
                      /\ n \notin F => x.mem[n - 8].hi = z[n]
  BY ChunkWords
<1>2. /\ e \in Nat /\ C \subseteq Cells
      /\ \A n \in C : /\ n \in Nat /\ z[n] \in Nat /\ n - 8 \in Cells /\ n + z[n] \in Cells
                      /\ n + z[n] + 8 \in C \cup {e} /\ z[n] >= 8
  BY <1>1, TileCells
<1>3. v \notin F /\ v \notin P /\ v \notin DOMAIN B
  BY DEF HeapOK, Owners
<1>4. \A m, n \in C : m + z[m] = n + z[n] => m = n
  BY <1>1, TileApart
<1>5. v = First \/ \E m \in C : m + z[m] + 8 = v
  BY <1>1, HeapNumbers DEF Tiling
<1>6. u = IF IsFree(x.mem[v - 8].lo) THEN alloc_get_node(alloc_get_prev_desc(x, v)) ELSE v
  BY HeapNumbers DEF MergedAt, alloc_get_desc
<1>7. CASE ~\E m \in F : m + z[m] + 8 = v
  <2>1. ~IsFree(x.mem[v - 8].lo)
    <3>1. CASE v = First
      <4>1. v - 8 = HEAP_START /\ x.mem[HEAP_START].lo = 0
        BY <1>1, <3>1, HeapNumbers DEF Tagged
      <4> QED
        BY <4>1 DEF IsFree, KM_CHUNK_FREE
    <3>2. CASE v # First
      <4>1. PICK m \in C : m + z[m] + 8 = v
        BY <1>5, <3>2
      <4>2. m + z[m] = v - 8
        BY <1>2, <4>1
      <4> QED
        BY <1>1, <1>7, <4>1, <4>2
    <3> QED
      BY <3>1, <3>2
  <2>2. u = v
    BY <1>6, <2>1
  <2>3. y = x
    BY <2>2 DEF MergePrev
  <2>4. Quiet(x, x, P, e)
    BY <1>1 DEF Quiet, Rest
  <2> HIDE DEF y, u
  <2> QED
    BY <1>7, <2>2, <2>3, <2>4 DEF Kept, MergedTo, y, u
<1>8. CASE \E m \in F : m + z[m] + 8 = v
  <2>1. PICK m \in F : m + z[m] + 8 = v
    BY <1>8
  <2>2. m \in C /\ m + z[m] = v - 8 /\ m \in Nat /\ z[m] \in Nat /\ m # v
    BY <1>1, <1>2, <2>1
  <2>3. IsFree(x.mem[v - 8].lo) /\ NoFlags(x.mem[v - 8].lo) = z[m]
    BY <1>1, <2>1, <2>2
  <2>4. u = m
    <3>1. alloc_get_node(alloc_get_prev_desc(x, v)) = v - z[m] - 8
      BY <1>1, <1>2, <2>2, <2>3, HeapNumbers
      DEF alloc_get_node, alloc_get_prev_desc, alloc_get_size_prev, alloc_get_desc
    <3> QED
      BY <1>1, <1>2, <1>6, <2>2, <2>3, <3>1
  <2> DEFINE a == alloc_node_unlink(x, m)
             s == z[m] + z[v] + 8
             t == [z EXCEPT ![m] = s]
  <2>5. \A c \in Cells : c \notin F \ {m} => a.mem[c] = x.mem[c]
    <3>1. x \in States /\ Linked(x, x.free_list, F, r) /\ BackLinked(x, x.free_list, F)
      BY DEF HeapOK
    <3>2. Relinked(x, a, F \ {m}, r)
      BY <2>1, <3>1, Unlink
    <3> QED
      BY <3>2 DEF Relinked
  <2>6. y = JoinPrev(a, v, m)
    BY <2>2, <2>4 DEF MergePrev
  <2> HIDE DEF a, y, u
  <2>7. a.mem[v - 8] = x.mem[v - 8]
    <3>1. v - 8 \notin C
      BY <1>1, TileApart
    <3> QED
      BY <1>1, <1>2, <2>5, <3>1
  <2>8. JoinPrev(a, v, m) = SetSize(a, m, s)
    BY <1>1, <1>3, <2>3, <2>7, HeapNumbers
    DEF JoinPrev, alloc_get_size_prev, alloc_get_size, alloc_get_desc
  <2>9. HeapOK(y, e, C \ {v}, t, F \ {m}, r, P, q, B, {m}) /\ Quiet(x, y, P, e)
    <3>1. Joins(x, y, C, z, t, m, v, m, v)
      BY <1>1, <2>1, <2>2, <2>6, <2>8 DEF Joins, a
    <3> HIDE DEF t
    <3> QED
      BY <2>1, <3>1, Join
  <2>10. z \in [Cells -> Nat] /\ m \in Cells /\ t[m] = s /\ \A n \in C : n # m => t[n] = z[n]
    BY <1>1, <1>2, <2>2, TileCells
  <2> HIDE DEF t
  <2>11. m \notin P /\ m \notin DOMAIN B
    BY <2>1 DEF HeapOK, Owners
  <2>12. Kept(z, t, F, F \ {m}, P, B)
    BY <1>1, <2>10, <2>11 DEF Kept
  <2>13. m + t[m] + 8 = v + z[v] + 8
    BY <1>1, <1>2, <2>1, <2>2, <2>10
  <2>14. ASSUME NEW k \in F \ {m} PROVE k + t[k] + 8 # m
    <3>1. k + z[k] + 8 # m
      BY <2>1, HeapNumbers DEF HeapOK, Merged
    <3> QED
      BY <1>1, <2>10, <3>1
  <2>15. HeapOK(y, e, C \ {v}, t, F \ {m}, r, P, q, B, {u})
    BY <2>4, <2>9
  <2> QED
    BY <2>4, <2>9, <2>12, <2>13, <2>14, <2>15 DEF MergedTo, y, u
<1> QED
  BY <1>7, <1>8

\* The chunk v goes to the free list: its neighbours are in use.
LEMMA AddFreeOK ==
    ASSUME NEW x, NEW e, NEW C, NEW z, NEW F, NEW r, NEW P, NEW q, NEW B, NEW v,
           HeapOK(x, e, C, z, F, r, P, q, B, {v}), v + z[v] + 8 \notin F,
           \A m \in F : m + z[m] + 8 # v
    PROVE  LET y == AddFree(x, v)
           IN  /\ HeapOK(y, e, C, z, F \cup {v}, Ahead(r, x.free_list, v), P, q, B, {})
               /\ Quiet(x, y, P, e)
<1> DEFINE s == Tag(z[v], TRUE)
           a == SetSize(x, v, s)
           y == alloc_node_add(a, v)
           G == F \cup {v}
           u == Ahead(r, x.free_list, v)
<1>1. /\ x \in States /\ Tiling(C, e, z) /\ Tagged(x, C, z, F)
      /\ F \subseteq C /\ P \subseteq C /\ DOMAIN B \subseteq C /\ v \in C
      /\ \A n \in C : /\ x.mem[n - 8].hi = Tag(z[n], n \in F)
                      /\ x.mem[n + z[n]].lo = Tag(z[n], n \in F)
  BY ChunkWords
<1>2. /\ Linked(x, x.free_list, F, r) /\ BackLinked(x, x.free_list, F)
      /\ Linked(x, x.page_free_list, P, q) /\ Filled(x, B, z)
      /\ Owners(C, F, P, B, {v}) /\ Merged(F, z)
  BY DEF HeapOK
<1>3. /\ e \in Nat /\ e - 8 \in Cells /\ C \subseteq Cells /\ z \in [Cells -> Nat]
      /\ \A n \in C : /\ n \in Nat /\ n \in Cells /\ z[n] \in Nat /\ z[n] % 8 = 0
                      /\ n - 8 \in Cells /\ n + z[n] \in Cells /\ First <= n /\ n < e
  BY <1>1, TileCells
<1>4. /\ \A n \in C : n - 8 \notin C /\ n + z[n] \notin C
      /\ e - 8 \notin C
      /\ \A m, n \in C : m - 8 = n - 8 => m = n
      /\ \A m, n \in C : m + z[m] = n + z[n] => m = n
  BY <1>1, TileApart
<1>5. v \notin F /\ v \notin P /\ v \notin DOMAIN B
  BY <1>2 DEF Owners
<1>6. z[v] \in Nat /\ z[v] % 8 = 0
  BY <1>1, <1>3
<1>7. s \in Nat /\ NoFlags(s) = z[v] /\ WithFree(Tag(z[v], FALSE)) = s
  BY <1>6, TagFacts
<1>8. AddFree(x, v) = y
  <2>1. x.mem[v - 8].hi = Tag(z[v], FALSE) /\ x.mem[v + z[v]].lo = Tag(z[v], FALSE)
    BY <1>1, <1>5 DEF Tag
  <2>2. Tag(z[v], FALSE) \in Nat
    BY <1>6, TagFacts
  <2> HIDE DEF s
  <2>3. alloc_set_free(x, v) = SetSize(x, v, s)
    BY <1>1, <1>3, <1>6, <1>7, <2>1, <2>2, FlagIs
  <2> QED
    BY <2>3 DEF AddFree
<1> HIDE DEF s
<1>9. Resized(x, a, v, s, z[v])
  BY <1>1, <1>3, <1>6, <1>7, SetSizeIs
<1> HIDE DEF a
<1>10. /\ Rest(x, a) /\ a \in States /\ a.free_list = x.free_list
       /\ \A c \in Cells : /\ a.mem[c].hi = IF c = v - 8 THEN s ELSE x.mem[c].hi
                           /\ a.mem[c].lo = IF c = v + z[v] THEN s ELSE x.mem[c].lo
                           /\ c # v - 8 /\ c # v + z[v] => a.mem[c] = x.mem[c]
  BY <1>9 DEF Resized, Rest
<1>11. \A c \in C : a.mem[c] = x.mem[c]
  BY <1>1, <1>3, <1>4, <1>10
<1>12. Linked(a, a.free_list, F, r) /\ BackLinked(a, a.free_list, F)
  <2>1. \A c \in F : a.mem[c] = x.mem[c] /\ a.mem[c].hi = x.mem[c].hi
    BY <1>1, <1>11
  <2>2. Linked(a, x.free_list, F, r)
    BY <1>2, <2>1, LinkedSame
  <2>3. BackLinked(a, x.free_list, F)
    BY <1>2, <2>1, BackLinkedSame
  <2> QED
    BY <1>10, <2>2, <2>3
<1>13. Relinked(a, y, G, u)
  BY <1>1, <1>3, <1>5, <1>10, <1>12, AddNode
<1> HIDE DEF y, u
<1>14. /\ Rest(a, y) /\ Linked(y, y.free_list, G, u) /\ BackLinked(y, y.free_list, G)
       /\ \A c \in Cells : c \notin G => y.mem[c] = a.mem[c]
  BY <1>13 DEF Relinked
<1>15. Rest(x, y)
  BY <1>10, <1>14 DEF Rest
<1>16. \A n \in P : y.mem[n] = x.mem[n] /\ y.mem[n].hi = x.mem[n].hi
  BY <1>1, <1>2, <1>3, <1>5, <1>11, <1>14 DEF Owners
<1>17. Linked(y, y.page_free_list, P, q)
  BY <1>2, <1>15, <1>16, LinkedSame DEF Rest
<1>18. y.mem[e - 8].hi = x.mem[e - 8].hi
  <2>1. e - 8 # v - 8 /\ e - 8 \notin G
    BY <1>1, <1>3, <1>4
  <2> QED
    BY <1>3, <1>10, <1>14, <2>1
<1>19. Tagged(y, C, z, G)
  <2>1. y.mem[HEAP_START].lo = 0
    <3>1. HEAP_START \in Cells
      BY CellIs, HeapNumbers
    <3>2. HEAP_START \notin C
      BY <1>3, HeapNumbers
    <3>3. HEAP_START # v + z[v]
      BY <1>1, <1>3, HeapNumbers
    <3>4. x.mem[HEAP_START].lo = 0
      BY <1>1 DEF Tagged
    <3> QED
      BY <1>1, <1>10, <1>14, <3>1, <3>2, <3>3, <3>4
  <2>2. ASSUME NEW n \in C
        PROVE y.mem[n - 8].hi = Tag(z[n], n \in G) /\ y.mem[n + z[n]].lo = Tag(z[n], n \in G)
    <3>1. n - 8 \notin G /\ n + z[n] \notin G /\ n - 8 \in Cells /\ n + z[n] \in Cells
      BY <1>1, <1>3, <1>4
    <3>2. y.mem[n - 8].hi = a.mem[n - 8].hi /\ y.mem[n + z[n]].lo = a.mem[n + z[n]].lo
      BY <1>14, <3>1
    <3>3. CASE n = v
      <4>1. Tag(z[n], n \in G) = s
        BY <3>3 DEF s
      <4> QED
        BY <1>10, <3>1, <3>2, <3>3, <4>1
    <3>4. CASE n # v
      <4>1. n - 8 # v - 8 /\ n + z[n] # v + z[v] /\ (n \in G) = (n \in F)
        BY <1>1, <1>4, <3>4
      <4> QED
        BY <1>1, <1>10, <3>1, <3>2, <4>1
    <3> QED
      BY <3>3, <3>4
  <2> QED
    BY <2>1, <2>2, HeapNumbers DEF Tagged
<1>20. Filled(y, B, z)
  <2>1. \A c \in Cells : \/ y.mem[c] = x.mem[c] \/ c \in C \ DOMAIN B \/ c = e - 8
                         \/ \E m \in C : c = m - 8 \/ c = m + z[m]
    <3> SUFFICES ASSUME NEW c \in Cells, y.mem[c] # x.mem[c], c # v - 8, c # v + z[v]
                 PROVE  c \in C \ DOMAIN B
      BY <1>1
    <3>1. c \in G
      BY <1>10, <1>14
    <3> QED
      BY <1>1, <1>2, <1>5, <3>1 DEF Owners
  <2> QED
    BY <1>1, <1>2, <2>1, FilledSame
<1>21. Owners(C, G, P, B, {})
  BY <1>2, <1>5 DEF Owners
<1>22. Merged(G, z)
  <2> SUFFICES ASSUME NEW n \in G PROVE n + z[n] + 8 \notin G
    BY HeapNumbers DEF Merged
  <2>1. CASE n = v
    BY <1>1, <1>3, <2>1
  <2>2. CASE n # v
    BY <1>2, <2>2, HeapNumbers DEF Merged
  <2> QED
    BY <2>1, <2>2
<1>23. HeapOK(y, e, C, z, G, u, P, q, B, {})
  BY <1>1, <1>14, <1>15, <1>17, <1>19, <1>20, <1>21, <1>22 DEF HeapOK, Rest
<1>24. Quiet(x, y, P, e)
  BY <1>15, <1>16, <1>18 DEF Quiet
<1> QED
  BY <1>8, <1>23, <1>24 DEF u

\* Both merges: the chunk v, between owners, becomes the chunk u, which has no
\* free neighbour.
LEMMA MergeOK ==
    ASSUME NEW x, NEW e, NEW C, NEW z, NEW F, NEW r, NEW P, NEW q, NEW B, NEW v,
           HeapOK(x, e, C, z, F, r, P, q, B, {v}),
           v + z[v] + 8 = e => ~IsFree(x.mem[e - 8].hi)
    PROVE  MergedTo(x, MergePrev(MergeNext(x, v), v), e, z, F, r, P, q, B,
                    MergedAt(MergeNext(x, v), v))
<1> DEFINE a == MergeNext(x, v)
           y == MergePrev(a, v)
           u == MergedAt(a, v)
<1>1. PICK D, t, G : /\ HeapOK(a, e, D, t, G, r, P, q, B, {v})
                     /\ Quiet(x, a, P, e) /\ Kept(z, t, F, G, P, B)
                     /\ v + t[v] + 8 \notin G
  BY MergeNextOK
<1> HIDE DEF a
<1>2. MergedTo(a, y, e, t, G, r, P, q, B, u)
  BY <1>1, MergePrevOK
<1> HIDE DEF y, u
<1>3. PICK C2, z2, F2 : /\ HeapOK(y, e, C2, z2, F2, r, P, q, B, {u})
                        /\ Quiet(a, y, P, e) /\ Kept(t, z2, G, F2, P, B)
                        /\ u + z2[u] + 8 \notin F2
                        /\ \A m \in F2 : m + z2[m] + 8 # u
  BY <1>2 DEF MergedTo
<1>4. Quiet(x, y, P, e) /\ Kept(z, z2, F, F2, P, B)
  BY <1>1, <1>3 DEF Quiet, Rest, Kept
<1>5. MergedTo(x, y, e, z, F, r, P, q, B, u)
  BY <1>3, <1>4 DEF MergedTo
<1> QED
  BY <1>5 DEF a, y, u

\* free of a chunk between owners while alloc extends the heap.
Inner(x, e, P, B) ==
    \E C, z, F, r, q : HeapOK(x, e, C, z, F, r, P, q, B, {}) /\ EndTag(x, C, e, z, F)

\* Blocks keep the sizes their descriptors say.
SameSizes(x, y, B) == \A n \in DOMAIN B : alloc_get_size(y, n) = alloc_get_size(x, n)

\* The last descriptor does not look like a free chunk.
LEMMA EndOf ==
    ASSUME NEW x, NEW e, NEW C, NEW z, NEW F, NEW r, NEW P, NEW q, NEW B, NEW v,
           HeapOK(x, e, C, z, F, r, P, q, B, {v}), EndTag(x, C, e, z, F)
    PROVE  v + z[v] + 8 = e => ~IsFree(x.mem[e - 8].hi)
<1>1. v \in C \ F
  BY DEF HeapOK, Owners
<1> QED
  BY <1>1, HeapNumbers DEF EndTag

\* The kfree inside page_new while alloc extends the heap: the end to come is
\* behind the chunks, so the chunk is added to the free list.
LEMMA FreeInsideOK ==
    ASSUME NEW x, NEW e, NEW C, NEW z, NEW F, NEW r, NEW P, NEW q, NEW B, NEW v,
           HeapOK(x, e, C, z, F, r, P, q, B, {v}), EndTag(x, C, e, z, F), e < x.end
    PROVE  LET y == FreeInside(x, v)
           IN  Inner(y, e, P, B) /\ Quiet(x, y, P, e) /\ SameSizes(x, y, B)
<1> DEFINE u == MergedAt(MergeNext(x, v), v)
           a == MergePrev(MergeNext(x, v), v)
           y == AddFree(a, u)
<1>1. MergedTo(x, a, e, z, F, r, P, q, B, u)
  BY EndOf, MergeOK
<1>2. FreeInside(x, v) = LeaveInside(a, u)
  BY DEF FreeInside
<1> HIDE DEF a, u
<1>3. PICK D, t, G : /\ HeapOK(a, e, D, t, G, r, P, q, B, {u})
                     /\ Quiet(x, a, P, e) /\ Kept(z, t, F, G, P, B)
                     /\ u + t[u] + 8 \notin G
                     /\ \A m \in G : m + t[m] + 8 # u
  BY <1>1 DEF MergedTo
<1>4. /\ Tiling(D, e, t) /\ u \in D /\ DOMAIN B \subseteq D /\ DOMAIN B \subseteq C
      /\ \A n \in D : alloc_get_size(a, n) = t[n]
      /\ \A n \in C : alloc_get_size(x, n) = z[n]
  BY <1>3, ChunkWords
<1>5. ~AtHeapEnd(a, u)
  <2>1. u + t[u] + 8 <= e /\ e \in Nat /\ u \in Nat /\ t[u] \in Nat
    BY <1>4, TileCells
  <2>2. a.end = x.end /\ x \in States
    BY <1>3, ChunkWords DEF Quiet, Rest
  <2>3. x.end \in Nat
    BY <2>2, StateWords
  <2> QED
    BY <1>4, <2>1, <2>2, <2>3, HeapNumbers DEF AtHeapEnd
<1>6. FreeInside(x, v) = y
  BY <1>2, <1>5 DEF LeaveInside
<1>7. /\ HeapOK(y, e, D, t, G \cup {u}, Ahead(r, a.free_list, u), P, q, B, {})
      /\ Quiet(a, y, P, e)
  BY <1>3, AddFreeOK
<1> HIDE DEF y
<1>8. Quiet(x, y, P, e)
  BY <1>3, <1>7 DEF Quiet, Rest
<1>9. EndTag(y, D, e, t, G \cup {u})
  <2>1. Owners(C, F, P, B, {v}) /\ Owners(D, G \cup {u}, P, B, {})
    BY <1>7 DEF HeapOK
  <2>2. y.mem[e - 8].hi = x.mem[e - 8].hi
    BY <1>8 DEF Quiet
  <2>3. \A n \in P \cup DOMAIN B : t[n] = z[n]
    BY <1>3 DEF Kept
  <2>4. \A n \in D \ (G \cup {u}) : n \in C \ F /\ t[n] = z[n]
    BY <2>1, <2>3 DEF Owners
  <2> QED
    BY <2>2, <2>4, HeapNumbers DEF EndTag
<1>10. Inner(y, e, P, B)
  BY <1>7, <1>9 DEF Inner
<1>11. SameSizes(x, y, B)
  <2>1. \A n \in D : alloc_get_size(y, n) = t[n]
    BY <1>7, ChunkWords
  <2> QED
    BY <1>3, <1>4, <2>1 DEF SameSizes, Kept
<1> QED
  BY <1>6, <1>8, <1>10, <1>11

\* Between two operations.
Whole(x, P, B) ==
    \E C, z, F, r, q : /\ HeapOK(x, x.end, C, z, F, r, P, q, B, {})
                       /\ Settled(x, x.end, C, z, F)

\* Only memory, the free list and the end of the heap may differ.
RestButEnd(x, y, P) ==
    /\ y \in States /\ y.page_free_list = x.page_free_list
    /\ y.heap_end_pma = x.heap_end_pma /\ y.pte = x.pte
    /\ y.first_run = x.first_run /\ y.nested = x.nested
    /\ \A n \in P : y.mem[n] = x.mem[n]

\* The last chunk is given up: the heap ends where it began.
LEMMA CutOK ==
    ASSUME NEW x, NEW D, NEW t, NEW G, NEW r, NEW P, NEW q, NEW B, NEW u,
           HeapOK(x, x.end, D, t, G, r, P, q, B, {u}),
           \A m \in G : m + t[m] + 8 # u, u + t[u] + 8 = x.end
    PROVE  Whole(SetEnd(x, u), P, B) /\ RestButEnd(x, SetEnd(x, u), P)
<1> DEFINE y == SetEnd(x, u)
           C == D \ {u}
<1>1. /\ x \in States /\ Tiling(D, x.end, t) /\ Tagged(x, D, t, G)
      /\ G \subseteq D /\ P \subseteq D /\ DOMAIN B \subseteq D /\ u \in D
      /\ \A n \in D : IsFree(x.mem[n - 8].hi) <=> n \in G
  BY ChunkWords
<1>2. /\ Linked(x, x.free_list, G, r) /\ BackLinked(x, x.free_list, G)
      /\ Linked(x, x.page_free_list, P, q) /\ Filled(x, B, t)
      /\ Owners(D, G, P, B, {u}) /\ Merged(G, t)
  BY DEF HeapOK
<1>3. u \in Nat /\ HEAP_START <= u /\ u <= HEAP_LIMIT
  BY <1>1, TileCells, HeapNumbers
<1>4. /\ y \in States /\ y.mem = x.mem /\ y.free_list = x.free_list /\ y.end = u
      /\ y.page_free_list = x.page_free_list /\ y.heap_end_pma = x.heap_end_pma
      /\ y.pte = x.pte /\ y.first_run = x.first_run /\ y.nested = x.nested
  BY <1>1, <1>3, HeapNumbers DEF SetEnd, States
<1> HIDE DEF y
<1>5. Tiling(C, u, t)
  BY <1>1, TileCut
<1>6. Tagged(y, C, t, G)
  BY <1>1, <1>4 DEF Tagged
<1>7. /\ Linked(y, y.free_list, G, r) /\ BackLinked(y, y.free_list, G)
      /\ Linked(y, y.page_free_list, P, q) /\ Filled(y, B, t)
  BY <1>2, <1>4 DEF Linked, BackLinked, Filled
<1>8. Owners(C, G, P, B, {})
  BY <1>2 DEF Owners
<1>9. HeapOK(y, u, C, t, G, r, P, q, B, {})
  BY <1>2, <1>4, <1>5, <1>6, <1>7, <1>8 DEF HeapOK
<1>10. u \notin G
  BY <1>2 DEF Owners
<1>11. ~IsFree(y.mem[u - 8].hi)
  BY <1>1, <1>4, <1>10
<1>12. Settled(y, u, C, t, G)
  BY <1>4, <1>11, HeapNumbers DEF Settled, EndTag
<1>13. Whole(y, P, B)
  BY <1>4, <1>9, <1>12 DEF Whole
<1>14. RestButEnd(x, y, P)
  BY <1>4 DEF RestButEnd
<1> QED
  BY <1>13, <1>14 DEF y

\* A loop over no page changes nothing.
LEMMA FreeNoPages ==
    ASSUME NEW x, NEW v \in Int, EndPage(x) \in Int, EndPage(x) < v
    PROVE  FreePages(x, v) = x
<1> DEFINE page == EndPage(x)
           n == IF page < v THEN 0 ELSE (page - v) \div PAGE_SIZE + 1
           Loop(f) == f = [k \in 0 .. n |-> IF k = 0 THEN x
                                            ELSE page_free(f[k - 1], page - (k - 1) * PAGE_SIZE)]
           g == [k \in 0 .. 0 |-> x]
<1>1. n = 0
  OBVIOUS
<1>2. Loop(g)
  <2>1. \A k \in 0 .. 0 : g[k] = IF k = 0 THEN x
                                 ELSE page_free(g[k - 1], page - (k - 1) * PAGE_SIZE)
    OBVIOUS
  <2> QED
    BY <1>1, <2>1
<1>3. FreePages(x, v) = (CHOOSE f : Loop(f))[n]
  BY DEF FreePages
<1> DEFINE f == CHOOSE f : Loop(f)
<1>4. Loop(f)
  <2> HIDE DEF g, Loop
  <2> QED
    BY <1>2
<1> HIDE DEF f
<1>5. f[0] = x
  BY <1>1, <1>4
<1> QED
  BY <1>1, <1>3, <1>5 DEF f

\* A block of the kernel ends the heap.
LastBlock(x, B) == \E n \in DOMAIN B : n + alloc_get_size(x, n) + 8 = x.end

\* Then no chunk that is freed does.
LEMMA NotLast ==
    ASSUME NEW x, NEW C, NEW z, NEW F, NEW r, NEW P, NEW q, NEW B, NEW v,
           HeapOK(x, x.end, C, z, F, r, P, q, B, {v}), Settled(x, x.end, C, z, F),
           LastBlock(x, B)
    PROVE  ~AtHeapEnd(MergePrev(MergeNext(x, v), v), MergedAt(MergeNext(x, v), v))
<1> DEFINE u == MergedAt(MergeNext(x, v), v)
           a == MergePrev(MergeNext(x, v), v)
<1>1. EndTag(x, C, x.end, z, F)
  BY DEF Settled
<1>2. MergedTo(x, a, x.end, z, F, r, P, q, B, u)
  BY <1>1, EndOf, MergeOK
<1> HIDE DEF a, u
<1>3. PICK D, t, G : /\ HeapOK(a, x.end, D, t, G, r, P, q, B, {u})
                     /\ Quiet(x, a, P, x.end) /\ Kept(z, t, F, G, P, B)
  BY <1>2 DEF MergedTo
<1>4. /\ Tiling(D, x.end, t) /\ u \in D /\ DOMAIN B \subseteq D /\ DOMAIN B \subseteq C
      /\ \A n \in D : alloc_get_size(a, n) = t[n]
      /\ \A n \in C : alloc_get_size(x, n) = z[n]
  BY <1>3, ChunkWords
<1>5. PICK n \in DOMAIN B : n + alloc_get_size(x, n) + 8 = x.end
  BY DEF LastBlock
<1>6. n \in D /\ n + t[n] + 8 = x.end
  BY <1>3, <1>4, <1>5 DEF Kept
<1>7. u # n
  BY <1>3 DEF HeapOK, Owners
<1>8. u + t[u] + 8 # x.end
  <2>1. u \in Nat /\ t[u] \in Nat /\ n \in Nat /\ t[n] \in Nat
    BY <1>4, <1>6, TileCells
  <2>2. u + t[u] = n + t[n] => u = n
    BY <1>4, <1>6, TileApart
  <2> QED
    BY <1>6, <1>7, <2>1, <2>2
<1>9. a.end = x.end
  BY <1>3 DEF Quiet, Rest
<1>10. ~AtHeapEnd(a, u)
  BY <1>4, <1>8, <1>9, HeapNumbers DEF AtHeapEnd
<1> QED
  BY <1>10 DEF a, u

\* free, when it gives no pages up.
Freeing(x, y, P, B) ==
    /\ Whole(y, P, B) /\ RestButEnd(x, y, P) /\ SameSizes(x, y, B)
    /\ align(y.end, PAGE_SIZE) = align(x.end, PAGE_SIZE)
    /\ LastBlock(x, B) => y.end = x.end

\* free of a chunk, where no page of the heap is given up.
LEMMA FreeOK ==
    ASSUME NEW x, NEW C, NEW z, NEW F, NEW r, NEW P, NEW q, NEW B, NEW v,
           HeapOK(x, x.end, C, z, F, r, P, q, B, {v}), Settled(x, x.end, C, z, F),
           ~GivesPages(x, v)
    PROVE  Freeing(x, free(x, v), P, B)
<1> DEFINE u == MergedAt(MergeNext(x, v), v)
           a == MergePrev(MergeNext(x, v), v)
<1>1. EndTag(x, C, x.end, z, F) /\ \A n \in F : n + z[n] + 8 # x.end
  BY HeapNumbers DEF Settled
<1>2. MergedTo(x, a, x.end, z, F, r, P, q, B, u)
  BY <1>1, EndOf, MergeOK
<1>3. free(x, v) = Leave(a, u)
  BY DEF free
<1>4. ~(AtHeapEnd(a, u) /\ u <= EndPage(a))
  BY DEF GivesPages
<1>5. LastBlock(x, B) => ~AtHeapEnd(a, u)
  BY NotLast
<1> HIDE DEF a, u
<1>6. PICK D, t, G : /\ HeapOK(a, x.end, D, t, G, r, P, q, B, {u})
                     /\ Quiet(x, a, P, x.end) /\ Kept(z, t, F, G, P, B)
                     /\ u + t[u] + 8 \notin G
                     /\ \A m \in G : m + t[m] + 8 # u
  BY <1>2 DEF MergedTo
<1>7. /\ Tiling(D, x.end, t) /\ u \in D /\ DOMAIN B \subseteq D /\ DOMAIN B \subseteq C
      /\ \A n \in D : alloc_get_size(a, n) = t[n]
      /\ \A n \in C : alloc_get_size(x, n) = z[n]
      /\ a \in States /\ x \in States
  BY <1>6, ChunkWords
<1>8. a.end = x.end /\ Rest(x, a) /\ \A n \in P : a.mem[n] = x.mem[n]
  BY <1>6 DEF Quiet, Rest
<1>9. AtHeapEnd(a, u) <=> u + t[u] + 8 = x.end
  BY <1>7, <1>8, HeapNumbers DEF AtHeapEnd
<1>10. \A n \in DOMAIN B : alloc_get_size(a, n) = alloc_get_size(x, n)
  BY <1>6, <1>7 DEF Kept
<1>11. CASE AtHeapEnd(a, u)
  <2> DEFINE y == SetEnd(a, u)
  <2>1. HeapOK(a, a.end, D, t, G, r, P, q, B, {u}) /\ u + t[u] + 8 = a.end
    BY <1>6, <1>8, <1>9, <1>11
  <2>2. Whole(y, P, B) /\ RestButEnd(a, y, P)
    BY <1>6, <2>1, CutOK
  <2>3. u \in Nat /\ u <= a.end /\ a.end \in Nat
    BY <1>7, <1>8, TileCells, HeapNumbers
  <2>4. EndPage(a) = a.end - (a.end % PAGE_SIZE) /\ EndPage(a) \in Int
    <3>1. a.end % PAGE_SIZE \in Nat
      BY <2>3, HeapNumbers
    <3> QED
      BY <2>3, <3>1 DEF EndPage
  <2>5. EndPage(a) < u
    BY <1>4, <1>11, <2>3, <2>4
  <2>6. FreePages(a, u) = a
    BY <2>3, <2>4, <2>5, FreeNoPages
  <2>7. free(x, v) = y
    BY <1>3, <1>11, <2>6 DEF Leave
  <2>8. y.end = u /\ y.mem = a.mem
    BY <1>7 DEF SetEnd, States
  <2>9. align(u, PAGE_SIZE) = align(a.end, PAGE_SIZE)
    BY <2>3, <2>4, <2>5, SamePage
  <2>10. SameSizes(x, y, B)
    BY <1>10, <2>8 DEF SameSizes, alloc_get_size
  <2>11. RestButEnd(x, y, P)
    BY <1>8, <2>2 DEF RestButEnd, Rest
  <2> HIDE DEF y
  <2> QED
    BY <1>5, <1>8, <1>11, <2>2, <2>7, <2>8, <2>9, <2>10, <2>11 DEF Freeing
<1>12. CASE ~AtHeapEnd(a, u)
  <2> DEFINE y == AddFree(a, u)
             w == Ahead(r, a.free_list, u)
             H == G \cup {u}
  <2>1. free(x, v) = y
    BY <1>3, <1>12 DEF Leave
  <2>2. HeapOK(y, x.end, D, t, H, w, P, q, B, {}) /\ Quiet(a, y, P, x.end)
    BY <1>6, AddFreeOK
  <2> HIDE DEF y, w
  <2>3. y.end = x.end /\ y.mem[x.end - 8].hi = x.mem[x.end - 8].hi
    BY <1>6, <1>8, <2>2 DEF Quiet, Rest
  <2>4. RestButEnd(x, y, P)
    BY <1>8, <2>2 DEF RestButEnd, Quiet, Rest
  <2>5. EndTag(y, D, x.end, t, H)
    <3>1. Owners(C, F, P, B, {v}) /\ Owners(D, H, P, B, {})
      BY <2>2 DEF HeapOK
    <3>2. \A n \in P \cup DOMAIN B : t[n] = z[n]
      BY <1>6 DEF Kept
    <3>3. \A n \in D \ H : n \in C \ F /\ t[n] = z[n]
      BY <3>1, <3>2 DEF Owners
    <3> QED
      BY <1>1, <2>3, <3>3, HeapNumbers DEF EndTag
  <2>6. \A n \in H : n + t[n] + 8 # x.end
    BY <1>1, <1>6, <1>9, <1>12 DEF Kept
  <2>7. Settled(y, x.end, D, t, H)
    BY <2>3, <2>5, <2>6, HeapNumbers DEF Settled
  <2>8. Whole(y, P, B)
    BY <2>2, <2>3, <2>7 DEF Whole
  <2>9. \A n \in D : alloc_get_size(y, n) = t[n]
    BY <2>2, ChunkWords
  <2>10. SameSizes(x, y, B)
    BY <1>6, <1>7, <2>9 DEF SameSizes, Kept
  <2> QED
    BY <2>1, <2>3, <2>4, <2>8, <2>10 DEF Freeing
<1> QED
  BY <1>11, <1>12

-----------------------------------------------------------------------------
(* alloc: a chunk of the free list.                                        *)

\* The chunk n of b bytes is between owners, the heap settled otherwise.
Given(y, n, b, P, B) ==
    \E C, z, F, r, q : /\ HeapOK(y, y.end, C, z, F, r, P, q, B, {n})
                       /\ Settled(y, y.end, C, z, F) /\ z[n] = b

\* A free chunk of the size asked for.
LEMMA ExactOK ==
    ASSUME NEW x, NEW C, NEW z, NEW F, NEW r, NEW P, NEW q, NEW B,
           HeapOK(x, x.end, C, z, F, r, P, q, B, {}), Settled(x, x.end, C, z, F),
           NEW n \in F
    PROVE  LET y == alloc_clear_free(alloc_node_unlink(x, n), n)
           IN  /\ Given(y, n, z[n], P, B) /\ Quiet(x, y, P, x.end)
               /\ SameSizes(x, y, B)
<1> DEFINE e == x.end
           a == alloc_node_unlink(x, n)
           s == z[n]
           y == SetSize(a, n, s)
           G == F \ {n}
<1>1. /\ x \in States /\ Tiling(C, e, z) /\ Tagged(x, C, z, F)
      /\ F \subseteq C /\ P \subseteq C /\ DOMAIN B \subseteq C /\ n \in C
      /\ \A m \in C : /\ x.mem[m - 8].hi = Tag(z[m], m \in F)
                      /\ x.mem[m + z[m]].lo = Tag(z[m], m \in F)
                      /\ alloc_get_size(x, m) = z[m]
  BY ChunkWords
<1>2. /\ Linked(x, x.free_list, F, r) /\ BackLinked(x, x.free_list, F)
      /\ Linked(x, x.page_free_list, P, q) /\ Filled(x, B, z)
      /\ Owners(C, F, P, B, {}) /\ Merged(F, z)
  BY DEF HeapOK
<1>3. /\ e \in Nat /\ e - 8 \in Cells /\ C \subseteq Cells /\ z \in [Cells -> Nat]
      /\ \A m \in C : /\ m \in Nat /\ m \in Cells /\ z[m] \in Nat /\ z[m] % 8 = 0
                      /\ m - 8 \in Cells /\ m + z[m] \in Cells /\ First <= m /\ m < e
  BY <1>1, TileCells
<1>4. /\ \A m \in C : m - 8 \notin C /\ m + z[m] \notin C
      /\ e - 8 \notin C
      /\ \A m, k \in C : m - 8 = k - 8 => m = k
      /\ \A m, k \in C : m + z[m] = k + z[k] => m = k
  BY <1>1, TileApart
<1>5. n \notin P /\ n \notin DOMAIN B
  BY <1>2 DEF Owners
<1>6. Relinked(x, a, G, r)
  BY <1>1, <1>2, Unlink
<1>7. s \in Nat /\ NoFlags(s) = s /\ Tag(s, FALSE) = s /\ WithoutFree(Tag(s, TRUE)) = s
  <2>1. s \in Nat /\ s % 8 = 0
    BY <1>1, <1>3
  <2> HIDE DEF s
  <2>2. NoFlags(Tag(s, FALSE)) = s /\ Tag(s, FALSE) = s /\ WithoutFree(Tag(s, TRUE)) = Tag(s, FALSE)
    BY <2>1, TagFacts
  <2> QED
    BY <2>1, <2>2
<1> HIDE DEF a, e
<1>8. /\ Rest(x, a) /\ Linked(a, a.free_list, G, r) /\ BackLinked(a, a.free_list, G)
      /\ a \in States /\ \A c \in Cells : c \notin G => a.mem[c] = x.mem[c]
  BY <1>6 DEF Relinked, Rest
<1>9. alloc_clear_free(a, n) = y
  <2>1. a.mem[n - 8].hi = Tag(s, TRUE) /\ a.mem[n + s].lo = Tag(s, TRUE)
    BY <1>1, <1>3, <1>4, <1>8 DEF Tag
  <2>2. Tag(s, TRUE) \in Nat /\ n \in Nat /\ n - 8 \in Cells /\ n + s \in Cells
    BY <1>1, <1>3, TagFacts
  <2> HIDE DEF s
  <2> QED
    BY <1>7, <1>8, <2>1, <2>2, FlagIs
<1>10. Resized(a, y, n, s, s)
  BY <1>1, <1>3, <1>7, <1>8, SetSizeIs
<1> HIDE DEF y
<1>11. /\ Rest(a, y) /\ y.free_list = a.free_list
       /\ \A c \in Cells : /\ y.mem[c].hi = IF c = n - 8 THEN s ELSE a.mem[c].hi
                           /\ y.mem[c].lo = IF c = n + s THEN s ELSE a.mem[c].lo
                           /\ c # n - 8 /\ c # n + s => y.mem[c] = a.mem[c]
  BY <1>10 DEF Resized
<1>12. Rest(x, y)
  BY <1>8, <1>11 DEF Rest
<1>13. \A c \in C : y.mem[c] = a.mem[c]
  BY <1>1, <1>3, <1>4, <1>11
<1>14. Linked(y, y.free_list, G, r) /\ BackLinked(y, y.free_list, G)
  <2>1. \A c \in G : y.mem[c] = a.mem[c] /\ y.mem[c].hi = a.mem[c].hi
    BY <1>1, <1>13
  <2>2. Linked(y, a.free_list, G, r)
    BY <1>8, <2>1, LinkedSame
  <2>3. BackLinked(y, a.free_list, G)
    BY <1>8, <2>1, BackLinkedSame
  <2> QED
    BY <1>11, <2>2, <2>3
<1>15. \A m \in P : y.mem[m] = x.mem[m] /\ y.mem[m].hi = x.mem[m].hi
  BY <1>1, <1>2, <1>3, <1>8, <1>13 DEF Owners
<1>16. Linked(y, y.page_free_list, P, q)
  BY <1>2, <1>12, <1>15, LinkedSame DEF Rest
<1>17. y.mem[e - 8].hi = x.mem[e - 8].hi
  <2>1. e - 8 # n - 8 /\ e - 8 \notin G
    BY <1>1, <1>3, <1>4
  <2> QED
    BY <1>3, <1>8, <1>11, <2>1
<1>18. Tagged(y, C, z, G)
  <2>1. y.mem[HEAP_START].lo = 0
    <3>1. HEAP_START \in Cells
      BY CellIs, HeapNumbers
    <3>2. HEAP_START \notin C
      BY <1>3, HeapNumbers
    <3>3. HEAP_START # n + s
      BY <1>1, <1>3, HeapNumbers
    <3>4. x.mem[HEAP_START].lo = 0
      BY <1>1 DEF Tagged
    <3> QED
      BY <1>1, <1>8, <1>11, <3>1, <3>2, <3>3, <3>4
  <2>2. ASSUME NEW m \in C
        PROVE y.mem[m - 8].hi = Tag(z[m], m \in G) /\ y.mem[m + z[m]].lo = Tag(z[m], m \in G)
    <3>1. m - 8 \notin G /\ m + z[m] \notin G /\ m - 8 \in Cells /\ m + z[m] \in Cells
      BY <1>1, <1>3, <1>4
    <3>2. a.mem[m - 8].hi = x.mem[m - 8].hi /\ a.mem[m + z[m]].lo = x.mem[m + z[m]].lo
      BY <1>8, <3>1
    <3>3. CASE m = n
      <4>1. Tag(z[m], m \in G) = s
        BY <1>7, <3>3 DEF Tag
      <4> QED
        BY <1>11, <3>1, <3>3, <4>1
    <3>4. CASE m # n
      <4>1. m - 8 # n - 8 /\ m + z[m] # n + z[n] /\ (m \in G) = (m \in F)
        BY <1>1, <1>4, <3>4
      <4> QED
        BY <1>1, <1>11, <3>1, <3>2, <4>1
    <3> QED
      BY <3>3, <3>4
  <2> QED
    BY <2>1, <2>2, HeapNumbers DEF Tagged
<1>19. Filled(y, B, z)
  <2>1. \A c \in Cells : \/ y.mem[c] = x.mem[c] \/ c \in C \ DOMAIN B \/ c = e - 8
                         \/ \E m \in C : c = m - 8 \/ c = m + z[m]
    <3> SUFFICES ASSUME NEW c \in Cells, y.mem[c] # x.mem[c], c # n - 8, c # n + z[n]
                 PROVE  c \in C \ DOMAIN B
      BY <1>1
    <3>1. c \in G
      BY <1>8, <1>11
    <3> QED
      BY <1>1, <1>2, <1>5, <3>1 DEF Owners
  <2> QED
    BY <1>1, <1>2, <2>1, FilledSame
<1>20. Owners(C, G, P, B, {n})
  BY <1>1, <1>2, <1>5 DEF Owners
<1>21. Merged(G, z)
  BY <1>2, HeapNumbers DEF Merged
<1>22. HeapOK(y, e, C, z, G, r, P, q, B, {n})
  BY <1>1, <1>12, <1>14, <1>16, <1>18, <1>19, <1>20, <1>21 DEF HeapOK, Rest
<1>23. Settled(y, e, C, z, G)
  <2>1. y.end = e
    BY <1>12 DEF Rest, e
  <2>2. EndTag(x, C, e, z, F) /\ \A m \in F : m + z[m] + 8 # e
    BY HeapNumbers DEF Settled, e
  <2>3. EndTag(y, C, e, z, G)
    BY <1>17, <2>2, HeapNumbers DEF EndTag
  <2> QED
    BY <2>1, <2>2, <2>3, HeapNumbers DEF Settled
<1>24. Quiet(x, y, P, e)
  BY <1>12, <1>15, <1>17 DEF Quiet
<1>25. SameSizes(x, y, B)
  <2>1. \A m \in C : alloc_get_size(y, m) = z[m]
    BY <1>22, ChunkWords
  <2> QED
    BY <1>1, <2>1 DEF SameSizes
<1>26. y.end = e
  BY <1>12 DEF Rest, e
<1>27. Given(y, n, z[n], P, B)
  BY <1>22, <1>23, <1>26 DEF Given
<1> QED
  BY <1>9, <1>24, <1>25, <1>27 DEF a, e

\* What Split writes: p and s are the neighbours of n in the free list F, m is
\* the node of the rest of the chunk, and the descriptors are before it, behind
\* it and before n.
Splits(x, y, F, m, ca, cb, cc, p, s, b, rest) ==
    /\ Rest(x, y)
    /\ y.free_list = IF p = NULL THEN m ELSE x.free_list
    /\ y.mem[m].lo = p /\ y.mem[m].hi = s
    /\ y.mem[ca].lo = b /\ y.mem[ca].hi = rest
    /\ y.mem[cb].lo = rest /\ y.mem[cb].hi = x.mem[cb].hi
    /\ y.mem[cc].hi = b /\ y.mem[cc].lo = x.mem[cc].lo
    /\ \A c \in F : /\ y.mem[c].hi = IF c = p THEN m ELSE x.mem[c].hi
                    /\ y.mem[c].lo = IF c = s THEN m ELSE x.mem[c].lo
    /\ \A c \in Cells : c \notin F \cup {m, ca, cb, cc} => y.mem[c] = x.mem[c]

\* The cells that alloc writes when it splits a chunk are apart.
SplitSites(F, m, ca, cb, cc, p, s) ==
    /\ F \subseteq Cells /\ m \in Cells /\ ca \in Cells /\ cb \in Cells /\ cc \in Cells
    /\ m \notin F /\ ca \notin F /\ cb \notin F /\ cc \notin F
    /\ m # ca /\ m # cb /\ m # cc /\ ca # cb /\ ca # cc /\ cb # cc
    /\ p \in F \cup {NULL} /\ s \in F \cup {NULL}

\* The stores of Split, in their order.
LEMMA SplitStores ==
    ASSUME NEW x \in States, NEW F, NEW m, NEW ca, NEW cb, NEW cc, NEW p, NEW s,
           SplitSites(F, m, ca, cb, cc, p, s), NEW b \in Int, NEW rest \in Int
    PROVE  LET x3 == SetHi(SetLo(Put(x, ca, b, rest), cb, rest), cc, b)
               y == PointBack(PointForward(Put(x3, m, p, s), p, m), s, m)
           IN  Splits(x, y, F, m, ca, cb, cc, p, s, b, rest)
<1> USE DEF SplitSites
<1> DEFINE x1 == Put(x, ca, b, rest)
           x2 == SetLo(x1, cb, rest)
           x3 == SetHi(x2, cc, b)
           x4 == Put(x3, m, p, s)
           x5 == PointForward(x4, p, m)
           y == PointBack(x5, s, m)
<1>1. /\ NULL \notin Cells /\ m \in Cells \cup {NULL} /\ p \in Int /\ s \in Int
      /\ p \in Cells \cup {NULL} /\ s \in Cells \cup {NULL}
  BY CellIs, HeapNumbers
<1>2. /\ Rest(x, x1) /\ x1.free_list = x.free_list
      /\ x1.mem[ca] = [lo |-> b, hi |-> rest]
      /\ \A c \in Cells : c # ca => x1.mem[c] = x.mem[c]
  BY PutIs
<1>3. x1 \in States
  BY <1>2 DEF Rest
<1> HIDE DEF x1
<1>4. /\ Rest(x1, x2) /\ x2.free_list = x1.free_list
      /\ x2.mem[cb].lo = rest /\ x2.mem[cb].hi = x1.mem[cb].hi
      /\ \A c \in Cells : c # cb => x2.mem[c] = x1.mem[c]
  BY <1>3, SetLoIs
<1>5. x2 \in States
  BY <1>4 DEF Rest
<1> HIDE DEF x2
<1>6. /\ Rest(x2, x3) /\ x3.free_list = x2.free_list
      /\ x3.mem[cc].hi = b /\ x3.mem[cc].lo = x2.mem[cc].lo
      /\ \A c \in Cells : c # cc => x3.mem[c] = x2.mem[c]
  BY <1>5, SetHiIs
<1>7. x3 \in States
  BY <1>6 DEF Rest
<1> HIDE DEF x3
<1>8. /\ Rest(x3, x4) /\ x4.free_list = x3.free_list
      /\ x4.mem[m] = [lo |-> p, hi |-> s]
      /\ \A c \in Cells : c # m => x4.mem[c] = x3.mem[c]
  BY <1>1, <1>7, PutIs
<1>9. x4 \in States
  BY <1>8 DEF Rest
<1> HIDE DEF x4
<1>10. /\ Rest(x4, x5) /\ x5.free_list = (IF p = NULL THEN m ELSE x4.free_list)
       /\ \A c \in Cells : /\ x5.mem[c].lo = x4.mem[c].lo
                           /\ x5.mem[c].hi = IF c = p THEN m ELSE x4.mem[c].hi
                           /\ c # p => x5.mem[c] = x4.mem[c]
  BY <1>1, <1>9, PointForwardIs
<1>11. x5 \in States
  BY <1>10 DEF Rest
<1> HIDE DEF x5
<1>12. /\ Rest(x5, y) /\ y.free_list = x5.free_list
       /\ \A c \in Cells : /\ y.mem[c].hi = x5.mem[c].hi
                           /\ y.mem[c].lo = IF c = s THEN m ELSE x5.mem[c].lo
                           /\ c # s => y.mem[c] = x5.mem[c]
  BY <1>1, <1>11, PointBackIs
<1> HIDE DEF y
<1>13. Rest(x, y)
  BY <1>2, <1>4, <1>6, <1>8, <1>10, <1>12 DEF Rest
<1>14. y.free_list = IF p = NULL THEN m ELSE x.free_list
  BY <1>2, <1>4, <1>6, <1>8, <1>10, <1>12
<1>15. m # p /\ m # s /\ ca # p /\ ca # s /\ cb # p /\ cb # s /\ cc # p /\ cc # s
  BY <1>1
<1>16. \A c \in {m, ca, cb, cc} : y.mem[c] = x4.mem[c] /\ c \in Cells
  BY <1>10, <1>12, <1>15
<1>17. y.mem[m].lo = p /\ y.mem[m].hi = s
  BY <1>8, <1>16
<1>18. y.mem[ca] = [lo |-> b, hi |-> rest]
  BY <1>2, <1>4, <1>6, <1>8, <1>16
<1>19. y.mem[cb].lo = rest /\ y.mem[cb].hi = x.mem[cb].hi
  BY <1>2, <1>4, <1>6, <1>8, <1>16
<1>20. y.mem[cc].hi = b /\ y.mem[cc].lo = x.mem[cc].lo
  BY <1>2, <1>4, <1>6, <1>8, <1>16
<1>21. \A c \in Cells : c \notin {m, ca, cb, cc} => x4.mem[c] = x.mem[c]
  BY <1>2, <1>4, <1>6, <1>8
<1>22. \A c \in F : /\ y.mem[c].hi = IF c = p THEN m ELSE x.mem[c].hi
                    /\ y.mem[c].lo = IF c = s THEN m ELSE x.mem[c].lo
  BY <1>10, <1>12, <1>21
<1>23. \A c \in Cells : c \notin F \cup {m, ca, cb, cc} => y.mem[c] = x.mem[c]
  BY <1>1, <1>10, <1>12, <1>21
<1> QED
  BY <1>13, <1>14, <1>17, <1>18, <1>19, <1>20, <1>22, <1>23 DEF Splits, x1, x2, x3, x4, x5, y

\* The stores of alloc's split, at the cells of the chunk it splits.
LEMMA SplitIs ==
    ASSUME NEW x, NEW e, NEW C, NEW z, NEW F, NEW r, NEW P, NEW q, NEW B,
           HeapOK(x, e, C, z, F, r, P, q, B, {}),
           NEW n \in F, NEW b \in Nat, b >= 8, b % 8 = 0, b + 8 < z[n],
           NEW m, m = n + b + 8, NEW ca, ca = n + b, NEW cb, cb = n + z[n], NEW cc, cc = n - 8,
           NEW rest, rest = (z[n] - b - 8) + 1
    PROVE  Splits(x, Split(x, n, b), F, m, ca, cb, cc, x.mem[n].lo, x.mem[n].hi, b, rest)
<1> DEFINE p == x.mem[n].lo
           s == x.mem[n].hi
           x3 == SetHi(SetLo(Put(x, ca, b, rest), cb, rest), cc, b)
           y == PointBack(PointForward(Put(x3, m, p, s), p, m), s, m)
<1>1. /\ x \in States /\ Tiling(C, e, z) /\ F \subseteq C /\ n \in C
      /\ x.mem[n - 8].hi = z[n] + 1 /\ alloc_get_size(x, n) = z[n]
  <2>1. /\ x \in States /\ Tiling(C, e, z) /\ F \subseteq C /\ n \in C
        /\ x.mem[n - 8].hi = Tag(z[n], n \in F) /\ alloc_get_size(x, n) = z[n]
    BY ChunkWords
  <2> QED
    BY <2>1 DEF Tag, KM_CHUNK_FREE
<1>2. /\ n \in Nat /\ n \in Cells /\ z[n] \in Nat /\ z[n] % 8 = 0 /\ n % 8 = 0
      /\ n - 8 \in Cells /\ n + z[n] \in Cells /\ C \subseteq Cells
  BY <1>1, TileCells
<1>3. m \in Nat /\ m % 8 = 0 /\ ca % 8 = 0 /\ n < ca /\ m < n + z[n] /\ ca \in Nat /\ ca < m
  BY <1>2
<1>4. m \in Cells /\ ca \in Cells
  <2>1. HEAP_START <= n /\ n + z[n] < HEAP_LIMIT
    BY <1>2, CellIs
  <2>2. HEAP_START <= ca /\ ca < HEAP_LIMIT /\ HEAP_START <= m /\ m < HEAP_LIMIT
    BY <1>2, <1>3, <2>1, HeapNumbers
  <2> QED
    BY <1>3, <2>2, CellIs
<1>5. m \notin C /\ ca \notin C /\ cc \notin C /\ cb \notin C
  <2>1. \A a \in Cells : n <= a /\ a < n + z[n] => (a \in C => a = n)
    BY <1>1, TileApart
  <2>2. n - 8 \notin C /\ n + z[n] \notin C
    BY <1>1, TileApart
  <2> QED
    BY <1>2, <1>3, <1>4, <2>1, <2>2
<1>6. rest \in Nat /\ WithFree((z[n] + 1) - b - 8) = rest
  <2>1. z[n] - b - 8 \in Nat /\ (z[n] - b - 8) % 8 = 0
    BY <1>2
  <2>2. (z[n] + 1) - b - 8 = rest /\ rest \in Nat
    BY <1>2, <2>1
  <2>3. IsFree(rest)
    BY <2>1 DEF IsFree, KM_CHUNK_FREE
  <2> QED
    BY <2>2, <2>3 DEF WithFree
<1>7. p \in F \cup {NULL} /\ s \in F \cup {NULL}
  <2>1. Linked(x, x.free_list, F, r) /\ BackLinked(x, x.free_list, F)
    BY DEF HeapOK
  <2> QED
    BY <2>1, Neighbours
<1>8. y = Split(x, n, b)
  <2>1. /\ WithFree(x.mem[n - DESC].hi - b - DESC) = rest /\ n + b + DESC = m
        /\ m - DESC = ca /\ n + alloc_get_size(x, n) = cb /\ n - DESC = cc
    <3>1. DESC = 8
      BY HeapNumbers
    <3> QED
      BY <1>1, <1>2, <1>6, <3>1
  <2> QED
    BY <2>1 DEF Split, alloc_get_desc, alloc_get_next_desc
<1>9. SplitSites(F, m, ca, cb, cc, p, s)
  <2>1. m # ca /\ m # cb /\ m # cc /\ ca # cb /\ ca # cc /\ cb # cc
    BY <1>2, <1>3
  <2>2. cb \in Cells /\ cc \in Cells /\ F \subseteq Cells
    BY <1>1, <1>2
  <2> QED
    BY <1>1, <1>4, <1>5, <1>7, <2>1, <2>2 DEF SplitSites
<1>10. rest \in Int /\ b \in Int
  BY <1>6
<1> HIDE DEF p, s
<1>11. Splits(x, y, F, m, ca, cb, cc, p, s, b, rest)
  BY <1>1, <1>9, <1>10, SplitStores
<1> HIDE DEF y
<1> QED
  BY <1>8, <1>11 DEF p, s

\* A larger free chunk: its first b bytes are taken.
LEMMA SplitOK ==
    ASSUME NEW x, NEW C, NEW z, NEW F, NEW r, NEW P, NEW q, NEW B,
           HeapOK(x, x.end, C, z, F, r, P, q, B, {}), Settled(x, x.end, C, z, F),
           NEW n \in F, NEW b \in Nat, b >= 8, b % 8 = 0, b + 8 < z[n]
    PROVE  LET y == Split(x, n, b)
           IN  Given(y, n, b, P, B) /\ Quiet(x, y, P, x.end) /\ SameSizes(x, y, B)
<1>0. PICK e : e = x.end
  OBVIOUS
<1>m. PICK m, ca, cb, cc, rest :
          /\ m = n + b + 8 /\ ca = n + b /\ cb = n + z[n] /\ cc = n - 8
          /\ rest = (z[n] - b - 8) + 1
  OBVIOUS
<1> DEFINE y == Split(x, n, b)
           p == x.mem[n].lo
           s == x.mem[n].hi
           G == (F \ {n}) \cup {m}
           D == C \cup {m}
           t == [z EXCEPT ![n] = b, ![n + b + 8] = z[n] - b - 8]
           u == [r EXCEPT ![m] = r[n]]
<1>1. /\ x \in States /\ Tiling(C, e, z) /\ Tagged(x, C, z, F)
      /\ F \subseteq C /\ P \subseteq C /\ DOMAIN B \subseteq C /\ n \in C
      /\ \A k \in C : /\ x.mem[k - 8].hi = Tag(z[k], k \in F)
                      /\ x.mem[k + z[k]].lo = Tag(z[k], k \in F)
                      /\ alloc_get_size(x, k) = z[k]
  BY <1>0, ChunkWords
<1>2. /\ Linked(x, x.free_list, F, r) /\ BackLinked(x, x.free_list, F)
      /\ Linked(x, x.page_free_list, P, q) /\ Filled(x, B, z)
      /\ Owners(C, F, P, B, {}) /\ Merged(F, z)
  BY DEF HeapOK
<1>3. /\ e \in Nat /\ e - 8 \in Cells /\ C \subseteq Cells /\ z \in [Cells -> Nat]
      /\ \A k \in C : /\ k \in Nat /\ k \in Cells /\ z[k] \in Nat /\ z[k] % 8 = 0
                      /\ k - 8 \in Cells /\ k + z[k] \in Cells /\ First <= k /\ k < e
                      /\ k + z[k] + 8 <= e
  BY <1>1, TileCells
<1>4. Tiling(D, e, t) /\ m \notin C /\ m \in Cells
  BY <1>1, <1>m, TileSplit
<1>5. /\ t[n] = b /\ t[m] = z[n] - b - 8 /\ (\A k \in C : k # n => t[k] = z[k])
      /\ n \in Nat /\ z[n] \in Nat /\ t[m] \in Nat /\ t[m] >= 8
  <2>1. n # n + b + 8 /\ n \in Nat /\ z[n] \in Nat
    BY <1>1, <1>3
  <2>2. t[n] = b /\ t[m] = z[n] - b - 8 /\ (\A k \in C : k # n => t[k] = z[k])
    BY <1>1, <1>3, <1>4, <1>m, <2>1
  <2>3. m \in D /\ \A k \in D : t[k] \in Nat /\ t[k] >= 8
    BY <1>4, TileCells
  <2> QED
    BY <2>1, <2>2, <2>3
<1> HIDE DEF t
<1>6. /\ \A k \in D : k - 8 \notin D /\ k + t[k] \notin D
      /\ e - 8 \notin D
      /\ \A k, l \in D : k - 8 = l - 8 => k = l
      /\ \A k, l \in D : k + t[k] = l + t[l] => k = l
  BY <1>4, TileApart
<1>7. /\ n + t[n] = ca /\ m - 8 = ca /\ m + t[m] = cb /\ n - 8 = cc
  BY <1>5, <1>m
<1>8. \A k \in D : /\ k - 8 \in Cells /\ k + t[k] \in Cells /\ k \in Nat /\ t[k] \in Nat
                   /\ First <= k /\ k < e
  BY <1>4, TileCells
<1>9. Splits(x, y, F, m, ca, cb, cc, p, s, b, rest)
  BY <1>m, SplitIs
<1> HIDE DEF y
<1>10. /\ Rest(x, y)
       /\ y.free_list = IF p = NULL THEN m ELSE x.free_list
       /\ y.mem[m].lo = p /\ y.mem[m].hi = s
       /\ y.mem[ca].lo = b /\ y.mem[ca].hi = rest
       /\ y.mem[cb].lo = rest /\ y.mem[cb].hi = x.mem[cb].hi
       /\ y.mem[cc].hi = b /\ y.mem[cc].lo = x.mem[cc].lo
       /\ \A c \in F : /\ y.mem[c].hi = IF c = p THEN m ELSE x.mem[c].hi
                       /\ y.mem[c].lo = IF c = s THEN m ELSE x.mem[c].lo
       /\ \A c \in Cells : c \notin F \cup {m, ca, cb, cc} => y.mem[c] = x.mem[c]
  BY <1>9 DEF Splits
<1>11. Linked(y, y.free_list, G, u) /\ BackLinked(y, y.free_list, G)
  <2>1. m \notin F
    BY <1>1, <1>4
  <2> QED
    BY <1>2, <1>4, <1>10, <2>1, Replace
<1> HIDE DEF u, p, s
<1>12. ca \notin D /\ cb \notin D /\ cc \notin D /\ n \in D /\ m \in D /\ n # m
  BY <1>1, <1>4, <1>6, <1>7
<1>13. n \notin P /\ n \notin DOMAIN B /\ \A k \in P \cup DOMAIN B : k \in C \ F
  BY <1>1, <1>2 DEF Owners
<1>14. \A k \in P : y.mem[k] = x.mem[k] /\ y.mem[k].hi = x.mem[k].hi
  BY <1>3, <1>4, <1>10, <1>12, <1>13
<1>15. Linked(y, y.page_free_list, P, q)
  BY <1>2, <1>10, <1>14, LinkedSame DEF Rest
<1>16. y.mem[e - 8].hi = x.mem[e - 8].hi
  <2>1. n + z[n] + 8 # e
    BY <1>0, HeapNumbers DEF Settled
  <2>2. e - 8 # ca /\ e - 8 # cc /\ e - 8 # cb /\ e - 8 \notin F /\ e - 8 # m
    <3>1. e - 8 # cb
      BY <1>1, <1>3, <1>5, <1>m, <2>1
    <3>2. e - 8 # ca /\ e - 8 # cc
      BY <1>3, <1>7, <1>8, <1>12
    <3>3. e - 8 \notin F /\ e - 8 # m
      BY <1>1, <1>6
    <3> QED
      BY <3>1, <3>2, <3>3
  <2> QED
    BY <1>3, <1>10, <2>2
<1>17. Tagged(y, D, t, G)
  <2>1. y.mem[HEAP_START].lo = 0
    <3>1. HEAP_START \in Cells
      BY CellIs, HeapNumbers
    <3>2. \A k \in D : HEAP_START # k /\ HEAP_START # k + t[k]
      BY <1>8, HeapNumbers
    <3>3. x.mem[HEAP_START].lo = 0
      BY <1>1 DEF Tagged
    <3>4. HEAP_START \notin F /\ HEAP_START # m /\ HEAP_START # ca /\ HEAP_START # cb
      BY <1>1, <1>7, <1>12, <3>2
    <3> QED
      BY <1>10, <3>1, <3>3, <3>4
  <2>2. ASSUME NEW k \in D
        PROVE y.mem[k - 8].hi = Tag(t[k], k \in G) /\ y.mem[k + t[k]].lo = Tag(t[k], k \in G)
    <3>1. CASE k = n
      <4>1. Tag(t[k], k \in G) = b
        BY <1>5, <1>12, <3>1 DEF Tag
      <4> QED
        BY <1>7, <1>10, <3>1, <4>1
    <3>2. CASE k = m
      <4>1. Tag(t[k], k \in G) = rest
        BY <1>5, <1>m, <3>2 DEF Tag, KM_CHUNK_FREE
      <4> QED
        BY <1>7, <1>10, <3>2, <4>1
    <3>3. CASE k # n /\ k # m
      <4>1. /\ k \in C /\ t[k] = z[k] /\ (k \in G) = (k \in F) /\ k - 8 \notin F /\ k + t[k] \notin F
            /\ k - 8 # m /\ k + t[k] # m
        BY <1>1, <1>5, <1>6, <1>12, <3>3
      <4>2. k - 8 # cc /\ k - 8 # ca /\ k + t[k] # ca /\ k + t[k] # cb
        BY <1>6, <1>7, <1>12, <3>3
      <4>3. k - 8 \in Cells /\ k + t[k] \in Cells
        BY <1>8
      <4>4. y.mem[k - 8].hi = x.mem[k - 8].hi
        BY <1>10, <4>1, <4>2, <4>3
      <4>5. y.mem[k + t[k]].lo = x.mem[k + t[k]].lo
        BY <1>10, <4>1, <4>2, <4>3
      <4> QED
        BY <1>1, <4>1, <4>4, <4>5
    <3> QED
      BY <3>1, <3>2, <3>3
  <2> QED
    BY <2>1, <2>2, HeapNumbers DEF Tagged
<1>18. Filled(y, B, t)
  <2>1. \A k \in DOMAIN B : t[k] = z[k]
    BY <1>1, <1>5, <1>13
  <2>2. Filled(x, B, t)
    BY <1>2, <2>1, FilledSizes
  <2>3. DOMAIN B \subseteq D /\ m \notin DOMAIN B
    BY <1>1, <1>4
  <2>4. \A c \in Cells : \/ y.mem[c] = x.mem[c] \/ c \in D \ DOMAIN B \/ c = e - 8
                         \/ \E k \in D : c = k - 8 \/ c = k + t[k]
    <3> SUFFICES ASSUME NEW c \in Cells, y.mem[c] # x.mem[c],
                        ~\E k \in D : c = k - 8 \/ c = k + t[k]
                 PROVE  c \in D \ DOMAIN B
      OBVIOUS
    <3>1. c # ca /\ c # cb /\ c # cc
      BY <1>7, <1>12
    <3>2. c \in F \cup {m}
      BY <1>10, <3>1
    <3> QED
      BY <1>1, <1>13, <2>3, <3>2
  <2> QED
    BY <1>4, <2>2, <2>3, <2>4, FilledSame
<1>19. Owners(D, G, P, B, {n})
  BY <1>1, <1>2, <1>4, <1>12, <1>13 DEF Owners
<1>20. Merged(G, t)
  <2> SUFFICES ASSUME NEW k \in G PROVE k + t[k] + 8 \notin G
    BY HeapNumbers DEF Merged
  <2>1. \A l \in F : l + z[l] + 8 \notin F
    BY <1>2, HeapNumbers DEF Merged
  <2>2. CASE k = m
    <3>1. k + t[k] + 8 = n + z[n] + 8
      BY <1>5, <1>m, <2>2
    <3>2. k + t[k] + 8 # m
      BY <1>5, <1>8, <1>12, <2>2
    <3> QED
      BY <2>1, <3>1, <3>2
  <2>3. CASE k # m
    <3>1. k \in F /\ k # n /\ t[k] = z[k] /\ k \in C
      BY <1>1, <1>5, <2>3
    <3>2. k + t[k] # ca
      BY <1>6, <1>7, <1>12, <3>1
    <3>3. k + t[k] + 8 # m
      BY <1>3, <1>5, <1>m, <3>1, <3>2
    <3> QED
      BY <2>1, <3>1, <3>3
  <2> QED
    BY <2>2, <2>3
<1>21. HeapOK(y, e, D, t, G, u, P, q, B, {n})
  BY <1>4, <1>10, <1>11, <1>15, <1>17, <1>18, <1>19, <1>20 DEF HeapOK, Rest
<1>22. y.end = e
  BY <1>0, <1>10 DEF Rest
<1>23. Settled(y, e, D, t, G)
  <2>1. EndTag(x, C, e, z, F) /\ \A k \in F : k + z[k] + 8 # e
    BY <1>0, HeapNumbers DEF Settled
  <2>2. \A k \in D \ G : k # n => k \in C \ F /\ t[k] = z[k]
    BY <1>5
  <2>3. n + t[n] + 8 # e
    BY <1>3, <1>4, <1>6, <1>7, <1>8, <1>12, <1>m, TileCells
  <2>4. EndTag(y, D, e, t, G)
    BY <1>16, <2>1, <2>2, <2>3, HeapNumbers DEF EndTag
  <2>5. m + t[m] + 8 # e
    BY <1>5, <1>m, <2>1
  <2>6. \A k \in G : k + t[k] + 8 # e
    BY <1>1, <1>5, <2>1, <2>5
  <2> QED
    BY <1>22, <2>4, <2>6, HeapNumbers DEF Settled
<1>24. Given(y, n, b, P, B)
  BY <1>5, <1>21, <1>22, <1>23 DEF Given
<1>25. Quiet(x, y, P, x.end)
  BY <1>0, <1>10, <1>14, <1>16 DEF Quiet
<1>26. SameSizes(x, y, B)
  <2>1. \A k \in D : alloc_get_size(y, k) = t[k]
    BY <1>21, ChunkWords
  <2>2. \A k \in DOMAIN B : k \in D /\ k \in C /\ t[k] = z[k]
    BY <1>1, <1>5, <1>13
  <2> QED
    BY <1>1, <2>1, <2>2 DEF SameSizes
<1> QED
  BY <1>24, <1>25, <1>26 DEF y

-----------------------------------------------------------------------------
(* Ways along chunks and lists.                                            *)

\* nx leads through all of S in the order of the ranks r, from a to t.
Chain(a, S, t, nx, r) ==
    /\ t \notin S /\ a \in S \cup {t} /\ (a = t => S = {})
    /\ a \in S => \A n \in S : r[a] <= r[n]
    /\ nx \in [S -> S \cup {t}]
    /\ \A n \in S : r[n] \in Int /\ (nx[n] # t => r[n] < r[nx[n]])
    /\ \A m, n \in S : r[m] < r[n] => nx[m] # t /\ r[nx[m]] <= r[n]
    /\ \A m, n \in S : r[m] = r[n] => m = n

\* s is the start of that way.
Trail(s, a, S, t, nx) ==
    /\ s \in Seq(S \cup {t}) /\ Len(s) >= 1 /\ s[1] = a
    /\ \A j \in 1 .. Len(s) - 1 : s[j] \in S /\ s[j + 1] = nx[s[j]]

\* One step further.
Pace(S, nx, s) == IF Last(s) \in S THEN Append(s, nx[Last(s)]) ELSE s

\* A step leads from one start of the way to another.
LEMMA PaceOK ==
    ASSUME NEW a, NEW S, NEW t, NEW nx, NEW r, Chain(a, S, t, nx, r),
           NEW s, Trail(s, a, S, t, nx)
    PROVE  /\ Trail(Pace(S, nx, s), a, S, t, nx)
           /\ Last(s) \in S => Len(Pace(S, nx, s)) = Len(s) + 1
           /\ Last(s) \notin S => Pace(S, nx, s) = s /\ Last(s) = t
<1>1. /\ s \in Seq(S \cup {t}) /\ Len(s) >= 1 /\ s[1] = a /\ Len(s) \in Nat
      /\ \A j \in 1 .. Len(s) - 1 : s[j] \in S /\ s[j + 1] = nx[s[j]]
  BY DEF Trail
<1>2. Last(s) \in S \cup {t} /\ Last(s) = s[Len(s)]
  BY <1>1, ElementOfSeq DEF Last
<1>3. CASE Last(s) \in S
  <2>1. PICK b \in S \cup {t} : b = nx[Last(s)]
    BY <1>3 DEF Chain
  <2>2. PICK u : u = Append(s, b)
    OBVIOUS
  <2>3. Pace(S, nx, s) = u
    BY <1>3, <2>1, <2>2 DEF Pace
  <2>4. /\ u \in Seq(S \cup {t}) /\ Len(u) = Len(s) + 1
        /\ \A i \in 1 .. Len(s) : u[i] = s[i]
        /\ u[Len(s) + 1] = b
    BY <1>1, <2>2, AppendProperties
  <2>5. ASSUME NEW j \in 1 .. Len(u) - 1 PROVE u[j] \in S /\ u[j + 1] = nx[u[j]]
    <3>1. CASE j = Len(s)
      BY <1>1, <1>2, <1>3, <2>1, <2>4, <3>1
    <3>2. CASE j # Len(s)
      <4>1. j \in 1 .. Len(s) - 1 /\ j + 1 \in 1 .. Len(s) /\ j \in 1 .. Len(s)
        BY <1>1, <2>4, <3>2
      <4> QED
        BY <1>1, <2>4, <4>1
    <3> QED
      BY <3>1, <3>2
  <2>6. Trail(u, a, S, t, nx)
    BY <1>1, <2>4, <2>5 DEF Trail
  <2> QED
    BY <1>3, <2>3, <2>4, <2>6
<1>4. CASE Last(s) \notin S
  BY <1>2, <1>4 DEF Pace
<1> QED
  BY <1>3, <1>4

\* The ranks grow along the way.
LEMMA Climbs ==
    ASSUME NEW a, NEW S, NEW t, NEW nx, NEW r, Chain(a, S, t, nx, r),
           NEW s, Trail(s, a, S, t, nx)
    PROVE  \A j, k \in 1 .. Len(s) - 1 : j < k => r[s[j]] < r[s[k]]
<1>1. /\ Len(s) \in Nat
      /\ \A j \in 1 .. Len(s) - 1 : s[j] \in S /\ s[j + 1] = nx[s[j]]
  BY DEF Trail
<1>2. t \notin S /\ \A n \in S : r[n] \in Int /\ (nx[n] # t => r[n] < r[nx[n]])
  BY DEF Chain
<1> SUFFICES ASSUME NEW j \in 1 .. Len(s) - 1
             PROVE  \A k \in 1 .. Len(s) - 1 : j < k => r[s[j]] < r[s[k]]
  OBVIOUS
<1> DEFINE T == {k \in Int : j < k => r[s[j]] < r[s[k]]}
<1>3. 1 \in T
  OBVIOUS
<1>4. ASSUME NEW k \in 1 .. (Len(s) - 1) - 1, k \in T PROVE k + 1 \in T
  <2>1. k \in 1 .. Len(s) - 1 /\ k + 1 \in 1 .. Len(s) - 1
    BY <1>1
  <2>2. s[k] \in S /\ s[k + 1] = nx[s[k]] /\ s[k + 1] \in S /\ s[j] \in S
    BY <1>1, <2>1
  <2>3. r[s[k]] < r[s[k + 1]] /\ r[s[k]] \in Int /\ r[s[k + 1]] \in Int /\ r[s[j]] \in Int
    BY <1>2, <2>2
  <2>4. j < k + 1 => j < k \/ j = k
    BY <2>1
  <2> QED
    BY <1>4, <2>1, <2>3, <2>4
<1>5. \A k \in 1 .. Len(s) - 1 : k \in T
  <2> HIDE DEF T
  <2>0. PICK l \in Nat : l = Len(s)
    BY <1>1, Zenon
  <2>1. PICK b \in Int : b = Len(s) - 1
    <3>1. l - 1 \in Int
      OBVIOUS
    <3> QED
      BY <2>0, <3>1, Zenon
  <2>2. \A k \in 1 .. b - 1 : k \in T => k + 1 \in T
    BY <1>4, <2>1
  <2>3. \A k \in 1 .. b : k \in T
    BY <1>3, <2>2, Induct
  <2> QED
    BY <2>1, <2>3
<1> QED
  BY <1>5

\* A way through chunks is no longer than there is room for chunks.
LEMMA Short ==
    ASSUME NEW a, NEW S, NEW t, NEW nx, NEW r, Chain(a, S, t, nx, r),
           NEW s, Trail(s, a, S, t, nx),
           NEW C, NEW e, NEW z, Tiling(C, e, z), S \subseteq C
    PROVE  Len(s) <= MaxChunks + 1 /\ MaxChunks \in Nat
<1> DEFINE D == 1 .. Len(s) - 1
           R == 0 .. MaxChunks - 1
           f == [k \in D |-> (s[k] - First) \div 16]
<1>1. /\ Len(s) \in Nat /\ Len(s) >= 1
      /\ \A j \in 1 .. Len(s) - 1 : s[j] \in S
  BY DEF Trail
<1>2. MaxChunks \in Nat
  BY HeapNumbers DEF MaxChunks
<1>3. ASSUME NEW n \in C
      PROVE  /\ n - First \in Nat /\ (n - First) \div 16 \in R
  <2>1. /\ n \in Nat /\ First <= n /\ z[n] \in Nat /\ z[n] >= 8
        /\ n + z[n] + 8 <= e /\ e <= HEAP_LIMIT /\ e \in Nat
    BY TileCells
  <2>2. n - First + 24 <= HEAP_LIMIT - HEAP_START /\ n - First \in Nat
    BY <2>1, HeapNumbers
  <2>3. PICK L \in Nat : L = HEAP_LIMIT - HEAP_START
    BY HeapNumbers
  <2>4. PICK d \in Nat : d = n - First
    BY <2>2
  <2>5. d \div 16 \in Nat /\ d \div 16 + 1 <= L \div 16
    BY <2>2, <2>3, <2>4
  <2> QED
    BY <1>2, <2>2, <2>3, <2>4, <2>5 DEF MaxChunks
<1>4. ASSUME NEW m \in C, NEW n \in C, m < n
      PROVE  (m - First) \div 16 # (n - First) \div 16
  <2>1. m + 16 <= n
    BY <1>4, TileCells
  <2>2. PICK c \in Nat, d \in Nat : c = m - First /\ d = n - First
    BY <1>3
  <2>3. c + 16 <= d
    <3>1. m \in Nat /\ n \in Nat /\ First \in Nat
      BY TileCells, HeapNumbers
    <3> QED
      BY <2>1, <2>2, <3>1
  <2>4. c \div 16 # d \div 16
    BY <2>3
  <2> QED
    BY <2>2, <2>4
<1>5. SUFFICES ASSUME ~(Len(s) <= MaxChunks + 1) PROVE FALSE
  BY <1>2
<1>6. IsFiniteSet(D) /\ Cardinality(D) = Len(s) - 1
  <2>1. Len(s) - 1 \in Int /\ ~(1 > Len(s) - 1) /\ (Len(s) - 1) - 1 + 1 = Len(s) - 1
    BY <1>1, <1>2, <1>5
  <2> QED
    BY <2>1, FS_Interval
<1>7. IsFiniteSet(R) /\ Cardinality(R) = MaxChunks
  <2>1. MaxChunks - 1 \in Int /\ (MaxChunks - 1) - 0 + 1 = MaxChunks
        /\ (0 > MaxChunks - 1 => MaxChunks = 0)
    BY <1>2
  <2> QED
    BY <2>1, FS_Interval
<1>8. Cardinality(R) < Cardinality(D)
  BY <1>1, <1>2, <1>5, <1>6, <1>7
<1>9. f \in [D -> R]
  BY <1>1, <1>3
<1>10. PICK j, k \in D : j # k /\ f[j] = f[k]
  <2> HIDE DEF D, R, f
  <2> QED
    BY <1>6, <1>7, <1>8, <1>9, FS_PigeonHole
<1>11. s[j] \in S /\ s[k] \in S /\ (s[j] - First) \div 16 = (s[k] - First) \div 16
  BY <1>1, <1>10
<1>12. s[j] = s[k]
  <2>1. s[j] \in C /\ s[k] \in C
    BY <1>11
  <2>2. s[j] \in Nat /\ s[k] \in Nat
    BY <2>1, TileCells
  <2>3. ~(s[j] < s[k]) /\ ~(s[k] < s[j])
    BY <1>4, <1>11, <2>1
  <2> QED
    BY <2>2, <2>3
<1>13. r[s[j]] \in Int
  BY <1>11 DEF Chain
<1>14. j < k \/ k < j
  BY <1>1, <1>10
<1> QED
  BY <1>10, <1>12, <1>13, <1>14, Climbs

\* The way leads through all of S and ends at t.
Whither(s, a, S, t, nx) ==
    /\ Trail(s, a, S, t, nx) /\ s[Len(s)] = t /\ Last(s) = t /\ Passed(s) = S
    /\ \A j, k \in 1 .. Len(s) - 1 : s[j] = s[k] => j = k

\* A way that has come to t has passed all of S, and each only once.
LEMMA Arrives ==
    ASSUME NEW a, NEW S, NEW t, NEW nx, NEW r, Chain(a, S, t, nx, r),
           NEW s, Trail(s, a, S, t, nx), Last(s) = t
    PROVE  Whither(s, a, S, t, nx)
<1>1. /\ s \in Seq(S \cup {t}) /\ Len(s) >= 1 /\ s[1] = a /\ Len(s) \in Nat
      /\ \A j \in 1 .. Len(s) - 1 : s[j] \in S /\ s[j + 1] = nx[s[j]]
  BY DEF Trail
<1>2. s[Len(s)] = t
  BY DEF Last
<1>3. \A j, k \in 1 .. Len(s) - 1 : s[j] = s[k] => j = k
  <2> SUFFICES ASSUME NEW j \in 1 .. Len(s) - 1, NEW k \in 1 .. Len(s) - 1, s[j] = s[k], j # k
               PROVE  FALSE
    OBVIOUS
  <2>1. r[s[j]] \in Int
    BY <1>1 DEF Chain
  <2>2. j < k \/ k < j
    BY <1>1
  <2> QED
    BY <2>1, <2>2, Climbs
<1>4. Passed(s) \subseteq S
  BY <1>1 DEF Passed
<1>5. ASSUME NEW n \in S, n \notin Passed(s) PROVE FALSE
  <2> DEFINE T == {k \in Int : s[k] \in S /\ r[s[k]] < r[n]}
  <2>0. /\ \A m \in S : r[m] \in Int /\ nx[m] \in S \cup {t}
        /\ \A m \in S : r[m] < r[n] => nx[m] # t /\ r[nx[m]] <= r[n]
        /\ \A m \in S : r[m] = r[n] => m = n
        /\ t \notin S
    BY DEF Chain
  <2>1. \A k \in 1 .. Len(s) - 1 : s[k] # n
    BY <1>5 DEF Passed
  <2>2. Len(s) # 1
    BY <1>1, <1>2, <1>5 DEF Chain
  <2>3. 1 \in T
    <3>1. 1 \in 1 .. Len(s) - 1
      <4>1. PICK l \in Nat : l = Len(s)
        BY <1>1, Zenon
      <4>2. l # 1 /\ l >= 1
        BY <1>1, <2>2, <4>1, Zenon
      <4> QED
        BY <4>1, <4>2
    <3>2. a \in S /\ a # n
      BY <1>1, <2>1, <3>1
    <3>3. r[a] <= r[n]
      BY <3>2 DEF Chain
    <3> QED
      BY <1>1, <2>0, <3>2, <3>3
  <2>4. ASSUME NEW k \in 1 .. Len(s) - 1, k \in T PROVE k + 1 \in T
    <3>1. /\ s[k] \in S /\ r[s[k]] < r[n] /\ s[k + 1] = nx[s[k]]
      BY <1>1, <2>4
    <3>2. nx[s[k]] \in S /\ r[nx[s[k]]] <= r[n]
      BY <2>0, <3>1
    <3>3. k + 1 \in 1 .. Len(s) - 1
      <4>1. k + 1 # Len(s)
        BY <1>2, <2>0, <3>1, <3>2
      <4> QED
        BY <1>1, <4>1
    <3>4. s[k + 1] # n /\ k + 1 \in Int
      BY <2>1, <3>3
    <3>5. r[s[k + 1]] \in Int /\ r[n] \in Int /\ r[s[k + 1]] # r[n]
      BY <2>0, <3>1, <3>2, <3>4
    <3> QED
      BY <3>1, <3>2, <3>4, <3>5
  <2>5. Len(s) \in T
    <3> HIDE DEF T
    <3>1. PICK b \in Int : b = Len(s)
      BY <1>1
    <3>2. \A k \in 1 .. b - 1 : k \in T => k + 1 \in T
      BY <2>4, <3>1
    <3>3. \A k \in 1 .. b : k \in T
      BY <2>3, <3>2, Induct
    <3> QED
      BY <1>1, <3>1, <3>3
  <2> QED
    BY <1>2, <2>0, <2>5
<1> QED
  BY <1>2, <1>3, <1>4, <1>5 DEF Whither

\* f holds the way after each number of steps.
Steps(f, a, S, nx) ==
    f[0] = <<a>> /\ \A k \in 1 .. MaxChunks : f[k] = Pace(S, nx, f[k - 1])

\* The way at its start.
LEMMA Begins ==
    ASSUME NEW a, NEW S, NEW t, NEW nx, NEW r, Chain(a, S, t, nx, r)
    PROVE  Trail(<<a>>, a, S, t, nx) /\ Len(<<a>>) = 1
<1>1. a \in S \cup {t}
  BY DEF Chain
<1>2. <<a>> \in Seq(S \cup {t}) /\ Len(<<a>>) = 1 /\ <<a>>[1] = a
  BY <1>1
<1> QED
  BY <1>2 DEF Trail

\* MaxChunks steps are enough to come to t.
LEMMA Walk ==
    ASSUME NEW a, NEW S, NEW t, NEW nx, NEW r, Chain(a, S, t, nx, r),
           NEW f, Steps(f, a, S, nx),
           NEW C, NEW e, NEW z, Tiling(C, e, z), S \subseteq C
    PROVE  Whither(f[MaxChunks], a, S, t, nx)
<1>0. Trail(<<a>>, a, S, t, nx) /\ Len(<<a>>) = 1
  BY Begins
<1>1. MaxChunks \in Nat
  BY <1>0, Short
<1> DEFINE T == {k \in Int : /\ Trail(f[k], a, S, t, nx)
                             /\ Last(f[k]) = t \/ Len(f[k]) = k + 1}
<1>2. 0 \in T
  BY <1>0 DEF Steps
<1>3. ASSUME NEW k \in 0 .. MaxChunks - 1, k \in T PROVE k + 1 \in T
  <2>1. k + 1 \in 1 .. MaxChunks /\ (k + 1) - 1 = k
    BY <1>1
  <2>2. f[k + 1] = Pace(S, nx, f[k])
    BY <2>1 DEF Steps
  <2>3. Trail(f[k], a, S, t, nx) /\ (Last(f[k]) = t \/ Len(f[k]) = k + 1)
    BY <1>3
  <2>4. /\ Trail(f[k + 1], a, S, t, nx)
        /\ Last(f[k]) \in S => Len(f[k + 1]) = Len(f[k]) + 1
        /\ Last(f[k]) \notin S => f[k + 1] = f[k] /\ Last(f[k]) = t
    BY <2>2, <2>3, PaceOK
  <2>5. t \notin S
    BY DEF Chain
  <2>6. k + 1 \in Int
    OBVIOUS
  <2> QED
    BY <2>3, <2>4, <2>5, <2>6
<1>4. MaxChunks \in T
  <2> HIDE DEF T
  <2>1. PICK b \in Nat : b = MaxChunks
    BY <1>1
  <2>2. \A k \in 0 .. b - 1 : k \in T => k + 1 \in T
    BY <1>3, <2>1
  <2>3. \A k \in 0 .. b : k \in T
    BY <1>2, <2>2, Induct
  <2> QED
    BY <2>1, <2>3
<1>5. PICK s : s = f[MaxChunks]
  OBVIOUS
<1>6. Trail(s, a, S, t, nx) /\ (Last(s) = t \/ Len(s) = MaxChunks + 1)
  BY <1>4, <1>5
<1>7. Last(s) = t
  <2> SUFFICES ASSUME Last(s) # t PROVE FALSE
    OBVIOUS
  <2>1. Last(s) \in S /\ Len(Pace(S, nx, s)) = Len(s) + 1 /\ Trail(Pace(S, nx, s), a, S, t, nx)
    BY <1>6, PaceOK
  <2>2. Len(Pace(S, nx, s)) <= MaxChunks + 1
    BY <2>1, Short
  <2> QED
    BY <1>1, <1>6, <2>1, <2>2
<1> QED
  BY <1>5, <1>6, <1>7, Arrives

\* Such an f exists.
LEMMA WalkExists ==
    ASSUME NEW a, NEW S, NEW t, NEW nx, NEW r, Chain(a, S, t, nx, r), MaxChunks \in Nat
    PROVE  \E f : /\ Steps(f, a, S, nx) /\ DOMAIN f = 0 .. MaxChunks
                  /\ \A k \in 0 .. MaxChunks : Trail(f[k], a, S, t, nx)
<1> DEFINE V == {s \in Seq(S \cup {t}) : Trail(s, a, S, t, nx)}
           W == [s \in V |-> Pace(S, nx, s)]
           D == [k \in 0 .. MaxChunks - 1 |-> W]
           c == <<a>>
<1>1. \A s \in V : Pace(S, nx, s) \in V
  <2> TAKE s \in V
  <2>1. Trail(Pace(S, nx, s), a, S, t, nx)
    BY PaceOK
  <2> QED
    BY <2>1 DEF Trail
<1>2. W \in [V -> V]
  BY <1>1
<1>3. D \in RecursionSteps(0, MaxChunks, V)
  <2> HIDE DEF V, W
  <2> QED
    BY <1>2 DEF RecursionSteps
<1>4. c \in V
  <2>1. Trail(c, a, S, t, nx)
    BY Begins
  <2> QED
    BY <2>1 DEF Trail
<1>5. PICK f : Recursion(f, 0, MaxChunks, V, c, D)
  <2> HIDE DEF V, D, c
  <2> QED
    BY <1>3, <1>4, PrimRec
<1>6. /\ f \in [0 .. MaxChunks -> V] /\ f[0] = c
      /\ \A n \in 0 .. MaxChunks - 1 : f[n + 1] = D[n][f[n]]
  BY <1>5 DEF Recursion
<1>7. \A k \in 0 .. MaxChunks : f[k] \in V
  BY <1>6
<1>8. ASSUME NEW k \in 1 .. MaxChunks PROVE f[k] = Pace(S, nx, f[k - 1])
  <2>1. k - 1 \in 0 .. MaxChunks - 1 /\ (k - 1) + 1 = k /\ k - 1 \in 0 .. MaxChunks
    OBVIOUS
  <2>2. f[k] = D[k - 1][f[k - 1]]
    BY <1>6, <2>1
  <2>3. D[k - 1] = W /\ f[k - 1] \in V
    BY <1>7, <2>1
  <2> QED
    BY <2>2, <2>3
<1>9. Steps(f, a, S, nx)
  BY <1>6, <1>8 DEF Steps
<1>10. \A k \in 0 .. MaxChunks : Trail(f[k], a, S, t, nx)
  BY <1>7
<1> QED
  BY <1>6, <1>9, <1>10

\* The successors in a list and in the heap.
NextNode(x, S) == [n \in S |-> x.mem[n].hi]

\* The chunk behind another.
NextChunk(C, z) == [n \in C |-> n + z[n] + 8]

\* A linked list is such a chain.
LEMMA ListChain ==
    ASSUME NEW x, NEW head, NEW S, NEW r, Linked(x, head, S, r)
    PROVE  Chain(head, S, NULL, NextNode(x, S), r)
<1>1. /\ r \in [Cells -> Int] /\ S \subseteq Cells
      /\ IF head = NULL THEN S = {} ELSE head \in S /\ \A n \in S : r[head] <= r[n]
      /\ \A n \in S : x.mem[n].hi = NULL \/ (x.mem[n].hi \in S /\ r[n] < r[x.mem[n].hi])
      /\ \A m, n \in S : r[m] < r[n] => x.mem[m].hi # NULL /\ r[x.mem[m].hi] <= r[n]
      /\ \A m, n \in S : r[m] = r[n] => m = n
  BY DEF Linked
<1>2. NULL \notin S
  BY <1>1, CellIs, HeapNumbers
<1>3. PICK nx : nx = NextNode(x, S)
  OBVIOUS
<1>4. \A n \in S : nx[n] = x.mem[n].hi
  BY <1>3 DEF NextNode
<1>5. nx \in [S -> S \cup {NULL}]
  BY <1>1, <1>3 DEF NextNode
<1>6. \A n \in S : r[n] \in Int
  BY <1>1
<1>7. \A n \in S : nx[n] # NULL => r[n] < r[nx[n]]
  BY <1>1, <1>4
<1>8. \A m, n \in S : r[m] < r[n] => nx[m] # NULL /\ r[nx[m]] <= r[n]
  BY <1>1, <1>4
<1>9. /\ head \in S \cup {NULL} /\ (head = NULL => S = {})
      /\ head \in S => \A n \in S : r[head] <= r[n]
  BY <1>1
<1>10. Chain(head, S, NULL, nx, r)
  BY <1>1, <1>2, <1>5, <1>6, <1>7, <1>8, <1>9 DEF Chain
<1> QED
  BY <1>3, <1>10

\* The chunks are such a chain, in the order of their addresses.
LEMMA ChunkChain ==
    ASSUME NEW C, NEW e, NEW z, Tiling(C, e, z)
    PROVE  Chain(First, C, e, NextChunk(C, z), [n \in C |-> n])
<1>1. /\ \A n \in C : /\ n \in Nat /\ First <= n /\ n < e /\ z[n] \in Nat
                      /\ n + z[n] + 8 \in C \cup {e}
      /\ \A m, n \in C : m < n => m + z[m] + 8 <= n
      /\ e \in Nat
  BY TileCells
<1>2. First \in C \cup {e} /\ (First = e => C = {}) /\ e \notin C
  BY <1>1, HeapNumbers DEF Tiling
<1>3. PICK nx, r : nx = NextChunk(C, z) /\ r = [n \in C |-> n]
  OBVIOUS
<1>4. \A n \in C : nx[n] = n + z[n] + 8 /\ r[n] = n /\ r[n] \in Int
  BY <1>1, <1>3 DEF NextChunk
<1>5. nx \in [C -> C \cup {e}]
  BY <1>1, <1>3 DEF NextChunk
<1>6. First \in C => \A n \in C : r[First] <= r[n]
  BY <1>1, <1>4
<1>7. ASSUME NEW n \in C, nx[n] # e PROVE r[n] < r[nx[n]]
  <2>1. nx[n] \in C /\ nx[n] = n + z[n] + 8
    BY <1>1, <1>4, <1>7
  <2>2. r[n] = n /\ r[nx[n]] = n + z[n] + 8
    BY <1>4, <2>1
  <2> QED
    BY <1>1, <2>2
<1>8. ASSUME NEW m \in C, NEW n \in C, r[m] < r[n] PROVE nx[m] # e /\ r[nx[m]] <= r[n]
  <2>1. m < n /\ r[n] = n /\ nx[m] = m + z[m] + 8
    BY <1>4, <1>8
  <2>2. m + z[m] + 8 <= n /\ n < e
    BY <1>1, <2>1
  <2>3. nx[m] # e /\ nx[m] \in C
    BY <1>1, <2>1, <2>2
  <2>4. r[nx[m]] = nx[m]
    BY <1>4, <2>3
  <2> QED
    BY <2>1, <2>2, <2>3, <2>4
<1>9. \A m, n \in C : r[m] = r[n] => m = n
  BY <1>4
<1>10. Chain(First, C, e, nx, r)
  BY <1>2, <1>4, <1>5, <1>6, <1>7, <1>8, <1>9 DEF Chain
<1> QED
  BY <1>3, <1>10

\* Following a list through chunks leads through all of it, to NULL.
LEMMA ListWayIs ==
    ASSUME NEW x, NEW head, NEW S, NEW r, Linked(x, head, S, r),
           NEW C, NEW e, NEW z, Tiling(C, e, z), S \subseteq C
    PROVE  Whither(ListWay(x, head), head, S, NULL, NextNode(x, S))
<1> DEFINE Loop(g) == g = [k \in 0 .. MaxChunks |-> IF k = 0 THEN <<head>>
                                                    ELSE ListStep(x, g[k - 1])]
           w == CHOOSE g : Loop(g)
<1>0. PICK nx : nx = NextNode(x, S)
  OBVIOUS
<1>1. Chain(head, S, NULL, nx, r)
  BY <1>0, ListChain
<1>2. MaxChunks \in Nat
  BY <1>1, Begins, Short
<1>3. ASSUME NEW s, Trail(s, head, S, NULL, nx) PROVE ListStep(x, s) = Pace(S, nx, s)
  <2>1. Last(s) \in S \/ Last(s) = NULL
    BY <1>1, <1>3, PaceOK
  <2>2. Last(s) \in Cells <=> Last(s) \in S
    BY <2>1, CellIs, HeapNumbers DEF Linked
  <2>3. Last(s) \in S => nx[Last(s)] = x.mem[Last(s)].hi
    BY <1>0 DEF NextNode
  <2> QED
    BY <2>2, <2>3 DEF ListStep, Pace
<1>4. PICK f : /\ Steps(f, head, S, nx) /\ DOMAIN f = 0 .. MaxChunks
               /\ \A k \in 0 .. MaxChunks : Trail(f[k], head, S, NULL, nx)
  BY <1>1, <1>2, WalkExists
<1>5. PICK g : Loop(g)
  <2>1. PICK g : g = [k \in 0 .. MaxChunks |-> f[k]]
    OBVIOUS
  <2>2. ASSUME NEW k \in 0 .. MaxChunks
        PROVE  g[k] = IF k = 0 THEN <<head>> ELSE ListStep(x, g[k - 1])
    <3>1. CASE k = 0
      BY <1>4, <2>1, <3>1 DEF Steps
    <3>2. CASE k # 0
      <4>1. k \in 1 .. MaxChunks /\ k - 1 \in 0 .. MaxChunks
        BY <1>2, <3>2
      <4>2. f[k] = Pace(S, nx, f[k - 1]) /\ g[k - 1] = f[k - 1] /\ g[k] = f[k]
        BY <1>4, <2>1, <4>1 DEF Steps
      <4>3. ListStep(x, f[k - 1]) = Pace(S, nx, f[k - 1])
        BY <1>3, <1>4, <4>1
      <4> QED
        BY <3>2, <4>2, <4>3
    <3> QED
      BY <3>1, <3>2
  <2>3. g = [k \in 0 .. MaxChunks |-> IF k = 0 THEN <<head>> ELSE ListStep(x, g[k - 1])]
    BY <2>1, <2>2
  <2> QED
    BY <2>3
<1>6. Loop(w)
  <2> HIDE DEF Loop
  <2> QED
    BY <1>5
<1>7. ListWay(x, head) = w[MaxChunks]
  BY DEF ListWay
<1> HIDE DEF w
<1>8. /\ w[0] = <<head>>
      /\ \A k \in 1 .. MaxChunks : w[k] = ListStep(x, w[k - 1])
  <2>1. \A k \in 0 .. MaxChunks : w[k] = IF k = 0 THEN <<head>> ELSE ListStep(x, w[k - 1])
    BY <1>6
  <2> QED
    BY <1>2, <2>1
<1> HIDE DEF Loop
<1> DEFINE T == {k \in Int : Trail(w[k], head, S, NULL, nx)}
<1>9. 0 \in T
  BY <1>1, <1>8, Begins
<1>10. ASSUME NEW k \in 0 .. MaxChunks - 1, k \in T PROVE k + 1 \in T
  <2>1. k + 1 \in 1 .. MaxChunks /\ (k + 1) - 1 = k /\ k + 1 \in Int
    BY <1>2
  <2>2. w[k + 1] = ListStep(x, w[k])
    BY <1>8, <2>1
  <2>3. Trail(w[k], head, S, NULL, nx)
    BY <1>10
  <2>4. Trail(w[k + 1], head, S, NULL, nx)
    BY <1>1, <1>3, <2>2, <2>3, PaceOK
  <2> QED
    BY <2>1, <2>4
<1>11. \A k \in 0 .. MaxChunks : k \in T
  <2> HIDE DEF T
  <2> QED
    BY <1>2, <1>9, <1>10, Induct
<1>12. Steps(w, head, S, nx)
  <2>1. ASSUME NEW k \in 1 .. MaxChunks PROVE w[k] = Pace(S, nx, w[k - 1])
    <3>1. k - 1 \in 0 .. MaxChunks
      BY <1>2
    <3>2. Trail(w[k - 1], head, S, NULL, nx)
      BY <1>11, <3>1
    <3> QED
      BY <1>3, <1>8, <3>2
  <2> QED
    BY <1>8, <2>1 DEF Steps
<1>13. Whither(w[MaxChunks], head, S, NULL, nx)
  BY <1>1, <1>12, Walk
<1> QED
  BY <1>0, <1>7, <1>13

\* Following the sizes leads through all chunks, to the end of the heap.
LEMMA ChunkWayIs ==
    ASSUME NEW x, NEW C, NEW z, NEW F, NEW r, NEW P, NEW q, NEW B, NEW U,
           HeapOK(x, x.end, C, z, F, r, P, q, B, U)
    PROVE  Whither(ChunkWay(x), First, C, x.end, NextChunk(C, z))
<1> DEFINE Loop(g) == g = [k \in 0 .. MaxChunks |-> IF k = 0 THEN <<First>>
                                                    ELSE ChunkStep(x, g[k - 1])]
           w == CHOOSE g : Loop(g)
<1>0. PICK nx, e : nx = NextChunk(C, z) /\ e = x.end
  OBVIOUS
<1>t. Tiling(C, e, z) /\ \A n \in C : alloc_get_size(x, n) = z[n]
  BY <1>0, ChunkWords
<1>1. Chain(First, C, e, nx, [n \in C |-> n])
  BY <1>0, <1>t, ChunkChain
<1>2. MaxChunks \in Nat
  BY <1>1, <1>t, Begins, Short
<1>3. ASSUME NEW s, Trail(s, First, C, e, nx) PROVE ChunkStep(x, s) = Pace(C, nx, s)
  <2>1. Last(s) \in C \/ Last(s) = e
    BY <1>1, <1>3, PaceOK
  <2>2. \A n \in C : n \in Cells /\ n < e /\ z[n] > 0 /\ n \in Nat
    BY <1>t, TileCells
  <2>3. e \in Nat
    BY <1>t, TileCells
  <2>4. /\ Last(s) \in Cells /\ Last(s) < x.end /\ alloc_get_size(x, Last(s)) > 0
        <=> Last(s) \in C
    BY <1>0, <1>t, <2>1, <2>2, <2>3
  <2>5. Last(s) \in C => nx[Last(s)] = Last(s) + alloc_get_size(x, Last(s)) + DESC
    BY <1>0, <1>t, HeapNumbers DEF NextChunk
  <2> QED
    BY <2>4, <2>5 DEF ChunkStep, Pace
<1>4. PICK f : /\ Steps(f, First, C, nx) /\ DOMAIN f = 0 .. MaxChunks
               /\ \A k \in 0 .. MaxChunks : Trail(f[k], First, C, e, nx)
  BY <1>1, <1>2, WalkExists
<1>5. PICK g : Loop(g)
  <2>1. PICK g : g = [k \in 0 .. MaxChunks |-> f[k]]
    OBVIOUS
  <2>2. ASSUME NEW k \in 0 .. MaxChunks
        PROVE  g[k] = IF k = 0 THEN <<First>> ELSE ChunkStep(x, g[k - 1])
    <3>1. CASE k = 0
      BY <1>4, <2>1, <3>1 DEF Steps
    <3>2. CASE k # 0
      <4>1. k \in 1 .. MaxChunks /\ k - 1 \in 0 .. MaxChunks
        BY <1>2, <3>2
      <4>2. f[k] = Pace(C, nx, f[k - 1]) /\ g[k - 1] = f[k - 1] /\ g[k] = f[k]
        BY <1>4, <2>1, <4>1 DEF Steps
      <4>3. ChunkStep(x, f[k - 1]) = Pace(C, nx, f[k - 1])
        BY <1>3, <1>4, <4>1
      <4> QED
        BY <3>2, <4>2, <4>3
    <3> QED
      BY <3>1, <3>2
  <2>3. g = [k \in 0 .. MaxChunks |-> IF k = 0 THEN <<First>> ELSE ChunkStep(x, g[k - 1])]
    BY <2>1, <2>2
  <2> QED
    BY <2>3
<1>6. Loop(w)
  <2> HIDE DEF Loop
  <2> QED
    BY <1>5
<1>7. ChunkWay(x) = w[MaxChunks]
  BY DEF ChunkWay, First
<1> HIDE DEF w
<1>8. /\ w[0] = <<First>>
      /\ \A k \in 1 .. MaxChunks : w[k] = ChunkStep(x, w[k - 1])
  <2>1. \A k \in 0 .. MaxChunks : w[k] = IF k = 0 THEN <<First>> ELSE ChunkStep(x, w[k - 1])
    BY <1>6
  <2> QED
    BY <1>2, <2>1
<1> HIDE DEF Loop
<1> DEFINE T == {k \in Int : Trail(w[k], First, C, e, nx)}
<1>9. 0 \in T
  BY <1>1, <1>8, Begins
<1>10. ASSUME NEW k \in 0 .. MaxChunks - 1, k \in T PROVE k + 1 \in T
  <2>1. k + 1 \in 1 .. MaxChunks /\ (k + 1) - 1 = k /\ k + 1 \in Int
    BY <1>2
  <2>2. w[k + 1] = ChunkStep(x, w[k])
    BY <1>8, <2>1
  <2>3. Trail(w[k], First, C, e, nx)
    BY <1>10
  <2>4. Trail(w[k + 1], First, C, e, nx)
    BY <1>1, <1>3, <2>2, <2>3, PaceOK
  <2> QED
    BY <2>1, <2>4
<1>11. \A k \in 0 .. MaxChunks : k \in T
  <2> HIDE DEF T
  <2> QED
    BY <1>2, <1>9, <1>10, Induct
<1>12. Steps(w, First, C, nx)
  <2>1. ASSUME NEW k \in 1 .. MaxChunks PROVE w[k] = Pace(C, nx, w[k - 1])
    <3>1. k - 1 \in 0 .. MaxChunks
      BY <1>2
    <3>2. Trail(w[k - 1], First, C, e, nx)
      BY <1>11, <3>1
    <3> QED
      BY <1>3, <1>8, <3>2
  <2> QED
    BY <1>8, <2>1 DEF Steps
<1>13. Whither(w[MaxChunks], First, C, e, nx)
  BY <1>1, <1>12, <1>t, Walk
<1> QED
  BY <1>0, <1>7, <1>13

-----------------------------------------------------------------------------
(* alloc's search.                                                         *)

\* alloc's search ends: at NULL or at a free chunk that is large enough.
LEMMA FirstFitIs ==
    ASSUME NEW x, NEW C, NEW z, NEW F, NEW r, NEW P, NEW q, NEW B, NEW U,
           HeapOK(x, x.end, C, z, F, r, P, q, B, U), NEW b
    PROVE  LET n == FirstFit(x, b) IN n = NULL \/ (n \in F /\ Suits(x, n, b))
<1> DEFINE way == ListWay(x, x.free_list)
           Stops(k) == way[k] = NULL \/ Suits(x, way[k], b)
           Q == {k \in 1 .. Len(way) : Stops(k)}
           k == CHOOSE i \in DOMAIN way : Stops(i) /\ \A j \in 1 .. i - 1 : ~Stops(j)
<1>1. Whither(way, x.free_list, F, NULL, NextNode(x, F))
  <2>1. Tiling(C, x.end, z) /\ F \subseteq C
    BY ChunkWords
  <2>2. Linked(x, x.free_list, F, r)
    BY DEF HeapOK
  <2> QED
    BY <2>1, <2>2, ListWayIs
<1>2. FirstFit(x, b) = way[k]
  BY DEF FirstFit
<1> HIDE DEF way
<1>3. /\ way \in Seq(F \cup {NULL}) /\ Len(way) \in Nat /\ Len(way) >= 1
      /\ DOMAIN way = 1 .. Len(way) /\ way[Len(way)] = NULL
      /\ \A i \in 1 .. Len(way) : way[i] \in F \cup {NULL}
  BY <1>1, ElementOfSeq DEF Whither, Trail
<1>4. PICK l \in Nat : l = Len(way)
  BY <1>3, Zenon
<1>5. l \in Q /\ Q \subseteq Nat
  BY <1>3, <1>4
<1>6. PICK i \in Q : \A j \in Q : i <= j
  <2> HIDE DEF Q
  <2> QED
    BY <1>5, NatMin
<1>7. Stops(i) /\ i \in 1 .. l /\ i \in DOMAIN way
  BY <1>3, <1>4, <1>6
<1>8. ASSUME NEW j \in 1 .. i - 1, Stops(j) PROVE FALSE
  <2> HIDE DEF Stops
  <2>1. j \in 1 .. l /\ ~(i <= j)
    BY <1>7
  <2>2. j \in Q
    BY <1>4, <1>8, <2>1
  <2> QED
    BY <1>6, <2>1, <2>2
<1>9. k \in DOMAIN way /\ Stops(k)
  <2> HIDE DEF Stops
  <2> QED
    BY <1>7, <1>8
<1> HIDE DEF k
<1>10. way[k] \in F \cup {NULL}
  BY <1>3, <1>9
<1> QED
  BY <1>2, <1>9, <1>10

\* A chunk of the free list is taken.
LEMMA TakeChunkOK ==
    ASSUME NEW x, NEW C, NEW z, NEW F, NEW r, NEW P, NEW q, NEW B,
           HeapOK(x, x.end, C, z, F, r, P, q, B, {}), Settled(x, x.end, C, z, F),
           NEW n \in F, NEW b \in Nat, b >= 8, b % 8 = 0, Suits(x, n, b)
    PROVE  LET y == TakeChunk(x, n, b)
           IN  Given(y, n, b, P, B) /\ Quiet(x, y, P, x.end) /\ SameSizes(x, y, B)
<1>1. alloc_get_size(x, n) = z[n] /\ n \in C /\ z[n] \in Nat
  BY ChunkWords, TileCells
<1>2. CASE z[n] = b
  BY <1>1, <1>2, ExactOK DEF TakeChunk
<1>3. CASE z[n] # b
  <2>1. b + 8 < z[n]
    BY <1>1, <1>3, HeapNumbers DEF Suits
  <2> QED
    BY <1>1, <1>3, <2>1, SplitOK DEF TakeChunk
<1> QED
  BY <1>2, <1>3

=============================================================================
