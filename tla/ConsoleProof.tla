---------------------------- MODULE ConsoleProof ----------------------------
(***************************************************************************)
(* vga_putc stays inside the buffer for every screen size and any number   *)
(* of contexts that preempt each other, and both consoles show the end of  *)
(* what was printed, for every screen size, text and number of contexts.   *)
(***************************************************************************)
EXTENDS Console, Induction, SequenceTheorems, TLAPS

-----------------------------------------------------------------------------
(* vga_putc and its scrolling, by themselves.                              *)

\* The buffer has at least one line, and scrolling from its end leads into it.
LEMMA SizeFacts ==
    /\ VGA_SIZE \in Nat
    /\ VGA_WIDTH <= VGA_SIZE
    /\ VGA_SIZE - VGA_WIDTH \in Cells
<1>1. VGA_SIZE \in Nat
    BY SizeAssumption DEF VGA_SIZE
<1>2. VGA_SIZE = (VGA_HEIGHT - 1) * VGA_WIDTH + VGA_WIDTH
    BY SizeAssumption DEF VGA_SIZE
<1>3. (VGA_HEIGHT - 1) * VGA_WIDTH >= 0
    <2>1. VGA_HEIGHT - 1 \in Nat /\ VGA_WIDTH \in Nat
        BY SizeAssumption
    <2> QED BY <2>1
<1>4. (VGA_HEIGHT - 1) * VGA_WIDTH \in Int
    BY SizeAssumption
<1> QED BY <1>1, <1>2, <1>3, <1>4, SizeAssumption DEF Cells

\* Products of natural numbers are monotonic.
LEMMA Monotonic ==
    ASSUME NEW a \in Nat, NEW b \in Nat, NEW w \in Nat, a <= b
    PROVE  a * w <= b * w
<1>1. b * w = a * w + (b - a) * w
    OBVIOUS
<1>2. (b - a) * w >= 0
    <2>1. b - a \in Nat
        OBVIOUS
    <2> QED BY <2>1
<1>3. a * w \in Int /\ b * w \in Int /\ (b - a) * w \in Int
    OBVIOUS
<1> QED BY <1>1, <1>2, <1>3

\* vga_linebreak from a position inside the buffer leads at most to its end.
LEMMA NextLineBounded ==
    ASSUME NEW pos \in Cells
    PROVE  NextLine(pos) \in 0 .. VGA_SIZE
<1> DEFINE q == pos \div VGA_WIDTH
           r == pos % VGA_WIDTH
<1>1. pos \in Nat /\ pos < VGA_SIZE
    BY SizeFacts DEF Cells
<1>2. /\ q \in Nat /\ r \in Nat
      /\ r < VGA_WIDTH /\ pos = q * VGA_WIDTH + r
    BY <1>1, SizeAssumption
<1>3. q < VGA_HEIGHT
    <2>1. SUFFICES ASSUME VGA_HEIGHT <= q PROVE FALSE
        BY <1>2, SizeAssumption
    <2>2. VGA_HEIGHT * VGA_WIDTH <= q * VGA_WIDTH
        BY <2>1, <1>2, Monotonic, SizeAssumption
    <2> QED BY <2>2, <1>1, <1>2, SizeFacts, SizeAssumption DEF VGA_SIZE
<1>4. (q + 1) * VGA_WIDTH <= VGA_HEIGHT * VGA_WIDTH
    <2>1. q + 1 \in Nat /\ q + 1 <= VGA_HEIGHT
        BY <1>2, <1>3, SizeAssumption
    <2> QED BY <2>1, Monotonic, SizeAssumption
<1>5. NextLine(pos) = (q + 1) * VGA_WIDTH
    <2>1. (q + 1) * VGA_WIDTH = q * VGA_WIDTH + VGA_WIDTH
        BY <1>2, SizeAssumption
    <2>2. q * VGA_WIDTH \in Int
        BY <1>2, SizeAssumption
    <2> HIDE DEF q
    <2> QED BY <2>1, <2>2, <1>2, SizeAssumption DEF NextLine
<1>6. (q + 1) * VGA_WIDTH \in Nat
    BY <1>2, SizeAssumption
<1> HIDE DEF q, r
<1> QED BY <1>4, <1>5, <1>6, SizeFacts DEF VGA_SIZE

LEMMA InitHolds == Init => VgaInvariant
    BY SizeFacts, CharAssumption
    DEF Init, VgaInvariant, TypeOK, InBounds, Cells, Glyphs, Points

LEMMA NextHolds == VgaInvariant /\ [Next]_vars => VgaInvariant'
<1> SUFFICES ASSUME VgaInvariant, [Next]_vars PROVE VgaInvariant'
    OBVIOUS
<1> USE SizeFacts DEF VgaInvariant, TypeOK, InBounds, Points
<1>1. ASSUME NEW p \in Contexts, NEW c \in Chars, Putc(p, c)
      PROVE  VgaInvariant'
    BY <1>1 DEF Putc, ScreenFull, Cells
<1>2. ASSUME NEW p \in Contexts, Scroll(p)
      PROVE  VgaInvariant'
    <2>1. Scrolled \in [Cells -> Glyphs]
        BY SizeAssumption DEF Scrolled, Glyphs, Cells
    <2> QED BY <1>2, <2>1, SizeAssumption DEF Scroll, Cells
<1>3. ASSUME NEW p \in Contexts, Put(p)
      PROVE  VgaInvariant'
    <2>1. chr[p] \in Glyphs
        BY <1>3 DEF Put, Glyphs
    <2> QED BY <1>3, <2>1 DEF Put, Cells
<1>4. ASSUME NEW p \in Contexts, Store(p)
      PROVE  VgaInvariant'
    BY <1>4 DEF Store, Cells
<1>5. ASSUME NEW p \in Contexts, Linebreak(p)
      PROVE  VgaInvariant'
    <2>1. NextLine(reg[p]) \in 0 .. VGA_SIZE
        BY <1>5, NextLineBounded DEF Linebreak
    <2> QED BY <1>5, <2>1 DEF Linebreak, Cells
<1>6. ASSUME NEW p \in Contexts, LinebreakScroll(p)
      PROVE  VgaInvariant'
    <2>1. Scrolled \in [Cells -> Glyphs]
        BY SizeAssumption DEF Scrolled, Glyphs, Cells
    <2> QED BY <1>6, <2>1 DEF LinebreakScroll, Cells
<1>7. ASSUME NEW p \in Contexts, LinebreakStore(p)
      PROVE  VgaInvariant'
    BY <1>7, SizeAssumption DEF LinebreakStore, Cells
<1>8. CASE UNCHANGED vars
    BY <1>8 DEF vars
<1> QED BY <1>1, <1>2, <1>3, <1>4, <1>5, <1>6, <1>7, <1>8 DEF Next, Continue

\* vga_putc, preempted anywhere by other callers of vga_putc, never indexes
\* vga_buffer outside the screen, and vga_pos never passes its end.
THEOREM BoundsCorrect == Spec => []InBounds
<1>1. Spec => []VgaInvariant
    BY InitHolds, NextHolds, PTL DEF Spec
<1>2. VgaInvariant => InBounds
    BY DEF VgaInvariant
<1> QED BY <1>1, <1>2, PTL

\* The position, the buffer and what preempted callers of vga_putc hold in
\* registers keep their types.
THEOREM VgaTypeCorrect == Spec => []TypeOK
<1>1. Spec => []VgaInvariant
    BY InitHolds, NextHolds, PTL DEF Spec
<1>2. VgaInvariant => TypeOK
    BY DEF VgaInvariant
<1> QED BY <1>1, <1>2, PTL

-----------------------------------------------------------------------------
(* Arithmetic of lines.                                                    *)

\* A product of naturals, as the provers need it.
LEMMA Lines ==
    ASSUME NEW a \in Nat, NEW w \in Nat
    PROVE  a * w \in Nat /\ (a + 1) * w = a * w + w
OBVIOUS

\* A position is known by its line and its column.
LEMMA LineIs ==
    ASSUME NEW w \in Nat \ {0}, NEW q \in Nat, NEW r \in 0 .. w - 1
    PROVE  (q * w + r) \div w = q /\ (q * w + r) % w = r
<1> DEFINE n == q * w + r
           d == n \div w
           e == n % w
<1>1. n \in Nat /\ q * w \in Nat
  BY Lines
<1>2. d \in Nat /\ e \in 0 .. w - 1 /\ n = d * w + e
  BY <1>1
<1>3. n = q * w + r
  OBVIOUS
<1> HIDE DEF n, d, e
<1>4. d * w \in Nat /\ (d + 1) * w = d * w + w /\ (q + 1) * w = q * w + w
  BY <1>2, Lines
<1>5. ~(d < q)
  <2> SUFFICES ASSUME d + 1 <= q PROVE FALSE
    BY <1>2
  <2>1. (d + 1) * w <= q * w
    BY <1>2, Monotonic
  <2> QED
    BY <1>1, <1>2, <1>3, <1>4, <2>1
<1>6. ~(q < d)
  <2> SUFFICES ASSUME q + 1 <= d PROVE FALSE
    BY <1>2
  <2>1. (q + 1) * w <= d * w
    BY <1>2, Monotonic
  <2> QED
    BY <1>1, <1>2, <1>3, <1>4, <2>1
<1>7. d = q
  BY <1>2, <1>5, <1>6
<1>8. e = r
  BY <1>1, <1>2, <1>3, <1>7
<1> QED
  BY <1>7, <1>8 DEF d, e, n

\* vga_linebreak on a window top lines down moves as the endless screen does.
LEMMA NextLineIs ==
    ASSUME NEW pos \in Nat, NEW top \in Nat
    PROVE  /\ NextLine(pos) \in Nat /\ pos < NextLine(pos) /\ NextLine(pos) <= pos + VGA_WIDTH
           /\ Advance(pos + top * VGA_WIDTH, NL) = NextLine(pos) + top * VGA_WIDTH
           /\ NextLine(pos) = (pos \div VGA_WIDTH + 1) * VGA_WIDTH
<1> DEFINE q == pos \div VGA_WIDTH
           r == pos % VGA_WIDTH
<1>1. VGA_WIDTH \in Nat \ {0}
  BY SizeAssumption
<1>2. q \in Nat /\ r \in 0 .. VGA_WIDTH - 1 /\ pos = q * VGA_WIDTH + r
  BY <1>1
<1>3. NextLine(pos) = pos + VGA_WIDTH - r
  BY DEF NextLine
<1> HIDE DEF q, r
<1>4. /\ q * VGA_WIDTH \in Nat /\ top * VGA_WIDTH \in Nat
      /\ (q + 1) * VGA_WIDTH = q * VGA_WIDTH + VGA_WIDTH
  BY <1>1, <1>2, Lines
<1>5. (q + top) * VGA_WIDTH = q * VGA_WIDTH + top * VGA_WIDTH
  BY <1>1, <1>2
<1>6. ((q + top) + 1) * VGA_WIDTH = (q + top) * VGA_WIDTH + VGA_WIDTH
  BY <1>1, <1>2, Lines
<1>7. pos + top * VGA_WIDTH = (q + top) * VGA_WIDTH + r
  BY <1>1, <1>2, <1>4, <1>5
<1>8. (pos + top * VGA_WIDTH) \div VGA_WIDTH = q + top
  <2>1. q + top \in Nat
    BY <1>2
  <2> QED
    BY <1>1, <1>2, <1>7, <2>1, LineIs
<1>9. Advance(pos + top * VGA_WIDTH, NL) = ((q + top) + 1) * VGA_WIDTH
  BY <1>8 DEF Advance
<1>10. /\ NextLine(pos) \in Nat /\ pos < NextLine(pos) /\ NextLine(pos) <= pos + VGA_WIDTH
       /\ NextLine(pos) = (q + 1) * VGA_WIDTH
  BY <1>1, <1>2, <1>3, <1>4
<1>11. Advance(pos + top * VGA_WIDTH, NL) = NextLine(pos) + top * VGA_WIDTH
  BY <1>1, <1>4, <1>5, <1>6, <1>9, <1>10
<1> QED
  BY <1>10, <1>11 DEF q

-----------------------------------------------------------------------------
(* The cursor on the endless screen.                                       *)

\* A character moves the cursor on, by a line at most.
LEMMA AdvanceBound ==
    ASSUME NEW pos \in Nat, NEW c
    PROVE  Advance(pos, c) \in Nat /\ pos < Advance(pos, c) /\ Advance(pos, c) <= pos + VGA_WIDTH
<1>1. VGA_WIDTH \in Nat \ {0}
  BY SizeAssumption
<1>2. CASE c = NL
  <2>1. PICK z \in Nat : z = 0
    OBVIOUS
  <2>2. /\ NextLine(pos) \in Nat /\ pos < NextLine(pos) /\ NextLine(pos) <= pos + VGA_WIDTH
        /\ NextLine(pos) = (pos \div VGA_WIDTH + 1) * VGA_WIDTH
    BY <2>1, NextLineIs
  <2> QED
    BY <1>2, <2>2 DEF Advance
<1>3. CASE c # NL
  BY <1>1, <1>3 DEF Advance
<1> QED
  BY <1>2, <1>3

\* The recursion of Cursor has its solution.
LEMMA CursorIs ==
    ASSUME NEW s \in Nat, NEW t \in Seq(Chars)
    PROVE  LET c == Cursor(s, t)
           IN  /\ c \in [0 .. Len(t) -> Nat] /\ c[0] = s
               /\ \A n \in 0 .. Len(t) - 1 : c[n + 1] = Advance(c[n], t[n + 1])
<1> DEFINE c == Cursor(s, t)
           D == [n \in 0 .. Len(t) - 1 |-> [v \in Nat |-> Advance(v, t[n + 1])]]
<1>1. PICK l \in Nat : l = Len(t)
  BY LenProperties
<1>2. \E f : Recursion(f, 0, l, Nat, s, D)
  <2>1. D \in RecursionSteps(0, l, Nat)
    <3>1. \A n \in 0 .. l - 1 : [v \in Nat |-> Advance(v, t[n + 1])] \in [Nat -> Nat]
      BY AdvanceBound
    <3> QED
      BY <1>1, <3>1 DEF RecursionSteps
  <2>2. PICK z \in Int : z = 0
    OBVIOUS
  <2>3. z <= l /\ l \in Int
    BY <2>2
  <2> HIDE DEF D
  <2>4. D \in RecursionSteps(z, l, Nat)
    BY <2>1, <2>2
  <2>5. \E f : Recursion(f, z, l, Nat, s, D)
    BY <2>3, <2>4, PrimRec
  <2> QED
    BY <2>2, <2>5
<1>3. PICK f : Recursion(f, 0, l, Nat, s, D)
  BY <1>2
<1>4. /\ f \in [0 .. l -> Nat] /\ f[0] = s
      /\ \A n \in 0 .. l - 1 : f[n + 1] = Advance(f[n], t[n + 1])
  <2>1. f \in [0 .. l -> Nat] /\ f[0] = s /\ \A n \in 0 .. l - 1 : f[n + 1] = D[n][f[n]]
    BY <1>3 DEF Recursion
  <2>2. ASSUME NEW n \in 0 .. l - 1 PROVE f[n + 1] = Advance(f[n], t[n + 1])
    <3>1. n \in 0 .. l /\ f[n] \in Nat /\ n \in 0 .. Len(t) - 1
      BY <1>1, <2>1
    <3>2. D[n][f[n]] = Advance(f[n], t[n + 1])
      BY <3>1
    <3> QED
      BY <2>1, <3>2
  <2> QED
    BY <2>1, <2>2
<1>5. f = [n \in 0 .. Len(t) |-> IF n = 0 THEN s ELSE Advance(f[n - 1], t[n])]
  <2>1. ASSUME NEW n \in 0 .. l PROVE f[n] = IF n = 0 THEN s ELSE Advance(f[n - 1], t[n])
    <3>1. CASE n = 0
      BY <1>4, <3>1
    <3>2. CASE n # 0
      <4>1. n - 1 \in 0 .. l - 1 /\ (n - 1) + 1 = n
        BY <3>2
      <4>2. f[(n - 1) + 1] = Advance(f[n - 1], t[(n - 1) + 1])
        BY <1>4, <4>1
      <4> QED
        BY <3>2, <4>1, <4>2
    <3> QED
      BY <3>1, <3>2
  <2> QED
    BY <1>1, <1>4, <2>1
<1>6. c = [n \in 0 .. Len(t) |-> IF n = 0 THEN s ELSE Advance(c[n - 1], t[n])]
  BY <1>5 DEF Cursor
<1> HIDE DEF c
<1>7. DOMAIN c = 0 .. l /\ c = [n \in 0 .. l |-> c[n]]
  BY <1>1, <1>6
<1>8. c[0] = s
  BY <1>1, <1>6
<1>9. ASSUME NEW n \in 0 .. l - 1 PROVE c[n + 1] = Advance(c[n], t[n + 1])
  <2>1. n + 1 \in 0 .. Len(t) /\ n + 1 # 0 /\ (n + 1) - 1 = n
    BY <1>1
  <2>2. c[n + 1] = Advance(c[(n + 1) - 1], t[n + 1])
    BY <1>6, <2>1
  <2> QED
    BY <2>1, <2>2
<1>10. \A n \in 0 .. l : c[n] \in Nat
  <2> DEFINE S == {n \in 0 .. l : c[n] \in Nat}
  <2>1. 0 \in S
    BY <1>8
  <2>2. \A n \in 0 .. l - 1 : n \in S => n + 1 \in S
    <3>1. ASSUME NEW n \in 0 .. l - 1, n \in S PROVE n + 1 \in S
      <4>1. c[n] \in Nat /\ n + 1 \in 0 .. l
        BY <3>1
      <4> QED
        BY <1>9, <4>1, AdvanceBound
    <3> QED
      BY <3>1
  <2>3. PICK z \in Int : z = 0
    OBVIOUS
  <2> HIDE DEF S
  <2>4. \A n \in z .. l : n \in S
    BY <2>1, <2>2, <2>3, Induct
  <2> QED
    BY <2>3, <2>4 DEF S
<1>11. c \in [0 .. l -> Nat]
  BY <1>7, <1>10
<1> QED
  BY <1>1, <1>8, <1>9, <1>11 DEF c


\* One character more does not move the earlier positions.
LEMMA CursorAppend ==
    ASSUME NEW s \in Nat, NEW t \in Seq(Chars), NEW ch \in Chars
    PROVE  LET c == Cursor(s, t)
               d == Cursor(s, Append(t, ch))
           IN  /\ \A n \in 0 .. Len(t) : d[n] = c[n]
               /\ d[Len(t) + 1] = Advance(c[Len(t)], ch)
<1> DEFINE c == Cursor(s, t)
           d == Cursor(s, Append(t, ch))
<1>1. /\ Append(t, ch) \in Seq(Chars) /\ Len(Append(t, ch)) = Len(t) + 1
      /\ \A i \in 1 .. Len(t) : Append(t, ch)[i] = t[i]
      /\ Append(t, ch)[Len(t) + 1] = ch
  BY AppendProperties
<1>2. PICK l \in Nat : l = Len(t)
  BY LenProperties
<1>3. c[0] = s /\ \A n \in 0 .. l - 1 : c[n + 1] = Advance(c[n], t[n + 1])
  BY <1>2, CursorIs
<1>4. d[0] = s /\ \A n \in 0 .. l : d[n + 1] = Advance(d[n], Append(t, ch)[n + 1])
  <2>1. PICK e \in Seq(Chars) : e = Append(t, ch) /\ Len(e) = l + 1
    BY <1>1, <1>2
  <2> DEFINE f == Cursor(s, e)
  <2>2. f[0] = s /\ \A n \in 0 .. Len(e) - 1 : f[n + 1] = Advance(f[n], e[n + 1])
    BY CursorIs
  <2> HIDE DEF f
  <2>3. 0 .. Len(e) - 1 = 0 .. l
    BY <2>1
  <2>4. f[0] = s /\ \A n \in 0 .. l : f[n + 1] = Advance(f[n], e[n + 1])
    BY <2>2, <2>3
  <2>5. f = d
    BY <2>1 DEF f
  <2> HIDE DEF d
  <2> QED
    BY <2>1, <2>4, <2>5
<1> HIDE DEF c, d
<1> DEFINE S == {n \in 0 .. l : d[n] = c[n]}
<1>5. 0 \in S
  BY <1>3, <1>4
<1>6. \A n \in 0 .. l - 1 : n \in S => n + 1 \in S
  <2>1. ASSUME NEW n \in 0 .. l - 1, n \in S PROVE n + 1 \in S
    <3>1. n + 1 \in 1 .. l /\ n \in 0 .. l /\ n + 1 \in 0 .. l /\ d[n] = c[n]
      BY <2>1
    <3>2. Append(t, ch)[n + 1] = t[n + 1]
      BY <1>1, <1>2, <3>1
    <3>3. d[n + 1] = c[n + 1]
      BY <1>3, <1>4, <3>1, <3>2
    <3> QED
      BY <3>1, <3>3
  <2> QED
    BY <2>1
<1>7. \A n \in 0 .. l : d[n] = c[n]
  <2>1. PICK z \in Int : z = 0
    OBVIOUS
  <2> HIDE DEF S
  <2>2. \A n \in z .. l : n \in S
    BY <1>5, <1>6, <2>1, Induct
  <2> QED
    BY <2>1, <2>2 DEF S
<1>8. d[l + 1] = Advance(c[l], ch)
  <2>1. l \in 0 .. l
    OBVIOUS
  <2> QED
    BY <1>1, <1>2, <1>4, <1>7, <2>1
<1> QED
  BY <1>2, <1>7, <1>8 DEF c, d

\* The cursor only moves on, by at most a line for each character.
LEMMA CursorGrows ==
    ASSUME NEW s \in Nat, NEW t \in Seq(Chars)
    PROVE  LET c == Cursor(s, t)
           IN  /\ \A n \in 0 .. Len(t) - 1 : c[n] < c[Len(t)]
               /\ c[Len(t)] <= s + Len(t) * VGA_WIDTH /\ s <= c[Len(t)]
<1> DEFINE c == Cursor(s, t)
<1>1. PICK l \in Nat : l = Len(t)
  BY LenProperties
<1>2. /\ c \in [0 .. l -> Nat] /\ c[0] = s
      /\ \A n \in 0 .. l - 1 : c[n + 1] = Advance(c[n], t[n + 1])
  BY <1>1, CursorIs
<1> HIDE DEF c
<1> DEFINE S == {n \in 0 .. l : /\ \A i \in 0 .. n - 1 : c[i] < c[n]
                                /\ c[n] <= s + n * VGA_WIDTH /\ s <= c[n]}
<1>3. VGA_WIDTH \in Nat
  BY SizeAssumption
<1>4. 0 \in S
  <2>1. 0 * VGA_WIDTH = 0
    BY <1>3
  <2> QED
    BY <1>2, <2>1
<1>5. \A n \in 0 .. l - 1 : n \in S => n + 1 \in S
  <2>1. ASSUME NEW n \in 0 .. l - 1, n \in S PROVE n + 1 \in S
    <3>1. /\ n \in Nat /\ n \in 0 .. l /\ n + 1 \in 0 .. l /\ \A i \in 0 .. n - 1 : c[i] < c[n]
          /\ c[n] <= s + n * VGA_WIDTH /\ s <= c[n]
      BY <2>1
    <3>2. c[n] \in Nat /\ c[n + 1] \in Nat /\ c[n] < c[n + 1] /\ c[n + 1] <= c[n] + VGA_WIDTH
      BY <1>2, <3>1, AdvanceBound
    <3>3. n * VGA_WIDTH \in Nat /\ (n + 1) * VGA_WIDTH = n * VGA_WIDTH + VGA_WIDTH
      BY <1>3, <3>1, Lines
    <3>4. c[n + 1] <= s + (n + 1) * VGA_WIDTH /\ s <= c[n + 1]
      BY <1>3, <3>1, <3>2, <3>3
    <3>5. ASSUME NEW i \in 0 .. (n + 1) - 1 PROVE c[i] < c[n + 1]
      <4>1. i \in 0 .. l /\ c[i] \in Nat
        BY <1>2
      <4>2. i = n \/ i \in 0 .. n - 1
        OBVIOUS
      <4>3. c[i] <= c[n]
        BY <3>1, <3>2, <4>1, <4>2
      <4> QED
        BY <3>2, <4>1, <4>3
    <3> QED
      BY <3>1, <3>4, <3>5
  <2> QED
    BY <2>1
<1>6. l \in S
  <2>1. PICK z \in Int : z = 0
    OBVIOUS
  <2> HIDE DEF S
  <2>2. \A n \in z .. l : n \in S
    BY <1>4, <1>5, <2>1, Induct
  <2> QED
    BY <2>1, <2>2
<1> QED
  BY <1>1, <1>6 DEF c

-----------------------------------------------------------------------------
(* The text on the endless screen.                                         *)

\* Nothing is printed behind the cursor.
LEMMA GlyphBeyond ==
    ASSUME NEW s \in Nat, NEW t \in Seq(Chars), NEW u, NEW k \in Nat, Cursor(s, t)[Len(t)] <= k
    PROVE  Glyph(u, s, t, k) = IF k \in Cells THEN u[k] ELSE BLANK
<1> DEFINE c == Cursor(s, t)
<1>1. PICK l \in Nat : l = Len(t)
  BY LenProperties
<1>2. c \in [0 .. l -> Nat] /\ \A n \in 0 .. l - 1 : c[n] < c[l]
  BY <1>1, CursorIs, CursorGrows
<1>3. c[l] <= k
  BY <1>1
<1> HIDE DEF c
<1>4. ASSUME NEW n \in 1 .. l PROVE c[n - 1] # k
  <2>1. n - 1 \in 0 .. l - 1 /\ n - 1 \in 0 .. l /\ l \in 0 .. l
    OBVIOUS
  <2>2. c[n - 1] \in Nat /\ c[l] \in Nat /\ c[n - 1] < c[l]
    BY <1>2, <2>1
  <2> QED
    BY <1>3, <2>2
<1>5. {n \in 1 .. Len(t) : t[n] # NL /\ Cursor(s, t)[n - 1] = k} = {}
  BY <1>1, <1>4 DEF c
<1> QED
  BY <1>5 DEF Glyph

\* A character appears where the cursor was, and nowhere else.
LEMMA GlyphAppend ==
    ASSUME NEW s \in Nat, NEW t \in Seq(Chars), NEW ch \in Chars, NEW u, NEW k \in Nat
    PROVE  Glyph(u, s, Append(t, ch), k) =
            IF ch # NL /\ k = Cursor(s, t)[Len(t)] THEN ch ELSE Glyph(u, s, t, k)
<1> DEFINE c == Cursor(s, t)
           d == Cursor(s, Append(t, ch))
           e == Append(t, ch)
           old == {n \in 1 .. Len(t) : t[n] # NL /\ c[n - 1] = k}
           new == {n \in 1 .. Len(e) : e[n] # NL /\ d[n - 1] = k}
<1>1. PICK l \in Nat : l = Len(t)
  BY LenProperties
<1>2. Len(e) = l + 1 /\ (\A i \in 1 .. l : e[i] = t[i]) /\ e[l + 1] = ch
  BY <1>1, AppendProperties
<1>3. c \in [0 .. l -> Nat] /\ \A n \in 0 .. l - 1 : c[n] < c[l]
  BY <1>1, CursorIs, CursorGrows
<1>4. \A n \in 0 .. l : d[n] = c[n]
  BY <1>1, CursorAppend
<1>5. Glyph(u, s, t, k) = IF old # {} THEN t[CHOOSE n \in old : TRUE]
                          ELSE IF k \in Cells THEN u[k] ELSE BLANK
  BY DEF Glyph
<1>6. Glyph(u, s, e, k) = IF new # {} THEN e[CHOOSE n \in new : TRUE]
                          ELSE IF k \in Cells THEN u[k] ELSE BLANK
  BY DEF Glyph
<1>7. old = {n \in 1 .. l : t[n] # NL /\ c[n - 1] = k}
  BY <1>1
<1>8. new = {n \in 1 .. l + 1 : e[n] # NL /\ d[n - 1] = k}
  BY <1>2
<1> HIDE DEF c, d, e, old, new
<1>9. new = old \cup (IF ch # NL /\ k = c[l] THEN {l + 1} ELSE {})
  <2>1. ASSUME NEW n \in 1 .. l PROVE n \in new <=> n \in old
    <3>1. n \in 1 .. l + 1 /\ n - 1 \in 0 .. l
      OBVIOUS
    <3> QED
      BY <1>2, <1>4, <1>7, <1>8, <3>1
  <2>2. l + 1 \in new <=> ch # NL /\ k = c[l]
    <3>1. l + 1 \in 1 .. l + 1 /\ (l + 1) - 1 = l /\ l \in 0 .. l
      OBVIOUS
    <3> QED
      BY <1>2, <1>4, <1>8, <3>1
  <2>3. \A n \in new : n \in 1 .. l \/ n = l + 1
    BY <1>8
  <2>4. \A n \in old : n \in 1 .. l
    BY <1>7
  <2> QED
    BY <2>1, <2>2, <2>3, <2>4
<1>10. CASE ch # NL /\ k = c[l]
  <2>1. old = {}
    <3>1. ASSUME NEW n \in 1 .. l PROVE c[n - 1] # k
      <4>1. n - 1 \in 0 .. l - 1 /\ n - 1 \in 0 .. l /\ l \in 0 .. l
        OBVIOUS
      <4>2. c[n - 1] \in Nat /\ c[l] \in Nat /\ c[n - 1] < c[l]
        BY <1>3, <4>1
      <4> QED
        BY <1>10, <4>2
    <3> QED
      BY <1>7, <3>1
  <2>2. new = {l + 1}
    BY <1>9, <1>10, <2>1
  <2>3. (CHOOSE n \in new : TRUE) = l + 1
    BY <2>2
  <2> QED
    BY <1>1, <1>2, <1>6, <1>10, <2>2, <2>3 DEF c, e
<1>11. CASE ~(ch # NL /\ k = c[l])
  <2>1. new = old
    BY <1>9, <1>11
  <2>2. Glyph(u, s, e, k) = Glyph(u, s, t, k)
    <3>1. CASE old = {}
      BY <1>5, <1>6, <2>1, <3>1
    <3>2. CASE old # {}
      <4>1. PICK n : n = CHOOSE i \in old : TRUE
        OBVIOUS
      <4>2. n \in old
        BY <3>2, <4>1
      <4>3. n \in 1 .. l
        BY <1>7, <4>2
      <4> QED
        BY <1>2, <1>5, <1>6, <2>1, <3>2, <4>1, <4>3
    <3> QED
      BY <3>1, <3>2
  <2> QED
    BY <1>1, <1>11, <2>2 DEF c, e
<1> QED
  BY <1>10, <1>11

-----------------------------------------------------------------------------
(* What the consoles do to the window.                                     *)

\* The window is never further down than the text allows.
LEMMA WindowIs ==
    ASSUME NEW buf, NEW u, NEW s \in Cells, NEW t \in Seq(Chars), NEW pos \in Nat, NEW top \in Nat,
           Shows(buf, u, s, t, pos, top)
    PROVE  Window(buf, u, s, t, pos)
<1>1. PICK l \in Nat : l = Len(t)
  BY LenProperties
<1>2. VGA_WIDTH \in Nat /\ VGA_WIDTH > 0 /\ VGA_SIZE \in Nat /\ s \in Nat /\ s < VGA_SIZE
  BY SizeAssumption, SizeFacts DEF Cells
<1>3. PICK e \in Nat : e = Cursor(s, t)[l] /\ e <= s + l * VGA_WIDTH
  <2>1. Cursor(s, t) \in [0 .. l -> Nat] /\ l \in 0 .. l
    BY <1>1, <1>2, CursorIs
  <2>2. Cursor(s, t)[l] <= s + l * VGA_WIDTH
    BY <1>1, <1>2, CursorGrows
  <2> QED
    BY <2>1, <2>2
<1>4. e = pos + top * VGA_WIDTH /\ (top > 0 => pos >= VGA_SIZE - VGA_WIDTH)
  BY <1>1, <1>3 DEF Shows
<1>5. top \in 0 .. l + 1
  <2> SUFFICES ASSUME l + 1 <= top PROVE FALSE
    OBVIOUS
  <2>1. (l + 1) * VGA_WIDTH <= top * VGA_WIDTH
    BY <1>2, Monotonic
  <2>2. /\ l * VGA_WIDTH \in Nat /\ (l + 1) * VGA_WIDTH = l * VGA_WIDTH + VGA_WIDTH
        /\ top * VGA_WIDTH \in Nat
    BY <1>2, Lines
  <2>3. pos >= VGA_SIZE - VGA_WIDTH
    BY <1>4
  <2> QED
    BY <1>2, <1>3, <1>4, <2>1, <2>2, <2>3
<1> QED
  BY <1>1, <1>5 DEF Window

\* vga_scrolldown from the end of the buffer.
LEMMA ScrollWindow ==
    ASSUME NEW buf \in [Cells -> Glyphs], NEW u, NEW s \in Cells, NEW t \in Seq(Chars),
           Window(buf, u, s, t, VGA_SIZE)
    PROVE  Window([k \in Cells |-> IF k < VGA_SIZE - VGA_WIDTH THEN buf[k + VGA_WIDTH] ELSE BLANK],
                  u, s, t, VGA_SIZE - VGA_WIDTH)
<1> DEFINE new == [k \in Cells |-> IF k < VGA_SIZE - VGA_WIDTH THEN buf[k + VGA_WIDTH] ELSE BLANK]
<1>1. PICK top \in Nat : Shows(buf, u, s, t, VGA_SIZE, top)
  <2>1. Len(t) \in Nat
    BY LenProperties
  <2> QED
    BY <2>1 DEF Window
<1>2. /\ VGA_WIDTH \in Nat /\ VGA_WIDTH > 0 /\ VGA_SIZE \in Nat /\ s \in Nat
      /\ VGA_WIDTH <= VGA_SIZE
  BY SizeAssumption, SizeFacts DEF Cells
<1>3. top * VGA_WIDTH \in Nat /\ (top + 1) * VGA_WIDTH = top * VGA_WIDTH + VGA_WIDTH
  BY <1>2, Lines
<1>4. PICK b \in Nat : b = top * VGA_WIDTH
  BY <1>3
<1>5. Cursor(s, t)[Len(t)] = VGA_SIZE + b
  BY <1>1, <1>4 DEF Shows
<1>6. ASSUME NEW k \in Cells PROVE new[k] = Glyph(u, s, t, k + (top + 1) * VGA_WIDTH)
  <2>1. k \in Nat /\ k < VGA_SIZE /\ k + (top + 1) * VGA_WIDTH = (k + VGA_WIDTH) + b
    BY <1>2, <1>3, <1>4 DEF Cells
  <2>2. CASE k < VGA_SIZE - VGA_WIDTH
    <3>1. k + VGA_WIDTH \in Cells
      BY <1>2, <2>1, <2>2 DEF Cells
    <3>2. buf[k + VGA_WIDTH] = Glyph(u, s, t, (k + VGA_WIDTH) + b)
      BY <1>1, <1>4, <3>1 DEF Shows
    <3> QED
      BY <2>1, <2>2, <3>2
  <2>3. CASE ~(k < VGA_SIZE - VGA_WIDTH)
    <3>1. PICK j \in Nat : j = (k + VGA_WIDTH) + b
      BY <1>2, <2>1
    <3>2. VGA_SIZE + b <= j /\ j \notin Cells
      BY <1>2, <2>1, <2>3, <3>1 DEF Cells
    <3>3. Glyph(u, s, t, j) = BLANK
      BY <1>2, <1>5, <3>2, GlyphBeyond
    <3> QED
      BY <2>1, <2>3, <3>1, <3>3
  <2> QED
    BY <2>2, <2>3
<1>7. Cursor(s, t)[Len(t)] = (VGA_SIZE - VGA_WIDTH) + (top + 1) * VGA_WIDTH
  BY <1>2, <1>3, <1>4, <1>5
<1> HIDE DEF new
<1>8. PICK n \in Nat : n = top + 1
  OBVIOUS
<1>9. Shows(new, u, s, t, VGA_SIZE - VGA_WIDTH, n)
  <2>1. n > 0 => VGA_SIZE - VGA_WIDTH >= VGA_SIZE - VGA_WIDTH
    BY <1>2
  <2> QED
    BY <1>6, <1>7, <1>8, <2>1 DEF Shows
<1>10. PICK pos \in Nat : pos = VGA_SIZE - VGA_WIDTH
  BY <1>2
<1> QED
  BY <1>9, <1>10, WindowIs DEF new

\* A character is put at the cursor, inside the buffer.
LEMMA PutWindow ==
    ASSUME NEW buf \in [Cells -> Glyphs], NEW u, NEW s \in Cells, NEW t \in Seq(Chars),
           NEW ch \in Chars, ch # NL, NEW pos \in Cells, Window(buf, u, s, t, pos)
    PROVE  Window([buf EXCEPT ![pos] = ch], u, s, Append(t, ch), pos + 1)
<1> DEFINE new == [buf EXCEPT ![pos] = ch]
<1>1. PICK top \in Nat : Shows(buf, u, s, t, pos, top)
  <2>1. Len(t) \in Nat
    BY LenProperties
  <2> QED
    BY <2>1 DEF Window
<1>2. VGA_WIDTH \in Nat /\ VGA_SIZE \in Nat /\ s \in Nat /\ pos \in Nat
  BY SizeAssumption, SizeFacts DEF Cells
<1>3. PICK b \in Nat : b = top * VGA_WIDTH
  BY <1>2, Lines
<1>4. Cursor(s, t)[Len(t)] = pos + b /\ (top > 0 => pos >= VGA_SIZE - VGA_WIDTH)
  BY <1>1, <1>3 DEF Shows
<1>5. Append(t, ch) \in Seq(Chars) /\ Len(Append(t, ch)) = Len(t) + 1
  BY AppendProperties
<1>6. Cursor(s, Append(t, ch))[Len(Append(t, ch))] = (pos + 1) + b
  <2>1. Cursor(s, Append(t, ch))[Len(t) + 1] = Advance(Cursor(s, t)[Len(t)], ch)
    BY <1>2, CursorAppend
  <2>2. Advance(pos + b, ch) = (pos + 1) + b
    BY <1>2 DEF Advance
  <2> QED
    BY <1>4, <1>5, <2>1, <2>2
<1>7. ASSUME NEW k \in Cells PROVE new[k] = Glyph(u, s, Append(t, ch), k + b)
  <2>1. PICK j \in Nat : j = k + b /\ (j = pos + b <=> k = pos)
    BY <1>2 DEF Cells
  <2>2. Glyph(u, s, Append(t, ch), j) = IF k = pos THEN ch ELSE Glyph(u, s, t, j)
    BY <1>2, <1>4, <2>1, GlyphAppend
  <2>3. buf[k] = Glyph(u, s, t, j)
    BY <1>1, <1>3, <2>1 DEF Shows
  <2> QED
    BY <2>1, <2>2, <2>3
<1> HIDE DEF new
<1>8. Shows(new, u, s, Append(t, ch), pos + 1, top)
  <2>1. top > 0 => pos + 1 >= VGA_SIZE - VGA_WIDTH
    BY <1>2, <1>4
  <2> QED
    BY <1>3, <1>6, <1>7, <2>1 DEF Shows
<1>9. PICK q \in Nat : q = pos + 1
  BY <1>2
<1>10. Shows(new, u, s, Append(t, ch), q, top)
  BY <1>8, <1>9
<1>11. Window(new, u, s, Append(t, ch), q)
  BY <1>5, <1>10, WindowIs
<1> QED
  BY <1>9, <1>11 DEF new

\* A line break moves the cursor to the next line of the buffer, or behind it.
LEMMA BreakWindow ==
    ASSUME NEW buf, NEW u, NEW s \in Cells, NEW t \in Seq(Chars), NL \in Chars,
           NEW pos \in Cells, Window(buf, u, s, t, pos)
    PROVE  Window(buf, u, s, Append(t, NL), NextLine(pos))
<1>1. PICK top \in Nat : Shows(buf, u, s, t, pos, top)
  <2>1. Len(t) \in Nat
    BY LenProperties
  <2> QED
    BY <2>1 DEF Window
<1>2. VGA_WIDTH \in Nat /\ VGA_SIZE \in Nat /\ s \in Nat /\ pos \in Nat
  BY SizeAssumption, SizeFacts DEF Cells
<1>3. top * VGA_WIDTH \in Nat
  BY <1>2, Lines
<1>4. Cursor(s, t)[Len(t)] = pos + top * VGA_WIDTH /\ (top > 0 => pos >= VGA_SIZE - VGA_WIDTH)
  BY <1>1 DEF Shows
<1>5. Append(t, NL) \in Seq(Chars) /\ Len(Append(t, NL)) = Len(t) + 1
  BY AppendProperties
<1>6. /\ NextLine(pos) \in Nat /\ pos < NextLine(pos)
      /\ Advance(pos + top * VGA_WIDTH, NL) = NextLine(pos) + top * VGA_WIDTH
  BY <1>2, NextLineIs
<1>7. Cursor(s, Append(t, NL))[Len(Append(t, NL))] = NextLine(pos) + top * VGA_WIDTH
  <2>1. Cursor(s, Append(t, NL))[Len(t) + 1] = Advance(Cursor(s, t)[Len(t)], NL)
    BY <1>2, CursorAppend
  <2> QED
    BY <1>4, <1>5, <1>6, <2>1
<1>8. ASSUME NEW k \in Cells PROVE buf[k] = Glyph(u, s, Append(t, NL), k + top * VGA_WIDTH)
  <2>1. PICK j \in Nat : j = k + top * VGA_WIDTH
    BY <1>2, <1>3 DEF Cells
  <2>2. Glyph(u, s, Append(t, NL), j) = Glyph(u, s, t, j)
    BY <1>2, <2>1, GlyphAppend
  <2>3. buf[k] = Glyph(u, s, t, j)
    BY <1>1, <2>1 DEF Shows
  <2> QED
    BY <2>1, <2>2, <2>3
<1>9. top > 0 => NextLine(pos) >= VGA_SIZE - VGA_WIDTH
  BY <1>2, <1>4, <1>6
<1>10. Shows(buf, u, s, Append(t, NL), NextLine(pos), top)
  BY <1>7, <1>8, <1>9 DEF Shows
<1> QED
  BY <1>5, <1>6, <1>10, WindowIs

\* A cleared screen, or the one that was found.
LEMMA EmptyWindow ==
    ASSUME NEW u \in [Cells -> Glyphs], NEW s \in Cells
    PROVE  Window(u, u, s, <<>>, s)
<1>1. <<>> \in Seq(Chars) /\ Len(<<>>) = 0
  BY EmptySeq
<1>2. VGA_WIDTH \in Nat /\ s \in Nat
  BY SizeAssumption, SizeFacts DEF Cells
<1>3. PICK t \in Seq(Chars) : t = <<>>
  BY <1>1
<1>4. Len(t) = 0 /\ Cursor(s, t)[0] = s
  BY <1>1, <1>2, <1>3, CursorIs
<1>5. 0 * VGA_WIDTH = 0
  BY <1>2
<1>6. ASSUME NEW k \in Cells PROVE u[k] = Glyph(u, s, t, k + 0 * VGA_WIDTH)
  <2>1. k \in Nat /\ k + 0 * VGA_WIDTH = k
    BY <1>5, SizeFacts DEF Cells
  <2>2. {n \in 1 .. Len(t) : t[n] # NL /\ Cursor(s, t)[n - 1] = k} = {}
    BY <1>4
  <2>3. Glyph(u, s, t, k) = u[k]
    BY <2>2 DEF Glyph
  <2> QED
    BY <2>1, <2>3
<1>7. Cursor(s, t)[Len(t)] = s + 0 * VGA_WIDTH
  BY <1>2, <1>4, <1>5
<1>8. PICK z \in Nat : z = 0
  OBVIOUS
<1>9. Shows(u, u, s, t, s, z)
  BY <1>6, <1>7, <1>8 DEF Shows
<1> QED
  BY <1>2, <1>3, <1>9, WindowIs

\* The text before its last character.
LEMMA FrontIs ==
    ASSUME NEW t \in Seq(Chars), NEW ch \in Chars
    PROVE  LET e == Append(t, ch)
           IN  SubSeq(e, 1, Len(e) - 1) = t /\ e[Len(e)] = ch /\ e # <<>> /\ e \in Seq(Chars)
<1> DEFINE e == Append(t, ch)
<1>1. PICK l \in Nat : l = Len(t)
  BY LenProperties
<1>2. /\ e \in Seq(Chars) /\ e # <<>> /\ Len(e) = l + 1 /\ e[l + 1] = ch
      /\ \A i \in 1 .. l : e[i] = t[i]
  BY <1>1, AppendProperties
<1> HIDE DEF e
<1>3. Len(e) - 1 = l
  BY <1>2
<1>4. \A i \in 1 .. l : e[i] \in Chars
  BY <1>1, <1>2, ElementOfSeq
<1>5. PICK one \in Int : one = 1
  OBVIOUS
<1>6. /\ SubSeq(e, one, l) \in Seq(Chars)
      /\ Len(SubSeq(e, one, l)) = IF one <= l THEN l - one + 1 ELSE 0
      /\ \A i \in 1 .. l - one + 1 : SubSeq(e, one, l)[i] = e[one + i - 1]
  <2>1. \A i \in one .. l : e[i] \in Chars
    BY <1>4, <1>5
  <2>2. l \in Int
    OBVIOUS
  <2> QED
    BY <2>1, <2>2, SubSeqProperties
<1>7. PICK f \in Seq(Chars) : f = SubSeq(e, one, l)
  BY <1>6
<1>8. Len(f) = Len(t) /\ \A i \in 1 .. Len(f) : f[i] = t[i]
  <2>1. Len(f) = l
    BY <1>5, <1>6, <1>7
  <2>2. ASSUME NEW i \in 1 .. l PROVE f[i] = t[i]
    <3>1. i \in 1 .. l - one + 1 /\ one + i - 1 = i
      BY <1>5
    <3> QED
      BY <1>2, <1>6, <1>7, <3>1
  <2> QED
    BY <1>1, <2>1, <2>2
<1>9. f = t
  BY <1>8, SeqEqual
<1> QED
  BY <1>2, <1>3, <1>5, <1>7, <1>9 DEF e

\* The position of init_vga.c.
LEMMA RowCol ==
    ASSUME NEW r \in 0 .. VGA_HEIGHT - 1, NEW c \in 0 .. VGA_WIDTH - 1
    PROVE  /\ r * VGA_WIDTH \in Nat /\ r * VGA_WIDTH + c \in Cells
           /\ (r + 1) * VGA_WIDTH = r * VGA_WIDTH + VGA_WIDTH
           /\ NextLine(r * VGA_WIDTH + c) = (r + 1) * VGA_WIDTH
           /\ r + 1 = VGA_HEIGHT => (r + 1) * VGA_WIDTH = VGA_SIZE
<1>1. VGA_WIDTH \in Nat \ {0} /\ VGA_HEIGHT \in Nat \ {0} /\ r \in Nat /\ c \in Nat
  BY SizeAssumption
<1>2. r * VGA_WIDTH \in Nat /\ (r + 1) * VGA_WIDTH = r * VGA_WIDTH + VGA_WIDTH
  BY <1>1, Lines
<1>3. (r + 1) * VGA_WIDTH <= VGA_HEIGHT * VGA_WIDTH
  <2>1. r + 1 \in Nat /\ r + 1 <= VGA_HEIGHT
    BY <1>1
  <2> QED
    BY <1>1, <2>1, Monotonic
<1>4. VGA_SIZE \in Nat /\ VGA_SIZE = VGA_HEIGHT * VGA_WIDTH
  BY SizeFacts DEF VGA_SIZE
<1>5. r * VGA_WIDTH + c \in Cells
  BY <1>1, <1>2, <1>3, <1>4 DEF Cells
<1>6. (r * VGA_WIDTH + c) % VGA_WIDTH = c
  BY <1>1, LineIs
<1>7. NextLine(r * VGA_WIDTH + c) = (r + 1) * VGA_WIDTH
  BY <1>1, <1>2, <1>6 DEF NextLine
<1> QED
  BY <1>2, <1>4, <1>5, <1>7

-----------------------------------------------------------------------------
(* init_vga.c.                                                             *)

\* init_vga.c at the start of the line below row r.
LEMMA BootBreak ==
    ASSUME NEW buf \in [Cells -> Glyphs], NEW u, NEW s \in Cells, NEW t \in Seq(Chars),
           NEW r \in 0 .. VGA_HEIGHT - 1, Window(buf, u, s, t, (r + 1) * VGA_WIDTH),
           BootLinebreak(buf, r)
    PROVE  /\ row' \in 0 .. VGA_HEIGHT - 1 /\ col' = 0 /\ vga_buffer' \in [Cells -> Glyphs]
           /\ Window(vga_buffer', u, s, t, row' * VGA_WIDTH + col')
<1>1. VGA_WIDTH \in Nat \ {0} /\ VGA_HEIGHT \in Nat \ {0} /\ r \in Nat
  BY SizeAssumption
<1>2. /\ r * VGA_WIDTH \in Nat /\ (r + 1) * VGA_WIDTH = r * VGA_WIDTH + VGA_WIDTH
      /\ r + 1 = VGA_HEIGHT => (r + 1) * VGA_WIDTH = VGA_SIZE
  <2>1. PICK z \in 0 .. VGA_WIDTH - 1 : z = 0
    BY <1>1
  <2> QED
    BY RowCol
<1>3. CASE r + 1 = VGA_HEIGHT
  <2> DEFINE new == [k \in Cells |-> IF k < VGA_SIZE - VGA_WIDTH THEN buf[k + VGA_WIDTH] ELSE BLANK]
  <2>1. row' = r /\ col' = 0 /\ vga_buffer' = new
    BY <1>3 DEF BootLinebreak
  <2>2. Window(buf, u, s, t, VGA_SIZE)
    BY <1>2, <1>3
  <2>3. Window(new, u, s, t, VGA_SIZE - VGA_WIDTH)
    BY <2>2, ScrollWindow
  <2>4. new \in [Cells -> Glyphs]
    BY <1>1, SizeFacts DEF Cells, Glyphs
  <2>5. row' * VGA_WIDTH + col' = VGA_SIZE - VGA_WIDTH
    BY <1>1, <1>2, <1>3, <2>1
  <2> HIDE DEF new
  <2>6. row' \in 0 .. VGA_HEIGHT - 1
    BY <2>1
  <2> QED
    BY <2>1, <2>3, <2>4, <2>5, <2>6
<1>4. CASE r + 1 # VGA_HEIGHT
  <2>1. row' = r + 1 /\ col' = 0 /\ vga_buffer' = buf
    BY <1>4 DEF BootLinebreak
  <2>2. row' * VGA_WIDTH + col' = (r + 1) * VGA_WIDTH
    BY <1>1, <1>2, <2>1
  <2>3. row' \in 0 .. VGA_HEIGHT - 1
    BY <1>1, <1>4, <2>1
  <2> QED
    BY <2>1, <2>2, <2>3
<1> QED
  BY <1>3, <1>4

\* A step of init_vga.c keeps the invariant if it keeps these.
LEMMA BootKeeps ==
    ASSUME ConsoleInvariant, stage = "init", UNCHANGED <<vga_pos, pc, reg, chr, stage, raced>>,
           vga_buffer' \in [Cells -> Glyphs], row' \in 0 .. VGA_HEIGHT - 1,
           col' \in 0 .. VGA_WIDTH - 1, under' \in [Cells -> Glyphs], start' \in Cells,
           log' \in Seq(Chars),
           Window(vga_buffer', under', start', log', row' * VGA_WIDTH + col')
    PROVE  ConsoleInvariant'
<1>1. /\ pc' = [p \in Contexts |-> "idle"] /\ reg' = [p \in Contexts |-> 0]
      /\ chr' = [p \in Contexts |-> BLANK] /\ ~raced' /\ stage' = "init"
      /\ vga_pos' \in 0 .. VGA_SIZE
  BY DEF ConsoleInvariant, VgaInvariant, TypeOK
<1>2. VgaInvariant'
  <2>1. pc' \in [Contexts -> Points] /\ reg' \in [Contexts -> 0 .. VGA_SIZE]
        /\ chr' \in [Contexts -> Chars \cup {BLANK}]
    BY <1>1, SizeFacts DEF Points
  <2>2. \A p \in Contexts : pc'[p] = "idle"
    BY <1>1
  <2> QED
    BY <1>1, <2>1, <2>2 DEF VgaInvariant, TypeOK, InBounds
<1>3. Shown(log, Position)'
  BY <1>1 DEF Shown, Position
<1>4. /\ \A p, q \in Contexts : pc'[p] # "idle" /\ pc'[q] # "idle" => p = q
      /\ \A p \in Contexts : pc'[p] # "idle" => Pending(p)'
  BY <1>1
<1> QED
  BY <1>1, <1>2, <1>3, <1>4 DEF ConsoleInvariant

\* init_vga_putc: a character, with its line break and its scrolling.
LEMMA InitPutcStep ==
    ASSUME ConsoleInvariant, NEW c \in Chars, InitPutc(c)
    PROVE  ConsoleInvariant'
<1> DEFINE pos == row * VGA_WIDTH + col
<1>1. /\ stage = "init" /\ UNCHANGED <<vga_pos, pc, reg, chr, stage, raced>>
      /\ under' = under /\ start' = start /\ log' = Append(log, c)
  BY DEF InitPutc
<1>2. /\ vga_buffer \in [Cells -> Glyphs] /\ under \in [Cells -> Glyphs] /\ start \in Cells
      /\ log \in Seq(Chars) /\ row \in 0 .. VGA_HEIGHT - 1 /\ col \in 0 .. VGA_WIDTH - 1
  BY DEF ConsoleInvariant, VgaInvariant, TypeOK
<1>3. Window(vga_buffer, under, start, log, pos)
  <2>1. ~raced /\ Idle
    BY <1>1 DEF ConsoleInvariant, Idle
  <2> QED
    BY <1>1, <2>1 DEF ConsoleInvariant, Shown, Position
<1>4. /\ pos \in Cells /\ NextLine(pos) = (row + 1) * VGA_WIDTH
      /\ (row + 1) * VGA_WIDTH = row * VGA_WIDTH + VGA_WIDTH /\ row * VGA_WIDTH \in Nat
  BY <1>2, RowCol
<1>5. VGA_WIDTH \in Nat \ {0} /\ col \in Nat
  BY <1>2, SizeAssumption
<1>6. log' \in Seq(Chars)
  BY <1>1, <1>2, AppendProperties
<1>7. /\ vga_buffer' \in [Cells -> Glyphs] /\ row' \in 0 .. VGA_HEIGHT - 1
      /\ col' \in 0 .. VGA_WIDTH - 1
      /\ Window(vga_buffer', under, start, Append(log, c), row' * VGA_WIDTH + col')
  <2>1. CASE c = NL
    <3>1. Window(vga_buffer, under, start, Append(log, c), (row + 1) * VGA_WIDTH)
      BY <1>2, <1>3, <1>4, <2>1, BreakWindow
    <3>2. BootLinebreak(vga_buffer, row)
      BY <2>1 DEF InitPutc
    <3>3. /\ row' \in 0 .. VGA_HEIGHT - 1 /\ col' = 0 /\ vga_buffer' \in [Cells -> Glyphs]
          /\ Window(vga_buffer', under, start, Append(log, c), row' * VGA_WIDTH + col')
      BY <1>1, <1>2, <1>6, <3>1, <3>2, BootBreak
    <3> QED
      BY <1>5, <3>3
  <2>2. CASE c # NL
    <3> DEFINE put == [vga_buffer EXCEPT ![pos] = c]
    <3>1. Window(put, under, start, Append(log, c), pos + 1)
      BY <1>2, <1>3, <1>4, <2>2, PutWindow
    <3>2. put \in [Cells -> Glyphs] /\ vga_putentryat(c, col, row) = put
      BY <1>2, <2>2 DEF Glyphs, vga_putentryat
    <3> HIDE DEF put
    <3>3. CASE col + 1 = VGA_WIDTH
      <4>1. pos + 1 = (row + 1) * VGA_WIDTH
        BY <1>4, <1>5, <3>3
      <4>2. Window(put, under, start, Append(log, c), (row + 1) * VGA_WIDTH)
        BY <3>1, <4>1
      <4>3. BootLinebreak(put, row)
        BY <2>2, <3>2, <3>3 DEF InitPutc
      <4>4. /\ row' \in 0 .. VGA_HEIGHT - 1 /\ col' = 0 /\ vga_buffer' \in [Cells -> Glyphs]
            /\ Window(vga_buffer', under, start, Append(log, c), row' * VGA_WIDTH + col')
        BY <1>1, <1>2, <1>6, <3>2, <4>2, <4>3, BootBreak
      <4> QED
        BY <1>5, <4>4
    <3>4. CASE col + 1 # VGA_WIDTH
      <4>1. vga_buffer' = put /\ col' = col + 1 /\ row' = row
        BY <2>2, <3>2, <3>4 DEF InitPutc
      <4>2. row' * VGA_WIDTH + col' = pos + 1
        BY <1>4, <1>5, <4>1
      <4>3. col' \in 0 .. VGA_WIDTH - 1
        BY <1>2, <1>5, <3>4, <4>1
      <4> QED
        BY <1>2, <3>1, <3>2, <4>1, <4>2, <4>3
    <3> QED
      BY <3>3, <3>4
  <2> QED
    BY <2>1, <2>2
<1> QED
  BY <1>1, <1>2, <1>6, <1>7, BootKeeps

\* init_vga_clear: the text starts again where row and column are.
LEMMA InitClearStep == ConsoleInvariant /\ InitClear => ConsoleInvariant'
<1> SUFFICES ASSUME ConsoleInvariant, InitClear PROVE ConsoleInvariant'
  OBVIOUS
<1>1. /\ stage = "init" /\ UNCHANGED <<vga_pos, pc, reg, chr, stage, raced>>
      /\ vga_buffer' = Blank /\ under' = Blank /\ log' = <<>>
      /\ start' = row * VGA_WIDTH + col /\ row' = row /\ col' = col
  BY DEF InitClear, Restart, boot
<1>2. row \in 0 .. VGA_HEIGHT - 1 /\ col \in 0 .. VGA_WIDTH - 1
  BY DEF ConsoleInvariant
<1>3. Blank \in [Cells -> Glyphs] /\ row * VGA_WIDTH + col \in Cells /\ <<>> \in Seq(Chars)
  BY <1>2, RowCol, EmptySeq DEF Blank, Glyphs
<1>4. Window(Blank, Blank, row * VGA_WIDTH + col, <<>>, row * VGA_WIDTH + col)
  BY <1>3, EmptyWindow
<1> QED
  BY <1>1, <1>2, <1>3, <1>4, BootKeeps

-----------------------------------------------------------------------------
(* init and kernel_main.                                                   *)

\* vga_set_position: the kernel's console goes on where the other one was.
LEMMA SetPositionStep == ConsoleInvariant /\ SetPosition => ConsoleInvariant'
<1> SUFFICES ASSUME ConsoleInvariant, SetPosition PROVE ConsoleInvariant'
  OBVIOUS
<1>1. /\ stage = "init" /\ stage' = "handover" /\ vga_pos' = vga_set_position(row, col)
      /\ UNCHANGED <<vga_buffer, pc, reg, chr, row, col, under, start, log, raced>>
  BY DEF SetPosition, text
<1>2. /\ row \in 0 .. VGA_HEIGHT - 1 /\ col \in 0 .. VGA_WIDTH - 1
      /\ vga_buffer \in [Cells -> Glyphs] /\ under \in [Cells -> Glyphs] /\ start \in Cells
      /\ log \in Seq(Chars) /\ pc = [p \in Contexts |-> "idle"]
      /\ reg = [p \in Contexts |-> 0] /\ chr = [p \in Contexts |-> BLANK] /\ ~raced
  BY <1>1 DEF ConsoleInvariant, VgaInvariant, TypeOK
<1>3. row * VGA_WIDTH + col \in Cells
  BY <1>2, RowCol
<1>4. vga_pos' = row * VGA_WIDTH + col
  <2>1. VGA_WIDTH \in Nat /\ row \in Nat
    BY <1>2, SizeAssumption
  <2>2. VGA_WIDTH * row = row * VGA_WIDTH
    BY <2>1
  <2> QED
    BY <1>1, <2>2 DEF vga_set_position
<1>5. vga_pos' \in 0 .. VGA_SIZE
  BY <1>3, <1>4, SizeFacts DEF Cells
<1>6. Window(vga_buffer, under, start, log, row * VGA_WIDTH + col)
  <2>1. Idle
    BY <1>2 DEF Idle
  <2> QED
    BY <1>1, <1>2, <2>1 DEF ConsoleInvariant, Shown, Position
<1>7. VgaInvariant'
  BY <1>1, <1>2, <1>5 DEF ConsoleInvariant, VgaInvariant, TypeOK, InBounds
<1>8. Shown(log, Position)'
  BY <1>1, <1>4, <1>6 DEF Shown, Position
<1>9. /\ \A p, q \in Contexts : pc'[p] # "idle" /\ pc'[q] # "idle" => p = q
      /\ \A p \in Contexts : pc'[p] # "idle" => Pending(p)'
  BY <1>1, <1>2
<1> QED
  BY <1>1, <1>2, <1>4, <1>7, <1>8, <1>9 DEF ConsoleInvariant

\* vga_clear of kernel_main.
LEMMA VgaClearStep ==
    ASSUME ConsoleInvariant, VgaClear
    PROVE  ConsoleInvariant' /\ Init'
<1>1. /\ stage = "handover" /\ stage' = "kernel" /\ vga_buffer' = Blank /\ under' = Blank
      /\ log' = <<>> /\ start' = vga_pos
      /\ UNCHANGED <<vga_pos, pc, reg, chr, row, col, raced>>
  BY DEF VgaClear, Restart
<1>2. /\ row \in 0 .. VGA_HEIGHT - 1 /\ col \in 0 .. VGA_WIDTH - 1 /\ VgaInvariant
      /\ vga_pos = row * VGA_WIDTH + col /\ pc = [p \in Contexts |-> "idle"]
      /\ reg = [p \in Contexts |-> 0] /\ chr = [p \in Contexts |-> BLANK] /\ ~raced
  BY <1>1 DEF ConsoleInvariant
<1>3. vga_pos \in Cells /\ Blank \in [Cells -> Glyphs] /\ <<>> \in Seq(Chars)
  BY <1>2, RowCol, EmptySeq DEF Blank, Glyphs
<1>4. Window(Blank, Blank, vga_pos, <<>>, vga_pos)
  BY <1>3, EmptyWindow
<1>5. Init'
  BY <1>1, <1>2, <1>3 DEF Init, Blank
<1>6. VgaInvariant'
  BY <1>1, <1>2, <1>3 DEF VgaInvariant, TypeOK, InBounds
<1>7. Shown(log, Position)'
  BY <1>1, <1>4 DEF Shown, Position
<1>8. /\ \A p, q \in Contexts : pc'[p] # "idle" /\ pc'[q] # "idle" => p = q
      /\ \A p \in Contexts : pc'[p] # "idle" => Pending(p)'
  BY <1>1, <1>2
<1> QED
  BY <1>1, <1>2, <1>3, <1>5, <1>6, <1>7, <1>8 DEF ConsoleInvariant

-----------------------------------------------------------------------------
(* vga.c.                                                                  *)

\* What is known of a writer that nobody preempted inside vga_putc.
LEMMA Writer ==
    ASSUME ConsoleInvariant, ~raced, NEW p \in Contexts, pc[p] # "idle"
    PROVE  /\ Pending(p) /\ \A q \in Contexts \ {p} : pc[q] = "idle"
           /\ vga_buffer \in [Cells -> Glyphs] /\ under \in [Cells -> Glyphs] /\ start \in Cells
           /\ log \in Seq(Chars) /\ VgaInvariant
BY DEF ConsoleInvariant, VgaInvariant, TypeOK

\* A step of vga_putc keeps the invariant if the text is shown afterwards.
LEMMA KernelKeeps ==
    ASSUME ConsoleInvariant, stage = "kernel", NEW p \in Contexts, Continue(p),
           UNCHANGED <<boot, text>>,
           NEW point, pc' = [pc EXCEPT ![p] = point],
           ~raced => IF point = "idle" THEN Shown(log, vga_pos)' ELSE Pending(p)'
    PROVE  ConsoleInvariant'
<1>1. VgaInvariant'
  BY NextHolds DEF ConsoleInvariant, Next
<1>2. pc[p] # "idle"
  BY DEF Continue, Scroll, Put, Store, Linebreak, LinebreakScroll, LinebreakStore
<1>3. /\ stage' = "kernel" /\ row' = row /\ col' = col /\ under' = under /\ start' = start
      /\ log' = log /\ raced' = raced
  BY DEF boot, text
<1>4. /\ row \in 0 .. VGA_HEIGHT - 1 /\ col \in 0 .. VGA_WIDTH - 1 /\ under \in [Cells -> Glyphs]
      /\ start \in Cells /\ log \in Seq(Chars) /\ raced \in BOOLEAN /\ pc \in [Contexts -> Points]
  BY DEF ConsoleInvariant, VgaInvariant, TypeOK
<1>5. ASSUME ~raced
      PROVE  /\ \A q, r \in Contexts : pc'[q] # "idle" /\ pc'[r] # "idle" => q = r
             /\ \A q \in Contexts : pc'[q] # "idle" => Pending(q)'
             /\ Idle' => Shown(log, Position)'
  <2>1. \A q \in Contexts \ {p} : pc[q] = "idle"
    BY <1>2, <1>5, Writer
  <2>2. pc'[p] = point /\ \A q \in Contexts \ {p} : pc'[q] = "idle"
    BY <1>4, <2>1
  <2>3. ASSUME NEW q \in Contexts, pc'[q] # "idle" PROVE Pending(q)'
    <3>1. q = p /\ point # "idle"
      BY <2>2, <2>3
    <3> QED
      BY <1>5, <3>1
  <2>4. Idle' => Shown(log, Position)'
    BY <1>3, <1>5, <2>2 DEF Idle, Shown, Position
  <2> QED
    BY <2>2, <2>3, <2>4
<1> QED
  BY <1>1, <1>3, <1>4, <1>5 DEF ConsoleInvariant

\* vga_putc is entered.
LEMMA KernelPutcStep ==
    ASSUME ConsoleInvariant, NEW p \in Contexts, NEW c \in Chars, KernelPutc(p, c)
    PROVE  ConsoleInvariant'
<1>1. stage = "kernel" /\ Putc(p, c) /\ UNCHANGED boot
  BY DEF KernelPutc
<1>2. VgaInvariant'
  BY <1>1, NextHolds DEF ConsoleInvariant, Next
<1>3. /\ row \in 0 .. VGA_HEIGHT - 1 /\ col \in 0 .. VGA_WIDTH - 1 /\ under \in [Cells -> Glyphs]
      /\ start \in Cells /\ log \in Seq(Chars) /\ raced \in BOOLEAN /\ pc \in [Contexts -> Points]
      /\ reg \in [Contexts -> 0 .. VGA_SIZE] /\ chr \in [Contexts -> Chars \cup {BLANK}]
  BY DEF ConsoleInvariant, VgaInvariant, TypeOK
<1>4. stage' = "kernel" /\ row' = row /\ col' = col
  BY <1>1 DEF boot
<1>5. CASE raced \/ \E q \in Contexts \ {p} : pc[q] # "idle"
  <2>1. raced' = TRUE /\ log' = <<>> /\ start' = 0 /\ under' = Blank
    BY <1>5 DEF KernelPutc
  <2>2. 0 \in Cells /\ Blank \in [Cells -> Glyphs] /\ <<>> \in Seq(Chars)
    <3>1. 0 \in Cells
      BY SizeFacts, SizeAssumption DEF Cells
    <3> QED
      BY <3>1, EmptySeq DEF Blank, Glyphs
  <2> QED
    BY <1>2, <1>3, <1>4, <2>1, <2>2 DEF ConsoleInvariant
<1>6. CASE ~(raced \/ \E q \in Contexts \ {p} : pc[q] # "idle")
  <2>1. raced' = raced /\ log' = Append(log, c) /\ start' = start /\ under' = under
    BY <1>6 DEF KernelPutc
  <2>2. /\ pc[p] = "idle" /\ reg'[p] = vga_pos /\ chr'[p] = c /\ pc'[p] \in {"scroll", "put"}
        /\ \A q \in Contexts \ {p} : pc'[q] = pc[q]
        /\ vga_buffer' = vga_buffer
    BY <1>1, <1>3 DEF Putc
  <2>3. Idle
    BY <1>6, <2>2 DEF Idle
  <2>4. Window(vga_buffer, under, start, log, vga_pos)
    BY <1>1, <1>6, <2>3 DEF ConsoleInvariant, Shown, Position
  <2>5. /\ log' \in Seq(Chars) /\ log' # <<>> /\ log'[Len(log')] = c
        /\ SubSeq(log', 1, Len(log') - 1) = log
    BY <1>3, <2>1, FrontIs
  <2>6. Pending(p)'
    <3>1. Shown(SubSeq(log, 1, Len(log) - 1), reg[p])'
      BY <2>1, <2>2, <2>4, <2>5 DEF Shown
    <3> QED
      BY <2>2, <2>5, <3>1 DEF Pending
  <2>7. \A q \in Contexts \ {p} : pc'[q] = "idle"
    BY <1>6, <2>2
  <2>8. ~Idle'
    BY <2>2 DEF Idle
  <2>9. /\ \A q, r \in Contexts : pc'[q] # "idle" /\ pc'[r] # "idle" => q = r
        /\ \A q \in Contexts : pc'[q] # "idle" => Pending(q)'
    BY <2>6, <2>7
  <2> QED
    BY <1>2, <1>3, <1>4, <2>1, <2>5, <2>8, <2>9 DEF ConsoleInvariant
<1> QED
  BY <1>5, <1>6

\* The buffer after vga_scrolldown shows the same text one line further up.
LEMMA ScrolledShows ==
    ASSUME ConsoleInvariant, NEW t \in Seq(Chars), Shown(t, VGA_SIZE), vga_buffer' = Scrolled,
           under' = under, start' = start
    PROVE  Window(vga_buffer', under', start', t, VGA_SIZE - VGA_WIDTH)
<1>1. vga_buffer \in [Cells -> Glyphs] /\ start \in Cells
  BY DEF ConsoleInvariant, VgaInvariant, TypeOK
<1> QED
  BY <1>1, ScrollWindow DEF Shown, Scrolled

\* The text before the character that is being printed.
LEMMA Before ==
    ASSUME log \in Seq(Chars), log # <<>>
    PROVE  \E t \in Seq(Chars), c \in Chars :
            /\ log = Append(t, c) /\ SubSeq(log, 1, Len(log) - 1) = t /\ log[Len(log)] = c
<1>1. PICK t \in Seq(Chars), c \in Chars : log = Append(t, c)
  BY SequenceEmptyOrAppend
<1> QED
  BY <1>1, FrontIs

\* The remaining steps of vga_putc.
LEMMA KernelContinueStep ==
    ASSUME ConsoleInvariant, NEW p \in Contexts, KernelContinue(p)
    PROVE  ConsoleInvariant'
<1>1. stage = "kernel" /\ Continue(p) /\ UNCHANGED <<boot, text>>
  BY DEF KernelContinue
<1>2. /\ under' = under /\ start' = start /\ log' = log /\ raced' = raced
  BY <1>1 DEF text
<1>3. /\ pc \in [Contexts -> Points] /\ reg \in [Contexts -> 0 .. VGA_SIZE]
      /\ chr \in [Contexts -> Chars \cup {BLANK}] /\ vga_buffer \in [Cells -> Glyphs]
      /\ start \in Cells /\ log \in Seq(Chars) /\ InBounds
  BY DEF ConsoleInvariant, VgaInvariant, TypeOK
<1>4. CASE Scroll(p)
  <2>1. /\ pc[p] = "scroll" /\ pc' = [pc EXCEPT ![p] = "put"] /\ vga_buffer' = Scrolled
        /\ reg'[p] = reg[p] - VGA_WIDTH /\ chr' = chr /\ pc'[p] = "put"
    BY <1>3, <1>4 DEF Scroll
  <2>2. ASSUME ~raced PROVE Pending(p)'
    <3>1. Pending(p) /\ reg[p] = VGA_SIZE
      BY <1>3, <2>1, <2>2, Writer DEF InBounds
    <3>2. /\ log # <<>> /\ log[Len(log)] = chr[p]
          /\ Shown(SubSeq(log, 1, Len(log) - 1), VGA_SIZE)
      BY <2>1, <3>1 DEF Pending
    <3>3. PICK t \in Seq(Chars) : SubSeq(log, 1, Len(log) - 1) = t
      BY <1>3, <3>2, Before
    <3>4. Window(vga_buffer', under', start', t, VGA_SIZE - VGA_WIDTH)
      BY <1>2, <2>1, <3>2, <3>3, ScrolledShows
    <3>5. Shown(SubSeq(log, 1, Len(log) - 1), reg[p])'
      BY <1>2, <2>1, <3>1, <3>3, <3>4 DEF Shown
    <3> QED
      BY <1>2, <2>1, <3>2, <3>5 DEF Pending
  <2> QED
    BY <1>1, <2>1, <2>2, KernelKeeps
<1>5. CASE Put(p)
  <2>1. /\ pc[p] = "put" /\ chr[p] # NL /\ pc' = [pc EXCEPT ![p] = "store"] /\ pc'[p] = "store"
        /\ vga_buffer' = [vga_buffer EXCEPT ![reg[p]] = chr[p]] /\ reg' = reg
    BY <1>3, <1>5 DEF Put
  <2>2. ASSUME ~raced PROVE Pending(p)'
    <3>1. Pending(p) /\ reg[p] \in Cells
      BY <1>3, <2>1, <2>2, Writer DEF InBounds
    <3>2. /\ log # <<>> /\ log[Len(log)] = chr[p]
          /\ Shown(SubSeq(log, 1, Len(log) - 1), reg[p])
      BY <2>1, <3>1 DEF Pending
    <3>3. PICK t \in Seq(Chars), c \in Chars :
            log = Append(t, c) /\ SubSeq(log, 1, Len(log) - 1) = t /\ log[Len(log)] = c
      BY <1>3, <3>2, Before
    <3>4. c = chr[p] /\ Window(vga_buffer, under, start, t, reg[p])
      BY <3>2, <3>3 DEF Shown
    <3>5. Window(vga_buffer', under, start, log, reg[p] + 1)
      BY <1>3, <2>1, <3>1, <3>3, <3>4, PutWindow
    <3>6. Shown(log, reg[p] + 1)'
      BY <1>2, <2>1, <3>5 DEF Shown
    <3> QED
      BY <2>1, <3>6 DEF Pending
  <2> QED
    BY <1>1, <2>1, <2>2, KernelKeeps
<1>6. CASE Store(p)
  <2>1. /\ pc[p] = "store" /\ pc' = [pc EXCEPT ![p] = "idle"] /\ vga_pos' = reg[p] + 1
        /\ vga_buffer' = vga_buffer
    BY <1>6 DEF Store
  <2>2. ASSUME ~raced PROVE Shown(log, vga_pos)'
    <3>1. Pending(p)
      BY <2>1, <2>2, Writer
    <3>2. Shown(log, reg[p] + 1)
      BY <2>1, <3>1 DEF Pending
    <3> QED
      BY <1>2, <2>1, <3>2 DEF Shown
  <2> QED
    BY <1>1, <2>1, <2>2, KernelKeeps
<1>7. CASE Linebreak(p)
  <2> DEFINE point == IF NextLine(reg[p]) = VGA_SIZE THEN "lb_scroll" ELSE "idle"
  <2>1. /\ pc[p] = "put" /\ chr[p] = NL /\ pc' = [pc EXCEPT ![p] = point] /\ pc'[p] = point
        /\ vga_pos' = NextLine(reg[p]) /\ reg'[p] = NextLine(reg[p]) /\ vga_buffer' = vga_buffer
    BY <1>3, <1>7 DEF Linebreak
  <2>2. ASSUME ~raced PROVE Shown(log, vga_pos)'
    <3>1. Pending(p) /\ reg[p] \in Cells
      BY <1>3, <2>1, <2>2, Writer DEF InBounds
    <3>2. /\ log # <<>> /\ log[Len(log)] = NL
          /\ Shown(SubSeq(log, 1, Len(log) - 1), reg[p])
      BY <2>1, <3>1 DEF Pending
    <3>3. PICK t \in Seq(Chars), c \in Chars :
            log = Append(t, c) /\ SubSeq(log, 1, Len(log) - 1) = t /\ log[Len(log)] = c
      BY <1>3, <3>2, Before
    <3>4. c = NL /\ Window(vga_buffer, under, start, t, reg[p])
      BY <3>2, <3>3 DEF Shown
    <3>5. Window(vga_buffer, under, start, log, NextLine(reg[p]))
      BY <1>3, <3>1, <3>3, <3>4, BreakWindow
    <3> QED
      BY <1>2, <2>1, <3>5 DEF Shown
  <2>3. CASE point = "idle"
    BY <1>1, <2>1, <2>2, <2>3, KernelKeeps
  <2>4. CASE point = "lb_scroll"
    <3>1. ASSUME ~raced PROVE Pending(p)'
      <4>1. Shown(log, reg[p])'
        BY <2>1, <2>2, <3>1 DEF Shown
      <4> QED
        BY <2>1, <2>4, <4>1 DEF Pending
    <3> QED
      BY <1>1, <2>1, <2>4, <3>1, KernelKeeps
  <2> QED
    BY <2>3, <2>4
<1>8. CASE LinebreakScroll(p)
  <2>1. /\ pc[p] = "lb_scroll" /\ pc' = [pc EXCEPT ![p] = "lb_store"] /\ pc'[p] = "lb_store"
        /\ vga_buffer' = Scrolled /\ reg' = reg
    BY <1>3, <1>8 DEF LinebreakScroll
  <2>2. ASSUME ~raced PROVE Pending(p)'
    <3>1. Pending(p) /\ reg[p] = VGA_SIZE
      BY <1>3, <2>1, <2>2, Writer DEF InBounds
    <3>2. Shown(log, VGA_SIZE)
      BY <2>1, <3>1 DEF Pending
    <3>3. Window(vga_buffer', under', start', log, VGA_SIZE - VGA_WIDTH)
      BY <1>2, <1>3, <2>1, <3>2, ScrolledShows
    <3>4. Shown(log, reg[p] - VGA_WIDTH)'
      BY <1>2, <2>1, <3>1, <3>3 DEF Shown
    <3> QED
      BY <2>1, <3>4 DEF Pending
  <2> QED
    BY <1>1, <2>1, <2>2, KernelKeeps
<1>9. CASE LinebreakStore(p)
  <2>1. /\ pc[p] = "lb_store" /\ pc' = [pc EXCEPT ![p] = "idle"]
        /\ vga_pos' = reg[p] - VGA_WIDTH /\ vga_buffer' = vga_buffer
    BY <1>9 DEF LinebreakStore
  <2>2. ASSUME ~raced PROVE Shown(log, vga_pos)'
    <3>1. Pending(p)
      BY <2>1, <2>2, Writer
    <3>2. Shown(log, reg[p] - VGA_WIDTH)
      BY <2>1, <3>1 DEF Pending
    <3> QED
      BY <1>2, <2>1, <3>2 DEF Shown
  <2> QED
    BY <1>1, <2>1, <2>2, KernelKeeps
<1> QED
  BY <1>1, <1>4, <1>5, <1>6, <1>7, <1>8, <1>9 DEF Continue

-----------------------------------------------------------------------------
(* The theorems.                                                           *)

\* The screen as the boot loader leaves it.
LEMMA ConsoleStarts == ConsoleInit => ConsoleInvariant
<1> SUFFICES ASSUME ConsoleInit PROVE ConsoleInvariant
  OBVIOUS
<1>1. /\ vga_pos = 0 /\ pc = [p \in Contexts |-> "idle"] /\ reg = [p \in Contexts |-> 0]
      /\ chr = [p \in Contexts |-> BLANK] /\ stage = "init" /\ row = 0 /\ col = 0
      /\ under = vga_buffer /\ start = 0 /\ log = <<>> /\ raced = FALSE
  BY DEF ConsoleInit
<1>2. vga_buffer \in [Cells -> Glyphs]
  BY LoadedAssumption DEF ConsoleInit
<1>3. VGA_WIDTH \in Nat \ {0} /\ VGA_HEIGHT \in Nat \ {0} /\ VGA_SIZE \in Nat /\ 0 \in Cells
  BY SizeAssumption, SizeFacts DEF Cells
<1>4. VgaInvariant
  BY <1>1, <1>2, <1>3 DEF VgaInvariant, TypeOK, InBounds, Points
<1>5. row \in 0 .. VGA_HEIGHT - 1 /\ col \in 0 .. VGA_WIDTH - 1 /\ row * VGA_WIDTH + col = 0
  BY <1>1, <1>3
<1>6. Window(vga_buffer, under, start, log, start)
  BY <1>1, <1>2, <1>3, EmptyWindow
<1>7. Shown(log, Position)
  BY <1>1, <1>5, <1>6 DEF Shown, Position
<1>8. log \in Seq(Chars)
  BY <1>1, EmptySeq
<1>9. /\ \A p, q \in Contexts : pc[p] # "idle" /\ pc[q] # "idle" => p = q
      /\ \A p \in Contexts : pc[p] # "idle" => Pending(p)
  BY <1>1
<1> QED
  BY <1>1, <1>2, <1>3, <1>4, <1>5, <1>7, <1>8, <1>9 DEF ConsoleInvariant

\* Every step of either console keeps the invariant.
LEMMA ConsoleStep ==
    ConsoleInvariant /\ [ConsoleNext]_<<vars, boot, text>> => ConsoleInvariant'
<1> SUFFICES ASSUME ConsoleInvariant, [ConsoleNext]_<<vars, boot, text>> PROVE ConsoleInvariant'
  OBVIOUS
<1>1. CASE UNCHANGED <<vars, boot, text>>
  BY <1>1 DEF vars, boot, text, ConsoleInvariant, VgaInvariant, TypeOK, InBounds, Pending, Shown, Idle, Position
<1>2. CASE ConsoleNext
  BY <1>2, InitPutcStep, InitClearStep, SetPositionStep, VgaClearStep, KernelPutcStep, KernelContinueStep
     DEF ConsoleNext
<1> QED
  BY <1>1, <1>2

\* For every screen size, text and number of contexts: positions of both
\* consoles stay on the screen, and at every point of vga_putc the buffer shows
\* the text up to there as long as no second writer came in.
THEOREM ConsoleCorrect == ConsoleSpec => []ConsoleInvariant
BY ConsoleStarts, ConsoleStep, PTL DEF ConsoleSpec

\* On a screen that init printed on first, whatever it printed, vga_putc stays
\* inside the buffer too.
THEOREM ConsoleBounds == ConsoleSpec => []InBounds
<1>1. ConsoleInvariant => InBounds
  BY DEF ConsoleInvariant, VgaInvariant
<1> QED
  BY <1>1, ConsoleCorrect, PTL

\* Wrapping, vga_linebreak and vga_scrolldown of both consoles lose, double or
\* leave over no line of any text, also across the hand-over.
THEOREM WindowCorrect == ConsoleSpec => []WindowShown
<1>1. ConsoleInvariant => WindowShown
  BY DEF ConsoleInvariant, WindowShown
<1> QED
  BY <1>1, ConsoleCorrect, PTL

\* The kernel's console starts on a blank screen with a position inside it,
\* whatever init has printed.
THEOREM HandOverCorrect == ConsoleSpec => HandOver
<1>1. ConsoleInvariant /\ [ConsoleNext]_<<vars, boot, text>>
        => [stage # "kernel" /\ stage' = "kernel" => Init']_<<vars, boot, text>>
  <2> SUFFICES ASSUME ConsoleInvariant, ConsoleNext, stage # "kernel", stage' = "kernel" PROVE Init'
    OBVIOUS
  <2>1. VgaClear
    BY DEF ConsoleNext, InitPutc, InitClear, SetPosition, KernelPutc, KernelContinue, boot
  <2> QED
    BY <2>1, VgaClearStep
<1> QED
  BY <1>1, ConsoleCorrect, PTL DEF ConsoleSpec, HandOver
=============================================================================
