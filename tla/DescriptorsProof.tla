-------------------------- MODULE DescriptorsProof --------------------------
(***************************************************************************)
(* The processor reads back from every descriptor exactly what gdt.c and   *)
(* int.c put in, for all addresses, limits, selectors and flags.  Words    *)
(* are compared bit by bit.                                                *)
(***************************************************************************)
EXTENDS Descriptors, TLAPS

\* Bits of a word shifted to the left.
LEMMA ShlBit ==
    ASSUME NEW w \in SUBSET Int, NEW n \in Int, NEW b \in Int
    PROVE  b \in Shl(w, n) <=> b - n \in w
    BY DEF Shl

\* Bits of a word shifted to the right.
LEMMA ShrBit ==
    ASSUME NEW w \in SUBSET Int, NEW n \in Int, NEW b \in Int
    PROVE  b \in Shr(w, n) <=> b >= 0 /\ b + n \in w
    BY DEF Shr

\* Shifted words have integers as bits.
LEMMA ShiftType ==
    ASSUME NEW w \in SUBSET Int, NEW n \in Int
    PROVE  Shl(w, n) \in SUBSET Int /\ Shr(w, n) \in SUBSET Int
    BY DEF Shl, Shr

\* Bits of a field.
LEMMA FieldBit ==
    ASSUME NEW w \in SUBSET Int, NEW lo \in Int, NEW hi \in Int, NEW b \in Int
    PROVE  /\ b \in Field(w, lo, hi) <=> b >= 0 /\ b + lo <= hi /\ b + lo \in w
           /\ Field(w, lo, hi) \in SUBSET Int
<1>1. w \cap (lo .. hi) \in SUBSET Int
    OBVIOUS
<1> QED BY <1>1, ShrBit, ShiftType DEF Field

\* Words with the same bits are the same.
LEMMA SameBits ==
    ASSUME NEW v \in SUBSET Int, NEW w \in SUBSET Int,
           \A b \in Int : b \in v <=> b \in w
    PROVE  v = w
    OBVIOUS

\* Where gdt_descriptor puts each bit of its arguments.
LEMMA SegmentBits ==
    ASSUME NEW base \in Word32, NEW limit \in Word32, NEW flags \in Word32, NEW b \in Int
    PROVE  /\ gdt_descriptor(base, limit, flags) \in SUBSET Int
           /\ b \in gdt_descriptor(base, limit, flags) <=>
                \/ b \in (0 .. 15) /\ b \in limit
                \/ b \in (16 .. 39) /\ b - 16 \in base
                \/ b \in (40 .. 47) \cup (52 .. 55) /\ b - 40 \in flags
                \/ b \in (48 .. 51) /\ b - 32 \in limit
                \/ b \in (56 .. 63) /\ b - 32 \in base
<1> DEFINE f == Shl(flags, 8) \cap ((8 .. 15) \cup (20 .. 23))
           m == Shr(base, 16) \cap (0 .. 7)
           hi == (limit \cap (16 .. 19)) \cup f \cup m \cup (base \cap (24 .. 31))
           lo == (limit \cap (0 .. 15)) \cup (Shl(base, 16) \cap (0 .. 31))
<1>1. base \in SUBSET Int /\ limit \in SUBSET Int /\ flags \in SUBSET Int
    BY DEF Word32
<1>2. \A c \in Int : c \in f <=> c \in (8 .. 15) \cup (20 .. 23) /\ c - 8 \in flags
    BY <1>1, ShlBit
<1>3. \A c \in Int : c \in m <=> c \in 0 .. 7 /\ c + 16 \in base
    BY <1>1, ShrBit
<1>4. hi \in SUBSET Int /\ lo \in SUBSET Int
    BY <1>1
<1>5. \A c \in Int : c \in lo <=> \/ c \in (0 .. 15) /\ c \in limit
                                  \/ c \in (16 .. 31) /\ c - 16 \in base
    <2>1. \A c \in Int : c \in Shl(base, 16) <=> c - 16 \in base
        BY <1>1, ShlBit
    <2>2. \A c \in base : c >= 0
        BY DEF Word32
    <2> QED BY <2>1, <2>2
<1>6. gdt_descriptor(base, limit, flags) = Shl(hi, 32) \cup lo
    BY DEF gdt_descriptor
<1>7. \A c \in Int : c \in Shl(hi, 32) <=> c - 32 \in hi
    <2> HIDE DEF hi
    <2> QED BY <1>4, ShlBit
<1>8. b - 32 \in hi <=> \/ b \in (48 .. 51) /\ b - 32 \in limit
                        \/ b \in (40 .. 47) \cup (52 .. 55) /\ b - 40 \in flags
                        \/ b \in (32 .. 39) /\ b - 16 \in base
                        \/ b \in (56 .. 63) /\ b - 32 \in base
    <2>1. b - 32 \in f <=> b \in (40 .. 47) \cup (52 .. 55) /\ b - 40 \in flags
        BY <1>2
    <2>2. b - 32 \in m <=> b \in (32 .. 39) /\ b - 16 \in base
        BY <1>3
    <2> HIDE DEF f, m
    <2> QED BY <2>1, <2>2
<1>9. Shl(hi, 32) \in SUBSET Int
    BY <1>4, ShiftType
<1> HIDE DEF f, m, hi, lo
<1>10. gdt_descriptor(base, limit, flags) \in SUBSET Int
    BY <1>4, <1>6, <1>9
<1>11. b \in gdt_descriptor(base, limit, flags) <=> b - 32 \in hi \/ b \in lo
    BY <1>6, <1>7
<1>12. b \in (16 .. 39) <=> b \in (16 .. 31) \/ b \in (32 .. 39)
    OBVIOUS
<1>13. b \in lo <=> \/ b \in (0 .. 15) /\ b \in limit
                    \/ b \in (16 .. 31) /\ b - 16 \in base
    BY <1>5
<1> QED BY <1>8, <1>10, <1>11, <1>12, <1>13, Zenon

\* Every base, every 20-bit limit and every set of the flags gdt.h defines
\* comes back out of the descriptor that gdt_descriptor makes of them.
THEOREM SegmentRoundTrip ==
    ASSUME NEW base \in Word32, NEW limit \in SUBSET (0 .. 19),
           NEW flags \in SUBSET ((0 .. 7) \cup (12 .. 15))
    PROVE  /\ SegBase(gdt_descriptor(base, limit, flags)) = base
           /\ SegLimit(gdt_descriptor(base, limit, flags)) = limit
           /\ SegFlags(gdt_descriptor(base, limit, flags)) = flags
<1> DEFINE d == gdt_descriptor(base, limit, flags)
<1>1. limit \in Word32 /\ flags \in Word32
    BY DEF Word32
<1>2. d \in SUBSET Int
    BY <1>1, SegmentBits, 0 \in Int
<1>3. \A b \in Int : b \in d <=>
                \/ b \in (0 .. 15) /\ b \in limit
                \/ b \in (16 .. 39) /\ b - 16 \in base
                \/ b \in (40 .. 47) \cup (52 .. 55) /\ b - 40 \in flags
                \/ b \in (48 .. 51) /\ b - 32 \in limit
                \/ b \in (56 .. 63) /\ b - 32 \in base
    BY <1>1, SegmentBits
<1> HIDE DEF d
<1>4. SegBase(d) = base
    <2>1. \A b \in Int : b \in Field(d, 16, 39) <=> b \in 0 .. 23 /\ b \in base
        BY <1>2, <1>3, FieldBit
    <2>2. \A b \in Int : b \in Field(d, 56, 63) <=> b \in 0 .. 7 /\ b + 24 \in base
        BY <1>2, <1>3, FieldBit
    <2>3. Field(d, 16, 39) \in SUBSET Int /\ Field(d, 56, 63) \in SUBSET Int
        BY <1>2, FieldBit, 0 \in Int
    <2>4. \A b \in Int : b \in Shl(Field(d, 56, 63), 24) <=> b \in 24 .. 31 /\ b \in base
        BY <2>2, <2>3, ShlBit
    <2>5. Shl(Field(d, 56, 63), 24) \in SUBSET Int
        BY <2>3, ShiftType
    <2>6. SegBase(d) \in SUBSET Int
        BY <2>3, <2>5 DEF SegBase
    <2>7. \A b \in Int : b \in SegBase(d) <=> b \in base
        BY <2>1, <2>4 DEF SegBase, Word32
    <2>8. base \in SUBSET Int
        BY DEF Word32
    <2> QED BY <2>6, <2>7, <2>8, SameBits
<1>5. SegLimit(d) = limit
    <2>1. \A b \in Int : b \in Field(d, 0, 15) <=> b \in 0 .. 15 /\ b \in limit
        BY <1>2, <1>3, FieldBit
    <2>2. \A b \in Int : b \in Field(d, 48, 51) <=> b \in 0 .. 3 /\ b + 16 \in limit
        BY <1>2, <1>3, FieldBit
    <2>3. Field(d, 0, 15) \in SUBSET Int /\ Field(d, 48, 51) \in SUBSET Int
        BY <1>2, FieldBit, 0 \in Int
    <2>4. \A b \in Int : b \in Shl(Field(d, 48, 51), 16) <=> b \in 16 .. 19 /\ b \in limit
        BY <2>2, <2>3, ShlBit
    <2>5. Shl(Field(d, 48, 51), 16) \in SUBSET Int
        BY <2>3, ShiftType
    <2>6. SegLimit(d) \in SUBSET Int
        BY <2>3, <2>5 DEF SegLimit
    <2>7. \A b \in Int : b \in SegLimit(d) <=> b \in limit
        BY <2>1, <2>4 DEF SegLimit
    <2>8. limit \in SUBSET Int
        OBVIOUS
    <2> QED BY <2>6, <2>7, <2>8, SameBits
<1>6. SegFlags(d) = flags
    <2>1. \A b \in Int : b \in Field(d, 40, 47) <=> b \in 0 .. 7 /\ b \in flags
        BY <1>2, <1>3, FieldBit
    <2>2. \A b \in Int : b \in Field(d, 52, 55) <=> b \in 0 .. 3 /\ b + 12 \in flags
        BY <1>2, <1>3, FieldBit
    <2>3. Field(d, 40, 47) \in SUBSET Int /\ Field(d, 52, 55) \in SUBSET Int
        BY <1>2, FieldBit, 0 \in Int
    <2>4. \A b \in Int : b \in Shl(Field(d, 52, 55), 12) <=> b \in 12 .. 15 /\ b \in flags
        BY <2>2, <2>3, ShlBit
    <2>5. Shl(Field(d, 52, 55), 12) \in SUBSET Int
        BY <2>3, ShiftType
    <2>6. SegFlags(d) \in SUBSET Int
        BY <2>3, <2>5 DEF SegFlags
    <2>7. \A b \in Int : b \in SegFlags(d) <=> b \in flags
        BY <2>1, <2>4 DEF SegFlags
    <2>8. flags \in SUBSET Int
        OBVIOUS
    <2> QED BY <2>6, <2>7, <2>8, SameBits
<1> QED BY <1>4, <1>5, <1>6 DEF d

\* Where idt_descriptor puts each bit of its arguments.
LEMMA GateBits ==
    ASSUME NEW handler \in Word32, NEW sel \in Word32,
           NEW type \in SUBSET (3 .. 7), NEW dpl \in SUBSET (0 .. 1), NEW b \in Int
    PROVE  /\ idt_descriptor(handler, sel, type, dpl) \in SUBSET Int
           /\ b \in idt_descriptor(handler, sel, type, dpl) <=>
                \/ b \in (0 .. 15) /\ b \in handler
                \/ b \in (16 .. 31) /\ b - 16 \in sel
                \/ b \in (40 .. 44) /\ b - 37 \in type
                \/ b \in (45 .. 46) /\ b - 45 \in dpl
                \/ b = 47
                \/ b \in (48 .. 63) /\ b - 32 \in handler
<1> DEFINE s == sel \cap (0 .. 15)
           h == Shr(handler, 16)
<1>1. /\ handler \in SUBSET Int /\ sel \in SUBSET Int
      /\ type \in SUBSET Int /\ dpl \in SUBSET Int /\ s \in SUBSET Int
    BY DEF Word32
<1>2. h \in SUBSET Int /\ \A c \in Int : c \in h <=> c >= 0 /\ c + 16 \in handler
    BY <1>1, ShrBit, ShiftType
<1>3. b \in Shl(s, 16) <=> b \in (16 .. 31) /\ b - 16 \in sel
    <2>1. b \in Shl(s, 16) <=> b - 16 \in s
        <3> HIDE DEF s
        <3> QED BY <1>1, ShlBit
    <2> QED BY <2>1
<1>4. b \in Shl(type, 37) <=> b \in (40 .. 44) /\ b - 37 \in type
    BY <1>1, ShlBit
<1>5. b \in Shl(dpl, 45) <=> b \in (45 .. 46) /\ b - 45 \in dpl
    BY <1>1, ShlBit
<1>6. b \in Shl(h, 48) <=> b \in (48 .. 63) /\ b - 32 \in handler
    <2>1. b \in Shl(h, 48) <=> b - 48 \in h
        <3> HIDE DEF h
        <3> QED BY <1>2, ShlBit
    <2>2. b - 48 \in h <=> b - 48 >= 0 /\ b - 32 \in handler
        <3> HIDE DEF h
        <3> QED BY <1>2
    <2> QED BY <2>1, <2>2 DEF Word32
<1>7. /\ Shl(s, 16) \in SUBSET Int /\ Shl(type, 37) \in SUBSET Int
      /\ Shl(dpl, 45) \in SUBSET Int /\ Shl(h, 48) \in SUBSET Int
    <2> HIDE DEF s, h
    <2> QED BY <1>1, <1>2, ShiftType
<1>8. idt_descriptor(handler, sel, type, dpl) =
        (handler \cap (0 .. 15)) \cup Shl(s, 16) \cup Shl(type, 37)
        \cup Shl(dpl, 45) \cup {47} \cup Shl(h, 48)
    BY DEF idt_descriptor
<1> HIDE DEF s, h
<1>9. idt_descriptor(handler, sel, type, dpl) \in SUBSET Int
    BY <1>1, <1>7, <1>8
<1> QED BY <1>3, <1>4, <1>5, <1>6, <1>8, <1>9, Zenon

\* Every handler address and selector, the gate type and the privilege come
\* back out of the gate that idt_descriptor makes of them, and it is present.
\* The type constants of int.h have the reserved bits in front of the type.
THEOREM GateRoundTrip ==
    ASSUME NEW handler \in Word32, NEW sel \in SUBSET (0 .. 15),
           NEW type \in SUBSET (3 .. 7), NEW dpl \in SUBSET (0 .. 1)
    PROVE  /\ GateOffset(idt_descriptor(handler, sel, type, dpl)) = handler
           /\ GateSelector(idt_descriptor(handler, sel, type, dpl)) = sel
           /\ GateType(idt_descriptor(handler, sel, type, dpl)) = Shr(type, 3)
           /\ GatePriv(idt_descriptor(handler, sel, type, dpl)) = dpl
           /\ GatePresent(idt_descriptor(handler, sel, type, dpl))
<1> DEFINE g == idt_descriptor(handler, sel, type, dpl)
<1>1. sel \in Word32 /\ handler \in SUBSET Int /\ type \in SUBSET Int /\ dpl \in SUBSET Int
    BY DEF Word32
<1>2. g \in SUBSET Int
    BY <1>1, GateBits, 0 \in Int
<1>3. \A b \in Int : b \in g <=>
                \/ b \in (0 .. 15) /\ b \in handler
                \/ b \in (16 .. 31) /\ b - 16 \in sel
                \/ b \in (40 .. 44) /\ b - 37 \in type
                \/ b \in (45 .. 46) /\ b - 45 \in dpl
                \/ b = 47
                \/ b \in (48 .. 63) /\ b - 32 \in handler
    BY <1>1, GateBits
<1> HIDE DEF g
<1>4. GateOffset(g) = handler
    <2>1. \A b \in Int : b \in Field(g, 0, 15) <=> b \in 0 .. 15 /\ b \in handler
        BY <1>2, <1>3, FieldBit
    <2>2. \A b \in Int : b \in Field(g, 48, 63) <=> b \in 0 .. 15 /\ b + 16 \in handler
        BY <1>2, <1>3, FieldBit
    <2>3. Field(g, 0, 15) \in SUBSET Int /\ Field(g, 48, 63) \in SUBSET Int
        BY <1>2, FieldBit, 0 \in Int
    <2>4. \A b \in Int : b \in Shl(Field(g, 48, 63), 16) <=> b \in 16 .. 31 /\ b \in handler
        BY <2>2, <2>3, ShlBit
    <2>5. Shl(Field(g, 48, 63), 16) \in SUBSET Int
        BY <2>3, ShiftType
    <2>6. GateOffset(g) \in SUBSET Int
        BY <2>3, <2>5 DEF GateOffset
    <2>7. \A b \in Int : b \in GateOffset(g) <=> b \in handler
        BY <2>1, <2>4 DEF GateOffset, Word32
    <2> QED BY <1>1, <2>6, <2>7, SameBits
<1>5. GateSelector(g) = sel
    <2>1. \A b \in Int : b \in GateSelector(g) <=> b \in sel
        BY <1>2, <1>3, FieldBit DEF GateSelector
    <2>2. GateSelector(g) \in SUBSET Int /\ sel \in SUBSET Int
        BY <1>2, FieldBit, 0 \in Int DEF GateSelector
    <2> QED BY <2>1, <2>2, SameBits
<1>6. GateType(g) = Shr(type, 3)
    <2>1. \A b \in Int : b \in GateType(g) <=> b >= 0 /\ b + 3 \in type
        BY <1>2, <1>3, FieldBit DEF GateType
    <2>2. \A b \in Int : b \in Shr(type, 3) <=> b >= 0 /\ b + 3 \in type
        BY <1>1, ShrBit
    <2>3. GateType(g) \in SUBSET Int /\ Shr(type, 3) \in SUBSET Int
        BY <1>1, <1>2, FieldBit, ShiftType, 0 \in Int DEF GateType
    <2> QED BY <2>1, <2>2, <2>3, SameBits
<1>7. GatePriv(g) = dpl
    <2>1. \A b \in Int : b \in GatePriv(g) <=> b \in dpl
        BY <1>2, <1>3, FieldBit DEF GatePriv
    <2>2. GatePriv(g) \in SUBSET Int
        BY <1>2, FieldBit, 0 \in Int DEF GatePriv
    <2> QED BY <1>1, <2>1, <2>2, SameBits
<1>8. GatePresent(g)
    BY <1>3 DEF GatePresent
<1> QED BY <1>4, <1>5, <1>6, <1>7, <1>8 DEF g

\* Type, privilege and presence are in the flags.
LEMMA SegmentKind ==
    ASSUME NEW base \in Word32, NEW limit \in SUBSET (0 .. 19),
           NEW flags \in SUBSET ((0 .. 7) \cup (12 .. 15))
    PROVE  /\ SegType(gdt_descriptor(base, limit, flags)) = flags \cap (0 .. 4)
           /\ SegPriv(gdt_descriptor(base, limit, flags)) = Shr(flags \cap (5 .. 6), 5)
           /\ SegPresent(gdt_descriptor(base, limit, flags)) <=> 7 \in flags
<1> DEFINE d == gdt_descriptor(base, limit, flags)
<1>1. limit \in Word32 /\ flags \in Word32 /\ flags \in SUBSET Int
    BY DEF Word32
<1>2. d \in SUBSET Int
    BY <1>1, SegmentBits, 0 \in Int
<1>3. \A b \in 40 .. 47 : b \in d <=> b - 40 \in flags
    BY <1>1, SegmentBits
<1> HIDE DEF d
<1>4. SegType(d) = flags \cap (0 .. 4)
    <2>1. \A b \in Int : b \in SegType(d) <=> b \in flags \cap (0 .. 4)
        BY <1>2, <1>3, FieldBit DEF SegType
    <2>2. SegType(d) \in SUBSET Int /\ flags \cap (0 .. 4) \in SUBSET Int
        BY <1>1, <1>2, FieldBit, 0 \in Int DEF SegType
    <2> QED BY <2>1, <2>2, SameBits
<1>5. SegPriv(d) = Shr(flags \cap (5 .. 6), 5)
    <2>1. flags \cap (5 .. 6) \in SUBSET Int
        BY <1>1
    <2>2. \A b \in Int : b \in Shr(flags \cap (5 .. 6), 5) <=>
                            b >= 0 /\ b + 5 \in flags \cap (5 .. 6)
        BY <2>1, ShrBit
    <2>3. \A b \in Int : b \in SegPriv(d) <=> b \in 0 .. 1 /\ b + 5 \in flags
        BY <1>2, <1>3, FieldBit DEF SegPriv
    <2>4. SegPriv(d) \in SUBSET Int /\ Shr(flags \cap (5 .. 6), 5) \in SUBSET Int
        BY <1>2, <2>1, FieldBit, ShiftType, 0 \in Int DEF SegPriv
    <2>5. \A b \in Int : b \in SegPriv(d) <=> b \in Shr(flags \cap (5 .. 6), 5)
        BY <2>2, <2>3
    <2> QED BY <2>4, <2>5, SameBits
<1>6. SegPresent(d) <=> 7 \in flags
    BY <1>3 DEF SegPresent
<1> QED BY <1>4, <1>5, <1>6 DEF d

\* What a selector of gdt.h names.
LEMMA SelectorParts ==
    ASSUME NEW idx \in SUBSET (0 .. 2), NEW ring \in SUBSET (0 .. 1)
    PROVE  /\ Selector(idx, ring) \in SUBSET (0 .. 15)
           /\ SelIndex(Selector(idx, ring)) = idx
           /\ SelRing(Selector(idx, ring)) = ring
           /\ ~SelLocal(Selector(idx, ring))
<1> DEFINE s == Selector(idx, ring)
<1>1. idx \in SUBSET Int /\ ring \in SUBSET Int
    OBVIOUS
<1>2. Shl(idx, 3) \in SUBSET Int /\ \A b \in Int : b \in Shl(idx, 3) <=> b - 3 \in idx
    BY <1>1, ShlBit, ShiftType
<1>3. s \in SUBSET Int /\ \A b \in Int : b \in s <=> b - 3 \in idx \/ b \in ring
    BY <1>1, <1>2 DEF Selector
<1> HIDE DEF s
<1>4. s \in SUBSET (0 .. 15)
    BY <1>3
<1>5. SelIndex(s) = idx
    <2>1. \A b \in Int : b \in SelIndex(s) <=> b \in idx
        BY <1>3, FieldBit DEF SelIndex
    <2>2. SelIndex(s) \in SUBSET Int
        BY <1>3, FieldBit, 0 \in Int DEF SelIndex
    <2> QED BY <1>1, <2>1, <2>2, SameBits
<1>6. SelRing(s) = ring
    <2>1. \A b \in Int : b \in SelRing(s) <=> b \in ring
        BY <1>3, FieldBit DEF SelRing
    <2>2. SelRing(s) \in SUBSET Int
        BY <1>3, FieldBit, 0 \in Int DEF SelRing
    <2> QED BY <1>1, <2>1, <2>2, SameBits
<1>7. ~SelLocal(s)
    BY <1>3 DEF SelLocal
<1> QED BY <1>4, <1>5, <1>6, <1>7 DEF s

\* The flags of the segments that interrupts use.
LEMMA CodeFlags ==
    /\ GDT_CODE(RING0) = {1, 3, 4, 7, 14, 15}
    /\ GDT_DATA(RING0) = {1, 4, 7, 14, 15}
    /\ GDT_TSS(RING3) = {0, 3, 5, 6, 7, 15}
<1>1. SEG_PRIV(RING0) = {}
    BY DEF SEG_PRIV, RING0, Shl
<1>2. SEG_PRIV(RING3) = {5, 6}
    BY DEF SEG_PRIV, RING3, Shl
<1> QED BY <1>1, <1>2 DEF GDT_CODE, GDT_DATA, GDT_TSS, SEG_PRES, SEG_SIZE, SEG_GRAN,
                          SEG_CODE_R, SEG_DATA_W, SEG_SYS_TSS

\* The indexes of gdt.h are different words of three bits.
LEMMA GdtIndexes ==
    LET all == <<GDT_IDX_CODE_PL0, GDT_IDX_DATA_PL0, GDT_IDX_TSS_PL0,
                 GDT_IDX_CODE_PL3, GDT_IDX_DATA_PL3, GDT_IDX_TSS_PL3>>
    IN  \A i, j \in 1 .. 6 : all[i] \in SUBSET (0 .. 2) /\ (i # j => all[i] # all[j])
    BY DEF GDT_IDX_CODE_PL0, GDT_IDX_DATA_PL0, GDT_IDX_TSS_PL0,
           GDT_IDX_CODE_PL3, GDT_IDX_DATA_PL3, GDT_IDX_TSS_PL3

\* For every address of TSS and of the handlers, every vector enters its
\* handler in ring 0 with the right frame.
THEOREM EveryVectorEnters ==
    ASSUME NEW tss \in Word32, NEW Addr,
           NEW v \in 0 .. IDT_SIZE - 1, Addr[Handler(v)] \in Word32
    PROVE  Enters(Addr, tss, v)
<1> DEFINE h == Addr[Handler(v)]
           sel == Selector(GDT_IDX_CODE_PL0, RING0)
           g == idt_descriptor(h, sel, IDT_GATE_INTERRUPT32, RING0)
           seg == gdt_descriptor({}, AllPages, GDT_CODE(RING0))
<1>1. IDT(Addr)[v] = g
    BY DEF IDT
<1>2. /\ sel \in SUBSET (0 .. 15) /\ SelIndex(sel) = GDT_IDX_CODE_PL0
      /\ SelRing(sel) = RING0 /\ ~SelLocal(sel)
    BY SelectorParts DEF GDT_IDX_CODE_PL0, RING0
<1>3. /\ GateOffset(g) = h /\ GateSelector(g) = sel
      /\ GateType(g) = Shr(IDT_GATE_INTERRUPT32, 3) /\ GatePriv(g) = RING0
      /\ GatePresent(g)
    <2>1. IDT_GATE_INTERRUPT32 \in SUBSET (3 .. 7) /\ RING0 \in SUBSET (0 .. 1)
        BY DEF IDT_GATE_INTERRUPT32, RING0
    <2> HIDE DEF sel, h
    <2> QED BY <1>2, <2>1, GateRoundTrip DEF h
<1>4. Shr(IDT_GATE_INTERRUPT32, 3) = {1, 2, 3}
    BY DEF Shr, IDT_GATE_INTERRUPT32
<1>5. GDT(tss)[GDT_IDX_CODE_PL0] = seg
    BY GdtIndexes DEF GDT
<1>6. /\ {} \in Word32 /\ AllPages \in SUBSET (0 .. 19)
      /\ GDT_CODE(RING0) \in SUBSET ((0 .. 7) \cup (12 .. 15))
    BY CodeFlags DEF Word32, AllPages
<1>7. SegBase(seg) = {} /\ SegLimit(seg) = AllPages
    BY <1>6, SegmentRoundTrip
<1>8. /\ SegType(seg) = GDT_CODE(RING0) \cap (0 .. 4)
      /\ SegPriv(seg) = Shr(GDT_CODE(RING0) \cap (5 .. 6), 5)
      /\ SegPresent(seg) <=> 7 \in GDT_CODE(RING0)
    BY <1>6, SegmentKind
<1>9. /\ GDT_CODE(RING0) \cap (0 .. 4) = {1, 3, 4}
      /\ GDT_CODE(RING0) \cap (5 .. 6) = {} /\ 7 \in GDT_CODE(RING0)
    BY CodeFlags
<1>10. Shr({}, 5) = RING0
    BY DEF Shr, RING0
<1>11. v \in PushesError <=> Handler(v) \in TakesError
    BY DEF PushesError, TakesError, Handler, Exceptions, IDT_SIZE, IDT_VECTOR_TIMER
<1> HIDE DEF h, sel, g, seg
<1> QED BY <1>1, <1>2, <1>3, <1>4, <1>5, <1>7, <1>8, <1>9, <1>10, <1>11 DEF Enters, h

\* For every address of TSS, an interrupt from ring 3 finds the task state
\* segment and a stack segment it may write to.
THEOREM TaskAlwaysReady ==
    ASSUME NEW tss \in Word32
    PROVE  TaskReady(tss)
<1> DEFINE task == gdt_descriptor(tss, TSS_SIZE, GDT_TSS(RING3))
           ss0 == gdt_descriptor({}, AllPages, GDT_DATA(RING0))
<1>1. /\ SelIndex(Selector(GDT_IDX_TSS_PL3, RING3)) = GDT_IDX_TSS_PL3
      /\ SelIndex(Selector(GDT_IDX_DATA_PL0, RING0)) = GDT_IDX_DATA_PL0
    BY SelectorParts DEF GDT_IDX_TSS_PL3, GDT_IDX_DATA_PL0, RING0, RING3
<1>2. GDT(tss)[GDT_IDX_TSS_PL3] = task /\ GDT(tss)[GDT_IDX_DATA_PL0] = ss0
    BY GdtIndexes DEF GDT
<1>3. /\ {} \in Word32 /\ AllPages \in SUBSET (0 .. 19) /\ TSS_SIZE \in SUBSET (0 .. 19)
      /\ GDT_TSS(RING3) \in SUBSET ((0 .. 7) \cup (12 .. 15))
      /\ GDT_DATA(RING0) \in SUBSET ((0 .. 7) \cup (12 .. 15))
    BY CodeFlags DEF Word32, AllPages, TSS_SIZE
<1>4. SegBase(task) = tss /\ SegBase(ss0) = {} /\ SegLimit(ss0) = AllPages
    BY <1>3, SegmentRoundTrip
<1>5. /\ SegType(task) = GDT_TSS(RING3) \cap (0 .. 4)
      /\ SegPresent(task) <=> 7 \in GDT_TSS(RING3)
      /\ SegType(ss0) = GDT_DATA(RING0) \cap (0 .. 4)
      /\ SegPriv(ss0) = Shr(GDT_DATA(RING0) \cap (5 .. 6), 5)
      /\ SegPresent(ss0) <=> 7 \in GDT_DATA(RING0)
    BY <1>3, SegmentKind
<1>6. /\ GDT_TSS(RING3) \cap (0 .. 4) = {0, 3} /\ 7 \in GDT_TSS(RING3)
      /\ GDT_DATA(RING0) \cap (0 .. 4) = {1, 4} /\ 7 \in GDT_DATA(RING0)
      /\ GDT_DATA(RING0) \cap (5 .. 6) = {}
    BY CodeFlags
<1>7. Shr({}, 5) = RING0
    BY DEF Shr, RING0
<1> HIDE DEF task, ss0
<1> QED BY <1>1, <1>2, <1>4, <1>5, <1>6, <1>7 DEF TaskReady

=============================================================================
