---------------------------- MODULE Descriptors ----------------------------
(***************************************************************************)
(* The tables the processor reads: segment descriptors of gdt.c, interrupt *)
(* gates of int.c, the selectors that name them, and the registers of the  *)
(* local APIC's timer.                                                     *)
(*                                                                         *)
(* A word is the set of its one bits, so shifts, masks and the bit fields  *)
(* of the C structures are set expressions.  The second half decodes the   *)
(* words the way the processor does, with the layout that gdt.h documents  *)
(* and the gate layout of the processor's manual.                          *)
(***************************************************************************)
EXTENDS Integers

Word32 == SUBSET (0 .. 31)

Shl(w, n) == {b + n : b \in w}
Shr(w, n) == {b - n : b \in {c \in w : c >= n}}

-----------------------------------------------------------------------------
(* gdt.h, gdt.c                                                            *)

RING0 == {}
RING3 == {0, 1}

SEG_PRIV(ring) == Shl(ring, 5)
SEG_PRES == {7}
SEG_SIZE == {14}
SEG_GRAN == {15}
SEG_SYS_TSS == {0, 3}
SEG_DATA_W == {1, 4}
SEG_CODE_R == {1, 3, 4}

GDT_CODE(ring) == SEG_PRES \cup SEG_SIZE \cup SEG_GRAN \cup SEG_PRIV(ring) \cup SEG_CODE_R
GDT_DATA(ring) == SEG_PRES \cup SEG_SIZE \cup SEG_GRAN \cup SEG_PRIV(ring) \cup SEG_DATA_W
GDT_TSS(ring) == SEG_PRES \cup SEG_GRAN \cup SEG_PRIV(ring) \cup SEG_SYS_TSS

\* Mutant: the middle byte of the base is taken from its lowest byte.
BaseByte(base, limit, flags) ==
    Shl((limit \cap (16 .. 19))
        \cup (Shl(flags, 8) \cap ((8 .. 15) \cup (20 .. 23)))
        \cup (base \cap (0 .. 7))
        \cup (base \cap (24 .. 31)), 32)
    \cup (limit \cap (0 .. 15))
    \cup (Shl(base, 16) \cap (0 .. 31))

\* gdt_descriptor; base << 16 is a 32-bit word.
gdt_descriptor(base, limit, flags) ==
    Shl((limit \cap (16 .. 19))
        \cup (Shl(flags, 8) \cap ((8 .. 15) \cup (20 .. 23)))
        \cup (Shr(base, 16) \cap (0 .. 7))
        \cup (base \cap (24 .. 31)), 32)
    \cup (limit \cap (0 .. 15))
    \cup (Shl(base, 16) \cap (0 .. 31))

GDT_IDX_CODE_PL0 == {0}
GDT_IDX_DATA_PL0 == {1}
GDT_IDX_TSS_PL0 == {0, 1}
GDT_IDX_CODE_PL3 == {2}
GDT_IDX_DATA_PL3 == {0, 2}
GDT_IDX_TSS_PL3 == {1, 2}

\* A GDT_SEL constant.
Selector(idx, ring) == Shl(idx, 3) \cup ring

AllPages == 0 .. 19              \* limit 0xfffff
TSS_SIZE == {3, 5, 6}            \* sizeof(TSS) = 104

\* GDT[] as gdt_init fills it; the null descriptor is {}.
GDT(tss) ==
    [idx \in SUBSET (0 .. 2) |->
        CASE idx = GDT_IDX_CODE_PL0 -> gdt_descriptor({}, AllPages, GDT_CODE(RING0))
          [] idx = GDT_IDX_DATA_PL0 -> gdt_descriptor({}, AllPages, GDT_DATA(RING0))
          [] idx = GDT_IDX_TSS_PL0 -> gdt_descriptor(tss, TSS_SIZE, GDT_TSS(RING0))
          [] idx = GDT_IDX_CODE_PL3 -> gdt_descriptor({}, AllPages, GDT_CODE(RING3))
          [] idx = GDT_IDX_DATA_PL3 -> gdt_descriptor({}, AllPages, GDT_DATA(RING3))
          [] idx = GDT_IDX_TSS_PL3 -> gdt_descriptor(tss, TSS_SIZE, GDT_TSS(RING3))
          [] OTHER -> {}]

-----------------------------------------------------------------------------
(* int.h, int.c                                                            *)

IDT_SIZE == 256
IDT_VECTOR_TIMER == 65
IDT_GATE_INTERRUPT32 == {4, 5, 6}

\* Mutant: the gate type lies where the structure of a 16-bit gate has it.
TypeTooHigh(handler, sel, type, dpl) ==
    (handler \cap (0 .. 15)) \cup Shl(sel \cap (0 .. 15), 16)
    \cup Shl(type, 38) \cup Shl(dpl, 45) \cup {47} \cup Shl(Shr(handler, 16), 48)

\* idt_descriptor: the fields of idt_descriptor_t from bit 0 on.
idt_descriptor(handler, sel, type, dpl) ==
    (handler \cap (0 .. 15)) \cup Shl(sel \cap (0 .. 15), 16)
    \cup Shl(type, 37) \cup Shl(dpl, 45) \cup {47} \cup Shl(Shr(handler, 16), 48)

\* The handlers that int_init_vectors names for 0 to 14.
Exceptions ==
    <<"divide_error", "debug", "nmi_interrupt", "breakpoint", "overflow",
      "bound_range_exceeded", "invalid_opcode", "device_not_available",
      "double_fault", "coprocessor_segment_overrun", "invalid_tss",
      "segment_not_present", "stack_fault", "general_protection", "page_fault">>

Handler(v) ==
    IF v <= 14 THEN Exceptions[v + 1]
    ELSE IF v = 17 THEN "exception"
    ELSE IF v = IDT_VECTOR_TIMER THEN "proc_switch"
    ELSE "unknown"

\* The handlers declared with an error code.
TakesError ==
    {"double_fault", "invalid_tss", "segment_not_present", "stack_fault",
     "general_protection", "page_fault", "exception"}

\* int_init_vectors, with Addr the address of each handler.
IDT(Addr) ==
    [v \in 0 .. IDT_SIZE - 1 |->
        idt_descriptor(Addr[Handler(v)], Selector(GDT_IDX_CODE_PL0, RING0),
                       IDT_GATE_INTERRUPT32, RING0)]

-----------------------------------------------------------------------------
(* apic.h, apic.c                                                          *)

\* The number n < 2^16 as a word.
Bits(n) == {b \in 0 .. 15 : (n \div 2 ^ b) % 2 = 1}

\* Registers as indexes of lapic_reg, which has four bytes per element.
APIC_LVT_TR_IDX == 800 \div 4
APIC_INIT_COUNT_IDX == 896 \div 4
APIC_DIV_CONFIG_IDX == 992 \div 4

APIC_TIMER_PERIODIC == {0}
APIC_TIMER_DIV128 == {1, 3}

\* The bit fields of an LVT register that lapic_timer_init sets; masked and
\* the delivery mode are zero.
lvt(vector, timer_mode) == (vector \cap (0 .. 7)) \cup Shl(timer_mode \cap {0, 1}, 17)

\* Mutant: the timer fires once.
OneShot(period) ==
    [i \in {APIC_LVT_TR_IDX, APIC_DIV_CONFIG_IDX, APIC_INIT_COUNT_IDX} |->
        IF i = APIC_LVT_TR_IDX THEN lvt(Bits(IDT_VECTOR_TIMER), {})
        ELSE IF i = APIC_DIV_CONFIG_IDX THEN APIC_TIMER_DIV128 ELSE period]

\* What lapic_timer_init writes to the registers.
lapic_timer_init(period) ==
    [i \in {APIC_LVT_TR_IDX, APIC_DIV_CONFIG_IDX, APIC_INIT_COUNT_IDX} |->
        IF i = APIC_LVT_TR_IDX THEN lvt(Bits(IDT_VECTOR_TIMER), APIC_TIMER_PERIODIC)
        ELSE IF i = APIC_DIV_CONFIG_IDX THEN APIC_TIMER_DIV128 ELSE period]

-----------------------------------------------------------------------------
(* How the processor reads them.                                           *)

Field(w, lo, hi) == Shr(w \cap (lo .. hi), lo)

SegBase(d) == Field(d, 16, 39) \cup Shl(Field(d, 56, 63), 24)
SegLimit(d) == Field(d, 0, 15) \cup Shl(Field(d, 48, 51), 16)
SegFlags(d) == Field(d, 40, 47) \cup Shl(Field(d, 52, 55), 12)
SegType(d) == Field(d, 40, 44)
SegPriv(d) == Field(d, 45, 46)
SegPresent(d) == 47 \in d

GateOffset(g) == Field(g, 0, 15) \cup Shl(Field(g, 48, 63), 16)
GateSelector(g) == Field(g, 16, 31)
GateType(g) == Field(g, 40, 44)
GatePriv(g) == Field(g, 45, 46)
GatePresent(g) == 47 \in g

SelIndex(sel) == Field(sel, 3, 15)
SelRing(sel) == Field(sel, 0, 1)
SelLocal(sel) == 2 \in sel

\* Vectors for which the processor pushes an error code.
PushesError == {8, 10, 11, 12, 13, 14, 17}

\* The processor enters the right handler for vector v: the gate is present,
\* a 32-bit interrupt gate, and its selector names a present ring 0 code
\* segment that covers all addresses; the handler takes an error code exactly
\* when the processor pushes one.
Enters(Addr, tss, v) ==
    LET g == IDT(Addr)[v]
        seg == GDT(tss)[SelIndex(GateSelector(g))]
    IN  /\ GatePresent(g) /\ GateType(g) = {1, 2, 3} /\ GatePriv(g) = RING0
        /\ GateOffset(g) = Addr[Handler(v)]
        /\ SelRing(GateSelector(g)) = RING0 /\ ~SelLocal(GateSelector(g))
        /\ SegPresent(seg) /\ SegType(seg) = {1, 3, 4} /\ SegPriv(seg) = RING0
        /\ SegBase(seg) = {} /\ SegLimit(seg) = AllPages
        /\ v \in PushesError <=> Handler(v) \in TakesError

\* The task register names a present TSS descriptor with the address of TSS,
\* and ss0 a present and writable ring 0 data segment that covers all
\* addresses.
TaskReady(tss) ==
    LET task == GDT(tss)[SelIndex(Selector(GDT_IDX_TSS_PL3, RING3))]
        ss0 == GDT(tss)[SelIndex(Selector(GDT_IDX_DATA_PL0, RING0))]
    IN  /\ SegPresent(task) /\ SegType(task) = {0, 3} /\ SegBase(task) = tss
        /\ SegPresent(ss0) /\ SegType(ss0) = {1, 4} /\ SegPriv(ss0) = RING0
        /\ SegBase(ss0) = {} /\ SegLimit(ss0) = AllPages

\* The timer delivers vector v again and again: the LVT register at byte
\* offset 0x320 is unmasked, in fixed delivery and periodic mode and has the
\* vector, and the initial count at 0x380 is not zero.
Delivers(regs, v) ==
    /\ {200, 224} \subseteq DOMAIN regs
    /\ Field(regs[200], 0, 7) = Bits(v) /\ v >= 16
    /\ Field(regs[200], 8, 10) = {} /\ 16 \notin regs[200]
    /\ Field(regs[200], 17, 18) = {0}
    /\ regs[224] # {}

=============================================================================
