-------------------------------- MODULE Vga --------------------------------
(***************************************************************************)
(* The text console, vga.c: vga_putc called by processes that the timer    *)
(* may preempt at any instruction and that share vga_pos and the buffer.   *)
(*                                                                         *)
(* The access to vga_pos is a data race.  The build (-O3) reads it once    *)
(* per vga_putc, works on the register and stores the results, so a step   *)
(* here is a run of instructions up to the next access to shared memory.   *)
(* vga_scrolldown moves the whole screen in one step: its loop indexes are *)
(* local, and between processes no promise is made about the text itself.  *)
(***************************************************************************)
EXTENDS Integers

CONSTANTS
    VGA_WIDTH, VGA_HEIGHT,
    Contexts,   \* the processes that print
    Chars,      \* what they print
    NL, BLANK   \* '\n' and ' '

ASSUME SizeAssumption == VGA_WIDTH \in Nat \ {0} /\ VGA_HEIGHT \in Nat \ {0}
ASSUME CharAssumption == BLANK # NL

VGA_SIZE == VGA_HEIGHT * VGA_WIDTH
Cells == 0 .. VGA_SIZE - 1
Glyphs == (Chars \ {NL}) \cup {BLANK}

VARIABLES
    vga_buffer, vga_pos,
    pc,    \* where each context is in vga_putc
    reg,   \* its copy of vga_pos
    chr    \* the character it prints

vars == <<vga_buffer, vga_pos, pc, reg, chr>>

Points == {"idle", "scroll", "put", "store", "lb_scroll", "lb_store"}

\* The screen after vga_clear, vga_pos as init set it with vga_set_position
\* from the row and column the init section reached.
Init ==
    /\ vga_buffer = [k \in Cells |-> BLANK]
    /\ vga_pos \in Cells
    /\ pc = [p \in Contexts |-> "idle"]
    /\ reg = [p \in Contexts |-> 0]
    /\ chr = [p \in Contexts |-> BLANK]

\* Mutant: the last line is moved but not cleared.
ScrolledOnly ==
    [k \in Cells |-> IF k < VGA_SIZE - VGA_WIDTH THEN vga_buffer[k + VGA_WIDTH]
                                                 ELSE vga_buffer[k]]

\* The buffer after vga_scrolldown(1).
Scrolled ==
    [k \in Cells |-> IF k < VGA_SIZE - VGA_WIDTH THEN vga_buffer[k + VGA_WIDTH]
                                                 ELSE BLANK]

\* Mutant: a full screen is not noticed.
NeverFull(pos) == FALSE

ScreenFull(pos) == pos >= VGA_SIZE

\* vga_putc is called with c.
Putc(p, c) ==
    /\ pc[p] = "idle"
    /\ reg' = [reg EXCEPT ![p] = vga_pos]
    /\ chr' = [chr EXCEPT ![p] = c]
    /\ pc' = [pc EXCEPT ![p] = IF ScreenFull(vga_pos) THEN "scroll" ELSE "put"]
    /\ UNCHANGED <<vga_buffer, vga_pos>>

\* vga_scrolldown before the character; vga_pos stays in the register.
Scroll(p) ==
    /\ pc[p] = "scroll"
    /\ vga_buffer' = Scrolled
    /\ reg' = [reg EXCEPT ![p] = @ - VGA_WIDTH]
    /\ pc' = [pc EXCEPT ![p] = "put"]
    /\ UNCHANGED <<vga_pos, chr>>

\* vga_putentryat
Put(p) ==
    /\ pc[p] = "put" /\ chr[p] # NL
    /\ vga_buffer' = [vga_buffer EXCEPT ![reg[p]] = chr[p]]
    /\ pc' = [pc EXCEPT ![p] = "store"]
    /\ UNCHANGED <<vga_pos, reg, chr>>

\* vga_pos++
Store(p) ==
    /\ pc[p] = "store"
    /\ vga_pos' = reg[p] + 1
    /\ pc' = [pc EXCEPT ![p] = "idle"]
    /\ UNCHANGED <<vga_buffer, reg, chr>>

\* Mutant: a whole line further, in the same column.
SameColumn(pos) == pos + VGA_WIDTH

NextLine(pos) == pos + VGA_WIDTH - (pos % VGA_WIDTH)

\* vga_linebreak: the new position is visible before the screen is scrolled.
Linebreak(p) ==
    /\ pc[p] = "put" /\ chr[p] = NL
    /\ vga_pos' = NextLine(reg[p])
    /\ reg' = [reg EXCEPT ![p] = NextLine(reg[p])]
    /\ pc' = [pc EXCEPT ![p] = IF NextLine(reg[p]) = VGA_SIZE THEN "lb_scroll" ELSE "idle"]
    /\ UNCHANGED <<vga_buffer, chr>>

LinebreakScroll(p) ==
    /\ pc[p] = "lb_scroll"
    /\ vga_buffer' = Scrolled
    /\ pc' = [pc EXCEPT ![p] = "lb_store"]
    /\ UNCHANGED <<vga_pos, reg, chr>>

LinebreakStore(p) ==
    /\ pc[p] = "lb_store"
    /\ vga_pos' = reg[p] - VGA_WIDTH
    /\ pc' = [pc EXCEPT ![p] = "idle"]
    /\ UNCHANGED <<vga_buffer, reg, chr>>

\* The steps of vga_putc after its first.
Continue(p) ==
    \/ Scroll(p) \/ Put(p) \/ Store(p)
    \/ Linebreak(p) \/ LinebreakScroll(p) \/ LinebreakStore(p)

Next == \E p \in Contexts : Continue(p) \/ \E c \in Chars : Putc(p, c)

Spec == Init /\ [][Next]_vars

-----------------------------------------------------------------------------
(* Properties.                                                             *)

TypeOK ==
    /\ vga_buffer \in [Cells -> Glyphs]
    /\ vga_pos \in 0 .. VGA_SIZE
    /\ pc \in [Contexts -> Points]
    /\ reg \in [Contexts -> 0 .. VGA_SIZE]
    /\ chr \in [Contexts -> Chars \cup {BLANK}]

\* "Handle the condition when printing was interrupted in another context"
\* (vga_putc): whatever the other contexts did to vga_pos in the meantime, no
\* character is written outside the buffer, and a context that scrolls the
\* screen does so from exactly its end.  This is about the code as it is built,
\* with one load of vga_pos in vga_putc; it is not claimed of a build that
\* loads it wherever the source reads it.
InBounds ==
    \A p \in Contexts :
        /\ pc[p] \in {"put", "store"} => reg[p] \in Cells
        /\ pc[p] \in {"scroll", "lb_scroll", "lb_store"} => reg[p] = VGA_SIZE

VgaInvariant == TypeOK /\ InBounds

=============================================================================
