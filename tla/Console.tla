------------------------------ MODULE Console ------------------------------
(***************************************************************************)
(* The two consoles on one screen, against a reference definition of a     *)
(* scrolling terminal.  init_vga.c prints with a row and a column before   *)
(* paging is on; init hands its position over to vga.c (module Vga), whose *)
(* screen kernel_main clears and on which preempted processes print.       *)
(*                                                                         *)
(* log is the text printed since the screen last was cleared.  It is kept  *)
(* while at most one context is inside vga_putc; raced says that one was   *)
(* preempted there by another, after which no promise about the text is    *)
(* made.  Nothing can preempt init.                                        *)
(***************************************************************************)
EXTENDS Vga, Sequences

CONSTANTS
    MaxText,   \* bound: characters printed on a cleared screen
    Loaded     \* what the boot loader may have left on the screen

ASSUME LoadedAssumption == Loaded \subseteq Glyphs

VARIABLES
    stage,         \* "init", "handover" (before vga_clear) or "kernel"
    row, col,      \* vga_row, vga_col of init_vga.c
    under, start,  \* the screen and the position when log was empty
    log, raced

boot == <<stage, row, col>>
text == <<under, start, log, raced>>

Blank == [k \in Cells |-> BLANK]

ConsoleInit ==
    /\ vga_buffer \in {[k \in Cells |-> g] : g \in Loaded}
    /\ vga_pos = 0
    /\ pc = [p \in Contexts |-> "idle"]
    /\ reg = [p \in Contexts |-> 0]
    /\ chr = [p \in Contexts |-> BLANK]
    /\ stage = "init" /\ row = 0 /\ col = 0
    /\ under = vga_buffer /\ start = 0 /\ log = <<>> /\ raced = FALSE

-----------------------------------------------------------------------------
(* init_vga.c                                                              *)

\* Mutant: the last line is left without scrolling.
NoScroll(buf, r) == vga_buffer' = buf /\ row' = r + 1 /\ col' = 0

\* vga_linebreak and vga_scrolldown(1), from row r of the buffer buf.
BootLinebreak(buf, r) ==
    /\ col' = 0
    /\ IF r + 1 = VGA_HEIGHT
       THEN /\ row' = r
            /\ vga_buffer' = [k \in Cells |-> IF k < VGA_SIZE - VGA_WIDTH
                                              THEN buf[k + VGA_WIDTH] ELSE BLANK]
       ELSE row' = r + 1 /\ vga_buffer' = buf

\* The buffer with c at column x of row y.
vga_putentryat(c, x, y) == [vga_buffer EXCEPT ![y * VGA_WIDTH + x] = c]

\* init_vga_putc, called by init_vga_write for one character after another.
InitPutc(c) ==
    /\ stage = "init" /\ Len(log) < MaxText
    /\ IF c = NL THEN BootLinebreak(vga_buffer, row)
       ELSE IF col + 1 = VGA_WIDTH THEN BootLinebreak(vga_putentryat(c, col, row), row)
       ELSE /\ vga_buffer' = vga_putentryat(c, col, row)
            /\ col' = col + 1 /\ row' = row
    /\ log' = Append(log, c)
    /\ UNCHANGED <<vga_pos, pc, reg, chr, stage, under, start, raced>>

\* The text starts again on a cleared screen, at the position it has reached.
Restart(pos) ==
    /\ vga_buffer' = Blank /\ under' = Blank
    /\ log' = <<>> /\ start' = pos

\* init_vga_clear, which leaves row and column alone.
InitClear ==
    /\ stage = "init" /\ Restart(row * VGA_WIDTH + col)
    /\ UNCHANGED <<vga_pos, pc, reg, chr, boot, raced>>

-----------------------------------------------------------------------------
(* init and kernel_main                                                    *)

\* Mutant: row and column are swapped.
PositionSwapped(r, c) == VGA_WIDTH * c + r

vga_set_position(r, c) == VGA_WIDTH * r + c

\* vga_set_position(init_vga_get_row(), init_vga_get_col())
SetPosition ==
    /\ stage = "init" /\ stage' = "handover"
    /\ vga_pos' = vga_set_position(row, col)
    /\ UNCHANGED <<vga_buffer, pc, reg, chr, row, col, text>>

\* vga_clear at the start of kernel_main.
VgaClear ==
    /\ stage = "handover" /\ stage' = "kernel"
    /\ Restart(vga_pos)
    /\ UNCHANGED <<vga_pos, pc, reg, chr, row, col, raced>>

\* vga_write, vga_puts: vga_putc of one character after the other.  A context
\* that enters while another one is inside ends the record of the text.
KernelPutc(p, c) ==
    /\ stage = "kernel" /\ Putc(p, c)
    /\ IF raced \/ \E q \in Contexts \ {p} : pc[q] # "idle"
       THEN raced' = TRUE /\ log' = <<>> /\ start' = 0 /\ under' = Blank
       ELSE /\ Len(log) < MaxText /\ log' = Append(log, c)
            /\ UNCHANGED <<raced, start, under>>
    /\ UNCHANGED boot

KernelContinue(p) == stage = "kernel" /\ Continue(p) /\ UNCHANGED <<boot, text>>

ConsoleNext ==
    \/ \E c \in Chars : InitPutc(c)
    \/ InitClear \/ SetPosition \/ VgaClear
    \/ \E p \in Contexts : KernelContinue(p) \/ \E c \in Chars : KernelPutc(p, c)

ConsoleSpec == ConsoleInit /\ [][ConsoleNext]_<<vars, boot, text>>

-----------------------------------------------------------------------------
(* The reference terminal and the properties.                              *)

\* Where a character takes the cursor on a screen that never ends.
Advance(pos, c) == IF c = NL THEN (pos \div VGA_WIDTH + 1) * VGA_WIDTH ELSE pos + 1

\* Cursor(s, t)[n] is where it is after the first n characters of the text t,
\* from position s on.
Cursor(s, t) ==
    LET at[n \in 0 .. Len(t)] == IF n = 0 THEN s ELSE Advance(at[n - 1], t[n])
    IN  at

\* The character at position k of that screen; u was there before the text.
Glyph(u, s, t, k) ==
    LET here == {n \in 1 .. Len(t) : t[n] # NL /\ Cursor(s, t)[n - 1] = k}
    IN  IF here # {} THEN t[CHOOSE n \in here : TRUE]
        ELSE IF k \in Cells THEN u[k] ELSE BLANK

\* The buffer buf is a window on that screen, top lines down, with the cursor
\* at pos in it or directly behind it; what it does not show has been
\* scrolled out at the top.
Shows(buf, u, s, t, pos, top) ==
    /\ Cursor(s, t)[Len(t)] = pos + top * VGA_WIDTH
    /\ \A k \in Cells : buf[k] = Glyph(u, s, t, k + top * VGA_WIDTH)
    /\ top > 0 => pos >= VGA_SIZE - VGA_WIDTH

Window(buf, u, s, t, pos) ==
    \E top \in 0 .. Len(t) + 1 : Shows(buf, u, s, t, pos, top)

Shown(t, pos) == Window(vga_buffer, under, start, t, pos)

Idle == \A p \in Contexts : pc[p] = "idle"

\* The cursor of the console that prints.
Position == IF stage = "init" THEN row * VGA_WIDTH + col ELSE vga_pos

\* Between two characters, for both consoles and across the hand-over, the
\* buffer shows the end of the text: wrapping, vga_linebreak and
\* vga_scrolldown lose, double or leave over no line, although the two
\* consoles wrap and scroll at different moments.
WindowShown == Idle /\ ~raced => Shown(log, Position)

\* What the buffer shows while p is inside vga_putc: the text before its
\* character until it is put, then the text with it.
Pending(p) ==
    CASE pc[p] \in {"scroll", "put"} ->
            /\ log # <<>> /\ log[Len(log)] = chr[p]
            /\ Shown(SubSeq(log, 1, Len(log) - 1), reg[p])
      [] pc[p] = "store" -> Shown(log, reg[p] + 1)
      [] pc[p] = "lb_scroll" -> Shown(log, reg[p])
      [] pc[p] = "lb_store" -> Shown(log, reg[p] - VGA_WIDTH)

\* The inductive invariant of both consoles: the row and column of init_vga.c
\* and the positions of vga.c stay on the screen, nobody prints with vga.c
\* before kernel_main, and at every point of vga_putc, as long as no second
\* writer came in, the buffer shows the text up to there.
ConsoleInvariant ==
    /\ VgaInvariant
    /\ stage \in {"init", "handover", "kernel"}
    /\ row \in 0 .. VGA_HEIGHT - 1 /\ col \in 0 .. VGA_WIDTH - 1
    /\ under \in [Cells -> Glyphs] /\ start \in Cells
    /\ log \in Seq(Chars) /\ raced \in BOOLEAN
    /\ stage # "kernel" =>
        /\ pc = [p \in Contexts |-> "idle"] /\ reg = [p \in Contexts |-> 0]
        /\ chr = [p \in Contexts |-> BLANK] /\ ~raced
    /\ stage = "handover" => vga_pos = row * VGA_WIDTH + col
    /\ ~raced =>
        /\ \A p, q \in Contexts : pc[p] # "idle" /\ pc[q] # "idle" => p = q
        /\ \A p \in Contexts : pc[p] # "idle" => Pending(p)
        /\ Idle => Shown(log, Position)

\* Whatever init has printed, the kernel's console starts as module Vga
\* assumes: on a blank screen, with a position inside it.  (The kernel as it is
\* has no call of init_printk, and hands position 0 over; this is about the
\* console that init.c provides for such calls.)
HandOver == [][stage # "kernel" /\ stage' = "kernel" => Init']_<<vars, boot, text>>

=============================================================================
