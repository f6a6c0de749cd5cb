------------------------------- MODULE MCBoot -------------------------------
(***************************************************************************)
(* Instances of Boot for TLC.  Sixteen entries per table: the kernel has   *)
(* the four topmost of sixteen directory entries.                          *)
(***************************************************************************)
EXTENDS Boot

\* Images like the real one: kernel, tables and the first pages of the heap
\* fit into one page table.
SmallImages == [before : {1, 2}, after : {0, 1}, ro : {1, 2}, rw : {1, 2}]

\* Images of every size up to two page tables.
AllImages == [before : {1}, after : {0, 2}, ro : {1}, rw : 1 .. 30]

\* Memory before it is written: every other entry is present and public.
MCRam ==
    [f \in 0 .. LAPIC_BASE - 1 |-> [i \in Indexes |->
        IF i % 2 = 0 THEN [pma |-> i, flags |-> User] ELSE NONE]]

MCTss == {2, 9, 15, 16, 21, 24, 31}

\* An address of its own for each handler.
Names == {Exceptions[j] : j \in DOMAIN Exceptions}
         \cup {"exception", "proc_switch", "unknown"}
MCHandlers ==
    [h \in Names |->
        IF h = "exception" THEN {0, 16, 31}
        ELSE IF h = "proc_switch" THEN {3, 15, 17}
        ELSE IF h = "unknown" THEN {15, 16}
        ELSE {CHOOSE j \in DOMAIN Exceptions : Exceptions[j] = h}
             \cup {30}]
=============================================================================
