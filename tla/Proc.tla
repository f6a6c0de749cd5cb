-------------------------------- MODULE Proc --------------------------------
(***************************************************************************)
(* The scheduler of the kernel: proc.c, the timer interrupt entry of       *)
(* int_asm.s, the interrupt table of int.c and the local APIC timer of     *)
(* apic.c, on one processor.                                               *)
(*                                                                         *)
(* A processor runs one process at a time.  The periodic APIC timer        *)
(* interrupts it; int_handle_proc_switch stores the interrupted context    *)
(* in proc_table, lets proc_next charge the tick and perhaps rotate the    *)
(* queue, loads the context of the process that PID now names over the     *)
(* interrupt frame, signals end of interrupt and returns with iret.        *)
(* Every call of that routine is a step of its own, because the timer      *)
(* keeps firing between them.                                              *)
(*                                                                         *)
(* Data is abstracted as follows.  A Word stands for the contents of the   *)
(* general registers and eip, or for an (esp, ss) pair.  A kernel stack    *)
(* address is one of the two places an interrupt frame can end at.  A      *)
(* process owns one page table (proc_register maps one, for the user       *)
(* stack) named by its pid.  Queue nodes are numbered as proc_queue_add    *)
(* allocates them.                                                         *)
(***************************************************************************)
EXTENDS Integers, Sequences

CONSTANTS
    PID_MAX,     \* entries of proc_table
    PC_MOD,      \* values of pc_t, 2^16 in the code
    Priorities,  \* priorities of the processes proc_init registers: 30, 10, 10
    KernelPriority, \* priority of PID 0: 10
    Words,       \* register contents and stack pointers of user code
    EntryPoint,  \* registers a process starts with
    KERNEL_START_VMA, \* user stack pointer a process starts with
    RamStates,   \* what proc_table[].state may hold before it is written
    RamPtrs      \* what proc_table[].page_tables may hold before it is written

NULL == -1
Bit == {0, 1}
Pids == 0 .. PID_MAX - 1
MaxNodes == Len(Priorities) + 1
Nodes == 0 .. MaxNodes - 1

PROC_DEAD == 0
PROC_SLEEPING == 1
PROC_ACTIVE == 2
PROC_RUNNING == 3
ProcStates == {PROC_DEAD, PROC_SLEEPING, PROC_ACTIVE, PROC_RUNNING}

\* Words of the kernel's own code and stack, never a user's.
KWORD == "kernel"

\* Where the (esp, ss) pair of an interrupt frame can lie: above the stack
\* pointer of kernel_main, or in the last 8 bytes of the scheduler stack
\* that proc_init puts into TSS.esp0.
BOOT == "boot"
TOP8 == "esp0-8"
StackCells == {BOOT, TOP8}

ASSUME PidAssumption == PID_MAX \in Nat /\ PID_MAX > 0
ASSUME CountAssumption == PC_MOD \in Nat /\ PC_MOD > 1
ASSUME PriorityAssumption ==
    /\ Priorities \in Seq(1 .. PC_MOD - 1)
    /\ KernelPriority \in 1 .. PC_MOD - 1
ASSUME WordAssumption ==
    /\ EntryPoint \in Words
    /\ KERNEL_START_VMA \in Words
    /\ KWORD \notin Words
ASSUME RamAssumption ==
    /\ RamStates \subseteq ProcStates /\ RamStates # {}
    /\ RamPtrs \subseteq {"NULL", "WILD"} /\ RamPtrs # {}

VARIABLES
    ctl,         \* what the processor is executing
    cpu,         \* registers, privilege, IF, stack pointer, halted
    frame,       \* interrupt frame being handled
    kstack,      \* (esp, ss) pairs on the kernel stacks
    irr, isr,    \* timer vector requested, in service (local APIC)
    nreg,        \* processes registered so far
    next_pid,    \* static of proc_new_pid
    proc_num, PID,
    state, exec_count, priority, ctxt, \* proc_table[]
    page_tables, \* proc_table[].page_tables: nodes prepended, then the old list
    proc_queue_start, proc_queue_end,
    node_pid, node_next,   \* pid_node_t
    page_dir,    \* directory entry of the user stacks
    tlb,         \* cached translation of the user stacks
    view         \* history: what each process last had in its registers

tableVars == <<state, exec_count, priority, page_tables>>
queueVars == <<proc_queue_start, proc_queue_end, node_pid, node_next>>
bootVars == <<nreg, next_pid, proc_num>>
schedVars == <<PID, tableVars, queueVars>>
memVars == <<page_dir, tlb>>
vars == <<ctl, cpu, frame, kstack, irr, isr, bootVars, schedVars, ctxt,
          memVars, view>>

Contexts == [regs : Words \cup {KWORD}, ring : {0, 3}, ie : Bit,
             sp : Words \cup {KWORD}]

\* The processor's states.  "proc": a process or the idle loop; the names of
\* the handler's calls; "hung": an exception handler halted with IF clear;
\* "wild": an uninitialised pointer was followed; "spin": proc_new_pid finds
\* no pid; "exit": proc_loop returned.
Handler == {"store", "next", "load", "eoi", "iret"}
Stopped == {"hung", "wild", "spin", "exit"}
Controls == {"init", "register", "proc"} \cup Handler \cup Stopped

IDT_SIZE == 256
IDT_VECTOR_TIMER == 65

\* int_init_vectors: the timer vector switches processes, all other vectors
\* lead to handlers that print and halt.
idt == [v \in 0 .. IDT_SIZE - 1 |->
          IF v = IDT_VECTOR_TIMER THEN "store" ELSE "hung"]

\* Mutant: trap gates, which leave IF alone.
TrapGateIE(ie) == ie

\* IF after a gate of the table is entered: all are interrupt gates.
GateIE(ie) == 0

TypeOK ==
    /\ ctl \in Controls
    /\ cpu \in [regs : Words \cup {KWORD}, ring : {0, 3}, ie : Bit,
                sp : Words \cup {KWORD} \cup StackCells, halted : Bit]
    /\ frame \in [regs : Words \cup {KWORD}, ring : {0, 3}, ie : Bit,
                  at : StackCells]
    /\ kstack \in [StackCells -> Words \cup {KWORD}]
    /\ irr \in Bit /\ isr \in Bit
    /\ nreg \in 0 .. Len(Priorities)
    /\ next_pid \in Pids /\ PID \in Pids
    /\ proc_num \in 0 .. Len(Priorities)
    /\ state \in [Pids -> ProcStates]
    /\ exec_count \in [Pids -> 0 .. PC_MOD - 1]
    /\ priority \in [Pids -> 0 .. PC_MOD - 1]
    /\ ctxt \in [Pids -> Contexts]
    /\ page_tables \in [Pids -> [own : Bit, rest : {"NULL", "WILD"}]]
    /\ proc_queue_start \in Nodes \cup {NULL}
    /\ proc_queue_end \in Nodes \cup {NULL}
    /\ node_pid \in [Nodes -> Pids]
    /\ node_next \in [Nodes -> Nodes \cup {NULL}]
    /\ page_dir \in Pids \cup {NULL}
    /\ tlb \in Pids \cup {NULL}
    /\ view \in [Pids -> [regs : Words, sp : Words]]

-----------------------------------------------------------------------------
(* Boot: proc_init, on the boot stack with interrupts disabled, the timer  *)
(* already counting.                                                       *)

Init ==
    /\ ctl = "init"
    /\ cpu = [regs |-> KWORD, ring |-> 0, ie |-> 0, sp |-> BOOT,
              halted |-> 0]
    /\ frame = [regs |-> KWORD, ring |-> 0, ie |-> 0, at |-> BOOT]
    /\ kstack = [c \in StackCells |-> KWORD]
    /\ irr = 0 /\ isr = 0
    /\ nreg = 0 /\ next_pid = 0 /\ proc_num = 0 /\ PID = 0
    /\ state \in [Pids -> RamStates]
    /\ exec_count = [p \in Pids |-> 0]
    /\ priority = [p \in Pids |-> 0]
    /\ ctxt = [p \in Pids |-> [regs |-> KWORD, ring |-> 0, ie |-> 0,
                               sp |-> KWORD]]
    /\ page_tables \in [Pids -> [own : {0}, rest : RamPtrs]]
    /\ proc_queue_start = NULL /\ proc_queue_end = NULL
    /\ node_pid = [n \in Nodes |-> 0]
    /\ node_next = [n \in Nodes |-> NULL]
    /\ page_dir = NULL /\ tlb = NULL
    /\ view = [p \in Pids |-> [regs |-> EntryPoint, sp |-> KERNEL_START_VMA]]

\* proc_queue_add(pid) with n the node kmalloc returns.
proc_queue_add(pid, n) ==
    /\ proc_queue_end' = n
    /\ proc_queue_start' = IF proc_queue_end = NULL THEN n ELSE proc_queue_start
    /\ node_pid' = [node_pid EXCEPT ![n] = pid]
    /\ node_next' = [m \in Nodes |-> IF m = n THEN NULL
                                     ELSE IF m = proc_queue_end THEN n
                                     ELSE node_next[m]]

\* proc_init up to the registration of the kernel as PID 0: proc_queue_add
\* counts it and the next statement takes it off again.
ProcInit ==
    /\ ctl = "init"
    /\ ctl' = "register"
    /\ state' = [state EXCEPT ![0] = PROC_RUNNING]
    /\ exec_count' = [exec_count EXCEPT ![0] = 1]
    /\ priority' = [priority EXCEPT ![0] = KernelPriority]
    /\ proc_queue_add(0, 0)
    /\ UNCHANGED <<cpu, frame, kstack, irr, isr, bootVars, PID, ctxt,
                   page_tables, memVars, view>>

proc_pid_taken(pid) == state[pid] # PROC_DEAD

\* proc_new_pid returns pid: the first one that is not taken, counting up
\* from next_pid and wrapping round as pid_t does.
NewPid(pid) ==
    \E d \in 0 .. PID_MAX - 1 :
        /\ pid = (next_pid + d) % PID_MAX
        /\ ~proc_pid_taken(pid)
        /\ \A e \in 0 .. d - 1 : proc_pid_taken((next_pid + e) % PID_MAX)

\* proc_register of the next process of proc_init.
ProcRegister ==
    /\ ctl = "register"
    /\ nreg < Len(Priorities)
    /\ \E pid \in Pids :
        /\ NewPid(pid)
        /\ next_pid' = (pid + 1) % PID_MAX
        /\ state' = [state EXCEPT ![pid] = PROC_ACTIVE]
        /\ exec_count' = [exec_count EXCEPT ![pid] = Priorities[nreg + 1]]
        /\ priority' = [priority EXCEPT ![pid] = Priorities[nreg + 1]]
        /\ ctxt' = [ctxt EXCEPT ![pid] = [regs |-> EntryPoint, ring |-> 3,
                                ie |-> 1, sp |-> KERNEL_START_VMA]]
        /\ page_tables' = [page_tables EXCEPT ![pid].own = 1]
        /\ proc_queue_add(pid, nreg + 1)
    /\ nreg' = nreg + 1
    /\ proc_num' = proc_num + 1
    /\ UNCHANGED <<ctl, cpu, frame, kstack, irr, isr, PID, memVars, view>>

\* proc_new_pid never returns when every pid is taken.
NoPid ==
    /\ ctl = "register"
    /\ nreg < Len(Priorities)
    /\ \A pid \in Pids : proc_pid_taken(pid)
    /\ ctl' = "spin"
    /\ UNCHANGED <<cpu, frame, kstack, irr, isr, bootVars, schedVars, ctxt,
                   memVars, view>>

\* proc_loop enables interrupts.
ProcLoop ==
    /\ ctl = "register"
    /\ nreg = Len(Priorities)
    /\ ctl' = "proc"
    /\ cpu' = [cpu EXCEPT !.ie = 1]
    /\ UNCHANGED <<frame, kstack, irr, isr, bootVars, schedVars, ctxt,
                   memVars, view>>

-----------------------------------------------------------------------------
(* The processor and the local APIC.                                       *)

\* The periodic timer expires; ticks that are not taken in time coalesce.
TimerFire ==
    /\ irr' = 1
    /\ UNCHANGED <<ctl, cpu, frame, kstack, isr, bootVars, schedVars, ctxt,
                   memVars, view>>

\* Mutant: TSS.esp0 is not set up and the handler stays on the user's stack.
UserFrameTop == cpu.sp

\* Where the frame ends: from ring 3 the processor loads esp from TSS.esp0.
FrameTop == IF cpu.ring = 3 THEN TOP8 ELSE cpu.sp

\* The timer interrupt is delivered.  Coming from ring 3 the processor
\* pushes the (esp, ss) pair; from ring 0 it does not.
IntEnter ==
    /\ irr = 1 /\ isr = 0 /\ cpu.ie = 1
    /\ irr' = 0 /\ isr' = 1
    /\ ctl' = idt[IDT_VECTOR_TIMER]
    /\ frame' = [regs |-> cpu.regs, ring |-> cpu.ring, ie |-> cpu.ie,
                 at |-> FrameTop]
    /\ kstack' = IF cpu.ring = 3 THEN [kstack EXCEPT ![FrameTop] = cpu.sp]
                                 ELSE kstack
    /\ cpu' = [regs |-> KWORD, ring |-> 0, ie |-> GateIE(cpu.ie),
               sp |-> FrameTop, halted |-> 0]
    /\ UNCHANGED <<bootVars, schedVars, ctxt, memVars, view>>

\* The processor may cache the translation of the user stacks at any time
\* the directory maps one.
TlbFill ==
    /\ tlb = NULL /\ page_dir # NULL
    /\ tlb' = page_dir
    /\ UNCHANGED <<ctl, cpu, frame, kstack, irr, isr, bootVars, schedVars,
                   ctxt, page_dir, view>>

\* The page table the current translation of the user stacks comes from.
Translation == IF tlb # NULL THEN tlb ELSE page_dir

\* A user process executes: registers and stack pointer take new values.
\* With no translation for its stack it would fault instead.
UserStep ==
    /\ ctl = "proc" /\ cpu.ring = 3
    /\ Translation # NULL
    /\ \E r \in Words, s \in Words :
        /\ cpu' = [cpu EXCEPT !.regs = r, !.sp = s]
        /\ view' = [view EXCEPT ![PID] = [regs |-> r, sp |-> s]]
    /\ UNCHANGED <<ctl, frame, kstack, irr, isr, bootVars, schedVars, ctxt,
                   memVars>>

\* One round of proc_loop: it halts while processes are registered.
IdleStep ==
    /\ ctl = "proc" /\ cpu.ring = 0 /\ cpu.halted = 0
    /\ IF proc_num # 0
       THEN cpu' = [cpu EXCEPT !.halted = 1] /\ ctl' = ctl
       ELSE cpu' = [cpu EXCEPT !.ie = 0] /\ ctl' = "exit"
    /\ UNCHANGED <<frame, kstack, irr, isr, bootVars, schedVars, ctxt,
                   memVars, view>>

\* Running code raises an exception or an interrupt other than the timer's:
\* its handler prints and halts with IF clear, and nothing wakes it up.
Exception ==
    /\ ctl = "proc"
    /\ ctl' \in {idt[v] : v \in DOMAIN idt \ {IDT_VECTOR_TIMER}}
    /\ cpu' = [cpu EXCEPT !.ie = GateIE(cpu.ie), !.halted = 1]
    /\ UNCHANGED <<frame, kstack, irr, isr, bootVars, schedVars, ctxt,
                   memVars, view>>

-----------------------------------------------------------------------------
(* int_handle_proc_switch.                                                 *)

\* proc_store_ctxt: the whole proc_ctxt_t, the (esp, ss) words included.
ProcStoreCtxt ==
    /\ ctl = "store"
    /\ ctl' = "next"
    /\ ctxt' = [ctxt EXCEPT ![PID] =
                    [regs |-> frame.regs, ring |-> frame.ring, ie |-> frame.ie,
                     sp |-> kstack[frame.at]]]
    /\ UNCHANGED <<cpu, frame, kstack, irr, isr, bootVars, schedVars, memVars,
                   view>>

\* --exec_count, in the width of pc_t.
Decremented == (exec_count[PID] - 1) % PC_MOD

\* Mutant: exec_count-- == 0.
PostDecrementOver == exec_count[PID] = 0

\* --exec_count == 0.
SliceOver == Decremented = 0

\* Mutant: the count is not reset.
NotRefilled == Decremented

\* Mutant: the count is reset to the priority of PID 0.
KernelRefilled == priority[0]

\* What exec_count is reset to when the slice is over.
Refilled == priority[PID]

\* The walk over a process's page tables runs into an uninitialised pointer.
WildWalk(pid) == page_tables[pid].rest = "WILD"

\* Directory entry after proc_mem_unmap(pid), from entry e.
proc_mem_unmap(pid, e) == IF page_tables[pid].own = 1 THEN NULL ELSE e

\* Directory entry after proc_mem_map(pid), from entry e.
proc_mem_map(pid, e) == IF page_tables[pid].own = 1 THEN pid ELSE e

\* Mutant: no TLB flush.
NoFlush == tlb

\* set_cr3(get_cr3()) drops every cached translation.
set_cr3 == NULL

\* proc_next when the time slice goes on.
SameProcess ==
    /\ ctl = "next" /\ ~SliceOver
    /\ ctl' = "load"
    /\ exec_count' = [exec_count EXCEPT ![PID] = Decremented]
    /\ UNCHANGED <<cpu, frame, kstack, irr, isr, bootVars, PID, state, priority,
                   page_tables, queueVars, ctxt, memVars, view>>

\* Mutant: the new end of the queue still points at its start.
RotateNotCut ==
    LET linked == [node_next EXCEPT ![proc_queue_end] = proc_queue_start]
    IN  /\ proc_queue_end' = proc_queue_start
        /\ proc_queue_start' = linked[proc_queue_start]
        /\ node_next' = linked
        /\ UNCHANGED node_pid

\* The four assignments that move the queue's first node to its end.
RotateQueue ==
    LET linked == [node_next EXCEPT ![proc_queue_end] = proc_queue_start]
    IN  /\ proc_queue_end' = proc_queue_start
        /\ proc_queue_start' = linked[proc_queue_start]
        /\ node_next' = [linked EXCEPT ![proc_queue_start] = NULL]
        /\ UNCHANGED node_pid

\* Mutant: the old process stays RUNNING.
NewStateOnly(old, new) == [state EXCEPT ![new] = PROC_RUNNING]

\* proc_table[].state after the switch.
SwitchedStates(old, new) ==
    [state EXCEPT ![old] = PROC_ACTIVE, ![new] = PROC_RUNNING]

\* proc_next when the time slice ends and both page table lists are sound.
SwitchProcess ==
    /\ ctl = "next" /\ SliceOver
    /\ exec_count' = [exec_count EXCEPT ![PID] = Refilled]
    /\ RotateQueue
    /\ PID' = node_pid[proc_queue_start']
    /\ ~WildWalk(PID) /\ ~WildWalk(PID')
    /\ ctl' = "load"
    /\ state' = SwitchedStates(PID, PID')
    /\ page_dir' = proc_mem_map(PID', proc_mem_unmap(PID, page_dir))
    /\ tlb' = set_cr3
    /\ UNCHANGED <<cpu, frame, kstack, irr, isr, bootVars, priority, page_tables,
                   ctxt, view>>

\* The same up to the first list that ends in an uninitialised pointer:
\* that of the old process, or that of the new one.  What happens next is
\* undefined, and the model stops there.
WildSwitch ==
    /\ ctl = "next" /\ SliceOver
    /\ exec_count' = [exec_count EXCEPT ![PID] = Refilled]
    /\ RotateQueue
    /\ \/ /\ WildWalk(PID) /\ PID' = PID
          /\ page_dir' = proc_mem_unmap(PID, page_dir)
       \/ /\ ~WildWalk(PID) /\ PID' = node_pid[proc_queue_start'] /\ WildWalk(PID')
          /\ page_dir' = proc_mem_map(PID', proc_mem_unmap(PID, page_dir))
    /\ ctl' = "wild"
    /\ state' = [state EXCEPT ![PID] = PROC_ACTIVE]
    /\ UNCHANGED <<cpu, frame, kstack, irr, isr, bootVars, priority, page_tables,
                   ctxt, tlb, view>>

\* Mutant: only what the processor pushed on the idle loop's stack is loaded.
LoadFrameOnly ==
    /\ ctl = "load"
    /\ ctl' = "eoi"
    /\ frame' = [regs |-> ctxt[PID].regs, ring |-> ctxt[PID].ring,
                 ie |-> ctxt[PID].ie, at |-> frame.at]
    /\ UNCHANGED <<cpu, kstack, irr, isr, bootVars, schedVars, ctxt, memVars,
                   view>>

\* proc_load_ctxt overwrites the whole proc_ctxt_t: the frame, and the two
\* words above it whether or not the processor pushed them.
ProcLoadCtxt ==
    /\ ctl = "load"
    /\ ctl' = "eoi"
    /\ frame' = [regs |-> ctxt[PID].regs, ring |-> ctxt[PID].ring,
                 ie |-> ctxt[PID].ie, at |-> frame.at]
    /\ kstack' = [kstack EXCEPT ![frame.at] = ctxt[PID].sp]
    /\ UNCHANGED <<cpu, irr, isr, bootVars, schedVars, ctxt, memVars, view>>

\* Mutant: no end of interrupt.
NoEoi ==
    /\ ctl = "eoi"
    /\ ctl' = "iret"
    /\ UNCHANGED <<cpu, frame, kstack, irr, isr, bootVars, schedVars, ctxt,
                   memVars, view>>

\* lapic_send_eoi: the APIC may deliver the vector again.
SendEoi ==
    /\ ctl = "eoi"
    /\ ctl' = "iret"
    /\ isr' = 0
    /\ UNCHANGED <<cpu, frame, kstack, irr, bootVars, schedVars, ctxt, memVars,
                   view>>

\* Registers are reloaded from the frame; iret pops (esp, ss) only when it
\* returns to ring 3.
Iret ==
    /\ ctl = "iret"
    /\ ctl' = "proc"
    /\ cpu' = [regs |-> frame.regs, ring |-> frame.ring, ie |-> frame.ie,
               sp |-> IF frame.ring = 3 THEN kstack[frame.at] ELSE frame.at,
               halted |-> 0]
    /\ UNCHANGED <<frame, kstack, irr, isr, bootVars, schedVars, ctxt, memVars,
                   view>>

Boot == ProcInit \/ ProcRegister \/ NoPid \/ ProcLoop
Switch == ProcStoreCtxt \/ SameProcess \/ SwitchProcess \/ WildSwitch
          \/ ProcLoadCtxt \/ SendEoi \/ Iret

Next == Boot \/ TimerFire \/ IntEnter \/ TlbFill \/ UserStep \/ IdleStep
        \/ Exception \/ Switch

\* The timer is periodic and the processor executes what it has to execute.
\* Nothing is assumed of user code or of exceptions.
Fairness == WF_vars(Boot) /\ WF_vars(TimerFire) /\ WF_vars(IntEnter)
            /\ WF_vars(Switch)

Spec == Init /\ [][Next]_vars /\ Fairness

-----------------------------------------------------------------------------
(* Properties.                                                             *)

\* Nodes that proc_queue_add has linked.
Linked == IF ctl = "init" THEN {} ELSE 0 .. nreg

\* The scheduling queue of proc_queue_add and proc_next is a NULL-terminated
\* list from proc_queue_start to proc_queue_end that holds every registered
\* process exactly once, and the running process is its head.
QueueIsList ==
    ctl # "init" =>
        \E q \in [1 .. nreg + 1 -> Linked] :
            /\ q[1] = proc_queue_start /\ q[nreg + 1] = proc_queue_end
            /\ \A i \in 1 .. nreg : node_next[q[i]] = q[i + 1]
            /\ node_next[proc_queue_end] = NULL
            /\ \A i, j \in 1 .. nreg + 1 :
                    i # j => node_pid[q[i]] # node_pid[q[j]]
            /\ ctl # "wild" => node_pid[q[1]] = PID

\* Of the registered processes exactly the one PID names is RUNNING and all
\* others are ACTIVE, whatever the uninitialised entries of proc_table hold.
OneRunning ==
    ctl \notin {"init", "wild"} =>
        /\ state[PID] = PROC_RUNNING
        /\ \A n \in Linked : node_pid[n] # PID => state[node_pid[n]] = PROC_ACTIVE

\* proc_mem_unmap, proc_mem_map and the TLB flush of proc_next isolate the
\* processes: user code sees its own stack page and no other process's, and
\* no user stack is mapped or cached while the idle loop runs.
StackIsolation ==
    ctl = "proc" =>
        IF cpu.ring = 3 THEN page_dir = PID /\ Translation = PID
                        ELSE PID = 0 /\ page_dir = NULL /\ tlb = NULL

\* A process that runs again finds the registers, stack pointer, privilege
\* and interrupt flag it was interrupted with, however many processes
\* proc_store_ctxt and proc_load_ctxt have switched in between; the idle
\* loop comes back in ring 0, on a kernel stack.
ContextIntegrity ==
    ctl = "proc" =>
        /\ cpu.ie = 1
        /\ PID # 0 => /\ cpu.ring = 3
                      /\ cpu.regs = view[PID].regs /\ cpu.sp = view[PID].sp
        /\ PID = 0 => /\ cpu.ring = 0
                      /\ cpu.regs = KWORD /\ cpu.sp \in StackCells

\* The counter proc_next decrements never reaches the decrement at zero,
\* where pc_t would wrap round, and no process keeps more than its priority.
SlicesBounded ==
    \A n \in Linked : exec_count[node_pid[n]] \in 1 .. priority[node_pid[n]]

\* The queue as proc_next would traverse it, and the ticks that must pass
\* before its k-th process is at the head.
Walk[k \in 1 .. MaxNodes] ==
    IF k = 1 THEN proc_queue_start
    ELSE IF Walk[k - 1] = NULL THEN NULL ELSE node_next[Walk[k - 1]]

WaitAt[k \in 1 .. MaxNodes] ==
    IF k = 1 THEN 0 ELSE WaitAt[k - 1] + exec_count[node_pid[Walk[k - 1]]]

Wait(n) == WaitAt[CHOOSE k \in 1 .. MaxNodes : Walk[k] = n]

\* Every tick that proc_next handles brings each waiting process exactly one
\* tick closer to the processor: none is lost, skipped or charged twice,
\* across rotations of the queue too.
EveryTickCounts ==
    [][ctl = "next" /\ ctl' = "load" =>
         \A n \in Linked : n # proc_queue_start => Wait(n)' = Wait(n) - 1]_vars

\* Unless an exception or an uninitialised pointer stops the machine, every
\* registered process and the idle loop gets the processor again and again.
EveryoneRuns ==
    \A n \in Nodes :
        []<>(ctl = "proc" /\ PID = node_pid[n]) \/ <>[](ctl \in Stopped)

\* The queue as a round robin scheduler: its members, in the order in which
\* proc_init adds them, the one at its head, and the ticks they have left.
Members == IF ctl = "init" THEN 0 ELSE nreg + 1
Turn == IF proc_queue_start = NULL THEN 0 ELSE proc_queue_start
TicksLeft == [n \in Nodes |-> IF n \in Linked THEN exec_count[node_pid[n]] ELSE 0]
Quotas == [n \in Nodes |-> IF n = 0 THEN KernelPriority ELSE Priorities[n]]

RR == INSTANCE RoundRobin WITH
        N <- MaxNodes, Quota <- Quotas, FirstQuota <- 1,
        members <- Members, turn <- Turn, left <- TicksLeft

\* proc_queue_add and proc_next, seen through the queue's pointers, only ever
\* do what the abstract scheduler does.
ImplementsRoundRobin == RR!Spec

\* What the comments of proc.h promise.

\* "Linked list of process page tables": every walk over page_tables ends.
PageTablesEnd == ctl # "wild"

\* "Process context (saved machine state)": PID 0 resumes on the stack it
\* was interrupted on.  proc_load_ctxt finds no stack pointer of the idle
\* loop, because none was pushed.
KernelStackRestored == ctl = "proc" /\ PID = 0 => cpu.sp = BOOT

=============================================================================
