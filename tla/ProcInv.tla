------------------------------ MODULE ProcInv ------------------------------
(***************************************************************************)
(* The inductive invariant of Proc, in named parts.  None of the safety    *)
(* properties of Proc is inductive alone: what iret restores was written   *)
(* many steps earlier, so the invariant says for each point of the timer   *)
(* handler where the context of each process is.                           *)
(***************************************************************************)
EXTENDS Proc

\* Interrupts are still disabled and no process has run.
Booting == {"init", "register", "spin"}

\* proc_init runs on the boot stack before interrupts are enabled, and
\* nothing runs before it is finished.
BootPhase ==
    /\ ctl \in Booting => /\ PID = 0 /\ page_dir = NULL /\ tlb = NULL
                          /\ cpu.ring = 0 /\ cpu.regs = KWORD /\ cpu.sp = BOOT
                          /\ \A p \in Pids :
                                view[p] = [regs |-> EntryPoint,
                                           sp |-> KERNEL_START_VMA]
    /\ ctl = "init" => nreg = 0 /\ proc_queue_end = NULL
                       /\ \A p \in Pids : page_tables[p].own = 0
    /\ ctl = "register" => proc_queue_start = 0 /\ proc_queue_end = nreg
    /\ ctl \notin Booting => nreg = Len(Priorities)
    /\ proc_num = nreg

\* The handler and everything that stops runs with IF clear.
NotNested == ctl # "proc" => cpu.ie = 0

\* The node after n in the order of allocation, from the last to the first.
Succ(n) == IF n = nreg THEN 0 ELSE n + 1

\* The queue is always the ring of nodes in allocation order, cut open in
\* front of its start.
QueueShape ==
    ctl # "init" =>
        /\ proc_queue_end \in Linked
        /\ proc_queue_start = Succ(proc_queue_end)
        /\ \A n \in Linked :
            node_next[n] = IF n = proc_queue_end THEN NULL ELSE Succ(n)

\* Nodes hold different pids; the first holds PID 0, the head holds PID.
NodePids ==
    ctl # "init" =>
        /\ node_pid[0] = 0
        /\ \A m, n \in Linked : node_pid[m] = node_pid[n] => m = n
        /\ ctl # "wild" => node_pid[proc_queue_start] = PID

\* No registered pid looks free to proc_new_pid.
Registered ==
    \A n \in Linked :
        /\ state[node_pid[n]] # PROC_DEAD
        /\ page_tables[node_pid[n]].own = IF n = 0 THEN 0 ELSE 1

\* Refills are never zero.
Priorities1 == \A n \in Linked : priority[node_pid[n]] \in 1 .. PC_MOD - 1

\* The directory maps the stack of the process PID names, and nothing else
\* is cached.
Mapped ==
    ctl \notin Booting \cup {"wild"} =>
        /\ page_dir = IF PID = 0 THEN NULL ELSE PID
        /\ tlb \in {NULL, page_dir}

\* (regs, ring, ie, sp) is what process p must be resumed with.
Resumes(p, regs, ring, ie, sp) ==
    /\ ie = 1
    /\ p = 0 => ring = 0 /\ regs = KWORD
    /\ p # 0 => ring = 3 /\ regs = view[p].regs /\ sp = view[p].sp

\* Where the context of each process is: in the processor while it runs, in
\* the frame before it is stored and after it is loaded, in proc_table
\* otherwise.
InCpu ==
    ctl = "proc" => /\ Resumes(PID, cpu.regs, cpu.ring, cpu.ie, cpu.sp)
                    /\ PID = 0 => cpu.sp \in StackCells
InFrame ==
    ctl \in {"store", "eoi", "iret"} =>
        Resumes(PID, frame.regs, frame.ring, frame.ie, kstack[frame.at])
InTable ==
    \A n \in Linked :
        (node_pid[n] # PID \/ ctl \in {"next", "load", "eoi", "iret"})
        /\ ctl # "wild" =>
            LET c == ctxt[node_pid[n]]
            IN  Resumes(node_pid[n], c.regs, c.ring, c.ie, c.sp)

\* The inductive invariant of int_handle_proc_switch and the code it
\* interrupts: TypeOK and every part above, with the properties of Proc that
\* are parts of it themselves.
ProcInvariant ==
    /\ TypeOK /\ BootPhase /\ NotNested
    /\ QueueShape /\ NodePids
    /\ Registered /\ OneRunning
    /\ Priorities1 /\ SlicesBounded
    /\ Mapped
    /\ InCpu /\ InFrame /\ InTable

=============================================================================
