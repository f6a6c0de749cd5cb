----------------------------- MODULE ProcProof -----------------------------
(***************************************************************************)
(* Proofs about Proc for every number of processes, every assignment of    *)
(* priorities and every content of uninitialised memory: ProcInvariant is  *)
(* inductive, and the safety properties of Proc follow from it.  Proc      *)
(* implements RoundRobin, and every tick brings each waiting process       *)
(* closer to the processor.                                                *)
(***************************************************************************)
EXTENDS ProcInv, Induction, SequenceTheorems, TLAPS

USE DEF bootVars, schedVars, tableVars, queueVars, memVars

\* The parts of the invariant that speak of the queue and the process table.
TableParts ==
    /\ QueueShape /\ NodePids /\ Registered /\ OneRunning
    /\ Priorities1 /\ SlicesBounded

\* The timer's entry of the table that int_init_vectors fills in leads to
\* int_handle_proc_switch, every other one to a handler that halts.
LEMMA IdtEntries ==
    /\ idt[IDT_VECTOR_TIMER] = "store"
    /\ \A v \in DOMAIN idt \ {IDT_VECTOR_TIMER} : idt[v] = "hung"
BY DEF idt, IDT_SIZE, IDT_VECTOR_TIMER

\* A step that leaves queue, process table and PID alone preserves what is
\* said of them.
LEMMA TableFrame ==
    ASSUME TableParts, UNCHANGED <<nreg, PID, state, exec_count, priority,
                page_tables, proc_queue_start, proc_queue_end, node_pid, node_next>>,
           ctl = "init" <=> ctl' = "init", ctl = "wild" => ctl' = "wild"
    PROVE  TableParts'
<1>1. Linked' = Linked
  BY DEF Linked
<1>2. QueueShape' /\ NodePids'
  BY <1>1 DEF TableParts, QueueShape, NodePids, Succ
<1>3. Registered' /\ OneRunning'
  BY <1>1 DEF TableParts, Registered, OneRunning
<1>4. Priorities1' /\ SlicesBounded'
  BY <1>1 DEF TableParts, Priorities1, SlicesBounded
<1> QED
  BY <1>2, <1>3, <1>4 DEF TableParts

\* What the pointers and nodes of a queue that exists range over.
LEMMA QueueRange ==
    ASSUME ProcInvariant, ctl # "init"
    PROVE  /\ nreg \in Nat /\ Linked = 0 .. nreg /\ Linked \subseteq Nodes
           /\ proc_queue_start \in Linked /\ proc_queue_end \in Linked
           /\ \A n \in Linked : Succ(n) \in Linked /\ node_pid[n] \in Pids
<1>1. Len(Priorities) \in Nat /\ nreg \in 0 .. Len(Priorities)
  BY PriorityAssumption DEF ProcInvariant, TypeOK
<1>2. nreg \in Nat /\ Linked = 0 .. nreg /\ Linked \subseteq Nodes
  BY <1>1 DEF Linked, Nodes, MaxNodes
<1>3. \A n \in Linked : Succ(n) \in Linked
  BY <1>2 DEF Succ
<1>4. proc_queue_start \in Linked /\ proc_queue_end \in Linked
  BY <1>3 DEF ProcInvariant, QueueShape
<1>5. \A n \in Linked : node_pid[n] \in Pids
  BY <1>2 DEF ProcInvariant, TypeOK
<1> QED
  BY <1>2, <1>3, <1>4, <1>5

\* Stored contexts and what they are compared with are left alone, and no
\* more of them have to be right than before.
LEMMA InTableFrame ==
    ASSUME InTable, UNCHANGED <<nreg, PID, node_pid, ctxt, view>>,
           ctl = "init" <=> ctl' = "init", ctl = "wild" => ctl' = "wild",
           ctl' \in {"next", "load", "eoi", "iret"}
                => ctl \in {"next", "load", "eoi", "iret"}
    PROVE  InTable'
<1>1. Linked' = Linked
  BY DEF Linked
<1> QED
  BY <1>1 DEF InTable, Resumes

-----------------------------------------------------------------------------
(* The initial states.                                                     *)

LEMMA InitInvariant == Init => ProcInvariant
<1> SUFFICES ASSUME Init PROVE ProcInvariant
  OBVIOUS
<1> USE DEF Init
<1>1. TypeOK
  <2>1. 0 \in Pids
    BY PidAssumption DEF Pids
  <2>2. Len(Priorities) \in Nat
    BY PriorityAssumption
  <2>3. ctl \in Controls /\ irr \in Bit /\ isr \in Bit
    BY DEF Controls, Bit
  <2>4. /\ cpu \in [regs : Words \cup {KWORD}, ring : {0, 3}, ie : Bit,
                sp : Words \cup {KWORD} \cup StackCells, halted : Bit]
        /\ frame \in [regs : Words \cup {KWORD}, ring : {0, 3}, ie : Bit,
                  at : StackCells]
        /\ kstack \in [StackCells -> Words \cup {KWORD}]
    BY DEF Bit, StackCells
  <2>5. ctxt \in [Pids -> Contexts]
    BY DEF Bit, Contexts
  <2>6. state \in [Pids -> ProcStates]
    BY RamAssumption
  <2>7. /\ exec_count \in [Pids -> 0 .. PC_MOD - 1]
        /\ priority \in [Pids -> 0 .. PC_MOD - 1]
    BY CountAssumption
  <2>8. page_tables \in [Pids -> [own : Bit, rest : {"NULL", "WILD"}]]
    BY RamAssumption DEF Bit
  <2>9. view \in [Pids -> [regs : Words, sp : Words]]
    BY WordAssumption
  <2>10. /\ node_pid \in [Nodes -> Pids]
         /\ node_next \in [Nodes -> Nodes \cup {NULL}]
    BY <2>1
  <2> QED
    BY <2>1, <2>2, <2>3, <2>4, <2>5, <2>6, <2>7, <2>8, <2>9, <2>10 DEF TypeOK
<1>2. BootPhase
  BY DEF BootPhase, Booting
<1>3. Linked = {}
  BY DEF Linked
<1>4. QueueShape /\ NodePids /\ OneRunning /\ NotNested
  BY DEF QueueShape, NodePids, OneRunning, NotNested
<1>5. Registered /\ Priorities1 /\ SlicesBounded /\ InTable
  BY <1>3 DEF Registered, Priorities1, SlicesBounded, InTable
<1>6. Mapped /\ InCpu /\ InFrame
  BY DEF Mapped, Booting, InCpu, InFrame
<1> QED
  BY <1>1, <1>2, <1>4, <1>5, <1>6 DEF ProcInvariant

-----------------------------------------------------------------------------
(* The processor and the local APIC.                                       *)

\* A tick is latched.
LEMMA TimerFireStep == ASSUME ProcInvariant, TimerFire PROVE ProcInvariant'
<1>1. UNCHANGED <<ctl, cpu, frame, kstack, isr, nreg, next_pid, proc_num, PID,
                  state, exec_count, priority, page_tables, proc_queue_start,
                  proc_queue_end, node_pid, node_next, ctxt, page_dir, tlb, view>>
  BY DEF TimerFire
<1>2. irr' \in Bit
  BY DEF TimerFire, Bit
<1>3. TypeOK'
  BY <1>1, <1>2 DEF ProcInvariant, TypeOK
<1>4. TableParts'
  BY <1>1, TableFrame DEF ProcInvariant, TableParts
<1>5. InTable'
  BY <1>1, InTableFrame DEF ProcInvariant
<1>6. BootPhase' /\ NotNested' /\ Mapped'
  BY <1>1 DEF ProcInvariant, BootPhase, NotNested, Mapped
<1>7. InCpu' /\ InFrame'
  BY <1>1 DEF ProcInvariant, InCpu, InFrame, Resumes
<1> QED
  BY <1>3, <1>4, <1>5, <1>6, <1>7 DEF ProcInvariant, TableParts

\* Interrupts are delivered to running code only; the frame and the pushed
\* words then hold what the processor held.
LEMMA IntEnterStep == ASSUME ProcInvariant, IntEnter PROVE ProcInvariant'
<1>1. UNCHANGED <<nreg, next_pid, proc_num, PID, state, exec_count, priority,
                  page_tables, proc_queue_start, proc_queue_end, node_pid,
                  node_next, ctxt, page_dir, tlb, view>>
  BY DEF IntEnter
<1>2. ctl = "proc" /\ ctl' = "store"
  BY IdtEntries DEF ProcInvariant, NotNested, IntEnter
<1>3. /\ frame' = [regs |-> cpu.regs, ring |-> cpu.ring, ie |-> cpu.ie,
                   at |-> FrameTop]
      /\ kstack' = IF cpu.ring = 3 THEN [kstack EXCEPT ![FrameTop] = cpu.sp]
                                   ELSE kstack
      /\ cpu' = [regs |-> KWORD, ring |-> 0, ie |-> 0, sp |-> FrameTop,
                 halted |-> 0]
      /\ irr' = 0 /\ isr' = 1
  BY DEF IntEnter, GateIE
<1>4. PID # 0 => cpu.ring = 3 /\ cpu.sp = view[PID].sp
  BY <1>2 DEF ProcInvariant, InCpu, Resumes
<1>5. PID = 0 => cpu.ring = 0 /\ cpu.sp \in StackCells
  BY <1>2 DEF ProcInvariant, InCpu, Resumes
<1>6. FrameTop \in StackCells
  BY <1>4, <1>5 DEF FrameTop, StackCells
<1>7. TypeOK'
  <2>1. PID \in Pids /\ view[PID] \in [regs : Words, sp : Words]
    BY DEF ProcInvariant, TypeOK
  <2>2. cpu.ring = 3 => cpu.sp \in Words
    BY <1>4, <1>5, <2>1
  <2>3. kstack' \in [StackCells -> Words \cup {KWORD}]
    BY <1>3, <1>6, <2>2 DEF ProcInvariant, TypeOK
  <2>4. frame' \in [regs : Words \cup {KWORD}, ring : {0, 3}, ie : Bit,
                    at : StackCells]
    BY <1>3, <1>6 DEF ProcInvariant, TypeOK
  <2>5. cpu' \in [regs : Words \cup {KWORD}, ring : {0, 3}, ie : Bit,
                sp : Words \cup {KWORD} \cup StackCells, halted : Bit]
    BY <1>3, <1>6 DEF Bit
  <2>6. ctl' \in Controls /\ irr' \in Bit /\ isr' \in Bit
    BY <1>2, <1>3 DEF Controls, Handler, Bit
  <2> QED
    BY <1>1, <2>3, <2>4, <2>5, <2>6 DEF ProcInvariant, TypeOK
<1>8. TableParts'
  BY <1>1, <1>2, TableFrame DEF ProcInvariant, TableParts
<1>9. InTable'
  BY <1>1, <1>2, InTableFrame DEF ProcInvariant
<1>10. BootPhase' /\ NotNested'
  BY <1>1, <1>2, <1>3 DEF ProcInvariant, BootPhase, Booting, NotNested
<1>11. Mapped'
  BY <1>1, <1>2 DEF ProcInvariant, Mapped, Booting
<1>12. InFrame'
  <2>1. Resumes(PID, cpu.regs, cpu.ring, cpu.ie, cpu.sp)
    BY <1>2 DEF ProcInvariant, InCpu
  <2>2. PID # 0 => kstack'[frame'.at] = cpu.sp
    BY <1>3, <1>4, <1>6 DEF ProcInvariant, TypeOK
  <2> QED
    BY <1>1, <1>3, <2>1, <2>2 DEF InFrame, Resumes
<1>13. InCpu'
  BY <1>2 DEF InCpu
<1> QED
  BY <1>7, <1>8, <1>9, <1>10, <1>11, <1>12, <1>13 DEF ProcInvariant, TableParts

\* A cached translation is the one the directory holds.
LEMMA TlbFillStep == ASSUME ProcInvariant, TlbFill PROVE ProcInvariant'
<1>1. UNCHANGED <<ctl, cpu, frame, kstack, irr, isr, nreg, next_pid, proc_num,
                  PID, state, exec_count, priority, page_tables,
                  proc_queue_start, proc_queue_end, node_pid, node_next, ctxt,
                  page_dir, view>>
  BY DEF TlbFill
<1>2. tlb' = page_dir /\ page_dir # NULL
  BY DEF TlbFill
<1>3. TypeOK'
  BY <1>1, <1>2 DEF ProcInvariant, TypeOK
<1>4. TableParts'
  BY <1>1, TableFrame DEF ProcInvariant, TableParts
<1>5. InTable'
  BY <1>1, InTableFrame DEF ProcInvariant
<1>6. BootPhase' /\ NotNested' /\ Mapped'
  BY <1>1, <1>2 DEF ProcInvariant, BootPhase, NotNested, Mapped
<1>7. InCpu' /\ InFrame'
  BY <1>1 DEF ProcInvariant, InCpu, InFrame, Resumes
<1> QED
  BY <1>3, <1>4, <1>5, <1>6, <1>7 DEF ProcInvariant, TableParts

\* User code runs as the process PID names; only that process's view changes.
LEMMA UserStepStep == ASSUME ProcInvariant, UserStep PROVE ProcInvariant'
<1>1. UNCHANGED <<ctl, frame, kstack, irr, isr, nreg, next_pid, proc_num, PID,
                  state, exec_count, priority, page_tables, proc_queue_start,
                  proc_queue_end, node_pid, node_next, ctxt, page_dir, tlb>>
  BY DEF UserStep
<1>2. PICK r \in Words, s \in Words :
        /\ cpu' = [cpu EXCEPT !.regs = r, !.sp = s]
        /\ view' = [view EXCEPT ![PID] = [regs |-> r, sp |-> s]]
  BY DEF UserStep
<1>3. ctl = "proc" /\ cpu.ring = 3 /\ PID # 0 /\ PID \in Pids
  BY DEF UserStep, ProcInvariant, InCpu, Resumes, TypeOK
<1>4. view' \in [Pids -> [regs : Words, sp : Words]]
  BY <1>2 DEF ProcInvariant, TypeOK
<1>5. cpu' \in [regs : Words \cup {KWORD}, ring : {0, 3}, ie : Bit,
                sp : Words \cup {KWORD} \cup StackCells, halted : Bit]
  BY <1>2 DEF ProcInvariant, TypeOK
<1>6. TypeOK'
  BY <1>1, <1>4, <1>5 DEF ProcInvariant, TypeOK
<1>7. TableParts'
  BY <1>1, TableFrame DEF ProcInvariant, TableParts
<1>8. InTable'
  <2>1. \A n \in Linked : node_pid[n] # PID => view'[node_pid[n]] = view[node_pid[n]]
    BY <1>2, <1>3 DEF ProcInvariant, TypeOK
  <2>2. Linked' = Linked
    BY <1>1 DEF Linked
  <2> QED
    BY <1>1, <1>3, <2>1, <2>2 DEF ProcInvariant, InTable, Resumes
<1>9. BootPhase' /\ NotNested' /\ Mapped'
  BY <1>1, <1>3 DEF ProcInvariant, BootPhase, Booting, NotNested, Mapped
<1>10. InCpu' /\ InFrame'
  <2>1. view'[PID] = [regs |-> r, sp |-> s]
    BY <1>2, <1>3 DEF ProcInvariant, TypeOK
  <2>2. cpu'.regs = r /\ cpu'.sp = s /\ cpu'.ring = cpu.ring /\ cpu'.ie = cpu.ie
    BY <1>2 DEF ProcInvariant, TypeOK
  <2> QED
    BY <1>1, <1>3, <2>1, <2>2 DEF ProcInvariant, InCpu, InFrame, Resumes
<1> QED
  BY <1>6, <1>7, <1>8, <1>9, <1>10 DEF ProcInvariant, TableParts

\* The idle loop halts, or leaves with interrupts disabled.
LEMMA IdleStepStep == ASSUME ProcInvariant, IdleStep PROVE ProcInvariant'
<1>1. UNCHANGED <<frame, kstack, irr, isr, nreg, next_pid, proc_num, PID, state,
                  exec_count, priority, page_tables, proc_queue_start,
                  proc_queue_end, node_pid, node_next, ctxt, page_dir, tlb, view>>
  BY DEF IdleStep
<1>2. ctl = "proc" /\ ctl' \in {"proc", "exit"}
  BY DEF IdleStep
<1>3. /\ cpu' \in [regs : Words \cup {KWORD}, ring : {0, 3}, ie : Bit,
                   sp : Words \cup {KWORD} \cup StackCells, halted : Bit]
      /\ cpu'.regs = cpu.regs /\ cpu'.ring = cpu.ring /\ cpu'.sp = cpu.sp
      /\ cpu'.ie = IF ctl' = "proc" THEN cpu.ie ELSE 0
  BY DEF IdleStep, ProcInvariant, TypeOK, Bit
<1>4. TypeOK'
  <2>1. ctl' \in Controls
    BY <1>2 DEF Controls, Stopped
  <2> QED
    BY <1>1, <1>3, <2>1 DEF ProcInvariant, TypeOK
<1>5. TableParts'
  BY <1>1, <1>2, TableFrame DEF ProcInvariant, TableParts
<1>6. InTable'
  BY <1>1, <1>2, InTableFrame DEF ProcInvariant
<1>7. BootPhase' /\ NotNested'
  BY <1>1, <1>2, <1>3 DEF ProcInvariant, BootPhase, Booting, NotNested
<1>8. Mapped'
  BY <1>1, <1>2 DEF ProcInvariant, Mapped, Booting
<1>9. InCpu' /\ InFrame'
  BY <1>1, <1>2, <1>3 DEF ProcInvariant, InCpu, InFrame, Resumes
<1> QED
  BY <1>4, <1>5, <1>6, <1>7, <1>8, <1>9 DEF ProcInvariant, TableParts

\* An exception stops the processor and changes nothing else.
LEMMA ExceptionStep == ASSUME ProcInvariant, Exception PROVE ProcInvariant'
<1>1. UNCHANGED <<frame, kstack, irr, isr, nreg, next_pid, proc_num, PID, state,
                  exec_count, priority, page_tables, proc_queue_start,
                  proc_queue_end, node_pid, node_next, ctxt, page_dir, tlb, view>>
  BY DEF Exception
<1>2. ctl = "proc" /\ ctl' = "hung"
  BY IdtEntries DEF Exception
<1>3. /\ cpu' \in [regs : Words \cup {KWORD}, ring : {0, 3}, ie : Bit,
                   sp : Words \cup {KWORD} \cup StackCells, halted : Bit]
      /\ cpu'.ie = 0
  BY DEF Exception, GateIE, ProcInvariant, TypeOK, Bit
<1>4. TypeOK'
  <2>1. ctl' \in Controls
    BY <1>2 DEF Controls, Stopped
  <2> QED
    BY <1>1, <1>3, <2>1 DEF ProcInvariant, TypeOK
<1>5. TableParts'
  BY <1>1, <1>2, TableFrame DEF ProcInvariant, TableParts
<1>6. InTable'
  BY <1>1, <1>2, InTableFrame DEF ProcInvariant
<1>7. BootPhase' /\ NotNested'
  BY <1>1, <1>2, <1>3 DEF ProcInvariant, BootPhase, Booting, NotNested
<1>8. Mapped'
  BY <1>1, <1>2 DEF ProcInvariant, Mapped, Booting
<1>9. InCpu' /\ InFrame'
  BY <1>2 DEF InCpu, InFrame
<1> QED
  BY <1>4, <1>5, <1>6, <1>7, <1>8, <1>9 DEF ProcInvariant, TableParts

-----------------------------------------------------------------------------
(* Boot.                                                                   *)

\* proc_new_pid gives up: nothing but the control changes.
LEMMA NoPidStep == ASSUME ProcInvariant, NoPid PROVE ProcInvariant'
<1>1. UNCHANGED <<cpu, frame, kstack, irr, isr, nreg, next_pid, proc_num, PID,
                  state, exec_count, priority, page_tables, proc_queue_start,
                  proc_queue_end, node_pid, node_next, ctxt, page_dir, tlb, view>>
  BY DEF NoPid
<1>2. ctl = "register" /\ ctl' = "spin"
  BY DEF NoPid
<1>3. TypeOK'
  <2>1. ctl' \in Controls
    BY <1>2 DEF Controls, Stopped
  <2> QED
    BY <1>1, <2>1 DEF ProcInvariant, TypeOK
<1>4. TableParts'
  BY <1>1, <1>2, TableFrame DEF ProcInvariant, TableParts
<1>5. InTable'
  BY <1>1, <1>2, InTableFrame DEF ProcInvariant
<1>6. BootPhase' /\ NotNested' /\ Mapped'
  BY <1>1, <1>2 DEF ProcInvariant, BootPhase, Booting, NotNested, Mapped
<1>7. InCpu' /\ InFrame'
  BY <1>2 DEF InCpu, InFrame
<1> QED
  BY <1>3, <1>4, <1>5, <1>6, <1>7 DEF ProcInvariant, TableParts

\* proc_loop starts the idle loop, in ring 0 on the boot stack.
LEMMA ProcLoopStep == ASSUME ProcInvariant, ProcLoop PROVE ProcInvariant'
<1>1. UNCHANGED <<frame, kstack, irr, isr, nreg, next_pid, proc_num, PID, state,
                  exec_count, priority, page_tables, proc_queue_start,
                  proc_queue_end, node_pid, node_next, ctxt, page_dir, tlb, view>>
  BY DEF ProcLoop
<1>2. ctl = "register" /\ ctl' = "proc" /\ nreg = Len(Priorities)
  BY DEF ProcLoop
<1>3. /\ cpu' \in [regs : Words \cup {KWORD}, ring : {0, 3}, ie : Bit,
                   sp : Words \cup {KWORD} \cup StackCells, halted : Bit]
      /\ cpu'.regs = cpu.regs /\ cpu'.ring = cpu.ring /\ cpu'.sp = cpu.sp
      /\ cpu'.ie = 1
  BY DEF ProcLoop, ProcInvariant, TypeOK, Bit
<1>4. /\ PID = 0 /\ page_dir = NULL /\ tlb = NULL
      /\ cpu.ring = 0 /\ cpu.regs = KWORD /\ cpu.sp = BOOT
  BY <1>2 DEF ProcInvariant, BootPhase, Booting
<1>5. TypeOK'
  <2>1. ctl' \in Controls
    BY <1>2 DEF Controls
  <2> QED
    BY <1>1, <1>3, <2>1 DEF ProcInvariant, TypeOK
<1>6. TableParts'
  BY <1>1, <1>2, TableFrame DEF ProcInvariant, TableParts
<1>7. InTable'
  BY <1>1, <1>2, InTableFrame DEF ProcInvariant
<1>8. BootPhase' /\ NotNested' /\ Mapped'
  BY <1>1, <1>2, <1>4 DEF ProcInvariant, BootPhase, Booting, NotNested, Mapped
<1>9. InCpu' /\ InFrame'
  BY <1>1, <1>2, <1>3, <1>4 DEF InCpu, InFrame, Resumes, StackCells
<1> QED
  BY <1>5, <1>6, <1>7, <1>8, <1>9 DEF ProcInvariant, TableParts

\* The kernel is registered as PID 0, in a queue of one node.
LEMMA ProcInitStep == ASSUME ProcInvariant, ProcInit PROVE ProcInvariant'
<1>1. UNCHANGED <<cpu, frame, kstack, irr, isr, nreg, next_pid, proc_num, PID,
                  ctxt, page_tables, page_dir, tlb, view>>
  BY DEF ProcInit
<1>2. ctl = "init" /\ ctl' = "register"
  BY DEF ProcInit
<1>3. /\ nreg = 0 /\ proc_queue_end = NULL /\ PID = 0
      /\ \A p \in Pids : page_tables[p].own = 0
  BY <1>2 DEF ProcInvariant, BootPhase, Booting
<1>4. 0 \in Pids /\ 0 \in Nodes
  BY PidAssumption, PriorityAssumption DEF Pids, Nodes, MaxNodes
<1>5. /\ proc_queue_end' = 0 /\ proc_queue_start' = 0
      /\ node_pid' = [node_pid EXCEPT ![0] = 0]
      /\ node_next' = [m \in Nodes |-> IF m = 0 THEN NULL
                                       ELSE IF m = proc_queue_end THEN 0
                                       ELSE node_next[m]]
  BY <1>3 DEF ProcInit, proc_queue_add
<1>6. /\ state' = [state EXCEPT ![0] = PROC_RUNNING]
      /\ exec_count' = [exec_count EXCEPT ![0] = 1]
      /\ priority' = [priority EXCEPT ![0] = KernelPriority]
  BY DEF ProcInit
<1>7. TypeOK'
  <2>1. state' \in [Pids -> ProcStates]
    BY <1>6 DEF ProcInvariant, TypeOK, ProcStates
  <2>2. /\ exec_count' \in [Pids -> 0 .. PC_MOD - 1]
        /\ priority' \in [Pids -> 0 .. PC_MOD - 1]
    <3>1. 1 \in 0 .. PC_MOD - 1 /\ KernelPriority \in 0 .. PC_MOD - 1
      BY CountAssumption, PriorityAssumption
    <3> QED
      BY <1>6, <3>1 DEF ProcInvariant, TypeOK
  <2>3. /\ node_pid' \in [Nodes -> Pids]
        /\ node_next' \in [Nodes -> Nodes \cup {NULL}]
    BY <1>4, <1>5 DEF ProcInvariant, TypeOK
  <2>4. ctl' \in Controls
    BY <1>2 DEF Controls
  <2> QED
    BY <1>1, <1>4, <1>5, <2>1, <2>2, <2>3, <2>4 DEF ProcInvariant, TypeOK
<1>8. Linked' = {0}
  BY <1>1, <1>2, <1>3 DEF Linked
<1>9. node_pid'[0] = 0 /\ node_next'[0] = NULL
  BY <1>4, <1>5 DEF ProcInvariant, TypeOK
<1>10. QueueShape' /\ NodePids'
  BY <1>1, <1>3, <1>5, <1>8, <1>9 DEF QueueShape, NodePids, Succ
<1>11. /\ state'[0] = PROC_RUNNING /\ exec_count'[0] = 1
       /\ priority'[0] = KernelPriority
  BY <1>4, <1>6 DEF ProcInvariant, TypeOK
<1>12. Registered' /\ OneRunning'
  BY <1>1, <1>3, <1>4, <1>8, <1>9, <1>11
  DEF Registered, OneRunning, PROC_RUNNING, PROC_DEAD
<1>13. Priorities1' /\ SlicesBounded'
  BY <1>8, <1>9, <1>11, PriorityAssumption, CountAssumption
  DEF Priorities1, SlicesBounded
<1>14. InTable'
  BY <1>1, <1>2, <1>3, <1>8, <1>9 DEF InTable
<1>15. BootPhase' /\ NotNested' /\ Mapped'
  BY <1>1, <1>2, <1>3, <1>5 DEF ProcInvariant, BootPhase, Booting, NotNested, Mapped
<1>16. InCpu' /\ InFrame'
  BY <1>2 DEF InCpu, InFrame
<1> QED
  BY <1>7, <1>10, <1>12, <1>13, <1>14, <1>15, <1>16 DEF ProcInvariant

\* A process is registered under a pid that no linked node holds, and its
\* node is linked behind the last one.
LEMMA ProcRegisterStep == ASSUME ProcInvariant, ProcRegister PROVE ProcInvariant'
<1>1. UNCHANGED <<ctl, cpu, frame, kstack, irr, isr, PID, page_dir, tlb, view>>
  BY DEF ProcRegister
<1>2. ctl = "register" /\ nreg < Len(Priorities)
  BY DEF ProcRegister
<1>3. /\ PID = 0 /\ proc_queue_start = 0 /\ proc_queue_end = nreg
      /\ proc_num = nreg /\ nreg' = nreg + 1 /\ proc_num' = nreg + 1
  BY <1>2 DEF ProcRegister, ProcInvariant, BootPhase, Booting
<1>4. PICK pid \in Pids :
        /\ NewPid(pid)
        /\ next_pid' = (pid + 1) % PID_MAX
        /\ state' = [state EXCEPT ![pid] = PROC_ACTIVE]
        /\ exec_count' = [exec_count EXCEPT ![pid] = Priorities[nreg + 1]]
        /\ priority' = [priority EXCEPT ![pid] = Priorities[nreg + 1]]
        /\ ctxt' = [ctxt EXCEPT ![pid] = [regs |-> EntryPoint, ring |-> 3,
                                ie |-> 1, sp |-> KERNEL_START_VMA]]
        /\ page_tables' = [page_tables EXCEPT ![pid].own = 1]
        /\ proc_queue_add(pid, nreg + 1)
  BY DEF ProcRegister
<1>5. /\ proc_queue_end' = nreg + 1
      /\ node_pid' = [node_pid EXCEPT ![nreg + 1] = pid]
      /\ node_next' = [m \in Nodes |-> IF m = nreg + 1 THEN NULL
                                       ELSE IF m = nreg THEN nreg + 1
                                       ELSE node_next[m]]
  BY <1>3, <1>4 DEF proc_queue_add
<1>5a. proc_queue_start' = 0
  <2>1. nreg # NULL
    BY DEF ProcInvariant, TypeOK, NULL
  <2> QED
    BY <1>3, <1>4, <2>1 DEF proc_queue_add
<1>6. /\ nreg \in Nat /\ nreg + 1 \in Nodes /\ nreg + 1 \in 1 .. Len(Priorities)
      /\ Nodes = 0 .. Len(Priorities) /\ Len(Priorities) \in Nat
  <2>1. Len(Priorities) \in Nat
    BY PriorityAssumption
  <2>2. nreg \in 0 .. Len(Priorities)
    BY DEF ProcInvariant, TypeOK
  <2> QED
    BY <1>2, <2>1, <2>2 DEF Nodes, MaxNodes
<1>7. Priorities[nreg + 1] \in 1 .. PC_MOD - 1
  <2>1. Priorities \in Seq(1 .. PC_MOD - 1)
    BY PriorityAssumption
  <2> QED
    BY <1>6, <2>1, ElementOfSeq
<1>8. Linked = 0 .. nreg /\ Linked' = 0 .. nreg + 1 /\ Linked \subseteq Nodes
  BY <1>1, <1>2, <1>3, <1>6 DEF Linked
<1>9. \A n \in Linked : node_pid[n] \in Pids /\ node_pid[n] # pid
  <2>1. state[pid] = PROC_DEAD
    BY <1>4 DEF NewPid, proc_pid_taken
  <2> QED
    BY <1>8, <2>1 DEF ProcInvariant, TypeOK, Registered
<1>10. /\ node_pid'[nreg + 1] = pid
       /\ \A n \in Linked : node_pid'[n] = node_pid[n]
  BY <1>5, <1>6, <1>8 DEF ProcInvariant, TypeOK
<1>11. node_pid[0] = 0 /\ pid # 0 /\ 0 \in Linked
  BY <1>2, <1>6, <1>8, <1>9 DEF ProcInvariant, NodePids
<1>12. TypeOK'
  <2>1. state' \in [Pids -> ProcStates]
    BY <1>4 DEF ProcInvariant, TypeOK, ProcStates
  <2>2. /\ exec_count' \in [Pids -> 0 .. PC_MOD - 1]
        /\ priority' \in [Pids -> 0 .. PC_MOD - 1]
    <3>1. Priorities[nreg + 1] \in 0 .. PC_MOD - 1
      BY <1>7, CountAssumption
    <3> QED
      BY <1>4, <3>1 DEF ProcInvariant, TypeOK
  <2>3. ctxt' \in [Pids -> Contexts]
    <3>1. [regs |-> EntryPoint, ring |-> 3, ie |-> 1, sp |-> KERNEL_START_VMA]
          \in Contexts
      BY WordAssumption DEF Contexts, Bit
    <3> QED
      BY <1>4, <3>1 DEF ProcInvariant, TypeOK
  <2>4. page_tables' \in [Pids -> [own : Bit, rest : {"NULL", "WILD"}]]
    BY <1>4 DEF ProcInvariant, TypeOK, Bit
  <2>5. node_pid' \in [Nodes -> Pids]
    BY <1>4, <1>5, <1>6 DEF ProcInvariant, TypeOK
  <2>6. node_next' \in [Nodes -> Nodes \cup {NULL}]
    BY <1>5, <1>6 DEF ProcInvariant, TypeOK
  <2>7. next_pid' \in Pids
    BY <1>4, PidAssumption DEF Pids
  <2>8. nreg' \in 0 .. Len(Priorities) /\ proc_num' \in 0 .. Len(Priorities)
    BY <1>3, <1>6
  <2>9. /\ proc_queue_start' \in Nodes \cup {NULL}
        /\ proc_queue_end' \in Nodes \cup {NULL}
    BY <1>5, <1>5a, <1>6
  <2> QED
    BY <1>1, <2>1, <2>2, <2>3, <2>4, <2>5, <2>6, <2>7, <2>8, <2>9
    DEF ProcInvariant, TypeOK
<1>13. QueueShape'
  <2>1. \A n \in Linked : node_next[n] = IF n = nreg THEN NULL ELSE n + 1
    BY <1>2, <1>3 DEF ProcInvariant, QueueShape, Succ
  <2> QED
    BY <1>3, <1>5, <1>5a, <1>6, <1>8, <2>1 DEF QueueShape, Succ
<1>14. NodePids'
  <2>1. \A m, n \in Linked : node_pid[m] = node_pid[n] => m = n
    BY <1>2 DEF ProcInvariant, NodePids
  <2>2. \A n \in Linked' : n \in Linked \/ n = nreg + 1
    BY <1>6, <1>8
  <2>3. \A m, n \in Linked' : node_pid'[m] = node_pid'[n] => m = n
    BY <1>9, <1>10, <2>1, <2>2
  <2> QED
    BY <1>1, <1>3, <1>5a, <1>10, <1>11, <2>3 DEF NodePids
<1>15. Registered' /\ OneRunning' /\ Priorities1' /\ SlicesBounded'
  <2>1. \A n \in Linked' : n \in Linked \/ n = nreg + 1
    BY <1>6, <1>8
  <2>2. \A n \in Linked : /\ state'[node_pid[n]] = state[node_pid[n]]
                          /\ exec_count'[node_pid[n]] = exec_count[node_pid[n]]
                          /\ priority'[node_pid[n]] = priority[node_pid[n]]
                          /\ page_tables'[node_pid[n]] = page_tables[node_pid[n]]
    BY <1>4, <1>9 DEF ProcInvariant, TypeOK
  <2>3. /\ state'[pid] = PROC_ACTIVE /\ page_tables'[pid].own = 1
        /\ exec_count'[pid] = Priorities[nreg + 1]
        /\ priority'[pid] = Priorities[nreg + 1]
    BY <1>4 DEF ProcInvariant, TypeOK
  <2>4. Registered'
    BY <1>6, <1>8, <1>10, <2>1, <2>2, <2>3
    DEF ProcInvariant, Registered, PROC_ACTIVE, PROC_DEAD
  <2>5. OneRunning'
    BY <1>1, <1>2, <1>3, <1>10, <1>11, <2>1, <2>2, <2>3 DEF ProcInvariant, OneRunning
  <2>6. Priorities1'
    BY <1>7, <1>10, <2>1, <2>2, <2>3 DEF ProcInvariant, Priorities1
  <2>7. SlicesBounded'
    BY <1>7, <1>10, <2>1, <2>2, <2>3, CountAssumption
    DEF ProcInvariant, SlicesBounded
  <2> QED
    BY <2>4, <2>5, <2>6, <2>7
<1>16. InTable'
  <2>1. \A n \in Linked' : n \in Linked \/ n = nreg + 1
    BY <1>6, <1>8
  <2>2. \A n \in Linked : ctxt'[node_pid[n]] = ctxt[node_pid[n]]
    BY <1>4, <1>9 DEF ProcInvariant, TypeOK
  <2>3. ctxt'[pid] = [regs |-> EntryPoint, ring |-> 3, ie |-> 1,
                      sp |-> KERNEL_START_VMA]
    BY <1>4 DEF ProcInvariant, TypeOK
  <2>4. view[pid] = [regs |-> EntryPoint, sp |-> KERNEL_START_VMA]
    BY <1>2, <1>4 DEF ProcInvariant, BootPhase, Booting
  <2> QED
    BY <1>1, <1>2, <1>10, <1>11, <2>1, <2>2, <2>3, <2>4
    DEF ProcInvariant, InTable, Resumes
<1>17. BootPhase' /\ NotNested' /\ Mapped'
  BY <1>1, <1>2, <1>3, <1>5, <1>5a
  DEF ProcInvariant, BootPhase, Booting, NotNested, Mapped
<1>18. InCpu' /\ InFrame'
  BY <1>1, <1>2 DEF InCpu, InFrame
<1> QED
  BY <1>12, <1>13, <1>14, <1>15, <1>16, <1>17, <1>18 DEF ProcInvariant

-----------------------------------------------------------------------------
(* int_handle_proc_switch.                                                 *)

\* The frame of the interrupted process goes into its table entry.
LEMMA ProcStoreCtxtStep == ASSUME ProcInvariant, ProcStoreCtxt PROVE ProcInvariant'
<1>1. UNCHANGED <<cpu, frame, kstack, irr, isr, nreg, next_pid, proc_num, PID,
                  state, exec_count, priority, page_tables, proc_queue_start,
                  proc_queue_end, node_pid, node_next, page_dir, tlb, view>>
  BY DEF ProcStoreCtxt
<1>2. ctl = "store" /\ ctl' = "next"
  BY DEF ProcStoreCtxt
<1> DEFINE c == [regs |-> frame.regs, ring |-> frame.ring, ie |-> frame.ie,
                 sp |-> kstack[frame.at]]
<1>3. ctxt' = [ctxt EXCEPT ![PID] = c] /\ PID \in Pids
  BY DEF ProcStoreCtxt, ProcInvariant, TypeOK
<1>4. c \in Contexts
  BY DEF ProcInvariant, TypeOK, Contexts
<1>5. TypeOK'
  <2>1. ctl' \in Controls
    BY <1>2 DEF Controls, Handler
  <2>2. ctxt' \in [Pids -> Contexts]
    BY <1>3, <1>4 DEF ProcInvariant, TypeOK
  <2> QED
    BY <1>1, <2>1, <2>2 DEF ProcInvariant, TypeOK
<1>6. TableParts'
  BY <1>1, <1>2, TableFrame DEF ProcInvariant, TableParts
<1>7. InTable'
  <2>1. Linked' = Linked
    BY <1>1, <1>2 DEF Linked
  <2>2. Resumes(PID, c.regs, c.ring, c.ie, c.sp)
    BY <1>2 DEF ProcInvariant, InFrame, Resumes
  <2>3. /\ ctxt'[PID] = c
        /\ \A p \in Pids : p # PID => ctxt'[p] = ctxt[p]
    BY <1>3 DEF ProcInvariant, TypeOK
  <2>4. \A n \in Linked : node_pid[n] \in Pids
    BY <1>2, QueueRange
  <2> HIDE DEF c
  <2>5. ASSUME NEW n \in Linked
        PROVE  Resumes(node_pid[n], ctxt'[node_pid[n]].regs, ctxt'[node_pid[n]].ring,
                       ctxt'[node_pid[n]].ie, ctxt'[node_pid[n]].sp)
    <3>1. CASE node_pid[n] = PID
      BY <2>2, <2>3, <3>1
    <3>2. CASE node_pid[n] # PID
      BY <1>2, <2>3, <2>4, <3>2 DEF ProcInvariant, InTable
    <3> QED
      BY <3>1, <3>2
  <2> QED
    BY <1>1, <2>1, <2>5 DEF InTable, Resumes
<1>8. BootPhase' /\ NotNested'
  BY <1>1, <1>2 DEF ProcInvariant, BootPhase, Booting, NotNested
<1>9. Mapped'
  BY <1>1, <1>2 DEF ProcInvariant, Mapped, Booting
<1>10. InCpu' /\ InFrame'
  BY <1>2 DEF InCpu, InFrame
<1> QED
  BY <1>5, <1>6, <1>7, <1>8, <1>9, <1>10 DEF ProcInvariant, TableParts

\* The table entry of the process PID names goes into the frame.
LEMMA ProcLoadCtxtStep == ASSUME ProcInvariant, ProcLoadCtxt PROVE ProcInvariant'
<1>1. UNCHANGED <<cpu, irr, isr, nreg, next_pid, proc_num, PID, state,
                  exec_count, priority, page_tables, proc_queue_start,
                  proc_queue_end, node_pid, node_next, ctxt, page_dir, tlb, view>>
  BY DEF ProcLoadCtxt
<1>2. ctl = "load" /\ ctl' = "eoi"
  BY DEF ProcLoadCtxt
<1> DEFINE c == ctxt[PID]
<1>3. /\ frame' = [regs |-> c.regs, ring |-> c.ring, ie |-> c.ie, at |-> frame.at]
      /\ kstack' = [kstack EXCEPT ![frame.at] = c.sp]
  BY DEF ProcLoadCtxt
<1>4. c \in Contexts
  BY DEF ProcInvariant, TypeOK
<1>5. TypeOK'
  <2>1. ctl' \in Controls
    BY <1>2 DEF Controls, Handler
  <2>2. frame' \in [regs : Words \cup {KWORD}, ring : {0, 3}, ie : Bit,
                    at : StackCells]
    BY <1>3, <1>4 DEF ProcInvariant, TypeOK, Contexts
  <2>3. kstack' \in [StackCells -> Words \cup {KWORD}]
    BY <1>3, <1>4 DEF ProcInvariant, TypeOK, Contexts
  <2> QED
    BY <1>1, <2>1, <2>2, <2>3 DEF ProcInvariant, TypeOK
<1>6. TableParts'
  BY <1>1, <1>2, TableFrame DEF ProcInvariant, TableParts
<1>7. InTable'
  BY <1>1, <1>2, InTableFrame DEF ProcInvariant
<1>8. BootPhase' /\ NotNested'
  BY <1>1, <1>2 DEF ProcInvariant, BootPhase, Booting, NotNested
<1>9. Mapped'
  BY <1>1, <1>2 DEF ProcInvariant, Mapped, Booting
<1>10. InFrame'
  <2>1. Resumes(PID, c.regs, c.ring, c.ie, c.sp)
    <3>1. PICK n \in Linked : node_pid[n] = PID
      BY <1>2, QueueRange DEF ProcInvariant, NodePids
    <3> QED
      BY <1>2, <3>1 DEF ProcInvariant, InTable
  <2>2. kstack'[frame'.at] = c.sp
    BY <1>3 DEF ProcInvariant, TypeOK
  <2> QED
    BY <1>1, <1>3, <2>1, <2>2 DEF InFrame, Resumes
<1>11. InCpu'
  BY <1>2 DEF InCpu
<1> QED
  BY <1>5, <1>6, <1>7, <1>8, <1>9, <1>10, <1>11 DEF ProcInvariant, TableParts

\* The end of interrupt reaches the APIC only.
LEMMA SendEoiStep == ASSUME ProcInvariant, SendEoi PROVE ProcInvariant'
<1>1. UNCHANGED <<cpu, frame, kstack, irr, nreg, next_pid, proc_num, PID, state,
                  exec_count, priority, page_tables, proc_queue_start,
                  proc_queue_end, node_pid, node_next, ctxt, page_dir, tlb, view>>
  BY DEF SendEoi
<1>2. ctl = "eoi" /\ ctl' = "iret" /\ isr' \in Bit
  BY DEF SendEoi, Bit
<1>3. TypeOK'
  <2>1. ctl' \in Controls
    BY <1>2 DEF Controls, Handler
  <2> QED
    BY <1>1, <1>2, <2>1 DEF ProcInvariant, TypeOK
<1>4. TableParts'
  BY <1>1, <1>2, TableFrame DEF ProcInvariant, TableParts
<1>5. InTable'
  BY <1>1, <1>2, InTableFrame DEF ProcInvariant
<1>6. BootPhase' /\ NotNested'
  BY <1>1, <1>2 DEF ProcInvariant, BootPhase, Booting, NotNested
<1>7. Mapped'
  BY <1>1, <1>2 DEF ProcInvariant, Mapped, Booting
<1>8. InCpu' /\ InFrame'
  BY <1>1, <1>2 DEF ProcInvariant, InCpu, InFrame, Resumes
<1> QED
  BY <1>3, <1>4, <1>5, <1>6, <1>7, <1>8 DEF ProcInvariant, TableParts

\* iret resumes the process PID names from the frame.
LEMMA IretStep == ASSUME ProcInvariant, Iret PROVE ProcInvariant'
<1>1. UNCHANGED <<frame, kstack, irr, isr, nreg, next_pid, proc_num, PID, state,
                  exec_count, priority, page_tables, proc_queue_start,
                  proc_queue_end, node_pid, node_next, ctxt, page_dir, tlb, view>>
  BY DEF Iret
<1>2. ctl = "iret" /\ ctl' = "proc"
  BY DEF Iret
<1>3. cpu' = [regs |-> frame.regs, ring |-> frame.ring, ie |-> frame.ie,
              sp |-> IF frame.ring = 3 THEN kstack[frame.at] ELSE frame.at,
              halted |-> 0]
  BY DEF Iret
<1>4. TypeOK'
  <2>1. ctl' \in Controls
    BY <1>2 DEF Controls
  <2>2. cpu' \in [regs : Words \cup {KWORD}, ring : {0, 3}, ie : Bit,
                sp : Words \cup {KWORD} \cup StackCells, halted : Bit]
    BY <1>3 DEF ProcInvariant, TypeOK, Bit
  <2> QED
    BY <1>1, <2>1, <2>2 DEF ProcInvariant, TypeOK
<1>5. TableParts'
  BY <1>1, <1>2, TableFrame DEF ProcInvariant, TableParts
<1>6. InTable'
  BY <1>1, <1>2, InTableFrame DEF ProcInvariant
<1>7. BootPhase' /\ NotNested'
  BY <1>1, <1>2 DEF ProcInvariant, BootPhase, Booting, NotNested
<1>8. Mapped'
  BY <1>1, <1>2 DEF ProcInvariant, Mapped, Booting
<1>9. InCpu' /\ InFrame'
  <2>1. Resumes(PID, frame.regs, frame.ring, frame.ie, kstack[frame.at])
    BY <1>2 DEF ProcInvariant, InFrame
  <2>2. frame.at \in StackCells
    BY DEF ProcInvariant, TypeOK
  <2> QED
    BY <1>1, <1>2, <1>3, <2>1, <2>2 DEF InCpu, InFrame, Resumes
<1> QED
  BY <1>4, <1>5, <1>6, <1>7, <1>8, <1>9 DEF ProcInvariant, TableParts

\* A tick within a slice: the count was at least two.
LEMMA SameProcessStep == ASSUME ProcInvariant, SameProcess PROVE ProcInvariant'
<1>1. UNCHANGED <<cpu, frame, kstack, irr, isr, nreg, next_pid, proc_num, PID,
                  state, priority, page_tables, proc_queue_start,
                  proc_queue_end, node_pid, node_next, ctxt, page_dir, tlb, view>>
  BY DEF SameProcess
<1>2. ctl = "next" /\ ctl' = "load"
  BY DEF SameProcess
<1>3. /\ exec_count' = [exec_count EXCEPT ![PID] = Decremented]
      /\ Decremented # 0
  BY DEF SameProcess, SliceOver
<1>4. /\ nreg \in Nat /\ Linked = 0 .. nreg
      /\ proc_queue_start \in Linked
      /\ \A n \in Linked : node_pid[n] \in Pids
  BY <1>2, QueueRange
<1>5. Linked' = Linked
  BY <1>1, <1>2 DEF Linked
<1>6. /\ PID \in Pids /\ exec_count[PID] \in 1 .. PC_MOD - 1
      /\ exec_count[PID] \in 1 .. priority[PID] /\ priority[PID] \in 1 .. PC_MOD - 1
  BY <1>2, <1>4 DEF ProcInvariant, NodePids, SlicesBounded, Priorities1, TypeOK
<1>7. Decremented = exec_count[PID] - 1 /\ Decremented \in 1 .. PC_MOD - 1
  <2>1. exec_count[PID] - 1 \in 0 .. PC_MOD - 1 /\ PC_MOD \in Nat /\ PC_MOD > 1
    BY <1>6, CountAssumption
  <2>2. (exec_count[PID] - 1) % PC_MOD = exec_count[PID] - 1
    BY <2>1
  <2> QED
    BY <1>3, <1>6, <2>1, <2>2, CountAssumption DEF Decremented
<1>8. TypeOK'
  <2>1. ctl' \in Controls
    BY <1>2 DEF Controls, Handler
  <2>2. exec_count' \in [Pids -> 0 .. PC_MOD - 1]
    <3>1. Decremented \in 0 .. PC_MOD - 1
      BY <1>7, CountAssumption
    <3> QED
      BY <1>3, <3>1 DEF ProcInvariant, TypeOK
  <2> QED
    BY <1>1, <2>1, <2>2 DEF ProcInvariant, TypeOK
<1>9. QueueShape' /\ NodePids'
  BY <1>1, <1>2, <1>5 DEF ProcInvariant, QueueShape, NodePids, Succ
<1>10. Registered' /\ OneRunning' /\ Priorities1'
  BY <1>1, <1>2, <1>5 DEF ProcInvariant, Registered, OneRunning, Priorities1
<1>11. SlicesBounded'
  <2>1. /\ exec_count'[PID] = Decremented
        /\ \A p \in Pids : p # PID => exec_count'[p] = exec_count[p]
    BY <1>3, <1>6 DEF ProcInvariant, TypeOK
  <2>2. Decremented \in 1 .. priority[PID]
    BY <1>6, <1>7, CountAssumption
  <2> QED
    BY <1>1, <1>4, <1>5, <2>1, <2>2 DEF ProcInvariant, SlicesBounded
<1>12. InTable'
  BY <1>1, <1>2, InTableFrame DEF ProcInvariant
<1>13. BootPhase' /\ NotNested'
  BY <1>1, <1>2 DEF ProcInvariant, BootPhase, Booting, NotNested
<1>14. Mapped'
  BY <1>1, <1>2 DEF ProcInvariant, Mapped, Booting
<1>15. InCpu' /\ InFrame'
  BY <1>2 DEF InCpu, InFrame
<1> QED
  BY <1>8, <1>9, <1>10, <1>11, <1>12, <1>13, <1>14, <1>15 DEF ProcInvariant

\* Rotating the queue moves the cut of the ring one node on.
LEMMA RotateShape ==
    ASSUME ProcInvariant, RotateQueue, ctl \notin {"init", "wild"}, ctl' # "init",
           UNCHANGED nreg
    PROVE  /\ QueueShape'
           /\ node_next' \in [Nodes -> Nodes \cup {NULL}]
           /\ proc_queue_start' = Succ(proc_queue_start)
           /\ proc_queue_start' \in Linked
           /\ proc_queue_end' = proc_queue_start
           /\ UNCHANGED node_pid /\ Linked' = Linked
<1> DEFINE linked == [node_next EXCEPT ![proc_queue_end] = proc_queue_start]
<1>1. /\ proc_queue_end' = proc_queue_start
      /\ proc_queue_start' = linked[proc_queue_start]
      /\ node_next' = [linked EXCEPT ![proc_queue_start] = NULL]
      /\ UNCHANGED node_pid
  BY DEF RotateQueue
<1>2. /\ nreg \in Nat /\ Linked = 0 .. nreg /\ Linked \subseteq Nodes
      /\ proc_queue_start \in Linked /\ proc_queue_end \in Linked
      /\ \A n \in Linked : Succ(n) \in Linked
  BY QueueRange
<1>3. Linked' = Linked
  BY DEF Linked
<1>4. /\ proc_queue_start = Succ(proc_queue_end)
      /\ \A n \in Linked :
            node_next[n] = IF n = proc_queue_end THEN NULL ELSE Succ(n)
  BY DEF ProcInvariant, QueueShape
<1>5. /\ linked \in [Nodes -> Nodes \cup {NULL}]
      /\ \A n \in Linked : linked[n] = Succ(n)
  BY <1>2, <1>4 DEF ProcInvariant, TypeOK
<1> HIDE DEF linked
<1>6. proc_queue_start' = Succ(proc_queue_start)
  BY <1>1, <1>2, <1>5
<1>7. /\ node_next' \in [Nodes -> Nodes \cup {NULL}]
      /\ \A n \in Linked :
            node_next'[n] = IF n = proc_queue_start THEN NULL ELSE Succ(n)
  BY <1>1, <1>2, <1>5
<1>8. \A n \in Linked : Succ(n)' = Succ(n)
  BY DEF Succ
<1>9. QueueShape'
  BY <1>1, <1>2, <1>3, <1>6, <1>7, <1>8 DEF QueueShape
<1> QED
  BY <1>1, <1>2, <1>3, <1>6, <1>7, <1>9

\* The process table after the slice of PID is refilled, and what is known
\* of PID before.
LEMMA Refill ==
    ASSUME ProcInvariant, ctl = "next", UNCHANGED <<node_pid, priority>>,
           Linked' = Linked, exec_count' = [exec_count EXCEPT ![PID] = Refilled]
    PROVE  /\ exec_count' \in [Pids -> 0 .. PC_MOD - 1]
           /\ Priorities1' /\ SlicesBounded'
<1>1. /\ proc_queue_start \in Linked /\ PID = node_pid[proc_queue_start]
      /\ \A n \in Linked : node_pid[n] \in Pids
  BY QueueRange DEF ProcInvariant, NodePids
<1>2. priority[PID] \in 1 .. PC_MOD - 1
  BY <1>1 DEF ProcInvariant, Priorities1
<1>3. /\ exec_count'[PID] = priority[PID]
      /\ \A p \in Pids : p # PID => exec_count'[p] = exec_count[p]
  BY DEF ProcInvariant, TypeOK, Refilled
<1>4. exec_count' \in [Pids -> 0 .. PC_MOD - 1]
  BY DEF ProcInvariant, TypeOK, Refilled
<1>5. Priorities1'
  BY DEF ProcInvariant, Priorities1
<1>6. SlicesBounded'
  <2>1. priority[PID] \in 1 .. priority[PID]
    BY <1>2, CountAssumption
  <2> QED
    BY <1>1, <1>3, <2>1 DEF ProcInvariant, SlicesBounded
<1> QED
  BY <1>4, <1>5, <1>6

\* The end of a slice: the next process of the ring is mapped and RUNNING.
LEMMA SwitchProcessStep == ASSUME ProcInvariant, SwitchProcess PROVE ProcInvariant'
<1>1. UNCHANGED <<cpu, frame, kstack, irr, isr, nreg, next_pid, proc_num,
                  priority, page_tables, ctxt, view>>
  BY DEF SwitchProcess
<1>2. ctl = "next" /\ ctl' = "load"
  BY DEF SwitchProcess
<1>3. /\ QueueShape' /\ node_next' \in [Nodes -> Nodes \cup {NULL}]
      /\ proc_queue_start' \in Linked /\ proc_queue_end' = proc_queue_start
      /\ UNCHANGED node_pid /\ Linked' = Linked
  BY <1>1, <1>2, RotateShape DEF SwitchProcess
<1>4. /\ nreg \in Nat /\ Linked = 0 .. nreg /\ Linked \subseteq Nodes
      /\ proc_queue_start \in Linked
      /\ \A n \in Linked : node_pid[n] \in Pids
  BY <1>2, QueueRange
<1>5. /\ PID = node_pid[proc_queue_start] /\ PID \in Pids
      /\ PID' = node_pid[proc_queue_start'] /\ PID' \in Pids
  BY <1>2, <1>3, <1>4 DEF SwitchProcess, ProcInvariant, NodePids
<1>6. /\ exec_count' \in [Pids -> 0 .. PC_MOD - 1]
      /\ Priorities1' /\ SlicesBounded'
  BY <1>1, <1>2, <1>3, Refill DEF SwitchProcess
<1>7. state' = [state EXCEPT ![PID] = PROC_ACTIVE, ![PID'] = PROC_RUNNING]
  BY DEF SwitchProcess, SwitchedStates
<1>8. \A n \in Linked : page_tables[node_pid[n]].own = IF node_pid[n] = 0 THEN 0 ELSE 1
  <2>1. 0 \in Linked /\ node_pid[0] = 0
    BY <1>2, <1>4 DEF ProcInvariant, NodePids
  <2> QED
    BY <1>2, <2>1 DEF ProcInvariant, NodePids, Registered
<1>9. page_dir' = (IF PID' = 0 THEN NULL ELSE PID') /\ tlb' = NULL
  <2>1. page_dir = IF PID = 0 THEN NULL ELSE PID
    BY <1>2 DEF ProcInvariant, Mapped, Booting
  <2>2. proc_mem_unmap(PID, page_dir) = NULL
    BY <1>4, <1>5, <1>8, <2>1 DEF proc_mem_unmap
  <2>3. page_dir' = proc_mem_map(PID', NULL)
    BY <2>2 DEF SwitchProcess
  <2>4. page_tables[PID'].own = IF PID' = 0 THEN 0 ELSE 1
    BY <1>3, <1>5, <1>8
  <2> QED
    BY <2>3, <2>4 DEF proc_mem_map, SwitchProcess, set_cr3
<1>10. TypeOK'
  <2>1. ctl' \in Controls
    BY <1>2 DEF Controls, Handler
  <2>2. state' \in [Pids -> ProcStates]
    BY <1>5, <1>7 DEF ProcInvariant, TypeOK, ProcStates
  <2>3. page_dir' \in Pids \cup {NULL} /\ tlb' \in Pids \cup {NULL}
    BY <1>5, <1>9
  <2>4. /\ proc_queue_start' \in Nodes \cup {NULL}
        /\ proc_queue_end' \in Nodes \cup {NULL}
    BY <1>3, <1>4
  <2> QED
    BY <1>1, <1>3, <1>5, <1>6, <2>1, <2>2, <2>3, <2>4 DEF ProcInvariant, TypeOK
<1>11. NodePids'
  BY <1>2, <1>3, <1>5 DEF ProcInvariant, NodePids
<1>12. /\ state'[PID'] = PROC_RUNNING
       /\ PID # PID' => state'[PID] = PROC_ACTIVE
       /\ \A p \in Pids : p # PID /\ p # PID' => state'[p] = state[p]
  BY <1>5, <1>7 DEF ProcInvariant, TypeOK
<1>13. OneRunning'
  BY <1>2, <1>3, <1>4, <1>12 DEF ProcInvariant, OneRunning
<1>14. Registered'
  BY <1>1, <1>3, <1>4, <1>12
  DEF ProcInvariant, Registered, PROC_ACTIVE, PROC_RUNNING, PROC_DEAD
<1>15. InTable'
  BY <1>1, <1>2, <1>3 DEF ProcInvariant, InTable, Resumes
<1>16. BootPhase' /\ NotNested'
  BY <1>1, <1>2 DEF ProcInvariant, BootPhase, Booting, NotNested
<1>17. Mapped'
  BY <1>9 DEF Mapped
<1>18. InCpu' /\ InFrame'
  BY <1>2 DEF InCpu, InFrame
<1> QED
  BY <1>3, <1>6, <1>10, <1>11, <1>13, <1>14, <1>15, <1>16, <1>17, <1>18
  DEF ProcInvariant

\* The same until an uninitialised pointer is followed.
LEMMA WildSwitchStep == ASSUME ProcInvariant, WildSwitch PROVE ProcInvariant'
<1>1. UNCHANGED <<cpu, frame, kstack, irr, isr, nreg, next_pid, proc_num,
                  priority, page_tables, ctxt, tlb, view>>
  BY DEF WildSwitch
<1>2. ctl = "next" /\ ctl' = "wild"
  BY DEF WildSwitch
<1>3. /\ QueueShape' /\ node_next' \in [Nodes -> Nodes \cup {NULL}]
      /\ proc_queue_start' \in Linked /\ proc_queue_end' = proc_queue_start
      /\ UNCHANGED node_pid /\ Linked' = Linked
  BY <1>1, <1>2, RotateShape DEF WildSwitch
<1>4. /\ nreg \in Nat /\ Linked = 0 .. nreg /\ Linked \subseteq Nodes
      /\ proc_queue_start \in Linked
      /\ \A n \in Linked : node_pid[n] \in Pids
  BY <1>2, QueueRange
<1>5. PID \in Pids /\ PID' \in Pids
  BY <1>3, <1>4 DEF WildSwitch, ProcInvariant, TypeOK
<1>6. /\ exec_count' \in [Pids -> 0 .. PC_MOD - 1]
      /\ Priorities1' /\ SlicesBounded'
  BY <1>1, <1>2, <1>3, Refill DEF WildSwitch
<1>7. state' = [state EXCEPT ![PID] = PROC_ACTIVE]
  BY DEF WildSwitch
<1>8. TypeOK'
  <2>1. ctl' \in Controls
    BY <1>2 DEF Controls, Stopped
  <2>2. state' \in [Pids -> ProcStates]
    BY <1>5, <1>7 DEF ProcInvariant, TypeOK, ProcStates
  <2>3. /\ proc_queue_start' \in Nodes \cup {NULL}
        /\ proc_queue_end' \in Nodes \cup {NULL}
    BY <1>3, <1>4
  <2>4. page_dir' \in Pids \cup {NULL}
    BY <1>5 DEF WildSwitch, proc_mem_map, proc_mem_unmap, ProcInvariant, TypeOK
  <2> QED
    BY <1>1, <1>3, <1>5, <1>6, <2>1, <2>2, <2>3, <2>4 DEF ProcInvariant, TypeOK
<1>9. NodePids' /\ OneRunning'
  BY <1>2, <1>3 DEF ProcInvariant, NodePids, OneRunning
<1>10. Registered'
  <2>1. /\ state'[PID] = PROC_ACTIVE
        /\ \A p \in Pids : p # PID => state'[p] = state[p]
    BY <1>5, <1>7 DEF ProcInvariant, TypeOK
  <2> QED
    BY <1>1, <1>3, <1>4, <2>1 DEF ProcInvariant, Registered, PROC_ACTIVE, PROC_DEAD
<1>11. InTable'
  BY <1>2 DEF InTable
<1>12. BootPhase' /\ NotNested' /\ Mapped'
  BY <1>1, <1>2 DEF ProcInvariant, BootPhase, Booting, NotNested, Mapped
<1>13. InCpu' /\ InFrame'
  BY <1>2 DEF InCpu, InFrame
<1> QED
  BY <1>3, <1>6, <1>8, <1>9, <1>10, <1>11, <1>12, <1>13 DEF ProcInvariant

-----------------------------------------------------------------------------
(* The theorems.                                                           *)

\* ProcInvariant holds initially and every step of the boot code, the
\* processor, the APIC and the timer handler preserves it.
THEOREM Inductive == Spec => []ProcInvariant
<1>1. ASSUME ProcInvariant, [Next]_vars PROVE ProcInvariant'
  <2>1. CASE Boot
    BY <1>1, <2>1, ProcInitStep, ProcRegisterStep, NoPidStep, ProcLoopStep DEF Boot
  <2>2. CASE TimerFire \/ IntEnter \/ TlbFill
    BY <1>1, <2>2, TimerFireStep, IntEnterStep, TlbFillStep
  <2>3. CASE UserStep \/ IdleStep \/ Exception
    BY <1>1, <2>3, UserStepStep, IdleStepStep, ExceptionStep
  <2>4. CASE Switch
    BY <1>1, <2>4, ProcStoreCtxtStep, SameProcessStep, SwitchProcessStep,
       WildSwitchStep, ProcLoadCtxtStep, SendEoiStep, IretStep DEF Switch
  <2>5. CASE UNCHANGED vars
    <3>1. UNCHANGED <<ctl, cpu, frame, kstack, irr, isr, nreg, next_pid, proc_num,
                      PID, state, exec_count, priority, page_tables,
                      proc_queue_start, proc_queue_end, node_pid, node_next, ctxt,
                      page_dir, tlb, view>>
      BY <2>5 DEF vars
    <3>2. TypeOK'
      BY <1>1, <3>1 DEF ProcInvariant, TypeOK
    <3>3. TableParts'
      BY <1>1, <3>1, TableFrame DEF ProcInvariant, TableParts
    <3>4. InTable'
      BY <1>1, <3>1, InTableFrame DEF ProcInvariant
    <3>5. BootPhase' /\ NotNested' /\ Mapped'
      BY <1>1, <3>1 DEF ProcInvariant, BootPhase, NotNested, Mapped
    <3>6. InCpu' /\ InFrame'
      BY <1>1, <3>1 DEF ProcInvariant, InCpu, InFrame, Resumes
    <3> QED
      BY <3>2, <3>3, <3>4, <3>5, <3>6 DEF ProcInvariant, TableParts
  <2> QED
    BY <1>1, <2>1, <2>2, <2>3, <2>4, <2>5 DEF Next
<1> QED
  BY <1>1, InitInvariant, PTL DEF Spec

\* Every variable of the scheduler keeps its type; in particular the frame
\* always lies on a kernel stack and pids stay inside proc_table.
THEOREM TypeCorrect == Spec => []TypeOK
<1>1. ProcInvariant => TypeOK
  BY DEF ProcInvariant
<1> QED
  BY <1>1, Inductive, PTL

\* Exactly the process PID names is RUNNING, for any number of processes and
\* whatever proc_table held before proc_init.
THEOREM RunningCorrect == Spec => []OneRunning
<1>1. ProcInvariant => OneRunning
  BY DEF ProcInvariant
<1> QED
  BY <1>1, Inductive, PTL

\* The count proc_next decrements is never zero, for all priorities that fit
\* pc_t.
THEOREM SlicesCorrect == Spec => []SlicesBounded
<1>1. ProcInvariant => SlicesBounded
  BY DEF ProcInvariant
<1> QED
  BY <1>1, Inductive, PTL

\* User code only ever sees its own stack page.
THEOREM IsolationCorrect == Spec => []StackIsolation
<1>1. ProcInvariant => StackIsolation
  <2> SUFFICES ASSUME ProcInvariant, ctl = "proc"
               PROVE  IF cpu.ring = 3 THEN page_dir = PID /\ Translation = PID
                                      ELSE PID = 0 /\ page_dir = NULL /\ tlb = NULL
    BY DEF StackIsolation
  <2>1. PID = 0 => cpu.ring = 0
    BY DEF ProcInvariant, InCpu, Resumes
  <2>2. PID # 0 => cpu.ring = 3
    BY DEF ProcInvariant, InCpu, Resumes
  <2>3. page_dir = (IF PID = 0 THEN NULL ELSE PID) /\ tlb \in {NULL, page_dir}
    BY DEF ProcInvariant, Mapped, Booting
  <2> QED
    BY <2>1, <2>2, <2>3 DEF Translation
<1> QED
  BY <1>1, Inductive, PTL

\* A process resumes with the context it was interrupted with, after any
\* number of switches.
THEOREM ContextCorrect == Spec => []ContextIntegrity
<1>1. ProcInvariant => ContextIntegrity
  BY DEF ProcInvariant, InCpu, Resumes, ContextIntegrity
<1> QED
  BY <1>1, Inductive, PTL

\* The scheduling queue is a list of all registered processes.
THEOREM QueueCorrect == Spec => []QueueIsList
<1>1. ASSUME ProcInvariant PROVE QueueIsList
  <2> SUFFICES ASSUME ctl # "init"
               PROVE  \E q \in [1 .. nreg + 1 -> Linked] :
            /\ q[1] = proc_queue_start /\ q[nreg + 1] = proc_queue_end
            /\ \A i \in 1 .. nreg : node_next[q[i]] = q[i + 1]
            /\ node_next[proc_queue_end] = NULL
            /\ \A i, j \in 1 .. nreg + 1 :
                    i # j => node_pid[q[i]] # node_pid[q[j]]
            /\ ctl # "wild" => node_pid[q[1]] = PID
    BY DEF QueueIsList
  <2> DEFINE s == proc_queue_start
             q == [i \in 1 .. nreg + 1 |->
                     IF s + i - 1 <= nreg THEN s + i - 1 ELSE s + i - 1 - (nreg + 1)]
  <2>1. /\ nreg \in Nat /\ Linked = 0 .. nreg
        /\ s \in Linked /\ proc_queue_end \in Linked
    BY <1>1, QueueRange
  <2>2. /\ s = Succ(proc_queue_end)
        /\ \A n \in Linked :
            node_next[n] = IF n = proc_queue_end THEN NULL ELSE Succ(n)
    BY <1>1 DEF ProcInvariant, QueueShape
  <2> HIDE DEF s
  <2>3. q \in [1 .. nreg + 1 -> Linked]
    BY <2>1
  <2>4. q[1] = s /\ q[nreg + 1] = proc_queue_end
    BY <2>1, <2>2 DEF Succ
  <2>5. \A i \in 1 .. nreg : node_next[q[i]] = q[i + 1]
    <3> TAKE i \in 1 .. nreg
    <3>1. proc_queue_end = IF s = 0 THEN nreg ELSE s - 1
      BY <2>1, <2>2 DEF Succ
    <3>2. q[i] \in Linked /\ q[i] # proc_queue_end
      BY <2>1, <3>1
    <3>3. Succ(q[i]) = q[i + 1]
      BY <2>1 DEF Succ
    <3> HIDE DEF q
    <3> QED
      BY <2>2, <3>2, <3>3
  <2>6. \A i, j \in 1 .. nreg + 1 : i # j => q[i] # q[j]
    BY <2>1
  <2> HIDE DEF q
  <2>7. \A i, j \in 1 .. nreg + 1 : i # j => node_pid[q[i]] # node_pid[q[j]]
    BY <1>1, <2>3, <2>6 DEF ProcInvariant, NodePids
  <2>8. ctl # "wild" => node_pid[q[1]] = PID
    BY <1>1, <2>4 DEF ProcInvariant, NodePids, s
  <2>9. node_next[proc_queue_end] = NULL
    BY <2>1, <2>2
  <2> QED
    BY <2>3, <2>4, <2>5, <2>7, <2>8, <2>9 DEF s
<1> QED
  BY <1>1, Inductive, PTL

-----------------------------------------------------------------------------
(* The refinement of RoundRobin, and the waiting of a process.              *)

\* Refills give every process in the queue what proc_init registered it with,
\* and the queue is empty until then.
QuotaKept ==
    /\ \A n \in Linked : priority[node_pid[n]] = Quotas[n]
    /\ ctl = "init" => proc_queue_start = NULL

\* The variables of RoundRobin, as Proc maps them.
Abstract == <<Members, Turn, TicksLeft>>

\* The pid that proc_register takes belongs to no node of the queue.
LEMMA FreshPid ==
    ASSUME ProcInvariant, NEW pid, NewPid(pid)
    PROVE  \A n \in Linked : node_pid[n] # pid
BY DEF NewPid, proc_pid_taken, ProcInvariant, Registered

\* Steps of the processor, of the APIC and of the handler outside proc_next,
\* which leave queue and process table alone.
Outside ==
    \/ NoPid \/ ProcLoop \/ TimerFire \/ IntEnter \/ TlbFill \/ UserStep \/ IdleStep
    \/ Exception \/ ProcStoreCtxt \/ ProcLoadCtxt \/ SendEoi \/ Iret \/ UNCHANGED vars

\* They change neither what the mapping reads nor whether proc_init has begun.
LEMMA OutsideFrame ==
    ASSUME ProcInvariant, Outside
    PROVE  /\ UNCHANGED <<nreg, exec_count, priority, proc_queue_start, node_pid>>
           /\ ctl = "init" <=> ctl' = "init"
<1>1. CASE NoPid \/ ProcLoop \/ TimerFire
  BY <1>1 DEF NoPid, ProcLoop, TimerFire
<1>2. CASE IntEnter
  <2>1. ctl' = "store" /\ cpu.ie = 1
    BY <1>2, IdtEntries DEF IntEnter
  <2>2. ctl # "init"
    BY <2>1 DEF ProcInvariant, NotNested
  <2> QED
    BY <1>2, <2>1, <2>2 DEF IntEnter
<1>3. CASE TlbFill \/ UserStep \/ IdleStep
  BY <1>3 DEF TlbFill, UserStep, IdleStep
<1>4. CASE Exception
  <2>1. ctl = "proc" /\ ctl' = "hung"
    BY <1>4, IdtEntries DEF Exception
  <2> QED
    BY <1>4, <2>1 DEF Exception
<1>5. CASE ProcStoreCtxt \/ ProcLoadCtxt \/ SendEoi \/ Iret
  BY <1>5 DEF ProcStoreCtxt, ProcLoadCtxt, SendEoi, Iret
<1>6. CASE UNCHANGED vars
  BY <1>6 DEF vars
<1> QED
  BY <1>1, <1>2, <1>3, <1>4, <1>5, <1>6 DEF Outside

\* So each of them is a stuttering step of the round robin scheduler.
LEMMA OutsideStep ==
    ASSUME ProcInvariant, QuotaKept, Outside
    PROVE  QuotaKept' /\ UNCHANGED Abstract
<1>1. /\ UNCHANGED <<nreg, exec_count, priority, proc_queue_start, node_pid>>
      /\ ctl = "init" <=> ctl' = "init"
  BY OutsideFrame
<1>2. Linked' = Linked
  BY <1>1 DEF Linked
<1> QED
  BY <1>1, <1>2 DEF QuotaKept, Quotas, Abstract, Members, Turn, TicksLeft

\* Initially nobody is a member.
LEMMA InitRefines == Init => RR!Init /\ QuotaKept
<1> SUFFICES ASSUME Init PROVE RR!Init /\ QuotaKept
  OBVIOUS
<1>1. ctl = "init" /\ proc_queue_start = NULL /\ Linked = {}
  BY DEF Init, Linked
<1>2. Nodes = 0 .. MaxNodes - 1
  BY DEF Nodes
<1> QED
  BY <1>1, <1>2 DEF RR!Init, QuotaKept, Members, Turn, TicksLeft, NULL

\* The number of nodes the queue can have.
LEMMA NodeCount == Len(Priorities) \in Nat /\ MaxNodes = Len(Priorities) + 1
BY PriorityAssumption DEF MaxNodes

\* A change of one member's ticks, seen as an update of the function.
LEMMA OneUpdate ==
    ASSUME NEW m \in Nodes, NEW x, TicksLeft'[m] = x,
           \A n \in Nodes : n # m => TicksLeft'[n] = TicksLeft[n]
    PROVE  TicksLeft' = [TicksLeft EXCEPT ![m] = x]
<1>1. TicksLeft = [n \in Nodes |-> TicksLeft[n]] /\ TicksLeft' = [n \in Nodes |-> TicksLeft'[n]]
  BY DEF TicksLeft
<1> QED
  BY <1>1

\* What one member has left.
LEMMA TicksOf ==
    ASSUME NEW n \in Nodes
    PROVE  /\ TicksLeft[n] = IF n \in Linked THEN exec_count[node_pid[n]] ELSE 0
           /\ TicksLeft'[n] = IF n \in Linked' THEN exec_count'[node_pid'[n]] ELSE 0
BY DEF TicksLeft

\* proc_queue_add(0) admits the idle loop.
LEMMA ProcInitRefines ==
    ASSUME ProcInvariant, QuotaKept, ProcInit
    PROVE  QuotaKept' /\ RR!Admit
<1>1. ctl = "init" /\ ctl' = "register" /\ nreg = 0 /\ nreg' = 0
  BY DEF ProcInit, ProcInvariant, BootPhase
<1>2. Linked = {} /\ Linked' = {0}
  BY <1>1 DEF Linked
<1>3. 0 \in Nodes /\ 0 \in Pids
  BY NodeCount, PidAssumption DEF Nodes, Pids
<1>4. /\ node_pid'[0] = 0 /\ exec_count'[0] = 1 /\ priority'[0] = KernelPriority
      /\ proc_queue_start = NULL /\ proc_queue_start' = 0
  <2>1. proc_queue_end = NULL
    BY <1>1 DEF ProcInvariant, BootPhase
  <2> QED
    BY <1>1, <1>3, <2>1 DEF ProcInit, proc_queue_add, ProcInvariant, TypeOK, QuotaKept
<1>5. QuotaKept'
  BY <1>1, <1>2, <1>3, <1>4 DEF QuotaKept, Quotas
<1>6. Members = 0 /\ Members' = 1 /\ Turn = 0 /\ Turn' = 0
  BY <1>1, <1>4 DEF Members, Turn, NULL
<1>7. TicksLeft' = [TicksLeft EXCEPT ![0] = 1]
  BY <1>2, <1>3, <1>4, TicksOf, OneUpdate
<1> QED
  BY <1>5, <1>6, <1>7, NodeCount DEF RR!Admit

\* proc_queue_add admits each further process with its priority as quota.
LEMMA ProcRegisterRefines ==
    ASSUME ProcInvariant, QuotaKept, ProcRegister
    PROVE  QuotaKept' /\ RR!Admit
<1> PICK pid \in Pids :
        /\ NewPid(pid)
        /\ exec_count' = [exec_count EXCEPT ![pid] = Priorities[nreg + 1]]
        /\ priority' = [priority EXCEPT ![pid] = Priorities[nreg + 1]]
        /\ proc_queue_add(pid, nreg + 1)
  BY DEF ProcRegister
<1>1. /\ ctl = "register" /\ ctl' = "register" /\ nreg < Len(Priorities)
      /\ nreg' = nreg + 1
  BY DEF ProcRegister
<1>2. /\ nreg \in Nat /\ Linked = 0 .. nreg /\ Linked \subseteq Nodes
      /\ \A n \in Linked : node_pid[n] \in Pids
  BY <1>1, QueueRange
<1>3. /\ Linked' = Linked \cup {nreg + 1} /\ nreg + 1 \in Nodes
      /\ nreg + 1 \notin Linked /\ nreg + 1 # 0
  BY <1>1, <1>2, NodeCount DEF Linked, Nodes
<1>4. \A n \in Linked : node_pid[n] # pid
  BY FreshPid
<1>5. /\ node_pid'[nreg + 1] = pid
      /\ \A n \in Linked : node_pid'[n] = node_pid[n]
  BY <1>2, <1>3 DEF proc_queue_add, ProcInvariant, TypeOK
<1>6. /\ exec_count'[pid] = Priorities[nreg + 1] /\ priority'[pid] = Priorities[nreg + 1]
      /\ \A p \in Pids : p # pid => exec_count'[p] = exec_count[p] /\ priority'[p] = priority[p]
  BY DEF ProcInvariant, TypeOK
<1>7. QuotaKept'
  <2>1. \A n \in Linked' : priority'[node_pid'[n]] = Quotas[n]
    <3>1. \A n \in Linked : priority'[node_pid'[n]] = Quotas[n]
      BY <1>2, <1>4, <1>5, <1>6 DEF QuotaKept
    <3>2. priority'[node_pid'[nreg + 1]] = Quotas[nreg + 1]
      BY <1>3, <1>5, <1>6 DEF Quotas
    <3> QED
      BY <1>3, <3>1, <3>2
  <2> QED
    BY <1>1, <2>1 DEF QuotaKept, Quotas
<1>8. proc_queue_start = 0 /\ proc_queue_start' = 0
  <2>1. proc_queue_start = 0 /\ proc_queue_end = nreg
    BY <1>1 DEF ProcInvariant, BootPhase
  <2> QED
    BY <1>2, <2>1 DEF proc_queue_add, NULL
<1>9. Members = nreg + 1 /\ Members' = nreg + 2 /\ Turn = 0 /\ Turn' = 0
  BY <1>1, <1>2, <1>8 DEF Members, Turn, NULL
<1>10. TicksLeft' = [TicksLeft EXCEPT ![nreg + 1] = Priorities[nreg + 1]]
  <2>1. TicksLeft'[nreg + 1] = Priorities[nreg + 1]
    BY <1>3, <1>5, <1>6, TicksOf
  <2>2. \A n \in Nodes : n # nreg + 1 => TicksLeft'[n] = TicksLeft[n]
    BY <1>2, <1>3, <1>4, <1>5, <1>6, TicksOf
  <2> QED
    BY <1>3, <2>1, <2>2, OneUpdate
<1> QED
  <2>1. Members < MaxNodes /\ Members' = Members + 1 /\ Members # 0
    BY <1>1, <1>2, <1>9, NodeCount
  <2>2. Quotas[Members] = Priorities[nreg + 1]
    BY <1>3, <1>9 DEF Quotas
  <2>3. TicksLeft' = [TicksLeft EXCEPT ![Members] = Quotas[Members]]
    BY <1>9, <1>10, <2>2
  <2> QED
    BY <1>7, <1>9, <2>1, <2>3 DEF RR!Admit

\* What the handler finds when it calls proc_next: everybody is admitted, and
\* the head of the queue, which runs, has the turn.
LEMMA TurnRuns ==
    ASSUME ProcInvariant, ctl = "next"
    PROVE  /\ Members = MaxNodes /\ Linked = Nodes /\ nreg = Len(Priorities)
           /\ Turn = proc_queue_start /\ Turn \in Nodes
           /\ PID \in Pids /\ node_pid[Turn] = PID
           /\ TicksLeft[Turn] = exec_count[PID]
           /\ exec_count[PID] \in 1 .. PC_MOD - 1
           /\ \A n \in Nodes : node_pid[n] \in Pids /\ (n # Turn => node_pid[n] # PID)
<1>1. nreg = Len(Priorities)
  BY DEF ProcInvariant, BootPhase, Booting
<1>2. /\ Linked = 0 .. nreg /\ proc_queue_start \in Linked
      /\ \A n \in Linked : node_pid[n] \in Pids
  BY QueueRange
<1>3. Members = MaxNodes /\ Linked = Nodes
  BY <1>1, <1>2, NodeCount DEF Members, Nodes
<1>4. Turn = proc_queue_start
  BY <1>2, NodeCount, <1>1 DEF Turn, NULL
<1>5. /\ node_pid[proc_queue_start] = PID
      /\ \A m, n \in Linked : node_pid[m] = node_pid[n] => m = n
  BY DEF ProcInvariant, NodePids
<1>6. exec_count[PID] \in 1 .. PC_MOD - 1
  BY <1>2, <1>5, CountAssumption DEF ProcInvariant, SlicesBounded, Priorities1
<1> QED
  BY <1>1, <1>2, <1>3, <1>4, <1>5, <1>6 DEF TicksLeft

\* A tick within the slice.
LEMMA SameProcessRefines ==
    ASSUME ProcInvariant, QuotaKept, SameProcess
    PROVE  QuotaKept' /\ RR!Tick
<1>1. /\ ctl = "next" /\ ctl' = "load" /\ Decremented # 0
      /\ exec_count' = [exec_count EXCEPT ![PID] = Decremented]
      /\ UNCHANGED <<nreg, priority, proc_queue_start, node_pid>>
  BY DEF SameProcess, SliceOver
<1>2. Linked' = Linked
  BY <1>1 DEF Linked
<1>3. QuotaKept'
  BY <1>1, <1>2 DEF QuotaKept, Quotas
<1>4. exec_count[PID] > 1 /\ Decremented = exec_count[PID] - 1
  BY <1>1, TurnRuns, CountAssumption DEF Decremented
<1>5. Members' = Members /\ Turn' = Turn
  BY <1>1 DEF Members, Turn
<1>6. /\ exec_count'[PID] = exec_count[PID] - 1
      /\ \A p \in Pids : p # PID => exec_count'[p] = exec_count[p]
  BY <1>1, <1>4, TurnRuns DEF ProcInvariant, TypeOK
<1>7. TicksLeft' = [TicksLeft EXCEPT ![Turn] = TicksLeft[Turn] - 1]
  <2>1. TicksLeft'[Turn] = TicksLeft[Turn] - 1
    BY <1>1, <1>2, <1>6, TurnRuns, TicksOf
  <2>2. \A n \in Nodes : n # Turn => TicksLeft'[n] = TicksLeft[n]
    BY <1>1, <1>2, <1>6, TurnRuns, TicksOf
  <2> QED
    BY <1>1, <2>1, <2>2, TurnRuns, OneUpdate
<1>8. Members = MaxNodes /\ TicksLeft[Turn] > 1
  BY <1>1, <1>4, TurnRuns
<1> QED
  BY <1>3, <1>5, <1>7, <1>8 DEF RR!Tick

\* The tick that ends the slice, whether or not the switch then follows an
\* uninitialised pointer.
LEMMA RotateRefines ==
    ASSUME ProcInvariant, QuotaKept, ctl = "next", ctl' # "init", SliceOver, RotateQueue,
           exec_count' = [exec_count EXCEPT ![PID] = Refilled],
           UNCHANGED <<nreg, priority>>
    PROVE  QuotaKept' /\ RR!Tick
<1>1. /\ proc_queue_start' = Succ(proc_queue_start)
      /\ UNCHANGED node_pid /\ Linked' = Linked
  BY RotateShape
<1>2. QuotaKept'
  BY <1>1 DEF QuotaKept, Quotas
<1>3. exec_count[PID] = 1
  BY TurnRuns, CountAssumption DEF SliceOver, Decremented
<1>4. Members = MaxNodes /\ Members' = Members /\ TicksLeft[Turn] = 1
  BY <1>3, TurnRuns DEF Members
<1>5. Turn' = (Turn + 1) % MaxNodes
  <2>1. Turn = proc_queue_start /\ Turn \in 0 .. nreg /\ nreg = MaxNodes - 1
    BY TurnRuns, NodeCount DEF Nodes
  <2>2. MaxNodes \in Nat /\ MaxNodes > 0
    BY NodeCount
  <2>3. Succ(Turn) = (Turn + 1) % MaxNodes
    <3>1. CASE Turn = nreg
      BY <2>1, <2>2, <3>1 DEF Succ
    <3>2. CASE Turn # nreg
      <4>1. Turn + 1 \in 0 .. MaxNodes - 1
        BY <2>1, <2>2, <3>2
      <4> QED
        BY <2>2, <3>2, <4>1 DEF Succ
    <3> QED
      BY <3>1, <3>2
  <2>4. Succ(Turn) # NULL
    BY <2>1, <2>2 DEF Succ, NULL
  <2> QED
    BY <1>1, <2>1, <2>3, <2>4 DEF Turn
<1>6. /\ exec_count'[PID] = priority[PID]
      /\ \A p \in Pids : p # PID => exec_count'[p] = exec_count[p]
  BY TurnRuns DEF ProcInvariant, TypeOK, Refilled
<1>7. priority[PID] = Quotas[Turn]
  BY TurnRuns DEF QuotaKept
<1>8. TicksLeft' = [TicksLeft EXCEPT ![Turn] = Quotas[Turn]]
  <2>1. TicksLeft'[Turn] = Quotas[Turn]
    BY <1>1, <1>6, <1>7, TurnRuns, TicksOf
  <2>2. \A n \in Nodes : n # Turn => TicksLeft'[n] = TicksLeft[n]
    BY <1>1, <1>6, TurnRuns, TicksOf
  <2> QED
    BY <2>1, <2>2, TurnRuns, OneUpdate
<1> QED
  BY <1>2, <1>4, <1>5, <1>8 DEF RR!Tick

-----------------------------------------------------------------------------

\* Every step keeps the quotas, and is a step of the scheduler or none.
LEMMA StepRefines ==
    ASSUME ProcInvariant, QuotaKept, [Next]_vars
    PROVE  QuotaKept' /\ [RR!Next]_RR!rrVars
<1>1. CASE Outside
  <2>1. QuotaKept' /\ UNCHANGED Abstract
    BY <1>1, OutsideStep
  <2> QED
    BY <2>1 DEF RR!rrVars, Abstract
<1>2. CASE ProcInit \/ ProcRegister
  BY <1>2, ProcInitRefines, ProcRegisterRefines DEF RR!Next
<1>3. CASE SameProcess
  BY <1>3, SameProcessRefines DEF RR!Next
<1>4. CASE SwitchProcess \/ WildSwitch
  <2>1. /\ ctl = "next" /\ ctl' # "init" /\ SliceOver /\ RotateQueue
        /\ exec_count' = [exec_count EXCEPT ![PID] = Refilled]
        /\ UNCHANGED <<nreg, priority>>
    BY <1>4 DEF SwitchProcess, WildSwitch
  <2> QED
    BY <2>1, RotateRefines DEF RR!Next
<1> QED
  BY <1>1, <1>2, <1>3, <1>4 DEF Next, Boot, Switch, Outside

\* So the quotas are kept for ever.
LEMMA QuotaInductive == Spec => []QuotaKept
BY InitRefines, StepRefines, Inductive, PTL DEF Spec

\* The queue that proc_queue_add builds and proc_next rotates implements the
\* round robin scheduler: members are admitted in order, and every call of
\* proc_next is one tick for the member whose turn it is.
THEOREM Refinement == Spec => ImplementsRoundRobin
BY InitRefines, StepRefines, Inductive, QuotaInductive, PTL
   DEF Spec, ImplementsRoundRobin, RR!Spec

-----------------------------------------------------------------------------
(* The waiting times of EveryTickCounts.                                   *)

\* The k-th node of the queue from its head, as the ring gives it.
RingAt(k) ==
    IF proc_queue_start + k - 1 < MaxNodes THEN proc_queue_start + k - 1
    ELSE proc_queue_start + k - 1 - MaxNodes

\* Walk follows its recursion, and leads round the ring.
LEMMA WalkRing ==
    ASSUME ProcInvariant, ctl \in {"next", "load"}
    PROVE  \A k \in 1 .. MaxNodes : Walk[k] = RingAt(k)
<1>1. /\ nreg = Len(Priorities) /\ nreg \in Nat /\ MaxNodes = nreg + 1
      /\ Linked = 0 .. nreg /\ proc_queue_start \in 0 .. nreg /\ proc_queue_end \in 0 .. nreg
  BY QueueRange, NodeCount DEF ProcInvariant, BootPhase, Booting
<1>2. /\ proc_queue_start = Succ(proc_queue_end)
      /\ \A n \in 0 .. nreg : node_next[n] = IF n = proc_queue_end THEN NULL ELSE Succ(n)
  BY <1>1 DEF ProcInvariant, QueueShape
<1>3. ASSUME NEW k \in 2 .. MaxNodes
      PROVE  RingAt(k - 1) # NULL /\ RingAt(k) = node_next[RingAt(k - 1)]
  <2>1. RingAt(k - 1) \in 0 .. nreg /\ RingAt(k - 1) # proc_queue_end
    BY <1>1, <1>2 DEF RingAt, Succ
  <2>2. node_next[RingAt(k - 1)] = Succ(RingAt(k - 1))
    BY <1>2, <2>1
  <2>3. RingAt(k) = Succ(RingAt(k - 1))
    <3>1. RingAt(k) = IF proc_queue_start + k - 1 <= nreg THEN proc_queue_start + k - 1
                      ELSE proc_queue_start + k - nreg - 2
      BY <1>1 DEF RingAt
    <3>2. RingAt(k - 1) = IF proc_queue_start + k - 2 <= nreg THEN proc_queue_start + k - 2
                          ELSE proc_queue_start + k - nreg - 3
      BY <1>1 DEF RingAt
    <3>3. k \in 2 .. nreg + 1
      BY <1>1
    <3> QED
      BY <1>1, <3>1, <3>2, <3>3 DEF Succ
  <2> QED
    BY <1>1, <2>1, <2>2, <2>3 DEF NULL
<1>4. RingAt(1) = proc_queue_start
  BY <1>1 DEF RingAt
<1> DEFINE Step(g, k) == IF k = 1 THEN proc_queue_start
                         ELSE IF g[k - 1] = NULL THEN NULL ELSE node_next[g[k - 1]]
           W == [k \in 1 .. MaxNodes |-> RingAt(k)]
<1>5. W = [k \in 1 .. MaxNodes |-> Step(W, k)]
  <2> SUFFICES ASSUME NEW k \in 1 .. MaxNodes PROVE RingAt(k) = Step(W, k)
    OBVIOUS
  <2>1. CASE k = 1
    BY <1>4, <2>1
  <2>2. CASE k # 1
    <3>1. k \in 2 .. MaxNodes /\ k - 1 \in 1 .. MaxNodes
      BY <1>1, <2>2
    <3>2. W[k - 1] = RingAt(k - 1)
      BY <3>1
    <3> QED
      BY <1>3, <2>2, <3>1, <3>2
  <2> QED
    BY <2>1, <2>2
<1>6. Walk = [k \in 1 .. MaxNodes |-> Step(Walk, k)]
  <2> HIDE DEF W
  <2> QED
    BY <1>5 DEF Walk
<1>7. Walk[1] = RingAt(1)
  BY <1>1, <1>4, <1>6
<1>8. ASSUME NEW k \in 1 .. MaxNodes - 1, Walk[k] = RingAt(k)
      PROVE  Walk[k + 1] = RingAt(k + 1)
  <2>1. k + 1 \in 2 .. MaxNodes /\ k + 1 \in 1 .. MaxNodes /\ (k + 1) - 1 = k /\ k + 1 # 1
    BY <1>1
  <2>2. Walk[k + 1] = Step(Walk, k + 1)
    BY <1>6, <2>1
  <2> QED
    BY <1>3, <1>8, <2>1, <2>2
<1> DEFINE S == {k \in 1 .. MaxNodes : Walk[k] = RingAt(k)}
<1>9. 1 \in S /\ \A k \in 1 .. MaxNodes - 1 : k \in S => k + 1 \in S
  BY <1>1, <1>7, <1>8
<1>10. \A k \in 1 .. MaxNodes : k \in S
  <2> HIDE DEF S
  <2>1. 1 \in Int /\ MaxNodes \in Int
      BY <1>1
  <2> QED
    BY <1>9, <2>1, Induct
<1> QED
  BY <1>10

\* The nodes of the ring: each is at one place, and has ticks left.
LEMMA RingNodes ==
    ASSUME ProcInvariant, ctl \in {"next", "load"}
    PROVE  /\ MaxNodes \in Nat /\ MaxNodes > 0 /\ Linked = 0 .. MaxNodes - 1
           /\ proc_queue_start \in 0 .. MaxNodes - 1
           /\ \A k \in 1 .. MaxNodes : RingAt(k) \in 0 .. MaxNodes - 1
           /\ \A j, k \in 1 .. MaxNodes : RingAt(j) = RingAt(k) => j = k
           /\ \A n \in 0 .. MaxNodes - 1 : \E k \in 1 .. MaxNodes : n = RingAt(k)
           /\ \A n \in 0 .. MaxNodes - 1 :
                TicksLeft[n] = exec_count[node_pid[n]] /\ TicksLeft[n] \in Int
<1>1. /\ nreg = Len(Priorities) /\ nreg \in Nat /\ MaxNodes = nreg + 1
      /\ Linked = 0 .. nreg /\ proc_queue_start \in 0 .. nreg
      /\ \A n \in Linked : node_pid[n] \in Pids
  BY QueueRange, NodeCount DEF ProcInvariant, BootPhase, Booting
<1>2. \A k \in 1 .. MaxNodes : RingAt(k) \in 0 .. MaxNodes - 1
  BY <1>1 DEF RingAt
<1>3. \A j, k \in 1 .. MaxNodes : RingAt(j) = RingAt(k) => j = k
  BY <1>1 DEF RingAt
<1>4. ASSUME NEW n \in 0 .. MaxNodes - 1
      PROVE  \E k \in 1 .. MaxNodes : n = RingAt(k)
  <2>1. CASE n >= proc_queue_start
    <3>1. n - proc_queue_start + 1 \in 1 .. MaxNodes /\ n = RingAt(n - proc_queue_start + 1)
      BY <1>1, <2>1 DEF RingAt
    <3> QED
      BY <3>1
  <2>2. CASE n < proc_queue_start
    <3>1. /\ n - proc_queue_start + 1 + MaxNodes \in 1 .. MaxNodes
          /\ n = RingAt(n - proc_queue_start + 1 + MaxNodes)
      BY <1>1, <2>2 DEF RingAt
    <3> QED
      BY <3>1
  <2> QED
    BY <1>1, <2>1, <2>2
<1>5. ASSUME NEW n \in 0 .. MaxNodes - 1
      PROVE  TicksLeft[n] = exec_count[node_pid[n]] /\ TicksLeft[n] \in Int
  <2>1. n \in Nodes /\ n \in Linked
    BY <1>1 DEF Nodes
  <2>2. exec_count \in [Pids -> 0 .. PC_MOD - 1]
    BY DEF ProcInvariant, TypeOK
  <2>3. exec_count[node_pid[n]] \in Int
    BY <1>1, <2>1, <2>2, CountAssumption
  <2> QED
    BY <2>1, <2>3 DEF TicksLeft
<1> QED
  BY <1>1, <1>2, <1>3, <1>4, <1>5

\* WaitAt follows its recursion: the ticks of the nodes before are added up.
LEMMA WaitSum ==
    ASSUME ProcInvariant, ctl \in {"next", "load"}
    PROVE  /\ WaitAt[1] = 0
           /\ \A k \in 1 .. MaxNodes : WaitAt[k] \in Int
           /\ \A k \in 1 .. MaxNodes - 1 : WaitAt[k + 1] = WaitAt[k] + TicksLeft[RingAt(k)]
<1>1. /\ MaxNodes \in Nat /\ MaxNodes > 0
      /\ \A k \in 1 .. MaxNodes : RingAt(k) \in 0 .. MaxNodes - 1
      /\ \A n \in 0 .. MaxNodes - 1 :
            TicksLeft[n] = exec_count[node_pid[n]] /\ TicksLeft[n] \in Int
  BY RingNodes
<1>2. \A k \in 1 .. MaxNodes :
        exec_count[node_pid[Walk[k]]] = TicksLeft[RingAt(k)] /\ TicksLeft[RingAt(k)] \in Int
  BY <1>1, WalkRing
<1> DEFINE Step(g, k) == IF k = 1 THEN 0 ELSE g[k - 1] + exec_count[node_pid[Walk[k - 1]]]
           D == [k \in 1 .. MaxNodes - 1 |-> [v \in Int |-> v + TicksLeft[RingAt(k)]]]
<1>3. D \in [1 .. MaxNodes - 1 -> [Int -> Int]]
  <2> SUFFICES ASSUME NEW k \in 1 .. MaxNodes - 1, NEW v \in Int
               PROVE  v + TicksLeft[RingAt(k)] \in Int
    OBVIOUS
  <2>1. k \in 1 .. MaxNodes
    BY <1>1
  <2> QED
    BY <1>2, <2>1
<1>4. PICK f : Recursion(f, 1, MaxNodes, Int, 0, D)
  <2>1. D \in RecursionSteps(1, MaxNodes, Int)
    BY <1>3 DEF RecursionSteps
  <2>2. MaxNodes \in Int /\ 1 <= MaxNodes
    BY <1>1
  <2> HIDE DEF D
  <2> QED
    BY <2>1, <2>2, PrimRec
<1>5. ASSUME NEW k \in 1 .. MaxNodes - 1
      PROVE  f[k + 1] = f[k] + exec_count[node_pid[Walk[k]]]
  <2>1. k \in 1 .. MaxNodes /\ f[k] \in Int
    BY <1>1, <1>4 DEF Recursion
  <2>2. f[k + 1] = f[k] + TicksLeft[RingAt(k)]
    BY <1>4, <2>1 DEF Recursion
  <2> QED
    BY <1>2, <2>1, <2>2
<1>6. f = [k \in 1 .. MaxNodes |-> Step(f, k)]
  <2> SUFFICES ASSUME NEW k \in 1 .. MaxNodes PROVE f[k] = Step(f, k)
    BY <1>4 DEF Recursion
  <2>1. CASE k = 1
    BY <1>4, <2>1 DEF Recursion
  <2>2. CASE k # 1
    <3>1. k - 1 \in 1 .. MaxNodes - 1 /\ (k - 1) + 1 = k
      BY <1>1, <2>2
    <3> QED
      BY <1>5, <2>2, <3>1
  <2> QED
    BY <2>1, <2>2
<1>7. WaitAt = [k \in 1 .. MaxNodes |-> Step(WaitAt, k)]
  BY <1>6 DEF WaitAt
<1>8. WaitAt[1] = 0
  BY <1>1, <1>7
<1>9. ASSUME NEW k \in 1 .. MaxNodes - 1
      PROVE  WaitAt[k + 1] = WaitAt[k] + TicksLeft[RingAt(k)]
  <2>1. k + 1 \in 1 .. MaxNodes /\ k + 1 # 1 /\ (k + 1) - 1 = k /\ k \in 1 .. MaxNodes
    BY <1>1
  <2>2. WaitAt[k + 1] = Step(WaitAt, k + 1)
    BY <1>7, <2>1
  <2> QED
    BY <1>2, <2>1, <2>2
<1> DEFINE S == {k \in 1 .. MaxNodes : WaitAt[k] \in Int}
<1>10. 1 \in S /\ \A k \in 1 .. MaxNodes - 1 : k \in S => k + 1 \in S
  <2>1. 1 \in S
    BY <1>1, <1>8
  <2>2. ASSUME NEW k \in 1 .. MaxNodes - 1, WaitAt[k] \in Int PROVE k + 1 \in S
    <3>1. k \in 1 .. MaxNodes /\ k + 1 \in 1 .. MaxNodes
      BY <1>1
    <3>2. WaitAt[k + 1] \in Int
      BY <1>2, <1>9, <2>2, <3>1
    <3> QED
      BY <3>1, <3>2
  <2> QED
    BY <2>1, <2>2
<1>11. \A k \in 1 .. MaxNodes : k \in S
  <2> HIDE DEF S
  <2>1. 1 \in Int /\ MaxNodes \in Int
    BY <1>1
  <2> QED
    BY <1>10, <2>1, Induct
<1> QED
  BY <1>8, <1>9, <1>11

\* The waiting time of the k-th node of the queue.
LEMMA WaitOf ==
    ASSUME ProcInvariant, ctl \in {"next", "load"}, NEW k \in 1 .. MaxNodes
    PROVE  Wait(RingAt(k)) = WaitAt[k]
<1>1. \A j \in 1 .. MaxNodes : Walk[j] = RingAt(k) <=> j = k
  BY WalkRing, RingNodes
<1>2. (CHOOSE j \in 1 .. MaxNodes : Walk[j] = RingAt(k)) = k
  BY <1>1
<1> QED
  BY <1>2 DEF Wait

\* What is known about the waiting times while the handler runs.
WaitFacts ==
    /\ WaitAt[1] = 0
    /\ \A k \in 1 .. MaxNodes : WaitAt[k] \in Int /\ Wait(RingAt(k)) = WaitAt[k]
    /\ \A k \in 1 .. MaxNodes - 1 : WaitAt[k + 1] = WaitAt[k] + TicksLeft[RingAt(k)]

\* The handler is about to call proc_next, or has just called it.
AtNext == ProcInvariant /\ ctl \in {"next", "load"}

\* They hold before a call of proc_next.
LEMMA WaitCorrect == AtNext => WaitFacts
BY WaitSum, WaitOf DEF WaitFacts, AtNext

\* They hold after it.
LEMMA WaitCorrectNext == AtNext' => WaitFacts'
BY WaitCorrect, PTL

\* Every waiting process is one tick closer to the processor.
Closer == \A n \in Linked : n # proc_queue_start => Wait(n)' = Wait(n) - 1

\* A tick within the slice: the queue stays, its head has one tick less.
LEMMA SameCounts ==
    ASSUME ProcInvariant, ProcInvariant', ctl = "next", ctl' = "load",
           proc_queue_start' = proc_queue_start,
           TicksLeft' = [TicksLeft EXCEPT ![proc_queue_start] = TicksLeft[proc_queue_start] - 1]
    PROVE  Closer
<1>1. /\ MaxNodes \in Nat /\ MaxNodes > 0 /\ Linked = 0 .. MaxNodes - 1
      /\ proc_queue_start \in 0 .. MaxNodes - 1
      /\ \A k \in 1 .. MaxNodes : RingAt(k) \in 0 .. MaxNodes - 1
      /\ \A j, k \in 1 .. MaxNodes : RingAt(j) = RingAt(k) => j = k
      /\ \A n \in 0 .. MaxNodes - 1 : \E k \in 1 .. MaxNodes : n = RingAt(k)
      /\ \A n \in 0 .. MaxNodes - 1 : TicksLeft[n] \in Int
  BY RingNodes
<1>2. /\ WaitAt[1] = 0
      /\ \A k \in 1 .. MaxNodes : WaitAt[k] \in Int /\ Wait(RingAt(k)) = WaitAt[k]
      /\ \A k \in 1 .. MaxNodes - 1 : WaitAt[k + 1] = WaitAt[k] + TicksLeft[RingAt(k)]
  BY WaitCorrect DEF WaitFacts, AtNext
<1>3. \A k \in 1 .. MaxNodes : RingAt(k)' = RingAt(k)
  BY DEF RingAt
<1>4. /\ WaitAt'[1] = 0
      /\ \A k \in 1 .. MaxNodes : WaitAt'[k] \in Int /\ Wait(RingAt(k))' = WaitAt'[k]
      /\ \A k \in 1 .. MaxNodes - 1 : WaitAt'[k + 1] = WaitAt'[k] + TicksLeft'[RingAt(k)]
  <2>1. /\ WaitAt'[1] = 0
        /\ \A k \in 1 .. MaxNodes : WaitAt'[k] \in Int /\ Wait(RingAt(k))' = WaitAt'[k]
        /\ \A k \in 1 .. MaxNodes - 1 : WaitAt'[k + 1] = WaitAt'[k] + TicksLeft'[RingAt(k)']
    BY WaitCorrectNext DEF WaitFacts, AtNext
  <2>2. \A k \in 1 .. MaxNodes - 1 : k \in 1 .. MaxNodes
    BY <1>1
  <2>3. \A k \in 1 .. MaxNodes - 1 : TicksLeft'[RingAt(k)'] = TicksLeft'[RingAt(k)]
    BY <1>3, <2>2
  <2> QED
    BY <2>1, <2>3
<1>5. RingAt(1) = proc_queue_start
  BY <1>1 DEF RingAt
<1>6. DOMAIN TicksLeft = 0 .. MaxNodes - 1
  BY DEF TicksLeft, Nodes
<1> DEFINE S == {k \in 2 .. MaxNodes : WaitAt'[k] = WaitAt[k] - 1}
<1>7. ASSUME 2 <= MaxNodes PROVE 2 \in S
  <2>1. 1 \in 1 .. MaxNodes - 1 /\ 2 \in 2 .. MaxNodes /\ 1 + 1 = 2
    BY <1>1, <1>7
  <2>2. WaitAt[2] = TicksLeft[proc_queue_start] /\ WaitAt'[2] = TicksLeft'[proc_queue_start]
    BY <1>1, <1>2, <1>4, <1>5, <2>1
  <2>3. TicksLeft'[proc_queue_start] = TicksLeft[proc_queue_start] - 1
    BY <1>1, <1>6
  <2> QED
    BY <2>1, <2>2, <2>3
<1>8. ASSUME NEW k \in 2 .. MaxNodes - 1, k \in S PROVE k + 1 \in S
  <2>1. k \in 1 .. MaxNodes /\ k \in 1 .. MaxNodes - 1 /\ k + 1 \in 2 .. MaxNodes /\ 1 \in 1 .. MaxNodes
    BY <1>1
  <2>2. RingAt(k) # proc_queue_start
    BY <1>1, <1>5, <2>1
  <2>3. TicksLeft'[RingAt(k)] = TicksLeft[RingAt(k)] /\ TicksLeft[RingAt(k)] \in Int
    BY <1>1, <1>6, <2>1, <2>2
  <2>4. WaitAt'[k] = WaitAt[k] - 1
    BY <1>8
  <2> HIDE DEF S
  <2>5. WaitAt'[k + 1] = WaitAt[k + 1] - 1
    BY <1>2, <1>4, <2>1, <2>3, <2>4
  <2> QED
    BY <2>1, <2>5 DEF S
<1>9. ASSUME NEW k \in 2 .. MaxNodes PROVE WaitAt'[k] = WaitAt[k] - 1
  <2>1. 2 <= MaxNodes /\ MaxNodes \in Int
    BY <1>1
  <2>2. k \in S
    <3> HIDE DEF S
    <3> QED
      BY <1>7, <1>8, <2>1, Induct
  <2> QED
    BY <2>2
<1> SUFFICES ASSUME NEW n \in Linked, n # proc_queue_start PROVE Wait(n)' = Wait(n) - 1
  BY DEF Closer
<1>10. PICK k \in 1 .. MaxNodes : n = RingAt(k)
  BY <1>1
<1>11. k \in 2 .. MaxNodes
  BY <1>1, <1>5, <1>10
<1>12. Wait(n) = WaitAt[k]
  BY <1>2, <1>10
<1>13. Wait(n)' = WaitAt'[k]
  <2>1. Wait(RingAt(k))' = WaitAt'[k]
    BY <1>4
  <2>2. n = RingAt(k)'
    BY <1>3, <1>10
  <2> QED
    BY <2>1, <2>2
<1> QED
  BY <1>9, <1>11, <1>12, <1>13

\* The tick that ends the slice: every node moves up by one place, and the
\* head, refilled, goes to the last one.
LEMMA RotateCounts ==
    ASSUME ProcInvariant, ProcInvariant', ctl = "next", ctl' = "load",
           proc_queue_start' = Succ(proc_queue_start),
           TicksLeft[proc_queue_start] = 1,
           \A n \in Nodes : n # proc_queue_start => TicksLeft'[n] = TicksLeft[n]
    PROVE  Closer
<1>1. /\ MaxNodes \in Nat /\ MaxNodes > 0 /\ Linked = 0 .. MaxNodes - 1
      /\ proc_queue_start \in 0 .. MaxNodes - 1
      /\ \A k \in 1 .. MaxNodes : RingAt(k) \in 0 .. MaxNodes - 1
      /\ \A j, k \in 1 .. MaxNodes : RingAt(j) = RingAt(k) => j = k
      /\ \A n \in 0 .. MaxNodes - 1 : \E k \in 1 .. MaxNodes : n = RingAt(k)
      /\ \A n \in 0 .. MaxNodes - 1 : TicksLeft[n] \in Int
  BY RingNodes
<1>2. /\ WaitAt[1] = 0
      /\ \A k \in 1 .. MaxNodes : WaitAt[k] \in Int /\ Wait(RingAt(k)) = WaitAt[k]
      /\ \A k \in 1 .. MaxNodes - 1 : WaitAt[k + 1] = WaitAt[k] + TicksLeft[RingAt(k)]
  BY WaitCorrect DEF WaitFacts, AtNext
<1>3. \A k \in 1 .. MaxNodes - 1 : RingAt(k)' = RingAt(k + 1)
  <2>1. proc_queue_start' = IF proc_queue_start = MaxNodes - 1 THEN 0 ELSE proc_queue_start + 1
    BY <1>1, TurnRuns, NodeCount DEF Succ
  <2> QED
    BY <1>1, <2>1 DEF RingAt
<1>4. /\ WaitAt'[1] = 0
      /\ \A k \in 1 .. MaxNodes : WaitAt'[k] \in Int
      /\ \A k \in 1 .. MaxNodes - 1 : Wait(RingAt(k))' = WaitAt'[k]
      /\ \A k \in 1 .. MaxNodes - 2 : WaitAt'[k + 1] = WaitAt'[k] + TicksLeft'[RingAt(k + 1)]
  <2>1. /\ WaitAt'[1] = 0
        /\ \A k \in 1 .. MaxNodes : WaitAt'[k] \in Int /\ Wait(RingAt(k))' = WaitAt'[k]
        /\ \A k \in 1 .. MaxNodes - 1 : WaitAt'[k + 1] = WaitAt'[k] + TicksLeft'[RingAt(k)']
    BY WaitCorrectNext DEF WaitFacts, AtNext
  <2>2. ASSUME NEW k \in 1 .. MaxNodes - 1 PROVE Wait(RingAt(k))' = WaitAt'[k]
    <3>1. k \in 1 .. MaxNodes
      BY <1>1
    <3> QED
      BY <2>1, <3>1
  <2>3. ASSUME NEW k \in 1 .. MaxNodes - 2
        PROVE  WaitAt'[k + 1] = WaitAt'[k] + TicksLeft'[RingAt(k + 1)]
    <3>1. k \in 1 .. MaxNodes - 1
      BY <1>1
    <3> QED
      BY <1>3, <2>1, <3>1
  <2> QED
    BY <2>1, <2>2, <2>3
<1>5. RingAt(1) = proc_queue_start
  BY <1>1 DEF RingAt
<1> DEFINE S == {k \in 1 .. MaxNodes - 1 : WaitAt'[k] = WaitAt[k + 1] - 1}
<1>6. ASSUME 2 <= MaxNodes PROVE 1 \in S
  <2>1. 1 \in 1 .. MaxNodes - 1 /\ 1 + 1 = 2
    BY <1>1, <1>6
  <2>2. WaitAt[1 + 1] = 1
    BY <1>2, <1>5, <2>1
  <2> QED
    BY <1>4, <2>1, <2>2
<1>7. ASSUME NEW k \in 1 .. (MaxNodes - 1) - 1, k \in S PROVE k + 1 \in S
  <2>1. /\ k \in 1 .. MaxNodes - 2 /\ k + 1 \in 1 .. MaxNodes - 1 /\ k + 1 \in 1 .. MaxNodes
        /\ k \in 1 .. MaxNodes /\ (k + 1) + 1 \in 1 .. MaxNodes /\ 1 \in 1 .. MaxNodes /\ k + 1 # 1
    BY <1>1
  <2>2. RingAt(k + 1) \in Nodes /\ RingAt(k + 1) # proc_queue_start
    BY <1>1, <1>5, <2>1 DEF Nodes
  <2>3. TicksLeft'[RingAt(k + 1)] = TicksLeft[RingAt(k + 1)] /\ TicksLeft[RingAt(k + 1)] \in Int
    BY <1>1, <2>1, <2>2
  <2>4. WaitAt'[k] = WaitAt[k + 1] - 1
    BY <1>7
  <2>5. WaitAt'[k + 1] = WaitAt'[k] + TicksLeft[RingAt(k + 1)]
    BY <1>4, <2>1, <2>3
  <2>6. WaitAt[(k + 1) + 1] = WaitAt[k + 1] + TicksLeft[RingAt(k + 1)]
    BY <1>2, <2>1
  <2>7. WaitAt'[k + 1] = WaitAt[(k + 1) + 1] - 1
    BY <1>2, <2>1, <2>3, <2>4, <2>5, <2>6
  <2> QED
    BY <2>1, <2>7
<1>8. ASSUME NEW k \in 1 .. MaxNodes - 1 PROVE WaitAt'[k] = WaitAt[k + 1] - 1
  <2>1. 2 <= MaxNodes /\ MaxNodes - 1 \in Int
    BY <1>1
  <2>2. k \in S
    <3> HIDE DEF S
    <3> QED
      BY <1>6, <1>7, <2>1, Induct
  <2> QED
    BY <2>2
<1> SUFFICES ASSUME NEW n \in Linked, n # proc_queue_start PROVE Wait(n)' = Wait(n) - 1
  BY DEF Closer
<1>9. PICK j \in 1 .. MaxNodes : n = RingAt(j)
  BY <1>1
<1>10. j - 1 \in 1 .. MaxNodes - 1 /\ (j - 1) + 1 = j
  BY <1>1, <1>5, <1>9
<1>11. Wait(n)' = WaitAt'[j - 1]
  <2>1. Wait(RingAt(j - 1))' = WaitAt'[j - 1]
    BY <1>4, <1>10
  <2>2. n = RingAt(j - 1)'
    BY <1>3, <1>9, <1>10
  <2> QED
    BY <2>1, <2>2
<1>12. WaitAt'[j - 1] = WaitAt[j] - 1
  BY <1>8, <1>10
<1> QED
  BY <1>2, <1>9, <1>11, <1>12

\* The steps that proc_next takes on a sound queue.
LEMMA NextCounts ==
    ASSUME ProcInvariant, ProcInvariant', QuotaKept, Next, ctl = "next", ctl' = "load"
    PROVE  Closer
<1>1. CASE SameProcess
  <2>1. RR!Tick /\ TicksLeft[Turn] > 1
    <3>1. Decremented # 0
      BY <1>1 DEF SameProcess, SliceOver
    <3> QED
      BY <1>1, <3>1, SameProcessRefines, TurnRuns, CountAssumption DEF Decremented
  <2>2. Turn = proc_queue_start
    BY TurnRuns
  <2>3. TicksLeft' = [TicksLeft EXCEPT ![proc_queue_start] = TicksLeft[proc_queue_start] - 1]
    BY <2>1, <2>2 DEF RR!Tick
  <2>4. proc_queue_start' = proc_queue_start
    BY <1>1 DEF SameProcess
  <2> QED
    BY <2>3, <2>4, SameCounts
<1>2. CASE SwitchProcess
  <2>1. /\ SliceOver /\ RotateQueue /\ UNCHANGED <<nreg, priority>>
        /\ exec_count' = [exec_count EXCEPT ![PID] = Refilled]
    BY <1>2 DEF SwitchProcess
  <2>2. RR!Tick
    BY <2>1, RotateRefines
  <2>3. Turn = proc_queue_start /\ TicksLeft[Turn] = 1
    BY <2>1, TurnRuns, CountAssumption DEF SliceOver, Decremented
  <2>4. \A n \in Nodes : n # proc_queue_start => TicksLeft'[n] = TicksLeft[n]
    <3>1. DOMAIN TicksLeft = Nodes
      BY DEF TicksLeft
    <3>2. TicksLeft' = [TicksLeft EXCEPT ![proc_queue_start] = Quotas[proc_queue_start]]
      BY <2>2, <2>3 DEF RR!Tick
    <3> QED
      BY <3>1, <3>2
  <2>5. proc_queue_start' = Succ(proc_queue_start)
    BY <2>1, RotateShape
  <2> QED
    BY <2>3, <2>4, <2>5, RotateCounts
<1> QED
  <2>1. SameProcess \/ SwitchProcess
    BY IdtEntries DEF Next, Boot, Switch, ProcInit, ProcRegister, NoPid, ProcLoop, TimerFire, IntEnter,
       TlbFill, UserStep, IdleStep, Exception, ProcStoreCtxt, WildSwitch, ProcLoadCtxt, SendEoi, Iret
  <2> QED
    BY <1>1, <1>2, <2>1

\* Every call of proc_next that returns brings each waiting process one tick
\* closer to the processor, however the queue has been rotated.
THEOREM TicksCorrect == Spec => EveryTickCounts
<1>1. ASSUME ProcInvariant, ProcInvariant', QuotaKept, [Next]_vars
      PROVE  [ctl = "next" /\ ctl' = "load" =>
                \A n \in Linked : n # proc_queue_start => Wait(n)' = Wait(n) - 1]_vars
  BY <1>1, NextCounts DEF Closer
<1> QED
  BY <1>1, Inductive, QuotaInductive, PTL DEF Spec, EveryTickCounts

=============================================================================
