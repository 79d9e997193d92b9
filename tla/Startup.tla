------------------------------ MODULE Startup -------------------------------
(***************************************************************************)
(* The kernel from its entry to its first process (_start in kernel.asm,   *)
(* cstart, protect_init, interrupt_init, flyanx_main, keyboard_init and    *)
(* restart in src/kernel/), behind the boot program of Boot.tla.           *)
(*                                                                         *)
(* The processor's own registers are variables of their own: it does not   *)
(* see a table before lgdt, lidt or ltr has told it, and a line that is    *)
(* not masked may interrupt between any two steps while ifFlag is set.     *)
(*                                                                         *)
(* Processes have their logic numbers, from -NrTasks.                      *)
(***************************************************************************)
EXTENDS Boot, Segments, Integers

CONSTANTS
    NrTasks, NrProcs,   \* slots for tasks and for other processes
    Handlers,           \* the address of the stub for each vector
    At,                 \* where gdt, idt, tss, proc_table (with the distance
                        \* of its entries), sys_proc_stack and the code of
                        \* the tasks lie
    LoaderMagic,        \* BOOT_PARAM_MAGIC in load.inc
    KernelMagic,        \* ... and in config.h
    NoTable,            \* the register still holds what the BIOS left
    None, ANY, Wild     \* as in Ipc.tla

CLOCK_TASK == -3
IDLE_TASK  == -2
HARDWARE   == -1
LOW_USER   == -1

SysNrs == -NrTasks..LOW_USER
ProcNrs == -NrTasks..NrProcs - 1

GateVectors == ExceptionVectors \cup {IrqVector(i) : i \in 0..15}
               \cup {Level0Vector, SysCallVector}

ASSUME StartupAssumption ==
    /\ NrTasks = 3 /\ NrProcs \in Nat \ {0}
    /\ DOMAIN Handlers = GateVectors

VARIABLES
    at,          \* where the kernel is
    cpu,         \* gdtr, idtr, tr and ldtr
    ifFlag,
    ptrs,        \* gdt_ptr and idt_ptr
    gdt, idt,    \* idt as far as written: the rest is zero
    tss,         \* ss0 and esp0
    bootParams,  \* the double words at 0x700
    masked,      \* mask bits of the two 8259As
    irqHandler,  \* irq_handler_table: "default" or whose it is
    served,      \* the handlers that interrupts have reached so far
    table,       \* proc_table
    nr, stackTop,  \* logic_nr and sys_proc_stack_base of flyanx_main
    ready        \* ready_head ..., curr_proc and bill_proc

startVars == <<at, cpu, ifFlag, ptrs, gdt, idt, tss, bootParams, masked,
               irqHandler, served, table, nr, stackTop, ready>>

\* What only some of the phases change.
tables  == <<gdt, idt, tss>>
devices == <<ifFlag, masked, irqHandler, served>>
procs   == <<table, nr, stackTop, ready>>

SMALL_STACK == 128 * 4
TOTAL_SYS_PROC_STACK == 2 * SMALL_STACK

sys_proc_table == [p \in SysNrs |->
    CASE p = CLOCK_TASK ->
           [eip |-> At.clockTask, stack |-> SMALL_STACK, name |-> "CLOCK"]
      [] p = IDLE_TASK ->
           [eip |-> At.idleTask, stack |-> SMALL_STACK, name |-> "IDLE"]
      [] p = HARDWARE -> [eip |-> 0, stack |-> 0, name |-> "HARDWARE"]]

\* IF and IOPL 1.
INIT_TASK_PSW == 4610

LdtSize == 2
GdtSize == Index.ldtFirst + NrTasks + NrProcs
IdtSize == 255
StackframeBytes == 18 * 4
LdtOffset == StackframeBytes + 4
TssBytes == 26 * 4

ProcAddr(p) == At.proc + (p + NrTasks) * At.procBytes

\* Where things lie can be said in 32 bits.
IsAddress(a) == a \in Nat /\ a \div 65536 < 65536

ASSUME LayoutAssumption ==
    /\ \A v \in GateVectors : IsAddress(Handlers[v])
    /\ IsAddress(At.tss)
    /\ At.proc \in Nat /\ At.procBytes \in Nat
    /\ At.procBytes >= LdtOffset + LdtSize * DescriptorSize
    /\ IsAddress(ProcAddr(NrProcs))
    /\ At.stack \in Nat

D == INSTANCE Dispatch WITH
        Tasks <- SysNrs, Servers <- {}, Users <- {}, Free <- 0..NrProcs - 1,
        Idle <- IDLE_TASK, Hardware <- HARDWARE

-----------------------------------------------------------------------------
(* Into the kernel.                                                        *)

\* The loader's table, built by its assembler.
LoaderGdt == [i \in 0..3 |->
    CASE i = 0 -> NoDescriptor
      [] i = Index.text -> SegmentDesc(0, 1048575, Attr.d + Attr.cr + Attr.g)
      [] i = Index.data -> SegmentDesc(0, 1048575, Attr.d + Attr.rw + Attr.g)
      [] i = Index.video ->
           SegmentDesc(753664, 1048575, Attr.rw + (Privilege.user * 32))]

\* The last thing the loader does.
SaveBootParams ==
    /\ place = "entered" /\ at = "loader"
    /\ at' = "start"
    /\ bootParams' = <<LoaderMagic, memSize, Base("KERNEL")>>
    /\ UNCHANGED <<cpu, ptrs, tables, devices, procs>>

\* _start: sgdt
Start ==
    /\ at = "start"
    /\ ptrs' = [ptrs EXCEPT !.gdt = cpu.gdtr]
    /\ at' = "gdt"
    /\ UNCHANGED <<cpu, bootParams, tables, devices, procs>>

-----------------------------------------------------------------------------
(* protect_init.                                                           *)

CopyGdt ==
    /\ at = "gdt"
    /\ gdt' = Overwritten(gdt, Covered(LoaderGdt, ptrs.gdt.limit))
    /\ ptrs' = [gdt |-> [base |-> At.gdt, limit |-> GdtSize * DescriptorSize - 1],
                idt |-> [base |-> At.idt, limit |-> IdtSize * DescriptorSize - 1]]
    /\ at' = "gates"
    /\ UNCHANGED <<cpu, idt, tss, bootParams, devices, procs>>

\* Slip: every gate may be used by everybody.
GatePrivilegeOpen(v) == Privilege.user

\* int_gate_table
GatePrivilege(v) == IF v = SysCallVector THEN Privilege.user
                    ELSE IF v = Level0Vector THEN Privilege.task
                    ELSE Privilege.kernel

InitGates ==
    /\ at = "gates"
    /\ idt' = [v \in GateVectors |-> Gate(Handlers[v], GatePrivilege(v))]
    /\ at' = "tss"
    /\ UNCHANGED <<cpu, ptrs, gdt, tss, bootParams, devices, procs>>

InitTss ==
    /\ at = "tss"
    /\ tss' = [ss0 |-> SELECTOR_KERNEL_DS, esp0 |-> 0, iobase |-> TssBytes]
    /\ gdt' = [gdt EXCEPT ![Index.tss] = SegmentDesc(At.tss, TssBytes - 1, Attr.tss)]
    /\ at' = "ldts"
    /\ UNCHANGED <<cpu, ptrs, idt, bootParams, devices, procs>>

\* What memset leaves in an entry of the process table.
ZeroRegs == [cs |-> 0, ds |-> 0, ss |-> 0, gs |-> 0, eip |-> 0, esp |-> 0,
             eflags |-> 0]
ZeroProc == [regs |-> ZeroRegs, ldtSel |-> 0,
             ldt |-> [i \in 0..LdtSize - 1 |-> NoDescriptor],
             flags |-> 0, priority |-> 0, name |-> "", logicNr |-> 0]

LdtSlot(p) == Index.ldtFirst + p + NrTasks

LdtDesc(p) == SegmentDesc(ProcAddr(p) + LdtOffset,
                          LdtSize * DescriptorSize - 1, Attr.ldt)

InitLdts ==
    /\ at = "ldts"
    /\ table' = [p \in ProcNrs |->
                    [ZeroProc EXCEPT !.ldtSel = LdtSlot(p) * DescriptorSize]]
    /\ gdt' = Overwritten(gdt,
                  [i \in {LdtSlot(p) : p \in ProcNrs} |->
                      LdtDesc(i - LdtSlot(-NrTasks) - NrTasks)])
    /\ at' = "pic"
    /\ UNCHANGED <<cpu, ptrs, idt, tss, bootParams, devices, nr, stackTop, ready>>

-----------------------------------------------------------------------------
(* interrupt_init and the rest of cstart and _start.                       *)

\* Slip: the line of the clock is left open.
AllLinesButClock == 1..15

AllLines == 0..15

\* Ends in sti.
InterruptInit ==
    /\ at = "pic"
    /\ masked' = AllLines
    /\ irqHandler' = [i \in 0..15 |-> "default"]
    /\ ifFlag' = TRUE
    /\ at' = "magic"
    /\ UNCHANGED <<cpu, ptrs, bootParams, tables, served, procs>>

\* Slip: the magic number is looked for where boot_params begins.
CheckMagicBehind ==
    /\ at = "magic"
    /\ at' = IF bootParams[2] = KernelMagic THEN "lgdt" ELSE "hung"
    /\ UNCHANGED <<cpu, ptrs, bootParams, tables, devices, procs>>

CheckMagic ==
    /\ at = "magic"
    /\ at' = IF bootParams[1] = KernelMagic THEN "lgdt" ELSE "hung"
    /\ UNCHANGED <<cpu, ptrs, bootParams, tables, devices, procs>>

LoadGdt ==
    /\ at = "lgdt"
    /\ cpu' = [cpu EXCEPT !.gdtr = ptrs.gdt]
    /\ at' = "lidt"
    /\ UNCHANGED <<ptrs, bootParams, tables, devices, procs>>

LoadIdt ==
    /\ at = "lidt"
    /\ cpu' = [cpu EXCEPT !.idtr = ptrs.idt]
    /\ at' = "ltr"
    /\ UNCHANGED <<ptrs, bootParams, tables, devices, procs>>

LoadTr ==
    /\ at = "ltr"
    /\ cpu' = [cpu EXCEPT !.tr = SELECTOR_TSS]
    /\ at' = "slots"
    /\ UNCHANGED <<ptrs, bootParams, tables, devices, procs>>

-----------------------------------------------------------------------------
(* flyanx_main.                                                            *)

InitSlots ==
    /\ at = "slots"
    /\ table' = [p \in ProcNrs |->
                    [table[p] EXCEPT !.logicNr = p,
                                     !.name = IF p > 0 THEN "unused" ELSE @]]
    /\ nr' = -NrTasks
    /\ stackTop' = At.stack
    /\ at' = "procs"
    /\ UNCHANGED <<cpu, ptrs, bootParams, tables, devices, ready>>

\* Slip: the local descriptors are the kernel's, privilege and all.
LocalDescKernel(index, kind, privilege) == gdt[index]

\* gdt[TEXT_INDEX] or gdt[DATA_INDEX] with the access of the process.
LocalDesc(index, kind, privilege) ==
    [gdt[index] EXCEPT !.access = kind + (privilege * 32)]

FilledProc(p, sp, top) ==
    LET rpl == Privilege.task IN
    [table[p] EXCEPT
        !.name = sp.name,
        !.priority = 1,
        !.ldt = [i \in 0..LdtSize - 1 |->
                    IF i = LdtIndex.cs THEN LocalDesc(Index.text, Attr.cr, rpl)
                    ELSE LocalDesc(Index.data, Attr.rw, rpl)],
        !.regs = [cs |-> Selector(LdtIndex.cs, Local, rpl),
                  ds |-> Selector(LdtIndex.ds, Local, rpl),
                  ss |-> Selector(LdtIndex.ds, Local, rpl),
                  gs |-> WithRpl(SELECTOR_KERNEL_GS, rpl),
                  eip |-> sp.eip, esp |-> top, eflags |-> INIT_TASK_PSW],
        !.flags = 0]

\* Slip: the placeholder for the hardware is made ready as well.
IsIdleHardwareIdle(p) == p = IDLE_TASK

IsIdleHardware(p) == p \in {IDLE_TASK, HARDWARE}

\* One turn of the second loop.
InitSysProc ==
    LET sp == sys_proc_table[nr] IN
    /\ at = "procs"
    /\ stackTop' = stackTop + sp.stack
    /\ table' = [table EXCEPT ![nr] = FilledProc(nr, sp, stackTop')]
    /\ ready' = IF IsIdleHardware(nr) THEN ready ELSE D!Ready(ready, nr)
    /\ nr' = nr + 1
    /\ at' = IF nr' > LOW_USER THEN "hunter" ELSE at
    /\ UNCHANGED <<cpu, ptrs, bootParams, tables, devices>>

LockHunter ==
    /\ at = "hunter"
    /\ ready' = D!Hunter(ready)
    /\ at' = "keyboard"
    /\ UNCHANGED <<cpu, ptrs, bootParams, tables, devices, table, nr, stackTop>>

\* keyboard_init: put_irq_handler, which takes the place of the default
\* handler only, ...
PutIrqHandler ==
    /\ at = "keyboard"
    /\ irqHandler' = [irqHandler EXCEPT ![1] =
                        IF @ = "default" THEN "keyboard" ELSE @]
    /\ at' = "enable"
    /\ UNCHANGED <<cpu, ptrs, bootParams, tables, ifFlag, masked, served, procs>>

\* ... and enable_irq.
EnableKeyboard ==
    /\ at = "enable"
    /\ masked' = masked \ {1}
    /\ at' = "restart"
    /\ UNCHANGED <<cpu, ptrs, bootParams, tables, ifFlag, irqHandler, served, procs>>

-----------------------------------------------------------------------------
(* The processor (external).                                               *)

\* An interrupt finds its gate, and the gate the kernel's code.
GateFound(v) ==
    /\ cpu.idtr = [base |-> At.idt, limit |-> IdtSize * DescriptorSize - 1]
    /\ cpu.gdtr.base = At.gdt
    /\ v \in DOMAIN Covered(idt, cpu.idtr.limit)
    /\ Present(idt[v].attr)
    /\ Flat(Designated(gdt, <<>>, idt[v].selector))

\* An unmasked line: its handler runs and returns, or, with nothing to
\* enter, the processor resets.
Interrupt(i) ==
    /\ ifFlag /\ i \notin masked
    /\ at \notin {"running", "reset", "hung"}
    /\ IF GateFound(IrqVector(i))
       THEN served' = served \cup {irqHandler[i]} /\ UNCHANGED at
       ELSE at' = "reset" /\ UNCHANGED served
    /\ UNCHANGED <<cpu, ptrs, bootParams, tables, ifFlag, masked, irqHandler, procs>>

\* lldt reads the local table where its descriptor says it is.
TableAt(sel) ==
    LET d == Designated(Covered(gdt, cpu.gdtr.limit), <<>>, sel) IN
    IF \E p \in ProcNrs : BaseOf(d) = ProcAddr(p) + LdtOffset
    THEN LET p == CHOOSE p \in ProcNrs : BaseOf(d) = ProcAddr(p) + LdtOffset
         IN  Covered(table[p].ldt, LimitOf(d))
    ELSE <<>>

\* iretd to a code segment of kind cr and a stack of kind rw, both of the
\* privilege that the selector in cs asks for.
Resumable(p) ==
    LET r == table[p].regs
        d(sel) == Designated(gdt, TableAt(table[p].ldtSel), sel)
    IN  /\ Present(d(r.cs).access) /\ Kind(d(r.cs).access) = LowBits(Attr.cr, 5)
        /\ Dpl(d(r.cs).access) = Rpl(r.cs)
        /\ Rpl(r.ss) = Rpl(r.cs) /\ Dpl(d(r.ss).access) = Rpl(r.cs)
        /\ \A sel \in {r.ss, r.ds, r.gs} :
             /\ Present(d(sel).access) /\ Kind(d(sel).access) = LowBits(Attr.rw, 5)
             /\ Dpl(d(sel).access) >= Rpl(sel)
        /\ \A sel \in {r.cs, r.ss, r.ds} : Flat(d(sel))

\* restart: lldt, tss.esp0, and the return to the current process.
Restart ==
    /\ at = "restart"
    /\ cpu' = [cpu EXCEPT !.ldtr = table[ready.curr].ldtSel]
    /\ tss' = [tss EXCEPT !.esp0 = ProcAddr(ready.curr) + StackframeBytes]
    /\ at' = IF Resumable(ready.curr) THEN "running" ELSE "reset"
    /\ UNCHANGED <<ptrs, bootParams, gdt, idt, devices, procs>>

-----------------------------------------------------------------------------
StartInit ==
    /\ at = "loader"
    /\ cpu = [gdtr |-> [base |-> At.loaderGdt, limit |-> 4 * DescriptorSize - 1],
              idtr |-> NoTable, tr |-> NoTable, ldtr |-> NoTable]
    /\ ifFlag = FALSE          \* since the loader's cli
    /\ ptrs = [gdt |-> NoTable, idt |-> NoTable]
    /\ gdt = [i \in 0..GdtSize - 1 |-> NoDescriptor]
    /\ idt = <<>>
    /\ tss = [ss0 |-> 0, esp0 |-> 0, iobase |-> 0]
    /\ bootParams = <<0, 0, 0>>
    /\ masked = {}             \* at worst
    /\ irqHandler = [i \in 0..15 |-> "none"]
    /\ served = {}
    /\ table = [p \in ProcNrs |-> ZeroProc]
    /\ nr = 0 /\ stackTop = 0
    /\ ready = [queue |-> [c \in D!Classes |-> <<>>], curr |-> None, bill |-> None]

StartStep ==
    \/ SaveBootParams \/ Start
    \/ CopyGdt \/ InitGates \/ InitTss \/ InitLdts
    \/ InterruptInit \/ CheckMagic \/ LoadGdt \/ LoadIdt \/ LoadTr
    \/ InitSlots \/ InitSysProc \/ LockHunter
    \/ PutIrqHandler \/ EnableKeyboard \/ Restart

KernelStep == StartStep \/ \E i \in 0..15 : Interrupt(i)

\* jmp $, hlt, or the first process.
Settled ==
    \/ Ended /\ place # "entered"
    \/ at \in {"running", "reset", "hung"}

Init == BootInit /\ StartInit

Next ==
    \/ BootStep /\ UNCHANGED startVars
    \/ KernelStep /\ UNCHANGED bootVars
    \/ Settled /\ UNCHANGED <<bootVars, startVars>>

\* One program runs, and interrupts return.  The BIOS returns as well: a
\* sector that can be read is read after finitely many tries.
Spec == /\ Init /\ [][Next]_<<bootVars, startVars>>
        /\ WF_bootVars(BootStep /\ UNCHANGED startVars)
        /\ WF_startVars(StartStep /\ UNCHANGED bootVars)

-----------------------------------------------------------------------------
KernelTypeOK ==
    /\ BootTypeOK
    /\ gdt \in [0..GdtSize - 1 -> SegDescriptor]
    /\ \A v \in DOMAIN idt : v < IdtSize /\ idt[v] \in GateType
    /\ \A p \in ProcNrs : table[p].ldt \in [0..LdtSize - 1 -> SegDescriptor]
    /\ masked \subseteq 0..15

\* Interrupts are enabled long before lidt and before any driver is there:
\* none arrives that finds no gate, or no handler but the default one.
InterruptsFindHandlers == at # "reset" /\ served \subseteq {"keyboard"}

\* Once protect_init is done, ltr finds the task state and lldt the local
\* table of the process it is for, each exactly as long as it is; no two
\* writers of the gdt get into each other's way.
SelectorsReach ==
    at \notin {"loader", "start", "gdt", "gates", "tss", "ldts"} =>
        LET d(sel) == Designated(Covered(gdt, ptrs.gdt.limit), <<>>, sel) IN
        /\ BaseOf(d(SELECTOR_TSS)) = At.tss
        /\ LimitOf(d(SELECTOR_TSS)) = TssBytes - 1
        /\ \A p \in ProcNrs :
             /\ BaseOf(d(table[p].ldtSel)) = ProcAddr(p) + LdtOffset
             /\ LimitOf(d(table[p].ldtSel)) = LdtSize * DescriptorSize - 1

\* Each vector leads to the stub written for it, a process enters the kernel
\* by the vectors its privilege entitles it to (users by system calls only),
\* and what it enters on is the kernel's stack segment.
GatesGuarded ==
    at = "running" =>
        /\ \A v \in GateVectors : GateFound(v) /\ EntryOf(idt[v]) = Handlers[v]
        /\ \A v \in 0..255 : \A cpl \in {Privilege.task, Privilege.user} :
             (GateFound(v) /\ cpl <= Dpl(idt[v].attr)) =>
                \/ v = SysCallVector
                \/ v = Level0Vector /\ cpl = Privilege.task
        /\ Flat(Designated(gdt, <<>>, tss.ss0))

\* The bytes below the stack pointer that are meant for a task.
Stack(p) == table[p].regs.esp - sys_proc_table[p].stack..table[p].regs.esp - 1

\* Each task could be resumed, with a stack of its own inside
\* sys_proc_stack, I/O allowed and interrupts on.
TasksResumable ==
    /\ SelectorsReach
    /\ at \in {"restart", "running"} =>
        \A p \in SysNrs \ {HARDWARE} :
            /\ Resumable(p)
            /\ ShiftRight(table[p].regs.eflags, 9) % 2 = 1
            /\ LowBits(ShiftRight(table[p].regs.eflags, 12), 2) >= Rpl(table[p].regs.cs)
            /\ Stack(p) \subseteq At.stack..At.stack + TOTAL_SYS_PROC_STACK - 1
            /\ \A q \in SysNrs \ {HARDWARE, p} : Stack(p) \cap Stack(q) = {}

\* Message passing starts where Ipc says it does: nobody is blocked, the
\* clock is ready and current.
I == INSTANCE Ipc WITH
        Tasks <- SysNrs, Servers <- {}, Users <- {}, Free <- 0..NrProcs - 1,
        Idle <- IDLE_TASK, Hardware <- HARDWARE,
        SysServers <- {}, IntTasks <- {CLOCK_TASK},
        BootQueue <- [task |-> <<CLOCK_TASK>>, server |-> <<>>, user |-> <<>>],
        up <- at # "reset",
        kernel <-
            [queue |-> ready.queue, curr |-> ready.curr, bill |-> ready.bill,
             sendTo  |-> [p \in ProcNrs |-> IF table[p].flags = 0 THEN None ELSE p],
             getForm |-> [p \in ProcNrs |-> IF table[p].flags = 0 THEN None ELSE p],
             waiters |-> [p \in ProcNrs |-> <<>>],
             msg     |-> [p \in ProcNrs |-> None],
             intBlocked |-> [p \in ProcNrs |-> FALSE]]

HandsOver == at = "running" => I!Init

\* Every chain of clusters, every root directory and every map is gone
\* through, and a kernel that is entered reaches its first process.
KernelRuns == <>Settled /\ ((place = "entered") ~> (at = "running"))
=============================================================================
