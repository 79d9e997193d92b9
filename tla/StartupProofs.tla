---------------------------- MODULE StartupProofs ----------------------------
(***************************************************************************)
(* Theorems about the start of the kernel, for every layout of its tables, *)
(* all handlers and any number of free slots: no interrupt finds a table   *)
(* that is not there, every gate leads where it should, each task can be   *)
(* resumed on a stack of its own, and what is handed over is an initial    *)
(* state of Ipc.                                                           *)
(*                                                                         *)
(* Then about the loader before it, for every floppy, every memory map and *)
(* every kernel that is linked: files are read whole and in order, keep to *)
(* the space for them, the kernel is copied to where it is linked, and the *)
(* page tables map all memory that the BIOS has reported.                  *)
(***************************************************************************)
EXTENDS Startup, TLAPS

-----------------------------------------------------------------------------
(* Descriptors and gates are read as they were written.                    *)

\* protect.c:135: base and limit.
LEMMA DescriptorRead ==
    ASSUME NEW base, IsAddress(base),
           NEW limit \in Nat, limit < 1048576, NEW attr \in Nat
    PROVE  /\ BaseOf(SegmentDesc(base, limit, attr)) = base
           /\ LimitOf(SegmentDesc(base, limit, attr)) = limit
  <1> DEFINE d == SegmentDesc(base, limit, attr)
  <1>1. base \in Nat /\ base < 65536 * 65536
    BY SMT DEF IsAddress
  <1>2. /\ d.baseLow = base % 65536
        /\ d.baseMiddle = (base \div 65536) % 256
        /\ d.baseHigh = (base \div 16777216) % 256
        /\ d.limitLow = limit % 65536
        /\ d.granularity = ((limit \div 65536) % 16) + ((attr \div 4096) * 16)
    BY SMT DEF SegmentDesc, LowBits, ShiftRight
  <1> HIDE DEF d
  <1>3. BaseOf(d) = base
    BY SMT, <1>1, <1>2 DEF BaseOf
  <1>4. LimitOf(d) = limit
    <2>1. limit \div 65536 \in 0..15 /\ attr \div 4096 \in Nat
      BY SMT
    <2>2. d.granularity % 16 = limit \div 65536
      BY SMT, <1>2, <2>1
    <2>3. LowBits(d.granularity, 4) = d.granularity % 16
      BY SMT DEF LowBits
    <2> QED
      BY SMT, <1>2, <2>2, <2>3 DEF LimitOf
  <1> QED
    BY SMT, <1>3, <1>4 DEF d

\* protect.c:60: the handler, the privilege and the presence of a gate.
LEMMA GateRead ==
    ASSUME NEW handler, IsAddress(handler), NEW privilege \in 0..3
    PROVE  LET g == Gate(handler, privilege) IN
           /\ EntryOf(g) = handler
           /\ Dpl(g.attr) = privilege
           /\ Present(g.attr)
           /\ g.selector = 8
  <1>1. handler \in Nat /\ handler < 65536 * 65536
    BY SMT DEF IsAddress
  <1>2. Attr.intGate + (privilege * 32) = 142 + privilege * 32
    BY SMT DEF Attr
  <1>3. EntryOf(Gate(handler, privilege)) = handler
    BY SMT, <1>1 DEF Gate, EntryOf, LowBits, ShiftRight
  <1>4. /\ Dpl(142 + privilege * 32) = privilege
        /\ Present(142 + privilege * 32)
    BY SMT DEF Dpl, Present, LowBits, ShiftRight
  <1>5. SELECTOR_KERNEL_CS = 8
    BY SMT DEF SELECTOR_KERNEL_CS, Selector, Index, DescriptorSize, Privilege
  <1> QED
    BY SMT, <1>2, <1>3, <1>4, <1>5 DEF Gate

\* A selector of the gdt designates the entry with its index.
LEMMA GlobalSelector ==
    ASSUME NEW i \in Nat, NEW rpl \in 0..3
    PROVE  /\ ~IsLocal(i * 8 + rpl)
           /\ IndexOf(i * 8 + rpl) = i
           /\ Rpl(i * 8 + rpl) = rpl
  BY SMT DEF IsLocal, IndexOf, Rpl, LowBits, ShiftRight

\* The segments of the loader's table, with the access of a privilege.
LEMMA KernelSegments ==
    /\ Flat(LoaderGdt[1]) /\ Flat(LoaderGdt[2])
    /\ Present(LoaderGdt[3].access) /\ Kind(LoaderGdt[3].access) = 18
    /\ Dpl(LoaderGdt[3].access) = 3
    /\ Flat([LoaderGdt[1] EXCEPT !.access = 186])
    /\ Flat([LoaderGdt[2] EXCEPT !.access = 178])
  <1>1. LoaderGdt[1] = [limitLow |-> 65535, baseLow |-> 0, baseMiddle |-> 0,
                        access |-> 154, granularity |-> 207, baseHigh |-> 0]
    BY SMT DEF LoaderGdt, Index, SegmentDesc, LowBits, ShiftRight, Attr
  <1>2. LoaderGdt[2] = [limitLow |-> 65535, baseLow |-> 0, baseMiddle |-> 0,
                        access |-> 146, granularity |-> 207, baseHigh |-> 0]
    BY SMT DEF LoaderGdt, Index, SegmentDesc, LowBits, ShiftRight, Attr
  <1>3. LoaderGdt[3].access = 242
    BY SMT DEF LoaderGdt, Index, SegmentDesc, LowBits, ShiftRight, Attr,
               Privilege
  <1>4. Present(242) /\ Kind(242) = 18 /\ Dpl(242) = 3
    BY SMT DEF Present, Kind, Dpl, LowBits, ShiftRight
  <1> QED
    BY SMT, <1>1, <1>2, <1>3, <1>4 DEF Flat, BaseOf, LimitOf, LowBits

-----------------------------------------------------------------------------
(* Where the kernel is, from the end back to its entry.                    *)

KeyboardOpen == {"restart", "running"}
HandlerThere == KeyboardOpen \cup {"enable"}
Filled       == HandlerThere \cup {"hunter", "keyboard"}
IdtLoaded    == Filled \cup {"ltr", "slots", "procs"}
GdtLoaded    == IdtLoaded \cup {"lidt"}
Enabled      == GdtLoaded \cup {"magic", "lgdt", "hung"}
LdtsDone     == Enabled \cup {"pic"}
TssDone      == LdtsDone \cup {"ldts"}
GatesDone    == TssDone \cup {"tss"}
GdtThere     == GatesDone \cup {"gates"}
Places       == GdtThere \cup {"loader", "start", "gdt"}

-----------------------------------------------------------------------------
(* What it has written when it is there.                                   *)

Empty == [i \in 0..GdtSize - 1 |-> NoDescriptor]

GdtCopied == [i \in 0..GdtSize - 1 |->
                 IF i < 4 THEN LoaderGdt[i] ELSE NoDescriptor]

GdtWithTss == [i \in 0..GdtSize - 1 |->
                  IF i = Index.tss
                  THEN SegmentDesc(At.tss, TssBytes - 1, Attr.tss)
                  ELSE GdtCopied[i]]

GdtDone == [i \in 0..GdtSize - 1 |->
               IF i >= Index.ldtFirst THEN LdtDesc(i - Index.ldtFirst - NrTasks)
               ELSE GdtWithTss[i]]

Gates == [v \in GateVectors |-> Gate(Handlers[v], GatePrivilege(v))]

GdtPtr == [base |-> At.gdt, limit |-> GdtSize * DescriptorSize - 1]
IdtPtr == [base |-> At.idt, limit |-> IdtSize * DescriptorSize - 1]

LoaderLimit == 4 * DescriptorSize - 1

\* The tables of the kernel.
TablesInv ==
    /\ at \in {"loader", "start"} => cpu.gdtr.limit = LoaderLimit
    /\ at = "gdt" => ptrs.gdt.limit = LoaderLimit
    /\ at \in GdtThere => ptrs = [gdt |-> GdtPtr, idt |-> IdtPtr]
    /\ at \in Places \ GdtThere => gdt = Empty
    /\ at \in {"gates", "tss"} => gdt = GdtCopied
    /\ at = "ldts" => gdt = GdtWithTss
    /\ at \in LdtsDone => gdt = GdtDone
    /\ at \in GatesDone => idt = Gates
    /\ at \in TssDone => tss.ss0 = SELECTOR_KERNEL_DS
    /\ tss = [ss0 |-> tss.ss0, esp0 |-> tss.esp0, iobase |-> tss.iobase]
    /\ ptrs = [gdt |-> ptrs.gdt, idt |-> ptrs.idt]

\* What the processor knows of them.
CpuInv ==
    /\ cpu = [gdtr |-> cpu.gdtr, idtr |-> cpu.idtr, tr |-> cpu.tr,
              ldtr |-> cpu.ldtr]
    /\ at \in GdtLoaded => cpu.gdtr = GdtPtr
    /\ at \in IdtLoaded => cpu.idtr = IdtPtr

\* No line is open before its driver is there, and interrupts are off before
\* all lines are masked.
LinesInv ==
    /\ ifFlag \in BOOLEAN
    /\ ifFlag => at \in Enabled
    /\ at \in Enabled \ KeyboardOpen => masked = AllLines
    /\ at \in KeyboardOpen => masked = AllLines \ {1}
    /\ at \in Enabled \ HandlerThere =>
         irqHandler = [i \in 0..15 |-> "default"]
    /\ at \in HandlerThere => irqHandler[1] = "keyboard"
    /\ served \subseteq {"keyboard"}

\* An entry of the process table.
EntryShape(t) == {"regs", "ldtSel", "ldt", "flags"} \subseteq DOMAIN t

\* The registers of a system process, of which the stack is its own.
RegsOf(p, esp) ==
    [cs |-> 5, ds |-> 13, ss |-> 13, gs |-> 25,
     eip |-> sys_proc_table[p].eip, esp |-> esp, eflags |-> INIT_TASK_PSW]

LocalTable ==
    [i \in 0..LdtSize - 1 |->
        IF i = LdtIndex.cs THEN [LoaderGdt[1] EXCEPT !.access = 186]
        ELSE [LoaderGdt[2] EXCEPT !.access = 178]]

\* Where the stack of a system process begins: at its end.
StackEnd(p) == IF p = CLOCK_TASK THEN At.stack + SMALL_STACK
               ELSE At.stack + 2 * SMALL_STACK

Prepared(p) ==
    /\ table[p].regs = RegsOf(p, StackEnd(p))
    /\ table[p].ldt = LocalTable

\* The queues: nobody, or the clock.
NobodyReady ==
    [queue |-> [c \in D!Classes |-> <<>>], curr |-> None, bill |-> None]

ClockReady ==
    [queue |-> [c \in D!Classes |-> IF c = "task" THEN <<CLOCK_TASK>> ELSE <<>>],
     curr |-> CLOCK_TASK, bill |-> None]

\* What flyanx_main has done when `n' is the next of its second loop.
ProcsFrom(n) ==
    /\ \A p \in SysNrs : p < n => Prepared(p)
    /\ stackTop = IF n = CLOCK_TASK THEN At.stack ELSE StackEnd(n - 1)
    /\ ready = IF n = CLOCK_TASK THEN NobodyReady ELSE ClockReady

\* The process table and the queues.
ProcsInv ==
    /\ at \in LdtsDone =>
         /\ table = [p \in ProcNrs |-> table[p]]
         /\ \A p \in ProcNrs : /\ EntryShape(table[p])
                               /\ table[p].ldtSel = LdtSlot(p) * DescriptorSize
                               /\ table[p].flags = 0
    /\ at \notin Filled \cup {"procs"} => ready = NobodyReady
    /\ at = "procs" => nr \in SysNrs /\ ProcsFrom(nr)
    /\ at \in Filled => ProcsFrom(0)

StartInv == at \in Places /\ TablesInv /\ CpuInv /\ LinesInv /\ ProcsInv

-----------------------------------------------------------------------------
(* What the processor finds.                                               *)

\* The sizes of the tables.
LEMMA Sizes ==
    /\ NrTasks = 3 /\ NrProcs \in Nat \ {0}
    /\ GdtSize = 8 + NrProcs /\ DescriptorSize = 8 /\ LdtSize = 2
    /\ SysNrs = {-3, -2, -1} /\ ProcNrs = -3..NrProcs - 1
    /\ SysNrs \subseteq ProcNrs
    /\ LoaderLimit = 31 /\ GdtPtr.limit = GdtSize * 8 - 1
    /\ IdtPtr.limit = 2039
    /\ Index.text = 1 /\ Index.data = 2 /\ Index.tss = 4
    /\ Index.ldtFirst = 5 /\ LdtIndex.cs = 0 /\ LdtIndex.ds = 1
    /\ LdtOffset = 76
  BY SMT, StartupAssumption
  DEF GdtSize, LdtOffset, StackframeBytes, Index, LdtIndex, LdtSize, DescriptorSize, SysNrs, ProcNrs,
      LOW_USER, LoaderLimit, GdtPtr, IdtPtr, IdtSize

\* All gates are inside the table.
LEMMA VectorRange ==
    ASSUME NEW v \in GateVectors
    PROVE  v \in Nat /\ v <= 148 /\ GatePrivilege(v) \in 0..3
  <1>1. v \in Nat /\ v <= 148
    BY SMT DEF GateVectors, ExceptionVectors, IrqVector, Level0Vector,
               SysCallVector
  <1>2. GatePrivilege(v) \in 0..3
    BY SMT DEF GatePrivilege, Privilege
  <1> QED
    BY SMT, <1>1, <1>2

\* Once the kernel's segments are copied, they are where the loader had them.
LEMMA SegmentsThere ==
    ASSUME at \in Places, TablesInv, at \in GdtThere
    PROVE  /\ DOMAIN gdt = 0..GdtSize - 1
           /\ gdt[1] = LoaderGdt[1] /\ gdt[2] = LoaderGdt[2]
           /\ gdt[3] = LoaderGdt[3]
  <1>1. 1 \in 0..GdtSize - 1 /\ 2 \in 0..GdtSize - 1 /\ 3 \in 0..GdtSize - 1
    BY SMT, Sizes
  <1>2. gdt \in {GdtCopied, GdtWithTss, GdtDone}
    BY SMT DEF TablesInv, GdtThere, GatesDone, TssDone, LdtsDone
  <1> QED
    BY SMT, <1>1, <1>2, Sizes DEF GdtCopied, GdtWithTss, GdtDone

\* Once lidt is executed, each gate of the table is found.
LEMMA GatesFound ==
    ASSUME TablesInv, CpuInv, at \in IdtLoaded, NEW v \in GateVectors
    PROVE  /\ GateFound(v)
           /\ EntryOf(idt[v]) = Handlers[v]
           /\ Dpl(idt[v].attr) = GatePrivilege(v)
  <1>1. /\ at \in Places /\ at \in GdtThere /\ at \in GatesDone
        /\ at \in GdtLoaded
    BY SMT DEF Places, GdtThere, GatesDone, TssDone, LdtsDone, Enabled,
               GdtLoaded
  <1>2. idt = Gates /\ cpu.gdtr = GdtPtr /\ cpu.idtr = IdtPtr
    BY SMT, <1>1 DEF TablesInv, CpuInv
  <1>3. idt[v] = Gate(Handlers[v], GatePrivilege(v)) /\ DOMAIN idt = GateVectors
    BY SMT, <1>2 DEF Gates
  <1>4. v \in Nat /\ v <= 148 /\ GatePrivilege(v) \in 0..3
    BY SMT, VectorRange
  <1>5. IsAddress(Handlers[v])
    BY SMT, LayoutAssumption
  <1>6. /\ EntryOf(idt[v]) = Handlers[v] /\ Dpl(idt[v].attr) = GatePrivilege(v)
        /\ Present(idt[v].attr) /\ idt[v].selector = 8
    BY SMT, <1>3, <1>4, <1>5, GateRead
  <1>7. v \in DOMAIN Covered(idt, cpu.idtr.limit)
    BY SMT, <1>2, <1>3, <1>4, Sizes DEF Covered
  <1>8. Flat(Designated(gdt, <<>>, 8))
    <2>1. ~IsLocal(8) /\ IndexOf(8) = 1
      BY SMT DEF IsLocal, IndexOf, LowBits, ShiftRight
    <2>2. 1 \in DOMAIN gdt /\ gdt[1] = LoaderGdt[1]
      BY SMT, <1>1, SegmentsThere, Sizes
    <2> QED
      BY SMT, <2>1, <2>2, KernelSegments DEF Designated
  <1>9. GateFound(v)
    BY SMT, <1>2, <1>6, <1>7, <1>8 DEF GateFound, GdtPtr, IdtPtr
  <1> QED
    BY SMT, <1>6, <1>9

\* The local tables do not lie on one another.
LEMMA LdtsApart ==
    ASSUME NEW p \in ProcNrs, NEW q \in ProcNrs, ProcAddr(p) = ProcAddr(q)
    PROVE  p = q
  <1> DEFINE b == At.procBytes
             x == p + 3
             y == q + 3
  <1>1. b \in Nat \ {0} /\ At.proc \in Nat
    BY SMT, LayoutAssumption, Sizes
  <1>2. x \in Int /\ y \in Int /\ p \in Int /\ q \in Int
    BY SMT, Sizes
  <1>3. At.proc + x * b = At.proc + y * b
    BY SMT, Sizes DEF ProcAddr
  <1> HIDE DEF b, x, y
  <1>4. x * b = y * b
    BY SMT, <1>1, <1>2, <1>3
  <1>5. (x - y) * b = 0
    BY SMT, <1>1, <1>2, <1>4
  <1>6. x = y
    BY SMT, <1>1, <1>2, <1>5
  <1> QED
    BY SMT, <1>2, <1>6 DEF x, y

\* Where a process has its local table can be said in 32 bits.
LEMMA LdtAddress ==
    ASSUME NEW p \in ProcNrs
    PROVE  IsAddress(ProcAddr(p) + LdtOffset)
  <1> DEFINE b == At.procBytes
             x == p + 3
             n == NrProcs + 3
  <1>1. b \in Nat /\ b >= 92 /\ At.proc \in Nat
    BY SMT, LayoutAssumption, Sizes
  <1>2. x \in Nat /\ n \in Nat /\ x + 1 <= n
    BY SMT, Sizes
  <1>3. /\ ProcAddr(p) = At.proc + x * b
        /\ ProcAddr(NrProcs) = At.proc + n * b
        /\ LdtOffset = 76
    BY SMT, Sizes DEF ProcAddr
  <1> HIDE DEF b, x, n
  <1>4. x * b \in Nat /\ n * b \in Nat /\ x * b + b <= n * b
    <2>1. (x + 1) * b = x * b + b
      BY SMT, <1>1, <1>2
    <2>2. (x + 1) * b <= n * b
      BY SMT, <1>1, <1>2
    <2> QED
      BY SMT, <1>1, <1>2, <2>1, <2>2
  <1>5. /\ ProcAddr(p) + LdtOffset \in Nat /\ ProcAddr(NrProcs) \in Nat
        /\ ProcAddr(p) + LdtOffset <= ProcAddr(NrProcs)
    BY SMT, <1>1, <1>3, <1>4
  <1>6. ProcAddr(NrProcs) \div 65536 < 65536
    BY SMT, LayoutAssumption DEF IsAddress
  <1> HIDE DEF ProcAddr
  <1> QED
    BY SMT, <1>5, <1>6 DEF IsAddress

\* lldt finds the local table of each process.
LEMMA LdtFound ==
    ASSUME NEW p \in ProcNrs, gdt = GdtDone,
           table[p].ldtSel = LdtSlot(p) * DescriptorSize
    PROVE  LET d == Designated(Covered(gdt, GdtPtr.limit), <<>>, table[p].ldtSel)
           IN  BaseOf(d) = ProcAddr(p) + LdtOffset /\ LimitOf(d) = 15
  <1> DEFINE i == LdtSlot(p)
             d == Designated(Covered(gdt, GdtPtr.limit), <<>>, table[p].ldtSel)
  <1>1. /\ p \in Int /\ p >= -3 /\ p <= NrProcs - 1
        /\ NrProcs \in Nat /\ GdtSize = 8 + NrProcs
    BY SMT, Sizes
  <1>2. i = p + 8
    BY SMT, <1>1, Sizes DEF LdtSlot
  <1> HIDE DEF i
  <1>3. i \in Nat /\ i >= 5 /\ i <= GdtSize - 1 /\ GdtSize \in Nat
    BY SMT, <1>1, <1>2
  <1>4. table[p].ldtSel = i * 8
    BY SMT, Sizes DEF i
  <1>5. ~IsLocal(table[p].ldtSel) /\ IndexOf(table[p].ldtSel) = i
    BY SMT, <1>3, <1>4 DEF IsLocal, IndexOf, LowBits, ShiftRight
  <1>6. DOMAIN gdt = 0..GdtSize - 1 /\ gdt[i] = LdtDesc(p)
    <2>1. i - Index.ldtFirst - NrTasks = p
      BY SMT, <1>1, <1>2, Sizes
    <2> QED
      BY SMT, <1>3, <2>1, Sizes DEF GdtDone
  <1>7. /\ i \in DOMAIN Covered(gdt, GdtPtr.limit)
        /\ Covered(gdt, GdtPtr.limit)[i] = gdt[i]
    BY SMT, <1>3, <1>6, Sizes DEF Covered
  <1>8. d = LdtDesc(p)
    BY SMT, <1>5, <1>6, <1>7 DEF Designated
  <1> HIDE DEF d
  <1>9. LdtDesc(p) = SegmentDesc(ProcAddr(p) + LdtOffset, 15, Attr.ldt)
    BY SMT, Sizes DEF LdtDesc
  <1>10. IsAddress(ProcAddr(p) + LdtOffset) /\ Attr.ldt \in Nat
    BY SMT, LdtAddress DEF Attr
  <1>11. BaseOf(d) = ProcAddr(p) + LdtOffset /\ LimitOf(d) = 15
    <2> DEFINE a == ProcAddr(p) + LdtOffset
               t == Attr.ldt
    <2>1. IsAddress(a) /\ 15 \in Nat /\ 15 < 1048576 /\ t \in Nat
      BY SMT, <1>10
    <2>2. d = SegmentDesc(a, 15, t)
      BY SMT, <1>8, <1>9
    <2> HIDE DEF a, t
    <2>3. BaseOf(d) = a /\ LimitOf(d) = 15
      BY SMT, <2>1, <2>2, DescriptorRead
    <2> QED
      BY SMT, <2>3 DEF a
  <1> QED
    BY SMT, <1>11 DEF d

\* So what a selector of a process designates there is in its own table.
LEMMA TableFound ==
    ASSUME NEW p \in ProcNrs, gdt = GdtDone, cpu.gdtr = GdtPtr,
           table[p].ldtSel = LdtSlot(p) * DescriptorSize,
           table[p].ldt = LocalTable
    PROVE  TableAt(table[p].ldtSel) = LocalTable
  <1> DEFINE d == Designated(Covered(gdt, cpu.gdtr.limit), <<>>, table[p].ldtSel)
             q == CHOOSE q \in ProcNrs : BaseOf(d) = ProcAddr(q) + LdtOffset
  <1>1. BaseOf(d) = ProcAddr(p) + LdtOffset /\ LimitOf(d) = 15
    BY SMT, LdtFound
  <1> HIDE DEF d
  <1>2. q \in ProcNrs /\ BaseOf(d) = ProcAddr(q) + LdtOffset
    BY SMT, <1>1
  <1> HIDE DEF q
  <1>3. ProcAddr(p) \in Int /\ ProcAddr(q) \in Int /\ LdtOffset \in Int
    <2>1. At.proc \in Nat /\ At.procBytes \in Nat
      BY SMT, LayoutAssumption
    <2>2. p \in Int /\ q \in Int
      BY SMT, <1>2, Sizes
    <2> QED
      BY SMT, <2>1, <2>2, Sizes DEF ProcAddr
  <1>4. ProcAddr(p) = ProcAddr(q)
    <2> DEFINE a == ProcAddr(p)
               c == ProcAddr(q)
    <2>1. a + LdtOffset = c + LdtOffset
      BY SMT, <1>1, <1>2
    <2>2. a \in Int /\ c \in Int /\ LdtOffset = 76
      BY SMT, <1>3, Sizes
    <2> HIDE DEF a, c
    <2>3. a = c
      BY SMT, <2>1, <2>2
    <2> QED
      BY SMT, <2>3 DEF a, c
  <1>5. q = p
    BY SMT, <1>2, <1>4, LdtsApart
  <1>6. Covered(LocalTable, 15) = LocalTable
    BY SMT, Sizes DEF Covered, LocalTable
  <1>7. TableAt(table[p].ldtSel) = Covered(table[q].ldt, LimitOf(d))
    BY SMT, <1>1 DEF TableAt, d, q
  <1> QED
    BY SMT, <1>1, <1>5, <1>6, <1>7

\* What iretd checks, of the segments that main.c:49-64 makes.
LEMMA SegmentsFit ==
    /\ ~IsLocal(25) /\ IndexOf(25) = 3 /\ Rpl(25) = 1
    /\ IsLocal(5) /\ IndexOf(5) = 0 /\ Rpl(5) = 1
    /\ IsLocal(13) /\ IndexOf(13) = 1 /\ Rpl(13) = 1
    /\ Present(186) /\ Kind(186) = 26 /\ Dpl(186) = 1
    /\ Present(178) /\ Kind(178) = 18 /\ Dpl(178) = 1
    /\ LowBits(Attr.cr, 5) = 26 /\ LowBits(Attr.rw, 5) = 18
  BY SMT DEF IsLocal, IndexOf, Rpl, Present, Kind, Dpl, LowBits, ShiftRight, Attr

\* A process whose entry is filled can be resumed.
LEMMA PreparedResumable ==
    ASSUME TablesInv, at \in LdtsDone, cpu.gdtr = GdtPtr,
           NEW p \in SysNrs, Prepared(p),
           table[p].ldtSel = LdtSlot(p) * DescriptorSize
    PROVE  Resumable(p)
  <1> DEFINE d(sel) == Designated(gdt, TableAt(table[p].ldtSel), sel)
             r == table[p].regs
  <1>1. p \in ProcNrs /\ at \in Places /\ at \in GdtThere
    BY SMT, Sizes DEF Places, GdtThere, GatesDone, TssDone
  <1>2. gdt = GdtDone
    BY SMT DEF TablesInv
  <1>3. TableAt(table[p].ldtSel) = LocalTable
    BY SMT, <1>1, <1>2, TableFound DEF Prepared
  <1>4. /\ DOMAIN LocalTable = {0, 1}
        /\ LocalTable[0] = [LoaderGdt[1] EXCEPT !.access = 186]
        /\ LocalTable[1] = [LoaderGdt[2] EXCEPT !.access = 178]
    BY SMT, Sizes DEF LocalTable
  <1>5. 3 \in DOMAIN gdt /\ gdt[3] = LoaderGdt[3]
    BY SMT, <1>1, SegmentsThere, Sizes
  <1>6. /\ d(5) = [LoaderGdt[1] EXCEPT !.access = 186]
        /\ d(13) = [LoaderGdt[2] EXCEPT !.access = 178]
        /\ d(25) = LoaderGdt[3]
    BY SMT, <1>3, <1>4, <1>5, SegmentsFit DEF Designated
  <1>7. /\ d(5).access = 186 /\ d(13).access = 178
    <2>1. /\ LoaderGdt[1] = SegmentDesc(0, 1048575, Attr.d + Attr.cr + Attr.g)
          /\ LoaderGdt[2] = SegmentDesc(0, 1048575, Attr.d + Attr.rw + Attr.g)
      BY SMT DEF LoaderGdt, Index
    <2> QED
      BY SMT, <1>6, <2>1 DEF SegmentDesc
  <1>8. /\ Flat(d(5)) /\ Flat(d(13))
        /\ Present(d(25).access) /\ Kind(d(25).access) = 18
        /\ Dpl(d(25).access) = 3
    BY SMT, <1>6, KernelSegments
  <1>9. r.cs = 5 /\ r.ss = 13 /\ r.ds = 13 /\ r.gs = 25
    BY SMT DEF Prepared, RegsOf
  <1> HIDE DEF d, r
  <1>10. /\ Present(d(r.cs).access) /\ Kind(d(r.cs).access) = LowBits(Attr.cr, 5)
         /\ Dpl(d(r.cs).access) = Rpl(r.cs)
         /\ Rpl(r.ss) = Rpl(r.cs) /\ Dpl(d(r.ss).access) = Rpl(r.cs)
    BY SMT, <1>7, <1>9, SegmentsFit
  <1>11. \A sel \in {r.ss, r.ds, r.gs} :
           /\ Present(d(sel).access) /\ Kind(d(sel).access) = LowBits(Attr.rw, 5)
           /\ Dpl(d(sel).access) >= Rpl(sel)
    BY SMT, <1>7, <1>8, <1>9, SegmentsFit
  <1>12. \A sel \in {r.cs, r.ss, r.ds} : Flat(d(sel))
    BY SMT, <1>8, <1>9
  <1> QED
    BY SMT, <1>10, <1>11, <1>12 DEF Resumable, d, r

-----------------------------------------------------------------------------
(* The queues that flyanx_main leaves.                                     *)

\* Of the system processes only the clock is made ready, and it runs.
LEMMA QueueSteps ==
    /\ D!Ready(NobodyReady, CLOCK_TASK) = ClockReady
    /\ D!Hunter(ClockReady) = ClockReady
  <1>1. D!Class(CLOCK_TASK) = "task"
    BY SMT, Sizes DEF D!Class, CLOCK_TASK
  <1>2. "task" \in D!Classes
    BY SMT DEF D!Classes
  <1>3. D!Ready(NobodyReady, CLOCK_TASK) = ClockReady
    <2> DEFINE none == [c \in D!Classes |-> <<>>]
               one  == [c \in D!Classes |->
                           IF c = "task" THEN <<CLOCK_TASK>> ELSE <<>>]
    <2>1. none["task"] = <<>>
      BY SMT, <1>2
    <2>2. [none EXCEPT !["task"] = <<CLOCK_TASK>>] = one
      BY SMT, <1>2
    <2>3. /\ NobodyReady = [queue |-> none, curr |-> None, bill |-> None]
          /\ ClockReady = [queue |-> one, curr |-> CLOCK_TASK, bill |-> None]
      BY SMT DEF NobodyReady, ClockReady
    <2> HIDE DEF none, one
    <2> DEFINE k == NobodyReady
               j == [k EXCEPT !.queue = one]
    <2>4. k.queue = none
      BY SMT, <2>3
    <2>5. j = [queue |-> one, curr |-> None, bill |-> None]
      BY SMT, <2>3
    <2> HIDE DEF k
    <2>7. [k EXCEPT !.queue["task"] = <<CLOCK_TASK>>] = j
      BY SMT, <2>2, <2>4
    <2> HIDE DEF j
    <2>6. [j EXCEPT !.curr = CLOCK_TASK] = ClockReady
      BY SMT, <2>3, <2>5
    <2>11. Append(<<>>, CLOCK_TASK) = <<CLOCK_TASK>>
      BY SMT
    <2>8. k.queue["task"] = <<>>
      BY SMT, <2>1, <2>4
    <2>9. D!Ready(k, CLOCK_TASK)
            = [k EXCEPT !.queue["task"] = <<CLOCK_TASK>>, !.curr = CLOCK_TASK]
      BY SMT, <1>1, <2>8, <2>11 DEF D!Ready
    <2>10. D!Ready(k, CLOCK_TASK) = [j EXCEPT !.curr = CLOCK_TASK]
      <3> DEFINE q == [k.queue EXCEPT !["task"] = <<CLOCK_TASK>>]
      <3>1. [k EXCEPT !.queue["task"] = <<CLOCK_TASK>>, !.curr = CLOCK_TASK]
              = [k EXCEPT !.queue = q, !.curr = CLOCK_TASK]
        BY SMT
      <3>2. j = [k EXCEPT !.queue = q]
        BY SMT, <2>7
      <3> HIDE DEF q
      <3>3. [k EXCEPT !.queue = q, !.curr = CLOCK_TASK]
              = [[k EXCEPT !.queue = q] EXCEPT !.curr = CLOCK_TASK]
        BY SMT
      <3> QED
        BY SMT, <2>9, <3>1, <3>2, <3>3
    <2> QED
      BY SMT, <2>6, <2>10 DEF k
  <1>4. D!Hunter(ClockReady) = ClockReady
    <2>1. ClockReady.queue["task"] = <<CLOCK_TASK>>
      BY SMT, <1>2 DEF ClockReady
    <2>2. <<CLOCK_TASK>> # <<>> /\ Head(<<CLOCK_TASK>>) = CLOCK_TASK
      BY SMT
    <2>3. D!Hunter(ClockReady) = [ClockReady EXCEPT !.curr = CLOCK_TASK]
      BY SMT, <2>1, <2>2 DEF D!Hunter
    <2> QED
      BY SMT, <2>3 DEF ClockReady
  <1> QED
    BY SMT, <1>3, <1>4

-----------------------------------------------------------------------------
(* The invariant.                                                          *)

\* It holds when the loader is done.
LEMMA StartsRight == StartInit => StartInv
  <1> SUFFICES ASSUME StartInit PROVE StartInv
    OBVIOUS
  <1>1. at = "loader" /\ at \in Places /\ at \notin GdtThere
        /\ at \notin Enabled
    BY SMT DEF StartInit, Places, GdtThere, GatesDone, TssDone, LdtsDone,
               Enabled, GdtLoaded, IdtLoaded, Filled, HandlerThere, KeyboardOpen
  <1>2. TablesInv
    BY SMT, <1>1 DEF StartInit, TablesInv, GatesDone, TssDone, LdtsDone,
               LoaderLimit, Empty, GdtThere
  <1>3. CpuInv
    BY SMT, <1>1 DEF StartInit, CpuInv, Enabled, GdtLoaded
  <1>4. LinesInv
    <2>1. ifFlag \in BOOLEAN /\ ~ifFlag
      BY Zenon DEF StartInit
    <2>2. at \notin HandlerThere /\ at \notin KeyboardOpen
      BY SMT, <1>1 DEF KeyboardOpen, HandlerThere
    <2>3. served = {}
      BY SMT DEF StartInit
    <2> QED
      BY SMT, <1>1, <2>1, <2>2, <2>3 DEF LinesInv
  <1>5. ProcsInv
    BY SMT, <1>1 DEF StartInit, ProcsInv, NobodyReady, GdtThere, GatesDone,
               TssDone, LdtsDone, Enabled, GdtLoaded, IdtLoaded
  <1> QED
    BY SMT, <1>1, <1>2, <1>3, <1>4, <1>5 DEF StartInv

\* The three writers of the gdt, one after the other.
LEMMA GdtSteps ==
    /\ Overwritten(Empty, Covered(LoaderGdt, LoaderLimit)) = GdtCopied
    /\ [GdtCopied EXCEPT ![Index.tss]
           = SegmentDesc(At.tss, TssBytes - 1, Attr.tss)] = GdtWithTss
    /\ Overwritten(GdtWithTss,
           [i \in {LdtSlot(p) : p \in ProcNrs} |->
               LdtDesc(i - LdtSlot(-NrTasks) - NrTasks)]) = GdtDone
  <1>1. Overwritten(Empty, Covered(LoaderGdt, LoaderLimit)) = GdtCopied
    <2> DEFINE c == Covered(LoaderGdt, LoaderLimit)
    <2>1. DOMAIN LoaderGdt = 0..3
      BY SMT DEF LoaderGdt
    <2>2. DOMAIN c = 0..3 /\ \A i \in 0..3 : c[i] = LoaderGdt[i]
      BY SMT, <2>1, Sizes DEF Covered
    <2>3. /\ DOMAIN Empty = 0..GdtSize - 1
          /\ \A i \in 0..GdtSize - 1 : Empty[i] = NoDescriptor
          /\ GdtSize \in Nat /\ GdtSize > 8
      BY SMT, Sizes DEF Empty
    <2> HIDE DEF c
    <2> QED
      BY SMT, <2>2, <2>3 DEF Overwritten, GdtCopied, c
  <1>2. [GdtCopied EXCEPT ![Index.tss]
           = SegmentDesc(At.tss, TssBytes - 1, Attr.tss)] = GdtWithTss
    <2> DEFINE d == SegmentDesc(At.tss, TssBytes - 1, Attr.tss)
    <2>1. DOMAIN GdtCopied = 0..GdtSize - 1 /\ Index.tss \in 0..GdtSize - 1
      BY SMT, Sizes DEF GdtCopied
    <2> HIDE DEF d
    <2>2. GdtWithTss = [i \in 0..GdtSize - 1 |-> IF i = Index.tss THEN d ELSE GdtCopied[i]]
      BY SMT DEF GdtWithTss, d
    <2>3. GdtWithTss = [GdtCopied EXCEPT ![Index.tss] = d]
      <3> DEFINE f == GdtCopied
      <3>1. f = [i \in 0..GdtSize - 1 |-> f[i]]
        BY SMT DEF GdtCopied
      <3>2. GdtWithTss = [i \in 0..GdtSize - 1 |-> IF i = Index.tss THEN d ELSE f[i]]
        BY SMT, <2>2
      <3>3. DOMAIN f = 0..GdtSize - 1
        BY SMT, <2>1
      <3> HIDE DEF f
      <3>4. [f EXCEPT ![Index.tss] = d]
              = [i \in 0..GdtSize - 1 |-> IF i = Index.tss THEN d ELSE f[i]]
        BY Zenon, <3>1, <3>3, <2>1
      <3> QED
        BY SMT, <3>2, <3>4 DEF f
    <2> QED
      BY SMT, <2>3 DEF d
  <1>3. Overwritten(GdtWithTss,
           [i \in {LdtSlot(p) : p \in ProcNrs} |->
               LdtDesc(i - LdtSlot(-NrTasks) - NrTasks)]) = GdtDone
    <2> DEFINE S == {LdtSlot(p) : p \in ProcNrs}
               l == [i \in S |-> LdtDesc(i - LdtSlot(-NrTasks) - NrTasks)]
    <2>1. S = 5..GdtSize - 1
      <3>1. \A p \in ProcNrs : LdtSlot(p) = p + 8 /\ LdtSlot(p) \in 5..GdtSize - 1
        BY SMT, Sizes DEF LdtSlot
      <3>2. \A i \in 5..GdtSize - 1 : i - 8 \in ProcNrs /\ i = (i - 8) + 8
        BY SMT, Sizes
      <3> QED
        BY SMT, <3>1, <3>2
    <2>2. LdtSlot(-NrTasks) = 5 /\ Index.ldtFirst = 5
      BY SMT, Sizes DEF LdtSlot
    <2> HIDE DEF S
    <2>3. /\ DOMAIN l = 5..GdtSize - 1
          /\ \A i \in 5..GdtSize - 1 : l[i] = LdtDesc(i - 5 - NrTasks)
      BY SMT, <2>1, <2>2
    <2>4. DOMAIN GdtWithTss = 0..GdtSize - 1 /\ GdtSize \in Nat /\ GdtSize > 8
      BY SMT, Sizes DEF GdtWithTss
    <2>5. GdtDone = [i \in 0..GdtSize - 1 |->
                       IF i >= 5 THEN LdtDesc(i - 5 - NrTasks) ELSE GdtWithTss[i]]
      BY SMT, <2>2 DEF GdtDone
    <2> HIDE DEF l
    <2>6. Overwritten(GdtWithTss, l) = GdtDone
      BY SMT, <2>3, <2>4, <2>5 DEF Overwritten
    <2> QED
      BY SMT, <2>6 DEF l, S
  <1> QED
    BY SMT, <1>1, <1>2, <1>3

\* Into the kernel and through protect_init.
LEMMA TablesBuilt ==
    ASSUME StartInv,
           SaveBootParams \/ Start \/ CopyGdt \/ InitGates \/ InitTss \/ InitLdts
    PROVE  StartInv'
  <1> USE DEF StartInv, Places, GdtThere, GatesDone, TssDone, LdtsDone,
              Enabled, GdtLoaded, IdtLoaded, Filled, HandlerThere, KeyboardOpen,
              tables, devices, procs
  <1>1. ASSUME SaveBootParams PROVE StartInv'
    BY SMT, <1>1 DEF SaveBootParams, TablesInv, CpuInv, LinesInv, ProcsInv
  <1>2. ASSUME Start PROVE StartInv'
    BY SMT, <1>2 DEF Start, TablesInv, CpuInv, LinesInv, ProcsInv
  <1>3. ASSUME CopyGdt PROVE StartInv'
    <2>1. gdt' = GdtCopied
      BY SMT, <1>3, GdtSteps DEF CopyGdt, TablesInv
    <2>2. TablesInv'
      BY SMT, <1>3, <2>1, Sizes DEF CopyGdt, TablesInv, GdtPtr, IdtPtr
    <2> QED
      BY SMT, <1>3, <2>2 DEF CopyGdt, CpuInv, LinesInv, ProcsInv
  <1>4. ASSUME InitGates PROVE StartInv'
    BY SMT, <1>4 DEF InitGates, TablesInv, Gates, CpuInv, LinesInv, ProcsInv
  <1>5. ASSUME InitTss PROVE StartInv'
    <2>1. gdt' = GdtWithTss
      BY SMT, <1>5, GdtSteps DEF InitTss, TablesInv
    <2>2. TablesInv'
      BY SMT, <1>5, <2>1 DEF InitTss, TablesInv
    <2> QED
      BY SMT, <1>5, <2>2 DEF InitTss, CpuInv, LinesInv, ProcsInv
  <1>6. ASSUME InitLdts PROVE StartInv'
    <2>1. gdt' = GdtDone
      BY SMT, <1>6, GdtSteps DEF InitLdts, TablesInv
    <2>2. TablesInv'
      BY SMT, <1>6, <2>1 DEF InitLdts, TablesInv
    <2>3. ProcsInv'
      <3>1. /\ table' = [p \in ProcNrs |->
                    [ZeroProc EXCEPT !.ldtSel = LdtSlot(p) * DescriptorSize]]
            /\ at' = "pic" /\ ready' = NobodyReady
        BY SMT, <1>6 DEF InitLdts, ProcsInv
      <3>2. \A p \in ProcNrs :
               /\ EntryShape(table'[p])
               /\ table'[p].ldtSel = LdtSlot(p) * DescriptorSize
               /\ table'[p].flags = 0
        <4>1. EntryShape(ZeroProc) /\ ZeroProc.flags = 0
          BY SMT DEF ZeroProc, EntryShape
        <4>2. ASSUME NEW sel, NEW t, EntryShape(t), t.flags = 0
              PROVE  LET u == [t EXCEPT !.ldtSel = sel] IN
                     EntryShape(u) /\ u.ldtSel = sel /\ u.flags = 0
          BY SMT, <4>2 DEF EntryShape
        <4>3. \A p \in ProcNrs : table'[p]
                = [ZeroProc EXCEPT !.ldtSel = LdtSlot(p) * DescriptorSize]
          BY SMT, <3>1
        <4>4. ASSUME NEW p \in ProcNrs
              PROVE  /\ EntryShape(table'[p])
                     /\ table'[p].ldtSel = LdtSlot(p) * DescriptorSize
                     /\ table'[p].flags = 0
          <5> DEFINE s == LdtSlot(p) * DescriptorSize
          <5>1. LET u == [ZeroProc EXCEPT !.ldtSel = s] IN
                EntryShape(u) /\ u.ldtSel = s /\ u.flags = 0
            BY Zenon, <4>1, <4>2
          <5> QED
            BY Zenon, <4>3, <5>1
        <4> QED
          BY Zenon, <4>4
      <3> QED
        BY SMT, <3>1, <3>2 DEF ProcsInv
    <2> QED
      BY SMT, <1>6, <2>2, <2>3 DEF InitLdts, CpuInv, LinesInv
  <1> QED
    BY SMT, <1>1, <1>2, <1>3, <1>4, <1>5, <1>6

\* interrupt_init, and what the processor is told.
LEMMA ProcessorTold ==
    ASSUME StartInv,
           InterruptInit \/ CheckMagic \/ LoadGdt \/ LoadIdt \/ LoadTr
    PROVE  StartInv'
  <1> USE DEF StartInv, Places, GdtThere, GatesDone, TssDone, LdtsDone,
              Enabled, GdtLoaded, IdtLoaded, Filled, HandlerThere, KeyboardOpen,
              tables, devices, procs
  <1>1. ASSUME InterruptInit PROVE StartInv'
    <2>1. LinesInv'
      <3>1. ifFlag' \in BOOLEAN
        BY Zenon, <1>1 DEF InterruptInit
      <3>2. /\ at' = "magic" /\ masked' = AllLines /\ served' = served
            /\ irqHandler' = [i \in 0..15 |-> "default"]
        BY SMT, <1>1 DEF InterruptInit
      <3> QED
        BY SMT, <3>1, <3>2 DEF LinesInv
    <2> QED
      BY SMT, <1>1, <2>1 DEF InterruptInit, TablesInv, CpuInv, ProcsInv
  <1>2. ASSUME CheckMagic PROVE StartInv'
    <2>1. at = "magic" /\ at' \in {"lgdt", "hung"}
      BY SMT, <1>2 DEF CheckMagic
    <2> QED
      BY SMT, <1>2, <2>1 DEF CheckMagic, TablesInv, CpuInv, LinesInv, ProcsInv
  <1>3. ASSUME LoadGdt PROVE StartInv'
    BY SMT, <1>3 DEF LoadGdt, TablesInv, CpuInv, LinesInv, ProcsInv
  <1>4. ASSUME LoadIdt PROVE StartInv'
    BY SMT, <1>4 DEF LoadIdt, TablesInv, CpuInv, LinesInv, ProcsInv
  <1>5. ASSUME LoadTr PROVE StartInv'
    BY SMT, <1>5 DEF LoadTr, TablesInv, CpuInv, LinesInv, ProcsInv
  <1> QED
    BY SMT, <1>1, <1>2, <1>3, <1>4, <1>5

\* The steps of flyanx_main that touch no process.
LEMMA DriverThere ==
    ASSUME StartInv, LockHunter \/ PutIrqHandler \/ EnableKeyboard
    PROVE  StartInv'
  <1> USE DEF StartInv, Places, GdtThere, GatesDone, TssDone, LdtsDone,
              Enabled, GdtLoaded, IdtLoaded, Filled, HandlerThere, KeyboardOpen,
              tables, devices, procs
  <1>1. ASSUME LockHunter PROVE StartInv'
    <2>1. ready' = ready
      BY SMT, <1>1, QueueSteps, Sizes DEF LockHunter, ProcsInv, ProcsFrom, CLOCK_TASK
    <2>2. ProcsInv'
      BY SMT, <1>1, <2>1 DEF LockHunter, ProcsInv, ProcsFrom, Prepared
    <2> QED
      BY SMT, <1>1, <2>2 DEF LockHunter, TablesInv, CpuInv, LinesInv
  <1>2. ASSUME PutIrqHandler PROVE StartInv'
    <2>1. irqHandler'[1] = "keyboard"
      BY SMT, <1>2 DEF PutIrqHandler, LinesInv
    <2>2. ProcsInv'
      BY SMT, <1>2 DEF PutIrqHandler, ProcsInv, ProcsFrom, Prepared
    <2> QED
      BY SMT, <1>2, <2>1, <2>2 DEF PutIrqHandler, TablesInv, CpuInv, LinesInv
  <1>3. ASSUME EnableKeyboard PROVE StartInv'
    <2>1. ProcsInv'
      BY SMT, <1>3 DEF EnableKeyboard, ProcsInv, ProcsFrom, Prepared
    <2> QED
      BY SMT, <1>3, <2>1 DEF EnableKeyboard, TablesInv, CpuInv, LinesInv
  <1> QED
    BY SMT, <1>1, <1>2, <1>3

\* An interrupt before the first process finds its gate and the keyboard's
\* handler.
LEMMA InterruptServed ==
    ASSUME StartInv, NEW i \in 0..15, Interrupt(i)
    PROVE  StartInv'
  <1> USE DEF StartInv, Places, GdtThere, GatesDone, TssDone, LdtsDone,
              Enabled, GdtLoaded, IdtLoaded, Filled, HandlerThere, KeyboardOpen,
              tables, devices, procs
  <1>1. at = "restart" /\ i = 1
    BY SMT DEF Interrupt, LinesInv, AllLines
  <1>2. IrqVector(i) \in GateVectors
    BY SMT DEF GateVectors
  <1>3. GateFound(IrqVector(i))
    BY SMT, <1>1, <1>2, GatesFound
  <1>4. served' = served \cup {"keyboard"} /\ at' = at
    BY SMT, <1>1, <1>3 DEF Interrupt, LinesInv
  <1>5. LinesInv'
    BY SMT, <1>4 DEF Interrupt, LinesInv
  <1>6. ProcsInv'
    BY SMT, <1>4 DEF Interrupt, ProcsInv, ProcsFrom, Prepared
  <1> QED
    BY SMT, <1>4, <1>5, <1>6 DEF Interrupt, TablesInv, CpuInv

\* Only the clock is current when restart runs, and it can be resumed.
LEMMA ClockResumed ==
    ASSUME StartInv, Restart
    PROVE  StartInv'
  <1> USE DEF StartInv, Places, GdtThere, GatesDone, TssDone, LdtsDone,
              Enabled, GdtLoaded, IdtLoaded, Filled, HandlerThere, KeyboardOpen,
              tables, devices, procs
  <1>1. at = "restart"
    BY SMT DEF Restart
  <1>2. ready.curr = CLOCK_TASK /\ Prepared(CLOCK_TASK) /\ CLOCK_TASK \in SysNrs
    BY SMT, <1>1, Sizes DEF ProcsInv, ProcsFrom, ClockReady, CLOCK_TASK
  <1>3. Resumable(ready.curr)
    BY SMT, <1>1, <1>2, PreparedResumable, Sizes DEF ProcsInv, CpuInv
  <1>4. at' = "running"
    BY SMT, <1>3 DEF Restart
  <1>5. ProcsInv'
    BY SMT, <1>1, <1>4 DEF Restart, ProcsInv, ProcsFrom, Prepared
  <1> QED
    BY SMT, <1>1, <1>4, <1>5 DEF Restart, TablesInv, CpuInv, LinesInv

\* The first loop of flyanx_main.
LEMMA SlotsNamed ==
    ASSUME StartInv, InitSlots
    PROVE  StartInv'
  <1> USE DEF StartInv, Places, GdtThere, GatesDone, TssDone, LdtsDone,
              Enabled, GdtLoaded, IdtLoaded, Filled, HandlerThere, KeyboardOpen,
              tables, devices, procs
  <1> DEFINE n(p) == IF p > 0 THEN "unused" ELSE table[p].name
             e(p) == [table[p] EXCEPT !.logicNr = p, !.name = n(p)]
  <1>0. /\ at = "slots" /\ at' = "procs" /\ nr' = -NrTasks
        /\ stackTop' = At.stack
        /\ table' = [p \in ProcNrs |-> e(p)]
        /\ UNCHANGED <<cpu, ptrs, bootParams, tables, devices, ready>>
    BY Zenon DEF InitSlots
  <1> HIDE DEF e
  <1>1. /\ at = "slots" /\ at' = "procs" /\ nr' = -3 /\ stackTop' = At.stack
        /\ ready' = NobodyReady
    BY SMT, <1>0, Sizes DEF ProcsInv
  <1>2. \A p \in ProcNrs : table'[p] = e(p)
    BY SMT, <1>0
  <1>3. ASSUME NEW t, NEW l, NEW m, EntryShape(t)
        PROVE  LET u == [t EXCEPT !.logicNr = l, !.name = m] IN
               EntryShape(u) /\ u.ldtSel = t.ldtSel /\ u.flags = t.flags
    BY SMT, <1>3 DEF EntryShape
  <1>4. ASSUME NEW p \in ProcNrs
        PROVE  /\ EntryShape(table'[p])
               /\ table'[p].ldtSel = LdtSlot(p) * DescriptorSize
               /\ table'[p].flags = 0
    <2> DEFINE t == table[p]
               l == p
               m == n(p)
    <2>2. /\ EntryShape(t) /\ t.flags = 0
          /\ t.ldtSel = LdtSlot(p) * DescriptorSize
      BY SMT, <1>1 DEF ProcsInv
    <2>1. table'[p] = [t EXCEPT !.logicNr = l, !.name = m]
      BY Zenon, <1>2 DEF e
    <2> HIDE DEF t, l, m
    <2>3. LET u == [t EXCEPT !.logicNr = l, !.name = m] IN
          EntryShape(u) /\ u.ldtSel = t.ldtSel /\ u.flags = t.flags
      BY Zenon, <1>3, <2>2
    <2> DEFINE u == [t EXCEPT !.logicNr = l, !.name = m]
    <2>4. EntryShape(u) /\ u.ldtSel = t.ldtSel /\ u.flags = t.flags
      BY Zenon, <2>3
    <2> HIDE DEF u
    <2>5. table'[p] = u
      BY Zenon, <2>1 DEF u
    <2> QED
      BY SMT, <2>2, <2>4, <2>5
  <1>5. ProcsFrom(nr)'
    BY SMT, <1>1, Sizes DEF ProcsFrom, CLOCK_TASK
  <1>6. ProcsInv'
    BY SMT, <1>0, <1>1, <1>4, <1>5, Sizes DEF ProcsInv
  <1> QED
    BY SMT, <1>0, <1>1, <1>6 DEF TablesInv, CpuInv, LinesInv

\* What an entry holds when its turn of the second loop is over.
LEMMA EntryFilled ==
    ASSUME NEW p \in SysNrs, NEW top, EntryShape(table[p]),
           gdt[1] = LoaderGdt[1], gdt[2] = LoaderGdt[2]
    PROVE  LET u == FilledProc(p, sys_proc_table[p], top) IN
           /\ EntryShape(u)
           /\ u.ldtSel = table[p].ldtSel /\ u.flags = 0
           /\ u.regs = RegsOf(p, top) /\ u.ldt = LocalTable
  <1> DEFINE rpl == Privilege.task
             l == [i \in 0..LdtSize - 1 |->
                     IF i = LdtIndex.cs THEN LocalDesc(Index.text, Attr.cr, rpl)
                     ELSE LocalDesc(Index.data, Attr.rw, rpl)]
             r == [cs |-> Selector(LdtIndex.cs, Local, rpl),
                   ds |-> Selector(LdtIndex.ds, Local, rpl),
                   ss |-> Selector(LdtIndex.ds, Local, rpl),
                   gs |-> WithRpl(SELECTOR_KERNEL_GS, rpl),
                   eip |-> sys_proc_table[p].eip, esp |-> top,
                   eflags |-> INIT_TASK_PSW]
             u == [table[p] EXCEPT !.name = sys_proc_table[p].name,
                                   !.priority = 1, !.ldt = l, !.regs = r,
                                   !.flags = 0]
  <1>1. FilledProc(p, sys_proc_table[p], top) = u
    BY SMT DEF FilledProc
  <1>2. l = LocalTable
    <2>1. /\ LocalDesc(Index.text, Attr.cr, rpl) = [LoaderGdt[1] EXCEPT !.access = 186]
          /\ LocalDesc(Index.data, Attr.rw, rpl) = [LoaderGdt[2] EXCEPT !.access = 178]
      <3>1. /\ Index.text = 1 /\ Index.data = 2
            /\ Attr.cr + (rpl * 32) = 186 /\ Attr.rw + (rpl * 32) = 178
        BY SMT, Sizes DEF Attr, Privilege
      <3> QED
        BY SMT, <3>1 DEF LocalDesc
    <2> QED
      BY SMT, <2>1 DEF LocalTable
  <1>3. r = RegsOf(p, top)
    <2>1. /\ Selector(LdtIndex.cs, Local, rpl) = 5
          /\ Selector(LdtIndex.ds, Local, rpl) = 13
          /\ WithRpl(SELECTOR_KERNEL_GS, rpl) = 25
      BY SMT DEF Selector, LdtIndex, Local, Privilege, DescriptorSize, WithRpl,
                 ShiftRight, SELECTOR_KERNEL_GS, Index
    <2> QED
      BY SMT, <2>1 DEF RegsOf
  <1> HIDE DEF l, r
  <1>4. /\ EntryShape(u) /\ u.ldtSel = table[p].ldtSel /\ u.flags = 0
        /\ u.regs = r /\ u.ldt = l
    BY SMT DEF EntryShape
  <1> QED
    BY SMT, <1>1, <1>2, <1>3, <1>4

\* The second loop.
LEMMA ProcessFilled ==
    ASSUME StartInv, InitSysProc
    PROVE  StartInv'
  <1> USE DEF StartInv, Places, GdtThere, GatesDone, TssDone, LdtsDone,
              Enabled, GdtLoaded, IdtLoaded, Filled, HandlerThere, KeyboardOpen,
              tables, devices, procs
  <1>1. /\ at = "procs" /\ nr \in SysNrs /\ nr \in ProcNrs /\ ProcsFrom(nr)
    BY SMT, Sizes DEF InitSysProc, ProcsInv
  <1>2. nr' = nr + 1 /\ at' = IF nr = -1 THEN "hunter" ELSE "procs"
    BY SMT, <1>1, Sizes DEF InitSysProc, LOW_USER
  <1>3. stackTop' = StackEnd(nr) /\ stackTop' = StackEnd((nr + 1) - 1)
    <2>1. /\ sys_proc_table[-3].stack = SMALL_STACK
          /\ sys_proc_table[-2].stack = SMALL_STACK
          /\ sys_proc_table[-1].stack = 0
      BY SMT, Sizes DEF sys_proc_table, CLOCK_TASK, IDLE_TASK, HARDWARE
    <2>2. SMALL_STACK = 512 /\ At.stack \in Nat
      BY SMT, LayoutAssumption DEF SMALL_STACK
    <2>3. stackTop' = stackTop + sys_proc_table[nr].stack
      BY SMT DEF InitSysProc
    <2>4. stackTop = IF nr = -3 THEN At.stack ELSE StackEnd(nr - 1)
      BY SMT, <1>1 DEF ProcsFrom, CLOCK_TASK
    <2>5. StackEnd(-3) = At.stack + 512 /\ StackEnd(-2) = At.stack + 1024
          /\ StackEnd(-1) = At.stack + 1024
      BY SMT, <2>2 DEF StackEnd, CLOCK_TASK
    <2>6. nr = -3 \/ nr = -2 \/ nr = -1
      BY SMT, <1>1, Sizes
    <2>7. (nr + 1) - 1 = nr
      BY SMT, <2>6
    <2> QED
      BY SMT, <2>1, <2>2, <2>3, <2>4, <2>5, <2>6, <2>7
  <1>4. ready' = ClockReady
    <2>1. IsIdleHardware(nr) <=> nr \in {-2, -1}
      BY SMT DEF IsIdleHardware, IDLE_TASK, HARDWARE
    <2>2. ready' = IF IsIdleHardware(nr) THEN ready ELSE D!Ready(ready, nr)
      BY SMT DEF InitSysProc
    <2>3. ready = IF nr = -3 THEN NobodyReady ELSE ClockReady
      BY SMT, <1>1 DEF ProcsFrom, CLOCK_TASK
    <2>4. D!Ready(NobodyReady, -3) = ClockReady
      BY SMT, QueueSteps DEF CLOCK_TASK
    <2>5. nr = -3 \/ nr = -2 \/ nr = -1
      BY SMT, <1>1, Sizes
    <2> QED
      BY SMT, <2>1, <2>2, <2>3, <2>4, <2>5
  <1>5. table' = [table EXCEPT ![nr] = FilledProc(nr, sys_proc_table[nr], StackEnd(nr))]
    BY Zenon, <1>3 DEF InitSysProc
  <1>0. UNCHANGED <<cpu, ptrs, bootParams, tables, devices>>
    BY Zenon DEF InitSysProc
  <1> DEFINE u == FilledProc(nr, sys_proc_table[nr], StackEnd(nr))
  <1>6. gdt[1] = LoaderGdt[1] /\ gdt[2] = LoaderGdt[2]
    BY SMT, <1>1, SegmentsThere
  <1>7. /\ EntryShape(u)
        /\ u.ldtSel = table[nr].ldtSel /\ u.flags = 0
        /\ u.regs = RegsOf(nr, StackEnd(nr)) /\ u.ldt = LocalTable
    <2>1. EntryShape(table[nr])
      BY SMT, <1>1 DEF ProcsInv
    <2> QED
      BY Zenon, <1>1, <1>6, <2>1, EntryFilled
  <1> HIDE DEF u
  <1>8. table = [p \in ProcNrs |-> table[p]]
    BY SMT, <1>1 DEF ProcsInv
  <1>9. /\ table' = [p \in ProcNrs |-> table'[p]]
        /\ table'[nr] = u
        /\ \A p \in ProcNrs \ {nr} : table'[p] = table[p]
    <2>1. table' = [table EXCEPT ![nr] = u]
      BY Zenon, <1>5 DEF u
    <2> QED
      BY Zenon, <1>1, <1>8, <2>1
  <1>10. \A p \in ProcNrs : /\ EntryShape(table'[p])
                            /\ table'[p].ldtSel = LdtSlot(p) * DescriptorSize
                            /\ table'[p].flags = 0
    BY SMT, <1>1, <1>7, <1>9 DEF ProcsInv
  <1>11. \A p \in SysNrs : p < nr + 1 => Prepared(p)'
    <2>1. ASSUME NEW p \in SysNrs, p < nr + 1
          PROVE  Prepared(p)'
      <3>1. CASE p = nr
        BY SMT, <1>7, <1>9, <3>1 DEF Prepared
      <3>2. CASE p # nr
        <4>1. p < nr /\ p \in ProcNrs
          BY SMT, <1>1, <2>1, <3>2, Sizes
        <4> QED
          BY SMT, <1>1, <1>9, <3>2, <4>1 DEF ProcsFrom, Prepared
      <3> QED
        BY SMT, <3>1, <3>2
    <2> QED
      BY SMT, <2>1
  <1>12. ProcsFrom(nr)'
    BY SMT, <1>1, <1>2, <1>3, <1>4, <1>11, Sizes DEF ProcsFrom, CLOCK_TASK
  <1>13. ProcsInv'
    <2>1. CASE nr = -1
      BY SMT, <1>2, <1>9, <1>10, <1>12, <2>1 DEF ProcsInv
    <2>2. CASE nr # -1
      BY SMT, <1>1, <1>2, <1>9, <1>10, <1>12, <2>2, Sizes DEF ProcsInv
    <2> QED
      BY SMT, <2>1, <2>2
  <1> QED
    BY SMT, <1>0, <1>1, <1>2, <1>13 DEF TablesInv, CpuInv, LinesInv

\* The invariant holds from the loader to the first process.
THEOREM StartInvariance == Spec => []StartInv
  <1>1. Init => StartInv
    BY SMT, StartsRight DEF Init
  <1>2. StartInv /\ [Next]_<<bootVars, startVars>> => StartInv'
    <2> SUFFICES ASSUME StartInv, [Next]_<<bootVars, startVars>>
                 PROVE  StartInv'
      OBVIOUS
    <2>1. ASSUME UNCHANGED startVars PROVE StartInv'
      BY SMT, <2>1 DEF startVars, StartInv, TablesInv, CpuInv, LinesInv,
                       ProcsInv, ProcsFrom, Prepared
    <2>2. ASSUME StartStep PROVE StartInv'
      BY Zenon, <2>2, TablesBuilt, ProcessorTold, DriverThere, SlotsNamed,
         ProcessFilled, ClockResumed DEF StartStep
    <2>3. ASSUME NEW i \in 0..15, Interrupt(i) PROVE StartInv'
      BY Zenon, <2>3, InterruptServed
    <2> QED
      BY Zenon, <2>1, <2>2, <2>3 DEF Next, KernelStep
  <1> QED
    BY PTL, <1>1, <1>2 DEF Spec

\* Interrupts are enabled long before lidt and before any driver is there:
\* none arrives that finds no gate or no handler but the default one.
THEOREM NoEarlyInterrupt == Spec => []InterruptsFindHandlers
  <1>1. StartInv => InterruptsFindHandlers
    BY SMT DEF StartInv, InterruptsFindHandlers, LinesInv, Places, GdtThere,
       GatesDone, TssDone, LdtsDone, Enabled, GdtLoaded, IdtLoaded, Filled,
       HandlerThere, KeyboardOpen
  <1> QED
    BY PTL, <1>1, StartInvariance

\* Each vector leads to its stub, and processes enter the kernel by the
\* vectors their privilege entitles them to.
THEOREM GatesKeepOut == Spec => []GatesGuarded
  <1>1. StartInv => GatesGuarded
    <2> SUFFICES ASSUME StartInv, at = "running" PROVE
             /\ \A v \in GateVectors : GateFound(v) /\ EntryOf(idt[v]) = Handlers[v]
             /\ \A v \in 0..255 : \A cpl \in {Privilege.task, Privilege.user} :
                  (GateFound(v) /\ cpl <= Dpl(idt[v].attr)) =>
                     \/ v = SysCallVector
                     \/ v = Level0Vector /\ cpl = Privilege.task
             /\ Flat(Designated(gdt, <<>>, tss.ss0))
      BY Zenon DEF GatesGuarded
    <2>1. /\ at \in IdtLoaded /\ at \in GatesDone /\ at \in TssDone
          /\ at \in GdtThere
      BY SMT DEF GdtThere, GatesDone, TssDone, LdtsDone, Enabled, GdtLoaded,
                 IdtLoaded, Filled, HandlerThere, KeyboardOpen
    <2>2. \A v \in GateVectors : /\ GateFound(v) /\ EntryOf(idt[v]) = Handlers[v]
                                 /\ Dpl(idt[v].attr) = GatePrivilege(v)
      BY Zenon, <2>1, GatesFound DEF StartInv
    <2>3. ASSUME NEW v \in 0..255, NEW cpl \in {Privilege.task, Privilege.user},
                 GateFound(v), cpl <= Dpl(idt[v].attr)
          PROVE  \/ v = SysCallVector
                 \/ v = Level0Vector /\ cpl = Privilege.task
      <3>1. v \in GateVectors
        BY SMT, <2>1, <2>3 DEF GateFound, Covered, StartInv, TablesInv, Gates
      <3>2. cpl <= GatePrivilege(v)
        BY SMT, <2>2, <2>3, <3>1
      <3> QED
        BY SMT, <3>2 DEF GatePrivilege, Privilege
    <2>4. tss.ss0 = 16
      BY SMT, <2>1 DEF StartInv, TablesInv, SELECTOR_KERNEL_DS, Selector, Index,
                       DescriptorSize, Privilege
    <2>5. ~IsLocal(16) /\ IndexOf(16) = 2
      BY SMT DEF IsLocal, IndexOf, LowBits, ShiftRight
    <2>6. 2 \in DOMAIN gdt /\ gdt[2] = LoaderGdt[2]
      BY SMT, <2>1, SegmentsThere, Sizes DEF StartInv
    <2>7. Flat(Designated(gdt, <<>>, tss.ss0))
      BY SMT, <2>4, <2>5, <2>6, KernelSegments DEF Designated
    <2> QED
      BY Zenon, <2>2, <2>3, <2>7
  <1> QED
    BY PTL, <1>1, StartInvariance

\* ltr and lldt find what they are to load.
LEMMA SelectorsFound == StartInv => SelectorsReach
  <1> SUFFICES ASSUME StartInv,
                      at \notin {"loader", "start", "gdt", "gates", "tss", "ldts"}
               PROVE  LET d(sel) == Designated(Covered(gdt, ptrs.gdt.limit), <<>>, sel) IN
                      /\ BaseOf(d(SELECTOR_TSS)) = At.tss
                      /\ LimitOf(d(SELECTOR_TSS)) = TssBytes - 1
                      /\ \A p \in ProcNrs :
                           /\ BaseOf(d(table[p].ldtSel)) = ProcAddr(p) + LdtOffset
                           /\ LimitOf(d(table[p].ldtSel)) = LdtSize * DescriptorSize - 1
    BY Zenon DEF SelectorsReach
  <1>1. at \in LdtsDone /\ at \in GdtThere
    BY SMT DEF StartInv, Places, GdtThere, GatesDone, TssDone, LdtsDone
  <1>2. gdt = GdtDone /\ ptrs.gdt.limit = GdtPtr.limit
    BY SMT, <1>1 DEF StartInv, TablesInv
  <1> DEFINE d(sel) == Designated(Covered(gdt, GdtPtr.limit), <<>>, sel)
  <1>3. ASSUME NEW p \in ProcNrs
        PROVE  /\ BaseOf(d(table[p].ldtSel)) = ProcAddr(p) + LdtOffset
               /\ LimitOf(d(table[p].ldtSel)) = LdtSize * DescriptorSize - 1
    <2>1. table[p].ldtSel = LdtSlot(p) * DescriptorSize
      BY SMT, <1>1 DEF StartInv, ProcsInv
    <2>2. LdtSize * DescriptorSize - 1 = 15
      BY SMT, Sizes
    <2> QED
      BY Zenon, <1>2, <2>1, <2>2, LdtFound
  <1>4. BaseOf(d(SELECTOR_TSS)) = At.tss /\ LimitOf(d(SELECTOR_TSS)) = TssBytes - 1
    <2>1. SELECTOR_TSS = 32 /\ ~IsLocal(32) /\ IndexOf(32) = 4
      BY SMT DEF SELECTOR_TSS, Selector, Index, DescriptorSize, Privilege,
                 IsLocal, IndexOf, LowBits, ShiftRight
    <2>2. /\ 4 \in DOMAIN Covered(gdt, GdtPtr.limit)
          /\ Covered(gdt, GdtPtr.limit)[4] = gdt[4]
      BY SMT, <1>2, Sizes DEF Covered, GdtDone
    <2>3. gdt[4] = SegmentDesc(At.tss, TssBytes - 1, Attr.tss)
      BY SMT, <1>2, Sizes DEF GdtDone, GdtWithTss
    <2>4. d(SELECTOR_TSS) = SegmentDesc(At.tss, TssBytes - 1, Attr.tss)
      BY SMT, <2>1, <2>2, <2>3 DEF Designated
    <2> DEFINE e == d(SELECTOR_TSS)
               a == At.tss
               l == TssBytes - 1
               t == Attr.tss
    <2>5. IsAddress(a) /\ l \in Nat /\ l < 1048576 /\ t \in Nat
      BY SMT, LayoutAssumption DEF TssBytes, Attr
    <2>6. e = SegmentDesc(a, l, t)
      BY SMT, <2>4
    <2> HIDE DEF d, e, a, l, t
    <2>7. BaseOf(e) = a /\ LimitOf(e) = l
      BY SMT, <2>5, <2>6, DescriptorRead
    <2> QED
      BY SMT, <2>7 DEF e, a, l
  <1> QED
    BY Zenon, <1>2, <1>3, <1>4

\* Each task can be resumed, with a stack of its own inside sys_proc_stack,
\* I/O allowed and interrupts on.
THEOREM TasksReady == Spec => []TasksResumable
  <1>1. StartInv => TasksResumable
    <2> SUFFICES ASSUME StartInv, at \in {"restart", "running"},
                        NEW p \in SysNrs \ {HARDWARE}
                 PROVE
            /\ Resumable(p)
            /\ ShiftRight(table[p].regs.eflags, 9) % 2 = 1
            /\ LowBits(ShiftRight(table[p].regs.eflags, 12), 2) >= Rpl(table[p].regs.cs)
            /\ Stack(p) \subseteq At.stack..At.stack + TOTAL_SYS_PROC_STACK - 1
            /\ \A q \in SysNrs \ {HARDWARE, p} : Stack(p) \cap Stack(q) = {}
      BY Zenon, SelectorsFound DEF TasksResumable
    <2>1. at \in Filled /\ at \in LdtsDone /\ at \in GdtLoaded
      BY SMT DEF LdtsDone, Enabled, GdtLoaded, IdtLoaded, Filled, HandlerThere,
                 KeyboardOpen
    <2>2. /\ \A q \in SysNrs : Prepared(q)
      BY SMT, <2>1, Sizes DEF StartInv, ProcsInv, ProcsFrom
    <2>3. Resumable(p)
      BY SMT, <2>1, <2>2, PreparedResumable, Sizes DEF StartInv, ProcsInv, CpuInv
    <2>4. /\ table[p].regs.eflags = 4610 /\ table[p].regs.cs = 5
      <3>1. table[p].regs = RegsOf(p, StackEnd(p))
        BY SMT, <2>2 DEF Prepared
      <3>2. ASSUME NEW e PROVE RegsOf(p, e).eflags = 4610 /\ RegsOf(p, e).cs = 5
        BY SMT DEF RegsOf, INIT_TASK_PSW
      <3> QED
        BY SMT, <3>1, <3>2
    <2>5. /\ ShiftRight(4610, 9) % 2 = 1
          /\ LowBits(ShiftRight(4610, 12), 2) >= Rpl(5)
      BY SMT DEF ShiftRight, LowBits, Rpl
    <2>6. At.stack \in Nat
      BY SMT, LayoutAssumption
    <2>7. /\ Stack(-3) = At.stack..At.stack + 511
          /\ Stack(-2) = At.stack + 512..At.stack + 1023
      <3>1. \A q \in {-3, -2} : /\ table[q].regs.esp = StackEnd(q)
                                /\ sys_proc_table[q].stack = 512
        <4>1. ASSUME NEW q \in {-3, -2} PROVE table[q].regs.esp = StackEnd(q)
          <5>1. q \in SysNrs
            BY SMT, Sizes
          <5>2. table[q].regs = RegsOf(q, StackEnd(q))
            BY SMT, <2>2, <5>1 DEF Prepared
          <5>3. ASSUME NEW e PROVE RegsOf(q, e).esp = e
            BY SMT DEF RegsOf
          <5> QED
            BY SMT, <5>2, <5>3
        <4>2. sys_proc_table[-3].stack = 512 /\ sys_proc_table[-2].stack = 512
          BY SMT, Sizes DEF sys_proc_table, CLOCK_TASK, IDLE_TASK, HARDWARE,
                            SMALL_STACK
        <4> QED
          BY SMT, <4>1, <4>2
      <3>2. StackEnd(-3) = At.stack + 512 /\ StackEnd(-2) = At.stack + 1024
        BY SMT DEF StackEnd, CLOCK_TASK, SMALL_STACK
      <3> QED
        BY SMT, <2>6, <3>1, <3>2 DEF Stack
    <2>8. SysNrs \ {HARDWARE} = {-3, -2} /\ TOTAL_SYS_PROC_STACK = 1024
      BY SMT, Sizes DEF HARDWARE, TOTAL_SYS_PROC_STACK, SMALL_STACK
    <2>9. p \in {-3, -2} /\ \A q \in SysNrs \ {HARDWARE, p} : q \in {-3, -2} \ {p}
      BY SMT, <2>8
    <2>10. Stack(p) \subseteq At.stack..At.stack + TOTAL_SYS_PROC_STACK - 1
      BY SMT, <2>6, <2>7, <2>8, <2>9
    <2>11. Stack(-3) \cap Stack(-2) = {}
      BY SMT, <2>6, <2>7
    <2>12. ASSUME NEW q \in SysNrs \ {HARDWARE, p}
           PROVE  Stack(p) \cap Stack(q) = {}
      <3> HIDE DEF Stack
      <3>1. (p = -3 /\ q = -2) \/ (p = -2 /\ q = -3)
        BY SMT, <2>9
      <3> QED
        BY SMT, <2>11, <3>1
    <2> QED
      BY SMT, <2>3, <2>4, <2>5, <2>10, <2>12
  <1> QED
    BY PTL, <1>1, StartInvariance

\* Message passing starts in an initial state of Ipc.
THEOREM IpcMayBegin == Spec => []HandsOver
  <1>1. StartInv => HandsOver
    <2> SUFFICES ASSUME StartInv, at = "running" PROVE I!Init
      BY Zenon DEF HandsOver
    <2> DEFINE q    == [task |-> <<CLOCK_TASK>>, server |-> <<>>, user |-> <<>>]
               s    == [p \in ProcNrs |-> None]
               w    == [p \in ProcNrs |-> <<>>]
               b    == [p \in ProcNrs |-> FALSE]
               st   == [p \in ProcNrs |-> IF table[p].flags = 0 THEN None ELSE p]
               boot == [sendTo |-> s, getForm |-> s, waiters |-> w, msg |-> s,
                        queue |-> q, curr |-> IDLE_TASK, bill |-> None,
                        intBlocked |-> b]
    <2>1. at \in Filled /\ at \in LdtsDone
      BY SMT DEF LdtsDone, Enabled, GdtLoaded, IdtLoaded, Filled, HandlerThere,
                 KeyboardOpen
    <2>2. ready = ClockReady
      BY SMT, <2>1, Sizes DEF StartInv, ProcsInv, ProcsFrom, CLOCK_TASK
    <2>3. ready.curr = CLOCK_TASK /\ ready.bill = None
      BY SMT, <2>2 DEF ClockReady
    <2>4. ready.queue = q
      <3>1. ready.queue = [c \in {"task", "server", "user"} |->
                              IF c = "task" THEN <<CLOCK_TASK>> ELSE <<>>]
        BY SMT, <2>2 DEF ClockReady, D!Classes
      <3> QED
        BY SMT, <3>1
    <2>5. st = s
      BY SMT, <2>1 DEF StartInv, ProcsInv
    <2>6. I!Procs = ProcNrs
      BY SMT, Sizes DEF I!Procs
    <2>7. q["task"] = <<CLOCK_TASK>> /\ <<CLOCK_TASK>> # <<>>
          /\ Head(<<CLOCK_TASK>>) = CLOCK_TASK
      BY SMT
    <2> HIDE DEF q, s, w, b, st
    <2>8. I!BootKernel = I!Hunter(boot)
      BY Zenon, <2>6 DEF I!BootKernel, q, s, w, b
    <2>9. boot.queue = q
      BY SMT
    <2> DEFINE k == boot
    <2> HIDE DEF k
    <2>10. I!Hunter(k) = [k EXCEPT !.curr = CLOCK_TASK]
      BY SMT, <2>7, <2>9 DEF I!Hunter, k
    <2>11. [boot EXCEPT !.curr = CLOCK_TASK]
             = [sendTo |-> s, getForm |-> s, waiters |-> w, msg |-> s,
                queue |-> q, curr |-> CLOCK_TASK, bill |-> None,
                intBlocked |-> b]
      BY SMT
    <2>12. I!BootKernel
             = [queue |-> ready.queue, curr |-> ready.curr, bill |-> ready.bill,
                sendTo |-> st, getForm |-> st, waiters |-> w, msg |-> s,
                intBlocked |-> b]
      BY SMT, <2>3, <2>4, <2>5, <2>8, <2>10, <2>11 DEF k
    <2>13. (at # "reset") = TRUE
      BY Zenon
    <2> QED
      BY Zenon, <2>12, <2>13 DEF I!Init, st, s, w, b
  <1> QED
    BY PTL, <1>1, StartInvariance

-----------------------------------------------------------------------------
(* Dividing.                                                               *)

\* Quotient and remainder.
LEMMA Parts ==
    ASSUME NEW n \in Nat, NEW d \in Nat \ {0}
    PROVE  /\ n \div d \in Nat /\ n % d \in 0..d - 1
           /\ n = (n \div d) * d + (n % d)
  <1> DEFINE q == n \div d
             r == n % d
  <1>1. q \in Int /\ r \in 0..d - 1 /\ n = d * q + r
    BY SMT
  <1> HIDE DEF q, r
  <1>2. q >= 0
    BY SMT, <1>1
  <1>3. d * q = q * d
    BY SMT, <1>1
  <1>4. q \in Nat /\ r \in 0..d - 1 /\ n = q * d + r
    BY SMT, <1>1, <1>2, <1>3
  <1> QED
    BY Zenon, <1>4 DEF q, r

\* A larger quotient makes a larger number, whatever the remainder.
LEMMA PartsApart ==
    ASSUME NEW d \in Nat \ {0}, NEW q \in Nat, NEW r \in 0..d - 1,
           NEW p \in Nat, NEW s \in 0..d - 1, p < q
    PROVE  p * d + s < q * d + r /\ p * d + d <= q * d
  <1> DEFINE e == q - p - 1
  <1>1. e \in Nat /\ q = p + 1 + e
    BY SMT
  <1> HIDE DEF e
  <1>2. q * d = p * d + d + e * d
    BY SMT, <1>1
  <1>3. e * d \in Nat /\ p * d \in Nat
    BY SMT, <1>1
  <1> QED
    BY SMT, <1>2, <1>3

\* There is one way only to divide.
LEMMA PartsUnique ==
    ASSUME NEW d \in Nat \ {0}, NEW q \in Nat, NEW r \in 0..d - 1
    PROVE  (q * d + r) \div d = q /\ (q * d + r) % d = r
  <1> DEFINE n == q * d + r
             p == n \div d
             s == n % d
  <1>1. n \in Nat
    BY SMT
  <1>2. p \in Nat /\ s \in 0..d - 1 /\ n = p * d + s
    BY Zenon, <1>1, Parts
  <1>3. n = q * d + r
    OBVIOUS
  <1> HIDE DEF n, p, s
  <1>0. ~(n < n)
    BY SMT, <1>1
  <1>4. ASSUME p < q PROVE FALSE
    BY Zenon, <1>0, <1>2, <1>3, <1>4, PartsApart
  <1>5. ASSUME q < p PROVE FALSE
    BY Zenon, <1>0, <1>2, <1>3, <1>5, PartsApart
  <1>6. p = q
    BY SMT, <1>2, <1>4, <1>5
  <1>7. s = r
    BY SMT, <1>2, <1>3, <1>6
  <1> QED
    BY Zenon, <1>6, <1>7 DEF n, p, s

-----------------------------------------------------------------------------
(* The memory map and the page tables of the loader (Boot.tla).            *)

\* The range at the very end of 32 bit addresses is no memory: the sum of
\* calMemSize would be cut to nothing there.  A PC has its BIOS there.
TopFree(m) ==
    \A i \in DOMAIN m :
        m[i].type = 1 => \/ m[i].base + m[i].length < AddrPages
                         \/ m[i].base >= AddrPages

\* The first n ranges have been looked at.
Measured(n) ==
    \A i \in 1..n : map[i].type = 1 => Top(map[i]) <= memSize

MapInv ==
    /\ map \in Seq(MemoryRange) /\ Len(map) \in Nat \ {0} /\ TopFree(map)
    /\ memSize \in Nat
    /\ place \notin {"copy", "entered"} => count \in Nat
    /\ place = "boot" => count = 0
    /\ place = "memchk" => count < Len(map)
    /\ place = "kernel" => count = Len(map)
    /\ place = "size" =>
         count \in 1..Len(map) /\ Measured(Len(map) - count)
    /\ place \in {"paging", "copy", "entered"} => Measured(Len(map))
    /\ place \in {"copy", "entered"} =>
         /\ pde = [i \in 0..Tables - 1 |-> i]
         /\ pte = [i \in 0..Tables * PerTable - 1 |-> i]

\* Dividing a page number into its place in the directory and in a table.
LEMMA PageParts ==
    ASSUME NEW n \in Nat
    PROVE  /\ n \div PerTable \in Nat /\ n % PerTable \in 0..PerTable - 1
           /\ n = (n \div PerTable) * PerTable + (n % PerTable)
  <1>1. PerTable \in Nat \ {0}
    BY Zenon, BootAssumption
  <1> QED
    BY Zenon, <1>1, Parts

\* The tables hold all of the memory below memSize.
LEMMA TablesReach ==
    ASSUME memSize \in Nat, NEW page \in Nat, page < memSize
    PROVE  /\ Tables \in Nat
           /\ page \div PerTable \in 0..Tables - 1
           /\ page \in 0..Tables * PerTable - 1
  <1> DEFINE P == PerTable
             q == memSize \div P
             r == memSize % P
             a == page \div P
             b == page % P
             t == Tables
  <1>1. P \in Nat \ {0}
    BY SMT, BootAssumption
  <1>2. /\ q \in Nat /\ r \in 0..P - 1 /\ memSize = q * P + r
        /\ a \in Nat /\ b \in 0..P - 1 /\ page = a * P + b
    BY Zenon, PageParts
  <1>3. t = q + (IF r = 0 THEN 0 ELSE 1)
    BY Zenon DEF Tables
  <1> HIDE DEF P, q, r, a, b, t
  <1>4. t \in Nat /\ memSize <= t * P
    <2>1. CASE r = 0
      BY SMT, <1>1, <1>2, <1>3, <2>1
    <2>2. CASE r # 0
      <3>1. t = q + 1
        BY SMT, <1>2, <1>3, <2>2
      <3>2. t * P = q * P + P
        BY SMT, <1>1, <1>2, <3>1
      <3> QED
        BY SMT, <1>1, <1>2, <3>1, <3>2
    <2> QED
      BY SMT, <2>1, <2>2
  <1>5. t * P \in Nat /\ a * P \in Nat /\ a * P <= page
    BY SMT, <1>1, <1>2, <1>4
  <1>6. a < t
    <2>1. ASSUME a >= t PROVE FALSE
      <3> DEFINE c == a - t
      <3>2. c \in Nat /\ a = t + c
        BY SMT, <1>2, <1>4, <2>1
      <3> HIDE DEF c
      <3>3. a * P = t * P + c * P /\ c * P \in Nat
        BY SMT, <1>1, <1>4, <3>2
      <3>1. a * P >= t * P
        BY SMT, <1>5, <3>3
      <3> QED
        BY SMT, <1>4, <1>5, <3>1
    <2> QED
      BY SMT, <1>2, <1>4, <2>1
  <1>7. page <= t * P - 1 /\ a <= t - 1 /\ 0 <= a /\ 0 <= page
    BY SMT, <1>2, <1>4, <1>5, <1>6
  <1>8. a \in 0..t - 1 /\ page \in 0..t * P - 1
    BY SMT, <1>2, <1>4, <1>5, <1>7
  <1> QED
    BY Zenon, <1>4, <1>8 DEF a, t, P

\* A page that the tables hold is mapped to itself.
LEMMA WalksToItself ==
    ASSUME memSize \in Nat, NEW page \in Nat, page < memSize,
           pde = [i \in 0..Tables - 1 |-> i],
           pte = [i \in 0..Tables * PerTable - 1 |-> i]
    PROVE  page \div PerTable \in DOMAIN pde /\ Walk(page) = page
  <1>1. /\ page \div PerTable \in 0..Tables - 1
        /\ page \in 0..Tables * PerTable - 1
    BY Zenon, TablesReach
  <1>2. pde[page \div PerTable] = page \div PerTable
    BY Zenon, <1>1
  <1>3. (page \div PerTable) * PerTable + (page % PerTable) = page
    BY Zenon, PageParts
  <1>4. pte[page] = page
    BY Zenon, <1>1
  <1> QED
    BY Zenon, <1>1, <1>2, <1>3, <1>4 DEF Walk

\* What the largest end of a range is compared with.
LEMMA TopOfRange ==
    ASSUME NEW d \in MemoryRange
    PROVE  /\ Top(d) \in Nat
           /\ d.base + d.length < AddrPages => Top(d) = d.base + d.length
  <1> DEFINE b == d.base
             l == d.length
  <1>1. AddrPages \in Nat \ {0} /\ b \in Nat /\ l \in Nat
    BY SMT, BootAssumption DEF MemoryRange
  <1>2. Top(d) = ((b % AddrPages) + (l % AddrPages)) % AddrPages
    BY Zenon DEF Top
  <1> HIDE DEF b, l
  <1>3. Top(d) \in Nat
    BY SMT, <1>1, <1>2
  <1>4. ASSUME b + l < AddrPages PROVE Top(d) = b + l
    BY SMT, <1>1, <1>2, <1>4
  <1> QED
    BY Zenon, <1>3, <1>4 DEF b, l

\* The invariant is kept by each step of the boot program.
LEMMA MapStep ==
    ASSUME MapInv, BootStep
    PROVE  MapInv'
  <1>1. ASSUME ReadsFile PROVE MapInv'
    BY SMT, <1>1 DEF ReadsFile, MapInv, Measured, Top, TopFree, Tables, found
  <1>2. ASSUME JumpToLoader PROVE MapInv'
    BY SMT, <1>2 DEF JumpToLoader, MapInv, TopFree, found
  <1>3. ASSUME MemChkLoop PROVE MapInv'
    BY SMT, <1>3 DEF MemChkLoop, MapInv, TopFree, found
  <1>4. ASSUME MemChkFail PROVE MapInv'
    BY SMT, <1>4 DEF MemChkFail, MapInv, TopFree, found
  <1>5. ASSUME EnterProtectedMode PROVE MapInv'
    BY SMT, <1>5 DEF EnterProtectedMode, MapInv, Measured, TopFree, found
  <1>6. ASSUME CalMemSize PROVE MapInv'
    <2> DEFINE k == Len(map) - count + 1
               d == map[k]
    <2>1. /\ place = "size" /\ count \in 1..Len(map) /\ Len(map) \in Nat
          /\ k \in 1..Len(map) /\ Measured(k - 1)
          /\ map \in Seq(MemoryRange) /\ TopFree(map) /\ memSize \in Nat
      BY SMT, <1>6 DEF CalMemSize, MapInv
    <2>2. /\ memSize' = IF d.type = 1 /\ Top(d) >= memSize THEN Top(d) ELSE memSize
          /\ count' = count - 1
          /\ place' = IF count' = 0 THEN "paging" ELSE place
          /\ map' = map
      BY Zenon, <1>6 DEF CalMemSize, found
    <2>3. d \in MemoryRange /\ \A i \in 1..Len(map) : map[i] \in MemoryRange
      BY SMT, <2>1
    <2>4. \A i \in 1..Len(map) : Top(map[i]) \in Nat
      BY Zenon, <2>3, TopOfRange
    <2>5. memSize' \in Nat /\ memSize' >= memSize
          /\ (d.type = 1 => Top(d) <= memSize')
      BY SMT, <2>1, <2>2, <2>4
    <2>6. \A i \in 1..k : map[i].type = 1 => Top(map[i]) <= memSize'
      <3>1. ASSUME NEW i \in 1..k, map[i].type = 1 PROVE Top(map[i]) <= memSize'
        <4>1. CASE i = k
          BY SMT, <2>5, <3>1, <4>1
        <4>2. CASE i # k
          <5>1. i \in 1..k - 1 /\ i \in 1..Len(map)
            BY SMT, <2>1, <4>2
          <5>2. Top(map[i]) <= memSize /\ Top(map[i]) \in Nat
            BY Zenon, <2>1, <2>4, <3>1, <5>1 DEF Measured
          <5> QED
            BY SMT, <2>1, <2>5, <5>2
        <4> QED
          BY Zenon, <4>1, <4>2
      <3> QED
        BY Zenon, <3>1
    <2>7. k = Len(map) - count'
      BY SMT, <2>1, <2>2
    <2>9. count' \in Nat /\ (count' # 0 => count' \in 1..Len(map))
      BY SMT, <2>1, <2>2
    <2>10. TopFree(map)'
      BY SMT, <2>1, <2>2 DEF TopFree
    <2>11. CASE count' = 0
      <3>2. k = Len(map)
        BY SMT, <2>1, <2>7, <2>11
      <3>1. Measured(Len(map))'
        BY SMT, <2>2, <2>6, <3>2 DEF Measured, Top
      <3> QED
        BY SMT, <2>1, <2>2, <2>5, <2>9, <2>10, <2>11, <3>1 DEF MapInv
    <2>12. CASE count' # 0
      <3>1. Measured(Len(map) - count)'
        BY SMT, <2>2, <2>6, <2>7 DEF Measured, Top
      <3> QED
        BY SMT, <2>1, <2>2, <2>5, <2>9, <2>10, <2>12, <3>1 DEF MapInv
    <2> QED
      BY Zenon, <2>11, <2>12
  <1>7. ASSUME SetupPaging PROVE MapInv'
    <2>1. /\ place = "paging" /\ place' = "copy" /\ map' = map
          /\ memSize' = memSize /\ count' = Len(headers)
          /\ pde' = [i \in 0..Tables - 1 |-> i]
          /\ pte' = [i \in 0..Tables * PerTable - 1 |-> i]
      BY Zenon, <1>7 DEF SetupPaging, found
    <2>2. Tables' = Tables
      BY SMT, <2>1 DEF Tables
    <2>3. Measured(Len(map))'
      BY SMT, <2>1 DEF MapInv, Measured, Top
    <2>4. count' \in Nat
      BY SMT, <2>1
    <2> QED
      BY SMT, <2>1, <2>2, <2>3, <2>4 DEF MapInv, TopFree
  <1>8. ASSUME InitKernelFile PROVE MapInv'
    <2>1. /\ place = "copy" /\ place' \in {"copy", "entered"} /\ map' = map
          /\ memSize' = memSize /\ count' = count - 1
          /\ pde' = pde /\ pte' = pte
      BY SMT, <1>8 DEF InitKernelFile, found
    <2> QED
      BY SMT, <2>1 DEF MapInv, TopFree, Measured, Top, Tables
  <1> QED
    BY Zenon, <1>1, <1>2, <1>3, <1>4, <1>5, <1>6, <1>7, <1>8 DEF BootStep

\* Each page of memory below the end of 32 bit addresses is mapped to itself
\* before the kernel runs, for every map that leaves the very end free.
THEOREM AllMemoryMapped ==
    ASSUME \A m \in Machines : TopFree(m.map)
    PROVE  Spec => []MemoryMapped
  <1>1. Init => MapInv
    <2> SUFFICES ASSUME Init PROVE MapInv
      OBVIOUS
    <2>1. /\ \E m \in Machines : map = m.map
          /\ place = "boot" /\ count = 0 /\ memSize = 0
      BY SMT DEF Init, BootInit
    <2>2. map \in Seq(MemoryRange) /\ Len(map) \in 1..BufSlots /\ TopFree(map)
      BY Zenon, <2>1, BootAssumption
    <2>3. Len(map) \in Nat \ {0}
      BY SMT, <2>2, BootAssumption
    <2> QED
      BY SMT, <2>1, <2>2, <2>3 DEF MapInv
  <1>2. MapInv /\ [Next]_<<bootVars, startVars>> => MapInv'
    <2> SUFFICES ASSUME MapInv, [Next]_<<bootVars, startVars>> PROVE MapInv'
      OBVIOUS
    <2>1. CASE BootStep
      BY SMT, <2>1, MapStep
    <2>2. CASE UNCHANGED bootVars
      BY SMT, <2>2 DEF bootVars, MapInv, TopFree, Measured, Top, Tables
    <2> QED
      BY Zenon, <2>1, <2>2 DEF Next
  <1>3. MapInv => MemoryMapped
    <2> SUFFICES ASSUME MapInv, place \in {"copy", "entered"},
                        NEW i \in DOMAIN map, NEW page \in 0..AddrPages - 1,
                        map[i].type = 1,
                        page \in map[i].base..map[i].base + map[i].length - 1
                 PROVE  page \div PerTable \in DOMAIN pde /\ Walk(page) = page
      BY Zenon DEF MemoryMapped
    <2>1. /\ map[i] \in MemoryRange /\ i \in 1..Len(map)
          /\ AddrPages \in Nat
      BY SMT, BootAssumption DEF MapInv
    <2>2. /\ page \in Nat /\ page < AddrPages /\ map[i].base <= page
          /\ page < map[i].base + map[i].length
          /\ map[i].base \in Nat /\ map[i].length \in Nat
      BY SMT, <2>1 DEF MemoryRange
    <2>3. map[i].base + map[i].length < AddrPages
      BY SMT, <2>1, <2>2 DEF MapInv, TopFree
    <2>4. Top(map[i]) = map[i].base + map[i].length
      BY Zenon, <2>1, <2>3, TopOfRange
    <2>5. Top(map[i]) <= memSize
      BY SMT, <2>1 DEF MapInv, Measured
    <2>6. memSize \in Nat /\ page < memSize
      BY SMT, <2>2, <2>4, <2>5 DEF MapInv
    <2> QED
      BY Zenon, <2>2, <2>6, WalksToItself DEF MapInv
  <1> QED
    BY PTL, <1>1, <1>2, <1>3 DEF Spec

-----------------------------------------------------------------------------
(* Reading a file (Fat12.tla): sectors and entries are found where they    *)
(* are.                                                                    *)

\* readSect asks the BIOS for the sector it was asked for.
LEMMA SectorFound ==
    ASSUME NEW lba \in Nat
    PROVE  Int13(Chs(lba)) = lba /\ ReadSect(lba) = SectorOf(lba)
  <1> DEFINE track == lba \div SecPerTrk
             rest == lba % SecPerTrk
  <1>1. SecPerTrk \in Nat \ {0}
    BY Zenon, Fat12Assumption
  <1>2. track \in Nat /\ rest \in 0..SecPerTrk - 1
        /\ lba = track * SecPerTrk + rest
    BY Zenon, <1>1, Parts
  <1>3. Int13(Chs(lba))
          = (((track \div 2) * 2) + (track % 2)) * SecPerTrk + (rest + 1) - 1
    BY Zenon DEF Int13, Chs
  <1> HIDE DEF track, rest
  <1>4. ((track \div 2) * 2) + (track % 2) = track
    BY SMT, <1>2
  <1>5. track * SecPerTrk \in Nat
    BY SMT, <1>1, <1>2
  <1>6. Int13(Chs(lba)) = lba
    BY SMT, <1>2, <1>3, <1>4, <1>5
  <1> QED
    BY Zenon, <1>6 DEF ReadSect

\* Sizes of the floppy.
LEMMA Floppy ==
    /\ BytsPerSec \in Nat \ {0} /\ FATSz \in Nat \ {0}
    /\ RootDirSectors \in Nat \ {0} /\ EntriesPerSec \in Nat \ {0}
    /\ TotSec \in Nat \ {0} /\ SegBytes \in Nat \ {0}
    /\ SectorNoOfFAT1 = 1
    /\ SectorNoOfRootDirectory = 2 * FATSz + 1
    /\ DeltaSectorNo = 2 * FATSz - 1 /\ DeltaSectorNo \in Nat
    /\ SectorNoOfRootDirectory + RootDirSectors <= TotSec
    /\ \A c \in Clusters :
         /\ c \in Nat /\ 2 <= c /\ ~EndOfFile(c)
         /\ c + RootDirSectors + DeltaSectorNo \in Nat
         /\ c + RootDirSectors + DeltaSectorNo < TotSec
         /\ (3 * c) \div 2 + 1 < FATSz * BytsPerSec
  <1>1. /\ BytsPerSec \in Nat \ {0} /\ FATSz \in Nat \ {0}
        /\ RootDirSectors \in Nat \ {0} /\ EntriesPerSec \in Nat \ {0}
        /\ TotSec \in Nat \ {0} /\ SegBytes \in Nat \ {0}
    BY Zenon, Fat12Assumption
  <1>2. /\ SectorNoOfFAT1 = 1
        /\ SectorNoOfRootDirectory = 2 * FATSz + 1
        /\ DeltaSectorNo = 2 * FATSz - 1 /\ DeltaSectorNo \in Nat
    BY SMT, <1>1 DEF SectorNoOfFAT1, SectorNoOfRootDirectory, DeltaSectorNo
  <1>3. /\ SectorNoOfRootDirectory + RootDirSectors <= TotSec
        /\ \A c \in Clusters : ~EndOfFile(c) /\ (3 * c) \div 2 + 1 < FATSz * BytsPerSec
    BY Zenon, GeometryAssumption
  <1>4. \A c \in Clusters :
         /\ c \in Nat /\ 2 <= c
         /\ c + RootDirSectors + DeltaSectorNo \in Nat
         /\ c + RootDirSectors + DeltaSectorNo < TotSec
    BY SMT, <1>1, <1>2 DEF Clusters
  <1> QED
    BY SMT, <1>1, <1>2, <1>3, <1>4

\* Byte i of sector s of the FAT, whichever copy it is read from.
LEMMA FatSector ==
    ASSUME NEW s \in Nat, s <= FATSz
    PROVE  ReadSect(SectorNoOfFAT1 + s) =
             [i \in 1..BytsPerSec |->
                 FatByte((IF s = FATSz THEN 0 ELSE s) * BytsPerSec + i - 1)]
  <1> DEFINE lba == SectorNoOfFAT1 + s
             t == IF s = FATSz THEN 0 ELSE s
  <1>1. /\ lba \in Nat /\ lba - SectorNoOfFAT1 = s
        /\ lba \in SectorNoOfFAT1..SectorNoOfFAT1 + 2 * FATSz - 1
    BY SMT, Floppy
  <1>2. (lba - SectorNoOfFAT1) % FATSz = t
    <2>1. CASE s = FATSz
      <3>1. (1 * FATSz + 0) % FATSz = 0
        BY SMT, Floppy, PartsUnique
      <3> QED
        BY SMT, <1>1, <2>1, <3>1, Floppy
    <2>2. CASE s # FATSz
      <3>1. s \in 0..FATSz - 1
        BY SMT, <2>2, Floppy
      <3> QED
        BY SMT, <1>1, <2>2, <3>1, Floppy
    <2> QED
      BY Zenon, <2>1, <2>2
  <1>3. ReadSect(lba) = SectorOf(lba)
    BY Zenon, <1>1, SectorFound
  <1>4. SectorOf(lba) = [i \in 1..BytsPerSec |->
            FatByte(((lba - SectorNoOfFAT1) % FATSz) * BytsPerSec + i - 1)]
    BY Zenon, <1>1 DEF SectorOf
  <1> QED
    BY Zenon, <1>2, <1>3, <1>4

\* Two entries of twelve bits in three bytes, and out of two of them again.
LEMMA TwelveBits ==
    ASSUME NEW e \in Bits12, NEW o \in Bits12
    PROVE  /\ ((e % 256) + 256 * ((e \div 256) + 16 * (o % 16))) % 4096 = e
           /\ (((e \div 256) + 16 * (o % 16)) + 256 * (o \div 16)) \div 16 = o
  <1> DEFINE h == e \div 256
             l == e % 256
             u == o \div 16
             v == o % 16
  <1>1. h \in 0..15 /\ l \in 0..255 /\ e = 256 * h + l
    BY SMT DEF Bits12
  <1>2. u \in 0..255 /\ v \in 0..15 /\ o = 16 * u + v
    BY SMT DEF Bits12
  <1> HIDE DEF h, l, u, v
  <1>3. (l + 256 * (h + 16 * v)) % 4096 = e
    BY SMT, <1>1, <1>2
  <1>4. ((h + 16 * v) + 256 * u) \div 16 = o
    BY SMT, <1>1, <1>2
  <1> QED
    BY SMT, <1>3, <1>4 DEF h, l, u, v

\* The word at an entry's first byte holds its twelve bits, and four of
\* another one.
LEMMA EntryInWord ==
    ASSUME NEW c \in Nat, \A k \in Nat : Entry(k) \in Bits12
    PROVE  LET offset == (3 * c) \div 2
               word == FatByte(offset) + 256 * FatByte(offset + 1)
           IN  Unpack(c, word) = Entry(c)
  <1> DEFINE p == c \div 2
             e == Entry(2 * p)
             o == Entry(2 * p + 1)
             mid == (e \div 256) + 16 * (o % 16)
             offset == (3 * c) \div 2
             word == FatByte(offset) + 256 * FatByte(offset + 1)
  <1>1. p \in Nat /\ (c = 2 * p \/ c = 2 * p + 1)
    BY SMT
  <1> HIDE DEF p
  <1>2. /\ (3 * p) \div 3 = p /\ (3 * p) % 3 = 0
        /\ (3 * p + 1) \div 3 = p /\ (3 * p + 1) % 3 = 1
        /\ (3 * p + 2) \div 3 = p /\ (3 * p + 2) % 3 = 2
    BY SMT, <1>1
  <1>3. /\ FatByte(3 * p) = e % 256
        /\ FatByte(3 * p + 1) = mid
        /\ FatByte(3 * p + 2) = o \div 16
    BY SMT, <1>2 DEF FatByte
  <1>4. 2 * p \in Nat /\ 2 * p + 1 \in Nat
    BY SMT, <1>1
  <1>5. e \in Bits12 /\ o \in Bits12
    BY Zenon, <1>4
  <1> HIDE DEF e, o
  <1>6. /\ ((e % 256) + 256 * mid) % 4096 = e
        /\ (mid + 256 * (o \div 16)) \div 16 = o
    BY SMT, <1>5, TwelveBits
  <1> HIDE DEF mid
  <1>7. CASE c = 2 * p
    <2>1. offset = 3 * p /\ (3 * c) % 2 # 1 /\ offset + 1 = 3 * p + 1
      BY SMT, <1>1, <1>7
    <2>2. word = (e % 256) + 256 * mid
      BY SMT, <1>3, <2>1
    <2>3. Entry(c) = e
      BY SMT, <1>7 DEF e
    <2> QED
      BY SMT, <1>6, <2>1, <2>2, <2>3 DEF Unpack
  <1>8. CASE c = 2 * p + 1
    <2>1. offset = 3 * p + 1 /\ (3 * c) % 2 = 1 /\ offset + 1 = 3 * p + 2
      BY SMT, <1>1, <1>8
    <2>2. word = mid + 256 * (o \div 16)
      BY SMT, <1>3, <2>1
    <2>3. Entry(c) = o
      BY SMT, <1>8 DEF o
    <2> QED
      BY SMT, <1>6, <2>1, <2>2, <2>3 DEF Unpack
  <1> QED
    BY SMT, <1>1, <1>7, <1>8

\* What a sequence holds that is given by its values, and one behind it.
LEMMA Joined ==
    ASSUME NEW n \in Nat, NEW S, NEW a \in [1..n -> S], NEW b \in [1..n -> S]
    PROVE  /\ \A i \in 1..n : (a \o b)[i] = a[i]
           /\ n > 0 => (a \o b)[n + 1] = b[1]
  <1>1. a \in Seq(S) /\ Len(a) = n /\ b \in Seq(S) /\ Len(b) = n
    BY SMT
  <1> QED
    BY SMT, <1>1

\* get_fat_entry unpacks what was packed, across the end of a sector as well.
THEOREM EntryFound ==
    ASSUME NEW c \in Clusters, \A k \in Nat : Entry(k) \in Bits12
    PROVE  GetFatEntry(c) = Entry(c)
  <1> DEFINE B == BytsPerSec
             offset == (3 * c) \div 2
             s == offset \div B
             i == offset % B
             t == IF s + 1 = FATSz THEN 0 ELSE s + 1
             first == ReadSect(SectorNoOfFAT1 + s)
             second == ReadSect(SectorNoOfFAT1 + (s + 1))
  <1>1. /\ B \in Nat \ {0} /\ FATSz \in Nat \ {0} /\ c \in Nat
        /\ offset + 1 < FATSz * B
    BY SMT, Floppy
  <1>2. offset \in Nat
    BY SMT, <1>1
  <1> HIDE DEF offset
  <1>3. s \in Nat /\ i \in 0..B - 1 /\ offset = s * B + i
    BY Zenon, <1>1, <1>2, Parts
  <1> HIDE DEF s, i, B
  <1>4. s < FATSz
    <2>1. ASSUME FATSz < s PROVE FATSz * B + B <= s * B
      BY Zenon, <1>1, <1>3, <2>1, PartsApart
    <2>2. s # FATSz
      BY SMT, <1>1, <1>2, <1>3
    <2>3. FATSz * B \in Nat /\ s * B \in Nat
      BY SMT, <1>1, <1>3
    <2> QED
      BY SMT, <1>1, <1>2, <1>3, <2>1, <2>2, <2>3
  <1>5. /\ first = [j \in 1..B |-> FatByte(s * B + j - 1)]
        /\ second = [j \in 1..B |-> FatByte(t * B + j - 1)]
    <2>1. s \in Nat /\ s <= FATSz /\ s # FATSz /\ s + 1 \in Nat /\ s + 1 <= FATSz
      BY SMT, <1>1, <1>3, <1>4
    <2>2. first = [j \in 1..BytsPerSec |->
                     FatByte((IF s = FATSz THEN 0 ELSE s) * BytsPerSec + j - 1)]
      BY Zenon, <2>1, FatSector
    <2>3. second = [j \in 1..BytsPerSec |->
                     FatByte((IF s + 1 = FATSz THEN 0 ELSE s + 1) * BytsPerSec + j - 1)]
      BY Zenon, <2>1, FatSector
    <2> QED
      BY Zenon, <2>1, <2>2, <2>3 DEF B
  <1> DEFINE S == {first[j] : j \in 1..B} \cup {second[j] : j \in 1..B}
  <1>6. first \in [1..B -> S] /\ second \in [1..B -> S]
    BY Zenon, <1>5
  <1> HIDE DEF first, second, S
  <1>7. /\ \A j \in 1..B : (first \o second)[j] = first[j]
        /\ (first \o second)[B + 1] = second[1]
    BY SMT, <1>1, <1>6, Joined
  <1>8. (first \o second)[i + 1] = FatByte(offset)
    <2>1. i + 1 \in 1..B /\ s * B + (i + 1) - 1 = offset
      BY SMT, <1>1, <1>2, <1>3
    <2> QED
      BY Zenon, <1>5, <1>7, <2>1
  <1>9. (first \o second)[i + 2] = FatByte(offset + 1)
    <2>1. CASE i + 1 < B
      <3>1. i + 2 \in 1..B /\ s * B + (i + 2) - 1 = offset + 1
        BY SMT, <1>1, <1>2, <1>3, <2>1
      <3> QED
        BY Zenon, <1>5, <1>7, <3>1
    <2>2. CASE ~(i + 1 < B)
      <3>1. i + 2 = B + 1 /\ 1 \in 1..B
        BY SMT, <1>1, <1>3, <2>2
      <3>2. (s + 1) * B = s * B + B
        BY SMT, <1>1, <1>3
      <3>3. (s + 1) * B = offset + 1
        BY SMT, <1>1, <1>3, <3>1, <3>2
      <3>4. s + 1 # FATSz
        BY SMT, <1>1, <1>2, <3>3
      <3>5. t * B + 1 - 1 = offset + 1
        BY SMT, <1>2, <3>3, <3>4
      <3> QED
        BY Zenon, <1>5, <1>7, <3>1, <3>5
    <2> QED
      BY Zenon, <2>1, <2>2
  <1> DEFINE word == FatByte(offset) + 256 * FatByte(offset + 1)
  <1>10. GetFatEntry(c) = Unpack(c, word)
    <2>1. (SectorNoOfFAT1 + s) + 1 = SectorNoOfFAT1 + (s + 1)
      BY SMT, <1>3, Floppy
    <2>2. GetFatEntry(c) = Unpack(c, (first \o second)[i + 1]
                                     + 256 * (first \o second)[i + 2])
      BY Zenon, <2>1 DEF GetFatEntry, first, second, offset, s, i, B
    <2> QED
      BY Zenon, <1>8, <1>9, <2>2
  <1>11. Unpack(c, word) = Entry(c)
    BY Zenon, <1>1, EntryInWord DEF offset
  <1> QED
    BY Zenon, <1>10, <1>11

-----------------------------------------------------------------------------
(* What has been read.                                                     *)

\* The first n entries of the root directory are not the one looked for.
Sought(file, n) == \A i \in 1..n : RootEntry(i).name # file

\* A file that is there and not too large.
OnFloppy(file) ==
    \E i \in DOMAIN fs.root :
        fs.root[i].name = file /\ fs.root[i].size <= Space(file)

\* The first n sectors of a file are in memory m, one behind the other.
Loaded(m, file, n) ==
    \A k \in 1..n :
        /\ Base(file) + (k - 1) * BytsPerSec \in DOMAIN m
        /\ m[Base(file) + (k - 1) * BytsPerSec]
             = fs.chain[file][k] + RootDirSectors + DeltaSectorNo

\* r is at the sector n of its file, and its place in memory.
Reading(r, n) ==
    /\ r.cluster = fs.chain[r.file][n]
    /\ r.es + r.bx = Base(r.file) + (n - 1) * BytsPerSec

InSpace(m) ==
    \A a \in DOMAIN m :
        \E file \in DOMAIN Files :
            Base(file) <= a /\ a + BytsPerSec <= Base(file) + Space(file)

\* The registers r and the memory m, by where the reading is.
ReadOk(r, m) ==
    /\ r \in RdType
    /\ InSpace(m)
    /\ r.step = "root" =>
         /\ r.wSector + r.left = SectorNoOfRootDirectory + RootDirSectors
         /\ Sought(r.file, (r.wSector - SectorNoOfRootDirectory) * EntriesPerSec)
    /\ r.step = "names" =>
         /\ r.wSector >= SectorNoOfRootDirectory
         /\ r.wSector + r.left + 1 = SectorNoOfRootDirectory + RootDirSectors
         /\ r.di = 32 * (EntriesPerSec - r.dx)
         /\ Sought(r.file, (r.wSector - SectorNoOfRootDirectory) * EntriesPerSec
                             + (EntriesPerSec - r.dx))
    /\ r.step = "nofile" => Sought(r.file, RootDirSectors * EntriesPerSec)
    /\ r.step \in {"data", "fat", "done"} => OnFloppy(r.file)
    /\ r.step = "data" =>
         \E n \in 1..Len(fs.chain[r.file]) : Reading(r, n) /\ Loaded(m, r.file, n - 1)
    /\ r.step = "fat" =>
         \E n \in 1..Len(fs.chain[r.file]) : Reading(r, n) /\ Loaded(m, r.file, n)
    /\ r.step = "done" => Loaded(m, r.file, Len(fs.chain[r.file]))

\* What is taken for granted of the floppy, in parts.
LEMMA FormattedParts ==
    ASSUME Formatted(fs)
    PROVE  /\ fs.root \in Seq(DirEntry)
           /\ Len(fs.root) <= RootDirSectors * EntriesPerSec
           /\ \A k \in Nat : Entry(k) \in Bits12
           /\ \A i \in DOMAIN fs.root :
                /\ fs.root[i] \in DirEntry
                /\ fs.root[i].name \in DOMAIN Files =>
                     /\ \A j \in DOMAIN fs.root :
                          fs.root[j].name = fs.root[i].name => j = i
                     /\ Chained(fs, fs.chain[fs.root[i].name], fs.root[i])
  <1>1. /\ fs.root \in Seq(DirEntry)
        /\ Len(fs.root) <= RootDirSectors * EntriesPerSec
        /\ \A c \in DOMAIN fs.next : fs.next[c] \in Bits12
        /\ \A i \in DOMAIN fs.root :
             fs.root[i].name \in DOMAIN Files =>
               /\ \A j \in DOMAIN fs.root :
                    fs.root[j].name = fs.root[i].name => j = i
               /\ Chained(fs, fs.chain[fs.root[i].name], fs.root[i])
    BY Zenon DEF Formatted
  <1>2. 0 \in Bits12
    BY SMT DEF Bits12
  <1>3. \A k \in Nat : Entry(k) \in Bits12
    BY Zenon, <1>1, <1>2 DEF Entry
  <1>4. \A i \in DOMAIN fs.root : fs.root[i] \in DirEntry
    <2> HIDE DEF DirEntry
    <2> DEFINE root == fs.root
    <2>1. root \in Seq(DirEntry)
      BY Zenon, <1>1
    <2> HIDE DEF root
    <2>2. \A i \in DOMAIN root : root[i] \in DirEntry
      BY SMT, <2>1
    <2> QED
      BY Zenon, <2>2 DEF root
  <1> QED
    BY Zenon, <1>1, <1>3, <1>4

\* Whole blocks: what needs more than all blocks but one fits into a space
\* of whole blocks only if all of them do.
LEMMA WholeBlocks ==
    ASSUME NEW B \in Nat \ {0}, NEW L \in Nat \ {0}, NEW space \in Nat,
           space % B = 0, NEW size \in Nat, size > (L - 1) * B, size <= space
    PROVE  L * B <= space
  <1> DEFINE q == space \div B
  <1>1. q \in Nat /\ space = q * B
    <2>1. q \in Nat /\ space = q * B + (space % B)
      BY Zenon, Parts
    <2>2. q * B \in Nat
      BY SMT, <2>1
    <2> QED
      BY SMT, <2>1, <2>2
  <1> HIDE DEF q
  <1>2. (L - 1) * B < space /\ 0 \in 0..B - 1 /\ L \in Nat
    <2>1. (L - 1) * B \in Nat
      BY SMT
    <2> QED
      BY SMT, <2>1
  <1>3. ASSUME q < L PROVE FALSE
    <2>1. q * B + B <= L * B
      BY Zenon, <1>1, <1>2, <1>3, PartsApart
    <2>2. L * B = (L - 1) * B + B /\ q * B \in Nat /\ (L - 1) * B \in Nat
      BY SMT, <1>1
    <2> QED
      BY SMT, <1>1, <1>2, <2>1, <2>2
  <1>4. ASSUME L < q PROVE L * B <= space
    <2>1. L * B + B <= q * B
      BY Zenon, <1>1, <1>2, <1>4, PartsApart
    <2>2. q * B \in Nat /\ L * B \in Nat
      BY SMT, <1>1
    <2> QED
      BY SMT, <1>1, <2>1, <2>2
  <1>5. CASE L = q
    BY SMT, <1>1, <1>5
  <1> QED
    BY SMT, <1>1, <1>3, <1>4, <1>5

\* The chain of a file that is there: the FAT leads along it, and it keeps
\* to the space for the file.
LEMMA ChainFollowed ==
    ASSUME Formatted(fs), NEW file \in DOMAIN Files,
           NEW i \in DOMAIN fs.root, fs.root[i].name = file
    PROVE  /\ fs.chain[file] \in Seq(Clusters)
           /\ Len(fs.chain[file]) \in Nat \ {0}
           /\ DOMAIN fs.chain[file] = 1..Len(fs.chain[file])
           /\ fs.chain[file][1] = fs.root[i].first
           /\ fs.root[i].size \in Nat
           /\ fs.root[i].size <= Len(fs.chain[file]) * BytsPerSec
           /\ \A n \in 1..Len(fs.chain[file]) :
                /\ fs.chain[file][n] \in Clusters
                /\ n < Len(fs.chain[file]) =>
                     GetFatEntry(fs.chain[file][n]) = fs.chain[file][n + 1]
                /\ EndOfFile(GetFatEntry(fs.chain[file][n]))
                     <=> n = Len(fs.chain[file])
           /\ fs.root[i].size <= Space(file) =>
                Len(fs.chain[file]) * BytsPerSec <= Space(file)
  <1> DEFINE chain == fs.chain[file]
             L == Len(chain)
             B == BytsPerSec
             size == fs.root[i].size
  <1>1. /\ chain \in Seq(Clusters) /\ chain # <<>>
        /\ chain[1] = fs.root[i].first
        /\ \A n \in DOMAIN chain :
             /\ chain[n] \in DOMAIN fs.next
             /\ n < L => fs.next[chain[n]] = chain[n + 1]
             /\ ~(n < L) => EndOfFile(fs.next[chain[n]])
        /\ size > (L - 1) * B /\ size <= L * B
    <2>1. Chained(fs, chain, fs.root[i])
      BY Zenon, FormattedParts
    <2> HIDE DEF chain
    <2> QED
      BY Zenon, <2>1 DEF Chained
  <1>2. fs.root[i] \in DirEntry /\ \A k \in Nat : Entry(k) \in Bits12
    BY Zenon, FormattedParts
  <1>3. size \in Nat
    BY SMT, <1>2 DEF DirEntry
  <1>4. Space(file) \in Nat /\ Space(file) % B = 0 /\ B \in Nat \ {0}
    BY SMT, Fat12Assumption DEF Space
  <1> HIDE DEF chain, size, B
  <1>5. L \in Nat \ {0} /\ DOMAIN chain = 1..L /\ \A n \in 1..L : chain[n] \in Clusters
    BY SMT, <1>1
  <1> HIDE DEF L
  <1>6. \A n \in 1..L : GetFatEntry(chain[n]) = fs.next[chain[n]]
    <2> SUFFICES ASSUME NEW n \in 1..L
                 PROVE  GetFatEntry(chain[n]) = fs.next[chain[n]]
      BY Zenon
    <2>1. chain[n] \in Clusters /\ chain[n] \in DOMAIN fs.next
      BY Zenon, <1>1, <1>5
    <2>2. GetFatEntry(chain[n]) = Entry(chain[n])
      BY Zenon, <2>1, <1>2, EntryFound
    <2> QED
      BY Zenon, <2>1, <2>2 DEF Entry
  <1>7. \A c \in Clusters : ~EndOfFile(c)
    BY Zenon, Floppy
  <1>8. ASSUME NEW n \in 1..L
        PROVE  /\ chain[n] \in Clusters
               /\ n < L => GetFatEntry(chain[n]) = chain[n + 1]
               /\ EndOfFile(GetFatEntry(chain[n])) <=> n = L
    <2>1. GetFatEntry(chain[n]) = fs.next[chain[n]] /\ n \in DOMAIN chain
      BY Zenon, <1>5, <1>6
    <2>2. CASE n < L
      <3>1. n + 1 \in 1..L /\ n # L
        BY SMT, <1>5, <2>2
      <3>2. fs.next[chain[n]] = chain[n + 1] /\ chain[n + 1] \in Clusters
        BY Zenon, <1>1, <1>5, <2>1, <2>2, <3>1
      <3> QED
        BY Zenon, <1>5, <1>7, <2>1, <2>2, <3>1, <3>2
    <2>3. CASE ~(n < L)
      <3>1. n = L
        BY SMT, <1>5, <2>3
      <3>2. EndOfFile(fs.next[chain[n]])
        BY Zenon, <1>1, <2>1, <2>3
      <3> QED
        BY Zenon, <1>5, <2>1, <2>3, <3>1, <3>2
    <2> QED
      BY Zenon, <2>2, <2>3
  <1>9. size <= Space(file) => L * B <= Space(file)
    <2>1. size > (L - 1) * B
      BY Zenon, <1>1 DEF L
    <2> QED
      BY Zenon, <1>3, <1>4, <1>5, <2>1, WholeBlocks
  <1>10. size <= L * B
    BY Zenon, <1>1 DEF L
  <1> QED
    BY Zenon, <1>1, <1>3, <1>5, <1>8, <1>9, <1>10 DEF chain, L, size, B

-----------------------------------------------------------------------------
(* Each step of reading a file.                                            *)

\* The fields of the registers.
LEMMA Registers ==
    ASSUME NEW r \in RdType
    PROVE  /\ r.file \in DOMAIN Files /\ r.wSector \in Nat
           /\ r.wSector <= TotSec
           /\ r.left \in 0..RootDirSectors /\ r.di \in Nat
           /\ r.dx \in 0..EntriesPerSec /\ r.cluster \in Bits12
           /\ r.es \in Nat /\ r.bx \in 0..SegBytes - 1
  <1> HIDE DEF Bits12
  <1> QED
    BY SMT DEF RdType

\* Eleven bytes agree for the file itself only.
LEMMA NamesCompared ==
    ASSUME NEW name, NEW file
    PROVE  /\ SameBytes(name, file) \in 0..11
           /\ SameBytes(name, file) = 11 <=> name = file
  BY SMT DEF SameBytes

\* The entry that is looked at, and what is found in it.
LEMMA ItemFound ==
    ASSUME ReadOk(rd, memory), rd.step = "names", rd.dx > 0
    PROVE  /\ Item = RootEntry((rd.wSector - SectorNoOfRootDirectory) * EntriesPerSec
                                 + (EntriesPerSec - rd.dx) + 1)
           /\ Matching = SameBytes(Item.name, rd.file)
           /\ NextItem(rd.di, Matching) = 32 * (EntriesPerSec - (rd.dx - 1))
  <1> DEFINE w == rd.wSector
             x == rd.dx
             E == EntriesPerSec
             R == SectorNoOfRootDirectory
             di == rd.di
             y == E - x
  <1>1. /\ rd \in RdType /\ w >= R /\ di = 32 * (E - x)
    BY Zenon DEF ReadOk
  <1>2. w \in Nat /\ x \in 0..E /\ di \in Nat /\ x > 0
    BY SMT, <1>1, Registers
  <1>3. E \in Nat \ {0} /\ R \in Nat /\ R = 2 * FATSz + 1 /\ FATSz \in Nat
    BY SMT, Floppy
  <1> HIDE DEF w, x, di, E
  <1>4. y \in Nat /\ y + 1 \in 1..E /\ di = 32 * y
    BY SMT, <1>1, <1>2, <1>3
  <1> HIDE DEF y
  <1>5. di \div 32 = y /\ di % 32 = 0
    BY SMT, <1>4
  <1>6. ~(w \in SectorNoOfFAT1..SectorNoOfFAT1 + 2 * FATSz - 1)
    BY SMT, <1>1, <1>2, <1>3 DEF SectorNoOfFAT1
  <1>7. ReadSect(w) = [i \in 1..E |-> RootEntry((w - R) * E + i)]
    BY Zenon, <1>2, <1>6, SectorFound DEF SectorOf, E
  <1>8. Item = RootEntry((w - R) * E + (y + 1))
    BY Zenon, <1>4, <1>5, <1>7 DEF Item, w, di
  <1>9. (w - R) * E + (y + 1) = (w - R) * E + y + 1
    <2> DEFINE p == (w - R) * E
    <2>1. p \in Int
      BY SMT, <1>2, <1>3
    <2> HIDE DEF p
    <2>2. p + (y + 1) = p + y + 1
      BY SMT, <1>4, <2>1
    <2> QED
      BY Zenon, <2>2 DEF p
  <1>10. Matching = SameBytes(Item.name, rd.file)
    BY Zenon, <1>5 DEF Matching, di
  <1>11. Matching \in 0..11
    BY Zenon, <1>10, NamesCompared
  <1>12. NextItem(di, Matching) = 32 * (E - (x - 1))
    <2>1. (di + Matching) % 16 = Matching
      BY SMT, <1>4, <1>11
    <2>2. NextItem(di, Matching) = di + 32
      BY SMT, <1>4, <1>11, <2>1 DEF NextItem
    <2> QED
      BY SMT, <1>2, <1>3, <1>4, <2>2 DEF y
  <1> QED
    BY Zenon, <1>8, <1>9, <1>10, <1>12 DEF w, x, E, di, y

\* Looking through the root directory.
LEMMA SearchStep ==
    ASSUME ReadOk(rd, memory), SearchSector \/ NextSector \/ CompareName
    PROVE  ReadOk(rd', memory)
  <1> DEFINE w == rd.wSector
             l == rd.left
             x == rd.dx
             E == EntriesPerSec
             R == SectorNoOfRootDirectory
             root == RootDirSectors
             p == (w - R) * E
  <1>1. rd \in RdType /\ InSpace(memory)
    BY Zenon DEF ReadOk
  <1>2. /\ w \in Nat /\ w <= TotSec /\ l \in 0..root /\ x \in 0..E /\ rd.di \in Nat
    BY Zenon, <1>1, Registers
  <1>3. /\ E \in Nat \ {0} /\ R \in Nat /\ root \in Nat \ {0} /\ R + root <= TotSec
        /\ TotSec \in Nat
    BY SMT, Floppy
  <1>4. p \in Int
    BY SMT, <1>2, <1>3
  <1>5. CASE SearchSector
    <2>1. rd.step = "root" /\ w + l = R + root /\ Sought(rd.file, p)
      BY Zenon, <1>5 DEF SearchSector, ReadOk
    <2>2. CASE l = 0
      <3>1. rd' = [rd EXCEPT !.step = "nofile"]
        BY Zenon, <1>5, <2>2 DEF SearchSector
      <3>2. rd' \in RdType /\ rd'.step = "nofile" /\ rd'.file = rd.file
        BY SMT, <1>1, <3>1 DEF RdType
      <3>3. w - R = root
        BY SMT, <1>2, <1>3, <2>1, <2>2
      <3>4. Sought(rd.file, root * E)
        BY Zenon, <2>1, <3>3
      <3> QED
        BY Zenon, <1>1, <3>2, <3>4 DEF ReadOk
    <2>3. CASE l # 0
      <3>1. rd' = [rd EXCEPT !.step = "names", !.left = l - 1, !.di = 0, !.dx = E]
        BY Zenon, <1>5, <2>3 DEF SearchSector
      <3>2. l - 1 \in 0..root /\ E \in 0..E /\ 0 \in Nat
        BY SMT, <1>2, <1>3, <2>3
      <3>3. rd' \in RdType /\ rd'.step = "names" /\ rd'.file = rd.file
        BY Zenon, <1>1, <3>1, <3>2 DEF RdType
      <3>4. /\ rd'.wSector = w /\ rd'.left = l - 1 /\ rd'.di = 0 /\ rd'.dx = E
        BY SMT, <1>1, <3>1 DEF RdType
      <3>5. w >= R /\ w + (l - 1) + 1 = R + root /\ 0 = 32 * (E - E)
        BY SMT, <1>2, <1>3, <2>1
      <3>6. p + (E - E) = p
        <4> HIDE DEF p
        <4> QED
          BY SMT, <1>3, <1>4
      <3>7. Sought(rd.file, p + (E - E))
        BY Zenon, <2>1, <3>6
      <3> QED
        BY Zenon, <1>1, <3>3, <3>4, <3>5, <3>7 DEF ReadOk
    <2> QED
      BY Zenon, <2>2, <2>3
  <1>6. CASE NextSector
    <2>1. /\ rd.step = "names" /\ x = 0 /\ w >= R /\ w + l + 1 = R + root
          /\ Sought(rd.file, p + (E - x))
          /\ rd' = [rd EXCEPT !.step = "root", !.wSector = w + 1]
      BY Zenon, <1>6 DEF NextSector, ReadOk
    <2>2. w + 1 \in 0..TotSec /\ (w + 1) + l = R + root
      BY SMT, <1>2, <1>3, <2>1
    <2>3. rd' \in RdType /\ rd'.step = "root" /\ rd'.file = rd.file
          /\ rd'.wSector = w + 1 /\ rd'.left = l
      <3>1. rd' \in RdType
        BY Zenon, <1>1, <2>1, <2>2 DEF RdType
      <3>2. rd'.step = "root" /\ rd'.file = rd.file /\ rd'.left = l
            /\ rd'.wSector = w + 1
        BY Zenon, <1>1, <2>1 DEF RdType
      <3> QED
        BY Zenon, <3>1, <3>2
    <2>4. ((w + 1) - R) * E = p + (E - x)
      <3> DEFINE d == w - R
      <3>1. d \in Int /\ (w + 1) - R = d + 1
        BY SMT, <1>2, <1>3
      <3> HIDE DEF d
      <3>2. (d + 1) * E = d * E + E
        BY SMT, <1>3, <3>1
      <3>3. d * E \in Int
        BY SMT, <1>3, <3>1
      <3>4. d * E + E = d * E + (E - x)
        BY SMT, <1>3, <2>1, <3>3
      <3> QED
        BY Zenon, <3>1, <3>2, <3>4 DEF d
    <2>5. Sought(rd.file, ((w + 1) - R) * E)
      BY Zenon, <2>1, <2>4
    <2> QED
      BY Zenon, <1>1, <2>2, <2>3, <2>5 DEF ReadOk
  <1>7. CASE CompareName
    <2>1. /\ rd.step = "names" /\ x > 0 /\ w >= R /\ w + l + 1 = R + root
          /\ Sought(rd.file, p + (E - x)) /\ Matching < 11
          /\ rd' = [rd EXCEPT !.dx = x - 1, !.di = NextItem(rd.di, Matching)]
      BY Zenon, <1>7 DEF CompareName, ReadOk
    <2>2. /\ Item = RootEntry(p + (E - x) + 1)
          /\ Matching = SameBytes(Item.name, rd.file)
          /\ NextItem(rd.di, Matching) = 32 * (E - (x - 1))
      BY Zenon, <2>1, ItemFound
    <2>3. RootEntry(p + (E - x) + 1).name # rd.file
      <3>1. Matching \in 0..11 /\ (Matching = 11 <=> Item.name = rd.file)
        BY Zenon, <2>2, NamesCompared
      <3>2. Matching # 11
        BY SMT, <2>1, <3>1
      <3> QED
        BY Zenon, <2>2, <3>1, <3>2
    <2>4. x - 1 \in 0..E /\ 32 * (E - (x - 1)) \in Nat
      BY SMT, <1>2, <1>3, <2>1
    <2>5. rd' \in RdType /\ rd'.step = "names" /\ rd'.file = rd.file
          /\ rd'.wSector = w /\ rd'.left = l /\ rd'.dx = x - 1
          /\ rd'.di = 32 * (E - (x - 1))
      BY Zenon, <1>1, <2>1, <2>2, <2>4 DEF RdType
    <2>6. Sought(rd.file, p + (E - (x - 1)))
      <3> DEFINE n == p + (E - x)
                 q == p + (E - (x - 1))
      <3>1. n \in Int /\ q = n + 1
        <4> HIDE DEF p
        <4> QED
          BY SMT, <1>2, <1>3, <1>4
      <3> HIDE DEF n, q
      <3>2. ASSUME NEW i \in 1..q PROVE i \in 1..n \/ i = n + 1
        BY SMT, <3>1, <3>2
      <3>3. \A i \in 1..n : RootEntry(i).name # rd.file
        BY Zenon, <2>1 DEF Sought, n
      <3>4. RootEntry(n + 1).name # rd.file
        BY Zenon, <2>3 DEF n
      <3>5. \A i \in 1..q : RootEntry(i).name # rd.file
        BY Zenon, <3>2, <3>3, <3>4
      <3> QED
        BY Zenon, <3>5 DEF Sought, q
    <2> QED
      BY Zenon, <1>1, <2>1, <2>5, <2>6 DEF ReadOk
  <1> QED
    BY Zenon, <1>5, <1>6, <1>7

\* The file that is found is on the floppy, and its reading begins.
LEMMA FoundStep ==
    ASSUME Formatted(fs), ReadOk(rd, memory), FilenameFound
    PROVE  ReadOk(rd', memory)
  <1> DEFINE file == rd.file
             k == (rd.wSector - SectorNoOfRootDirectory) * EntriesPerSec
                    + (EntriesPerSec - rd.dx) + 1
             chain == fs.chain[file]
             seg == Files[file].seg
             offset == Files[file].offset
  <1>1. rd \in RdType /\ InSpace(memory)
    BY Zenon DEF ReadOk
  <1>2. file \in DOMAIN Files
    BY Zenon, <1>1, Registers
  <1>3. Item = RootEntry(k) /\ Matching = SameBytes(Item.name, file)
    BY Zenon, ItemFound DEF FilenameFound
  <1>4. Item.name = file
    <2>1. Matching = 11
      BY Zenon DEF FilenameFound
    <2> QED
      BY Zenon, <1>3, <2>1, NamesCompared
  <1>5. k \in DOMAIN fs.root /\ fs.root[k].name = file /\ Item = fs.root[k]
    <2>1. NoEntry.name = "free"
      BY SMT DEF NoEntry
    <2>2. file # "free"
      BY Zenon, <1>2, BootAssumption
    <2> HIDE DEF file, k
    <2> QED
      BY Zenon, <1>3, <1>4, <2>1, <2>2 DEF RootEntry
  <1> HIDE DEF k
  <1>6. seg \in Nat /\ offset \in 0..SegBytes - 1 /\ Base(file) = seg + offset
    BY Zenon, <1>2, Fat12Assumption DEF Base
  <1>7. Space(file) \in Nat
    BY Zenon, <1>2, Fat12Assumption DEF Space
  <1>8. CASE TooLarge(Item.size, file)
    <2>1. rd' = [rd EXCEPT !.step = "toolarge"]
      BY Zenon, <1>8 DEF FilenameFound
    <2>2. rd' \in RdType /\ rd'.step = "toolarge"
      BY Zenon, <1>1, <2>1 DEF RdType
    <2> QED
      BY Zenon, <1>1, <2>2 DEF ReadOk
  <1>9. CASE ~TooLarge(Item.size, file)
    <2>1. rd' = [rd EXCEPT !.step = "data", !.cluster = Item.first,
                           !.es = seg, !.bx = offset]
      BY Zenon, <1>9 DEF FilenameFound
    <2>2. /\ Len(chain) \in Nat \ {0} /\ chain[1] = fs.root[k].first
          /\ fs.root[k].size \in Nat /\ fs.root[k] \in DirEntry
      BY Zenon, <1>2, <1>5, ChainFollowed, FormattedParts
    <2>3. Item.first \in Bits12
      <3> DEFINE e == fs.root[k]
      <3>1. e \in DirEntry
        BY Zenon, <2>2
      <3> HIDE DEF e
      <3>2. e.first \in Bits12
        BY SMT, <3>1 DEF DirEntry
      <3> QED
        BY Zenon, <1>5, <3>2 DEF e
    <2>4. rd' \in RdType
      BY Zenon, <1>1, <1>6, <2>1, <2>3 DEF RdType
    <2>5. /\ rd'.step = "data" /\ rd'.file = file /\ rd'.cluster = Item.first
          /\ rd'.es = seg /\ rd'.bx = offset
      BY Zenon, <1>1, <2>1 DEF RdType
    <2>6. fs.root[k].size <= Space(file)
      <3> DEFINE size == fs.root[k].size
      <3>1. ~(size > Space(file)) /\ size \in Nat
        BY Zenon, <1>5, <1>9, <2>2 DEF TooLarge
      <3> HIDE DEF size
      <3>2. size <= Space(file)
        BY SMT, <1>7, <3>1
      <3> QED
        BY Zenon, <3>2 DEF size
    <2>7. OnFloppy(file)
      BY Zenon, <1>5, <2>6 DEF OnFloppy
    <2>8. 1 \in 1..Len(chain) /\ 1..1 - 1 = {} /\ (1 - 1) * BytsPerSec = 0
          /\ seg + offset = Base(file) + 0
      BY SMT, <1>6, <2>2, Floppy
    <2>9. Reading(rd', 1)
      BY Zenon, <1>5, <2>2, <2>5, <2>8 DEF Reading
    <2>10. Loaded(memory, file, 1 - 1)
      BY Zenon, <2>8 DEF Loaded
    <2> QED
      BY Zenon, <1>1, <2>4, <2>5, <2>7, <2>8, <2>9, <2>10 DEF ReadOk
  <1> QED
    BY Zenon, <1>8, <1>9

\* A sector of the file goes behind those before it.
LEMMA LoadStep ==
    ASSUME Formatted(fs), ReadOk(rd, memory), LoadSector(memory)
    PROVE  ReadOk(rd', memory')
  <1> DEFINE file == rd.file
             L == Len(fs.chain[file])
             B == BytsPerSec
             addr == rd.es + rd.bx
             base == Base(file)
             sector(n) == fs.chain[file][n] + RootDirSectors + DeltaSectorNo
  <1>1. rd \in RdType /\ InSpace(memory) /\ rd.step = "data"
    BY Zenon DEF ReadOk, LoadSector
  <1>2. file \in DOMAIN Files /\ OnFloppy(file)
    BY Zenon, <1>1, Registers DEF ReadOk
  <1>3. PICK n \in 1..L : Reading(rd, n) /\ Loaded(memory, file, n - 1)
    BY Zenon, <1>1 DEF ReadOk
  <1>4. rd.cluster = fs.chain[file][n] /\ addr = base + (n - 1) * B
    BY Zenon, <1>3 DEF Reading
  <1>5. PICK i \in DOMAIN fs.root : fs.root[i].name = file
                                    /\ fs.root[i].size <= Space(file)
    BY Zenon, <1>2 DEF OnFloppy
  <1>6. L \in Nat \ {0} /\ fs.chain[file][n] \in Clusters /\ L * B <= Space(file)
    BY Zenon, <1>2, <1>5, ChainFollowed
  <1>7. /\ Space(file) \in Nat /\ base \in Nat /\ B \in Nat \ {0}
    <2>1. Space(file) \in Nat /\ B \in Nat
          /\ Files[file].seg \in Nat /\ Files[file].offset \in 0..SegBytes - 1
      BY Zenon, <1>2, Fat12Assumption, Floppy DEF Space
    <2>2. Files[file].seg + Files[file].offset \in Nat
      BY SMT, <2>1
    <2> QED
      BY Zenon, <2>1, <2>2, Floppy DEF Base
  <1>8. CASE Reads(DataSector, addr)
    <2>1. /\ rd' = [rd EXCEPT !.step = "fat"]
          /\ memory' = Overwritten(memory, [a \in {addr} |-> Int13(Chs(DataSector))])
      BY Zenon, <1>8 DEF LoadSector
    <2>2. rd' \in RdType /\ rd'.step = "fat" /\ rd'.file = file
          /\ rd'.cluster = rd.cluster /\ rd'.es = rd.es /\ rd'.bx = rd.bx
      BY Zenon, <1>1, <2>1 DEF RdType
    <2>3. Int13(Chs(DataSector)) = sector(n)
      BY Zenon, <1>4, <1>6, SectorFound, Floppy DEF DataSector
    <2>4. /\ DOMAIN memory' = DOMAIN memory \cup {addr}
          /\ memory'[addr] = sector(n)
          /\ \A a \in DOMAIN memory : a # addr => memory'[a] = memory[a]
      <3> DEFINE v == sector(n)
                 new == [a \in {addr} |-> v]
      <3>1. memory' = Overwritten(memory, new)
        BY Zenon, <2>1, <2>3
      <3>2. DOMAIN new = {addr} /\ new[addr] = v
        BY Zenon
      <3> HIDE DEF new, v
      <3> QED
        <4>1. /\ DOMAIN Overwritten(memory, new) = DOMAIN memory \cup {addr}
              /\ Overwritten(memory, new)[addr] = v
              /\ \A a \in DOMAIN memory : a # addr => Overwritten(memory, new)[a] = memory[a]
          BY Zenon, <3>2 DEF Overwritten
        <4>2. v = sector(n)
          BY Zenon DEF v
        <4> HIDE DEF addr, sector
        <4> QED
          BY Zenon, <3>1, <4>1, <4>2
    <2>5. Reading(rd', n)
      BY Zenon, <1>4, <2>2 DEF Reading
    <2>6. n \in Nat \ {0} /\ n <= L
      BY SMT, <1>6
    <2>7. ASSUME NEW k \in 1..n
          PROVE  /\ base + (k - 1) * B \in DOMAIN memory'
                 /\ memory'[base + (k - 1) * B] = sector(k)
      <3>1. CASE k = n
        BY Zenon, <1>4, <2>4, <3>1
      <3>2. CASE k # n
        <4>1. k \in 1..n - 1 /\ k - 1 \in Nat /\ n - 1 \in Nat /\ k - 1 < n - 1
              /\ 0 \in 0..B - 1
          BY SMT, <1>7, <2>6, <3>2
        <4>2. (k - 1) * B + 0 < (n - 1) * B + 0
          BY Zenon, <1>7, <4>1, PartsApart
        <4>3. base + (k - 1) * B # base + (n - 1) * B
          <5> DEFINE p == (k - 1) * B
                     q == (n - 1) * B
          <5>1. p \in Nat /\ q \in Nat
            BY SMT, <1>7, <4>1
          <5>2. p + 0 < q + 0
            BY Zenon, <4>2
          <5> HIDE DEF p, q, base
          <5>3. base + p # base + q
            BY SMT, <1>7, <5>1, <5>2
          <5> QED
            BY Zenon, <5>3 DEF p, q
        <4>4. /\ base + (k - 1) * B \in DOMAIN memory
              /\ memory[base + (k - 1) * B] = sector(k)
          BY Zenon, <1>3, <4>1 DEF Loaded
        <4> QED
          BY Zenon, <1>4, <2>4, <4>3, <4>4
      <3> QED
        BY Zenon, <3>1, <3>2
    <2>8. Loaded(memory', file, n)
      BY Zenon, <2>7 DEF Loaded
    <2>9. base <= addr /\ addr + B <= base + Space(file)
      <3> DEFINE p == (n - 1) * B
                 q == L * B
      <3>1. p \in Nat /\ q \in Nat
        <4>1. n - 1 \in Nat /\ L \in Nat
          BY SMT, <1>6, <2>6
        <4> HIDE DEF L, B
        <4> QED
          BY SMT, <1>7, <4>1
      <3>2. p + B <= q
        <4>1. n - 1 \in Nat /\ L \in Nat /\ n - 1 < L /\ 0 \in 0..B - 1
          BY SMT, <1>6, <1>7, <2>6
        <4> QED
          BY Zenon, <1>7, <4>1, PartsApart
      <3>3. addr = base + p /\ q <= Space(file)
        BY Zenon, <1>4, <1>6
      <3> HIDE DEF p, q, addr, base, B
      <3> QED
        BY SMT, <1>7, <3>1, <3>2, <3>3
    <2>10. InSpace(memory')
      BY Zenon, <1>1, <1>2, <2>4, <2>9 DEF InSpace
    <2> QED
      BY Zenon, <1>2, <2>2, <2>5, <2>8, <2>10 DEF ReadOk
  <1>9. CASE ~Reads(DataSector, addr)
    BY Zenon, <1>9 DEF LoadSector
  <1> QED
    BY Zenon, <1>8, <1>9

\* The place for the next sector is behind the last one, in this segment or
\* in the next.
LEMMA Advanced ==
    ASSUME NEW s, NEW c
    PROVE  [Advance EXCEPT !.step = s, !.cluster = c]
             = [rd EXCEPT !.step = s, !.cluster = c,
                          !.bx = (rd.bx + BytsPerSec) % SegBytes,
                          !.es = IF rd.bx + BytsPerSec >= SegBytes
                                 THEN rd.es + SegBytes ELSE rd.es]
  BY Zenon DEF Advance

\* The chain is followed to its end.
LEMMA FollowStep ==
    ASSUME Formatted(fs), ReadOk(rd, memory), FollowChain
    PROVE  ReadOk(rd', memory)
  <1> DEFINE file == rd.file
             L == Len(fs.chain[file])
             B == BytsPerSec
             S == SegBytes
             x == rd.bx
             e == rd.es
             base == Base(file)
             c == GetFatEntry(rd.cluster)
  <1>1. rd \in RdType /\ InSpace(memory) /\ rd.step = "fat"
    BY Zenon DEF ReadOk, FollowChain
  <1>2. file \in DOMAIN Files /\ OnFloppy(file) /\ x \in 0..S - 1 /\ e \in Nat
    BY Zenon, <1>1, Registers DEF ReadOk
  <1>3. PICK n \in 1..L : Reading(rd, n) /\ Loaded(memory, file, n)
    BY Zenon, <1>1 DEF ReadOk
  <1>4. rd.cluster = fs.chain[file][n] /\ e + x = base + (n - 1) * B
    BY Zenon, <1>3 DEF Reading
  <1>5. PICK i \in DOMAIN fs.root : fs.root[i].name = file
                                    /\ fs.root[i].size <= Space(file)
    BY Zenon, <1>2 DEF OnFloppy
  <1>6. /\ L \in Nat \ {0}
        /\ \A k \in 1..L : fs.chain[file][k] \in Clusters
        /\ n < L => c = fs.chain[file][n + 1]
        /\ EndOfFile(c) <=> n = L
    <2> DEFINE g == GetFatEntry(fs.chain[file][n])
    <2>1. c = g
      BY Zenon, <1>4
    <2>2. /\ L \in Nat \ {0}
          /\ \A k \in 1..L : fs.chain[file][k] \in Clusters
          /\ n < L => g = fs.chain[file][n + 1]
          /\ EndOfFile(g) <=> n = L
      <3>1. /\ L \in Nat \ {0}
            /\ \A k \in 1..L :
                 /\ fs.chain[file][k] \in Clusters
                 /\ k < L => GetFatEntry(fs.chain[file][k]) = fs.chain[file][k + 1]
                 /\ EndOfFile(GetFatEntry(fs.chain[file][k])) <=> k = L
        BY Zenon, <1>2, <1>5, ChainFollowed
      <3> HIDE DEF L, file
      <3> QED
        BY Zenon, <3>1
    <2> HIDE DEF c, g
    <2> QED
      BY Zenon, <2>1, <2>2
  <1>7. CASE EndOfFile(c)
    <2>1. rd' = [rd EXCEPT !.step = "done"]
      BY Zenon, <1>7 DEF FollowChain
    <2>2. rd' \in RdType /\ rd'.step = "done" /\ rd'.file = file
      BY Zenon, <1>1, <2>1 DEF RdType
    <2> QED
      BY Zenon, <1>1, <1>2, <1>3, <1>6, <1>7, <2>2 DEF ReadOk
  <1>8. CASE ~EndOfFile(c)
    <2> DEFINE y == (x + B) % S
               f == IF x + B >= S THEN e + S ELSE e
    <2>1. n \in Nat /\ n < L /\ n + 1 \in 1..L /\ (n + 1) - 1 = n
      BY SMT, <1>6, <1>8
    <2>2. rd' = [rd EXCEPT !.step = "data", !.cluster = c, !.bx = y, !.es = f]
      BY Zenon, <1>8, Advanced DEF FollowChain
    <2>3. c \in Clusters /\ c = fs.chain[file][n + 1]
      BY Zenon, <1>6, <2>1
    <2>4. c \in Bits12
      <3>1. c \in Nat /\ ~EndOfFile(c)
        BY Zenon, <2>3, Floppy
      <3> HIDE DEF c
      <3> QED
        BY SMT, <3>1 DEF Bits12, EndOfFile
    <2>5. /\ B \in Nat \ {0} /\ S \in Nat \ {0} /\ S % B = 0
      BY Zenon, Fat12Assumption, Floppy
    <2> HIDE DEF B, S, x, e, c, base
    <2>6. B <= S
      BY SMT, <2>5
    <2>7. y \in 0..S - 1 /\ f \in Nat /\ f + y = (e + x) + B
      <3>1. CASE x + B >= S
        <4>1. y = x + B - S
          BY SMT, <1>2, <2>5, <2>6, <3>1
        <4> QED
          BY SMT, <1>2, <2>5, <2>6, <3>1, <4>1
      <3>2. CASE ~(x + B >= S)
        <4>1. y = x + B
          BY SMT, <1>2, <2>5, <2>6, <3>2
        <4> QED
          BY SMT, <1>2, <2>5, <2>6, <3>2, <4>1
      <3> QED
        BY Zenon, <3>1, <3>2
    <2> HIDE DEF y, f
    <2>8. rd' \in RdType
      BY Zenon, <1>1, <2>2, <2>4, <2>7 DEF RdType, S
    <2>9. /\ rd'.step = "data" /\ rd'.file = file /\ rd'.cluster = c
          /\ rd'.es = f /\ rd'.bx = y
      BY Zenon, <1>1, <2>2 DEF RdType
    <2>10. f + y = base + n * B
      <3> DEFINE p == (n - 1) * B
      <3>1. n * B = p + B /\ p \in Nat
        BY SMT, <1>3, <2>1, <2>5
      <3>2. base \in Nat
        <4>1. Files[file].seg \in Nat /\ Files[file].offset \in 0..SegBytes - 1
          BY Zenon, <1>2, Fat12Assumption
        <4>2. Files[file].seg + Files[file].offset \in Nat
          BY SMT, <4>1, Floppy
        <4> QED
          BY Zenon, <4>2 DEF Base, base
      <3>3. f + y = (base + p) + B
        BY Zenon, <1>4, <2>7
      <3> HIDE DEF p
      <3> QED
        BY SMT, <2>5, <3>1, <3>2, <3>3
    <2>11. Reading(rd', n + 1)
      BY Zenon, <2>1, <2>3, <2>9, <2>10 DEF Reading, base, B
    <2>12. Loaded(memory, file, (n + 1) - 1)
      BY Zenon, <1>3, <2>1
    <2> QED
      BY Zenon, <1>1, <1>2, <2>1, <2>8, <2>9, <2>11, <2>12 DEF ReadOk
  <1> QED
    BY Zenon, <1>7, <1>8

\* Each step of reading a file.
LEMMA ReadStep ==
    ASSUME Formatted(fs), ReadOk(rd, memory), ReadFileStep(memory)
    PROVE  ReadOk(rd', memory')
  <1>1. CASE LoadSector(memory)
    BY Zenon, <1>1, LoadStep
  <1>2. CASE (SearchSector \/ NextSector \/ CompareName) /\ UNCHANGED memory
    BY Zenon, <1>2, SearchStep
  <1>3. CASE FilenameFound /\ UNCHANGED memory
    BY Zenon, <1>3, FoundStep
  <1>4. CASE FollowChain /\ UNCHANGED memory
    BY Zenon, <1>4, FollowStep
  <1> QED
    BY Zenon, <1>1, <1>2, <1>3, <1>4 DEF ReadFileStep

\* A search begins.
LEMMA ReadStarts ==
    ASSUME NEW file \in DOMAIN Files, NEW m, InSpace(m)
    PROVE  ReadOk(Started(file), m)
  <1> DEFINE r == Started(file)
  <1>1. /\ SectorNoOfRootDirectory \in 0..TotSec /\ RootDirSectors \in 0..RootDirSectors
        /\ 0 \in Nat /\ 0 \in 0..EntriesPerSec /\ 0 \in 0..SegBytes - 1
        /\ (SectorNoOfRootDirectory - SectorNoOfRootDirectory) * EntriesPerSec = 0
        /\ 1..0 = {}
    BY SMT, Floppy
  <1>2. 0 \in Bits12
    BY SMT DEF Bits12
  <1>3. r \in RdType
    BY Zenon, <1>1, <1>2 DEF RdType, Started
  <1>4. /\ r.step = "root" /\ r.file = file /\ r.left = RootDirSectors
        /\ r.wSector = SectorNoOfRootDirectory
    BY Zenon DEF Started
  <1>5. Sought(file, (SectorNoOfRootDirectory - SectorNoOfRootDirectory) * EntriesPerSec)
    BY Zenon, <1>1 DEF Sought
  <1> HIDE DEF r
  <1>6. ReadOk(r, m)
    BY Zenon, <1>3, <1>4, <1>5 DEF ReadOk
  <1> QED
    BY Zenon, <1>6 DEF r

-----------------------------------------------------------------------------
(* The boot program around it.                                             *)

\* ReadOk speaks of the floppy, and nobody writes to it.
LEMMA FloppyKept ==
    ASSUME fs' = fs, ReadOk(rd', memory')
    PROVE  ReadOk(rd, memory)'
  <1>1. \A k : RootEntry(k)' = RootEntry(k)
    BY Zenon DEF RootEntry
  <1>2. \A file, n : Sought(file, n) => Sought(file, n)'
    BY Zenon, <1>1 DEF Sought
  <1>3. \A file : OnFloppy(file) => OnFloppy(file)'
    BY Zenon DEF OnFloppy
  <1> QED
    BY Zenon, <1>2, <1>3 DEF ReadOk, Reading, Loaded

\* The segments of the first n headers are where they are linked.
Placed(n) ==
    \A i \in 1..n : headers[i].type # 0 =>
        \A a \in DOMAIN Copied(headers[i]) :
            a \in DOMAIN image /\ image[a] = Copied(headers[i])[a]

\* Where the boot program is, what it has read and what it has copied.
ProgramInv ==
    /\ place \in {"boot", "memchk", "memfail", "kernel", "size", "paging",
                  "copy", "entered"}
    /\ place \in {"kernel", "size", "paging", "copy", "entered"} => rd.file = "KERNEL"
    /\ place \in {"size", "paging", "copy", "entered"} => rd.step = "done"

CountInv ==
    /\ place \in {"boot", "memfail", "paging", "entered"} => count = 0
    /\ place = "memchk" => count \in 0..Len(map) - 1
    /\ place = "kernel" => count = Len(map)
    /\ place = "size" => count \in 1..Len(map)
    /\ place = "copy" => count \in 1..Len(headers)
    /\ memSize \in 0..AddrPages - 1

CopyInv ==
    /\ place = "copy" => Placed(Len(headers) - count)
    /\ place = "entered" => Placed(Len(headers))

\* What has been found.
FoundInv ==
    /\ Formatted(fs) /\ Linked(headers, fs)
    /\ map \in Seq(MemoryRange) /\ Len(map) \in 1..BufSlots

LoadInv ==
    FoundInv /\ ReadOk(rd, memory) /\ ProgramInv /\ CountInv /\ CopyInv

\* The parts of what is found.
LEMMA FoundParts ==
    ASSUME FoundInv
    PROVE  /\ headers \in Seq(Header) /\ Len(headers) \in Nat \ {0}
           /\ DOMAIN headers = 1..Len(headers)
           /\ \A i \in 1..Len(headers) :
                /\ headers[i].type \in Nat /\ headers[i].offset \in Nat
                /\ headers[i].vaddr \in Nat /\ headers[i].filesz \in Nat
           /\ \A i \in 1..Len(map) : map[i] \in MemoryRange
           /\ Len(map) \in Nat \ {0} /\ Len(map) <= BufSlots
           /\ AddrPages \in Nat \ {0} /\ BufSlots \in Nat \ {0}
  <1>1. headers \in Seq(Header) /\ headers # <<>>
    BY Zenon DEF FoundInv, Linked
  <1>2. map \in Seq(MemoryRange) /\ Len(map) \in 1..BufSlots
    BY Zenon DEF FoundInv
  <1>3. AddrPages \in Nat \ {0} /\ BufSlots \in Nat \ {0}
    BY Zenon, BootAssumption
  <1> HIDE DEF Header, MemoryRange
  <1>4. Len(headers) \in Nat \ {0} /\ DOMAIN headers = 1..Len(headers)
        /\ \A i \in 1..Len(headers) : headers[i] \in Header
    BY SMT, <1>1
  <1>5. ASSUME NEW h \in Header
        PROVE  h.type \in Nat /\ h.offset \in Nat /\ h.vaddr \in Nat /\ h.filesz \in Nat
    BY SMT DEF Header
  <1>6. /\ \A i \in 1..Len(map) : map[i] \in MemoryRange
        /\ Len(map) \in Nat \ {0} /\ Len(map) <= BufSlots
    BY SMT, <1>2, <1>3
  <1> QED
    BY Zenon, <1>1, <1>3, <1>4, <1>5, <1>6

\* Nothing else changes what the boot program has done.
LEMMA LoadKept ==
    ASSUME LoadInv, UNCHANGED bootVars
    PROVE  LoadInv'
  <1>1. /\ fs' = fs /\ rd' = rd /\ map' = map /\ headers' = headers
        /\ place' = place /\ memory' = memory /\ count' = count
        /\ memSize' = memSize /\ image' = image
    BY Zenon DEF bootVars
  <1>2. ReadOk(rd, memory)'
    BY Zenon, <1>1, FloppyKept DEF LoadInv
  <1>3. FoundInv'
    BY Zenon, <1>1 DEF LoadInv, FoundInv
  <1>4. ProgramInv' /\ CountInv'
    BY Zenon, <1>1 DEF LoadInv, ProgramInv, CountInv
  <1>5. \A h : Copied(h)' = Copied(h)
    BY Zenon, <1>1 DEF Copied, FileByte
  <1>6. \A n : Placed(n) => Placed(n)'
    BY Zenon, <1>1, <1>5 DEF Placed
  <1>7. CopyInv'
    BY Zenon, <1>1, <1>6 DEF LoadInv, CopyInv
  <1> QED
    BY Zenon, <1>2, <1>3, <1>4, <1>7 DEF LoadInv

\* The boot sector begins.
LEMMA LoadStarts == BootInit => LoadInv
  <1> SUFFICES ASSUME BootInit PROVE LoadInv
    BY Zenon
  <1>1. PICK m \in Machines : fs = m.fs /\ map = m.map /\ headers = m.headers
    BY Zenon DEF BootInit
  <1>2. FoundInv
    BY Zenon, <1>1, BootAssumption DEF FoundInv
  <1>3. /\ place = "boot" /\ rd = Started("LOADER") /\ memory = <<>>
        /\ count = 0 /\ memSize = 0
    BY Zenon DEF BootInit
  <1>4. InSpace(memory)
    <2>1. DOMAIN memory = {}
      BY SMT, <1>3
    <2> QED
      BY Zenon, <2>1 DEF InSpace
  <1>5. ReadOk(rd, memory)
    BY Zenon, <1>3, <1>4, ReadStarts, BootAssumption
  <1>6. 0 \in 0..AddrPages - 1
    BY SMT, <1>2, FoundParts
  <1>7. ProgramInv /\ CountInv /\ CopyInv
    BY Zenon, <1>3, <1>6 DEF ProgramInv, CountInv, CopyInv
  <1> QED
    BY Zenon, <1>2, <1>5, <1>7 DEF LoadInv

\* What InitKernelFile copies does not go over what it has copied.
LEMMA SegmentPlaced ==
    ASSUME FoundInv, NEW j \in 1..Len(headers), Placed(j - 1), memory' = memory,
           headers' = headers,
           image' = IF headers[j].type = 0 THEN image
                    ELSE Overwritten(image, Copied(headers[j]))
    PROVE  Placed(j)'
  <1>1. \A h : Copied(h)' = Copied(h)
    BY Zenon DEF Copied, FileByte
  <1>2. /\ Len(headers) \in Nat
        /\ \A i \in 1..Len(headers) :
             /\ headers[i].type \in Nat /\ headers[i].offset \in Nat
             /\ headers[i].vaddr \in Nat /\ headers[i].filesz \in Nat
    BY Zenon, FoundParts
  <1>3. ASSUME NEW i \in 1..j, headers[i].type # 0,
               NEW a \in DOMAIN Copied(headers[i])
        PROVE  a \in DOMAIN image' /\ image'[a] = Copied(headers[i])[a]
    <2>1. CASE i = j
      BY Zenon, <1>3, <2>1 DEF Overwritten
    <2>2. CASE i # j
      <3>1. i \in 1..j - 1 /\ i \in 1..Len(headers)
        BY SMT, <1>2, <2>2
      <3>2. a \in DOMAIN image /\ image[a] = Copied(headers[i])[a]
        BY Zenon, <1>3, <3>1 DEF Placed
      <3>3. CASE headers[j].type = 0
        BY Zenon, <3>2, <3>3
      <3>4. CASE headers[j].type # 0
        <4>1. a \notin DOMAIN Copied(headers[j])
          <5> DEFINE u == headers[i].vaddr
                     n == headers[i].filesz
                     v == headers[j].vaddr
                     m == headers[j].filesz
          <5>1. u \in Nat /\ n \in Nat /\ v \in Nat /\ m \in Nat
            BY Zenon, <1>2, <3>1
          <5>2. i \in DOMAIN headers /\ j \in DOMAIN headers
            BY Zenon, <3>1, FoundParts
          <5>3. u + n <= v \/ v + m <= u
            BY Zenon, <1>3, <2>2, <3>4, <5>2 DEF FoundInv, Linked
          <5>4. a \in u..u + n - 1
            BY Zenon, <1>3 DEF Copied
          <5>5. DOMAIN Copied(headers[j]) = v..v + m - 1
            BY Zenon DEF Copied
          <5> HIDE DEF u, n, v, m
          <5>6. a \notin v..v + m - 1
            BY SMT, <5>1, <5>3, <5>4
          <5> QED
            BY Zenon, <5>5, <5>6
        <4> QED
          BY Zenon, <3>2, <3>4, <4>1 DEF Overwritten
      <3> QED
        BY Zenon, <3>3, <3>4
    <2> QED
      BY Zenon, <2>1, <2>2
  <1> QED
    BY Zenon, <1>1, <1>3 DEF Placed

\* Each step of the boot program keeps it.
LEMMA LoadStepKept ==
    ASSUME LoadInv, BootStep
    PROVE  LoadInv'
  <1>0. /\ FoundInv /\ ReadOk(rd, memory) /\ ProgramInv /\ CountInv /\ CopyInv
    BY Zenon DEF LoadInv
  <1>1. /\ fs' = fs /\ map' = map /\ headers' = headers
    BY Zenon DEF BootStep, ReadsFile, JumpToLoader, MemChkLoop, MemChkFail,
       EnterProtectedMode, CalMemSize, SetupPaging, InitKernelFile, found
  <1>2. FoundInv'
    BY Zenon, <1>0, <1>1 DEF FoundInv
  <1>3. /\ Len(map) \in Nat \ {0} /\ Len(headers) \in Nat \ {0}
        /\ \A i \in 1..Len(map) : map[i] \in MemoryRange
        /\ AddrPages \in Nat \ {0}
    BY Zenon, <1>0, FoundParts
  <1>4. Formatted(fs)
    BY Zenon, <1>0 DEF FoundInv
  <1>5. CASE ReadsFile
    <2>1. /\ place \in {"boot", "kernel"} /\ ReadFileStep(memory)
          /\ place' = place /\ count' = count /\ memSize' = memSize
      BY Zenon, <1>5 DEF ReadsFile
    <2>2. rd'.file = rd.file
      <3>1. rd \in RdType
        BY Zenon, <1>0 DEF ReadOk
      <3> QED
        BY Zenon, <2>1, <3>1 DEF ReadFileStep, LoadSector, SearchSector, CompareName,
           NextSector, FilenameFound, FollowChain, Advance, RdType
    <2>3. ReadOk(rd, memory)'
      BY Zenon, <1>0, <1>1, <1>4, <2>1, ReadStep, FloppyKept
    <2>4. ProgramInv' /\ CountInv' /\ CopyInv'
      BY Zenon, <1>0, <1>1, <2>1, <2>2 DEF ProgramInv, CountInv, CopyInv
    <2> QED
      BY Zenon, <1>2, <2>3, <2>4 DEF LoadInv
  <1>6. CASE JumpToLoader
    <2>1. /\ place = "boot" /\ place' = "memchk" /\ rd' = rd
          /\ memory' = memory /\ count' = count /\ memSize' = memSize
      BY Zenon, <1>6 DEF JumpToLoader
    <2>2. 0 \in 0..Len(map) - 1
      BY SMT, <1>3
    <2>3. ReadOk(rd, memory)'
      BY Zenon, <1>0, <1>1, <2>1, FloppyKept
    <2>4. ProgramInv' /\ CountInv' /\ CopyInv'
      BY Zenon, <1>0, <1>1, <2>1, <2>2 DEF ProgramInv, CountInv, CopyInv
    <2> QED
      BY Zenon, <1>2, <2>3, <2>4 DEF LoadInv
  <1>7. CASE MemChkLoop
    <2>1. /\ place = "memchk" /\ memory' = memory /\ count' = count + 1
          /\ memSize' = memSize
      BY Zenon, <1>7 DEF MemChkLoop
    <2>2. count \in 0..Len(map) - 1
      BY Zenon, <1>0, <2>1 DEF CountInv
    <2>3. CASE count' < Len(map)
      <3>1. rd' = rd /\ place' = place
        BY Zenon, <1>7, <2>3 DEF MemChkLoop
      <3>2. count' \in 0..Len(map) - 1
        BY SMT, <1>3, <2>1, <2>2, <2>3
      <3>3. ReadOk(rd, memory)'
        BY Zenon, <1>0, <1>1, <2>1, <3>1, FloppyKept
      <3>4. ProgramInv' /\ CountInv' /\ CopyInv'
        BY Zenon, <1>0, <1>1, <2>1, <3>1, <3>2 DEF ProgramInv, CountInv, CopyInv
      <3> QED
        BY Zenon, <1>2, <3>3, <3>4 DEF LoadInv
    <2>4. CASE ~(count' < Len(map))
      <3>1. rd' = Started("KERNEL") /\ place' = "kernel"
        BY Zenon, <1>7, <2>4 DEF MemChkLoop
      <3>2. count' = Len(map)
        BY SMT, <1>3, <2>1, <2>2, <2>4
      <3>3. rd'.file = "KERNEL"
        BY Zenon, <3>1 DEF Started
      <3>4. InSpace(memory) /\ "KERNEL" \in DOMAIN Files
        BY Zenon, <1>0, BootAssumption DEF ReadOk
      <3>5. ReadOk(rd', memory')
        BY Zenon, <2>1, <3>1, <3>4, ReadStarts
      <3>6. ReadOk(rd, memory)'
        BY Zenon, <1>1, <3>5, FloppyKept
      <3>7. ProgramInv' /\ CountInv' /\ CopyInv'
        BY Zenon, <1>0, <1>1, <2>1, <3>1, <3>2, <3>3 DEF ProgramInv, CountInv, CopyInv
      <3> QED
        BY Zenon, <1>2, <3>6, <3>7 DEF LoadInv
    <2> QED
      BY Zenon, <2>3, <2>4
  <1>8. CASE MemChkFail
    <2>1. /\ place' = "memfail" /\ count' = 0 /\ rd' = rd
          /\ memory' = memory /\ memSize' = memSize
      BY Zenon, <1>8 DEF MemChkFail
    <2>2. ReadOk(rd, memory)'
      BY Zenon, <1>0, <1>1, <2>1, FloppyKept
    <2>3. ProgramInv' /\ CountInv' /\ CopyInv'
      BY Zenon, <1>0, <1>1, <2>1 DEF ProgramInv, CountInv, CopyInv
    <2> QED
      BY Zenon, <1>2, <2>2, <2>3 DEF LoadInv
  <1>9. CASE EnterProtectedMode
    <2>1. /\ place = "kernel" /\ rd.step = "done" /\ place' = "size" /\ rd' = rd
          /\ memory' = memory /\ count' = count /\ memSize' = memSize
      BY Zenon, <1>9 DEF EnterProtectedMode
    <2>2. count \in 1..Len(map)
      <3>1. count = Len(map)
        BY Zenon, <1>0, <2>1 DEF CountInv
      <3> QED
        BY SMT, <1>3, <3>1
    <2>3. ReadOk(rd, memory)'
      BY Zenon, <1>0, <1>1, <2>1, FloppyKept
    <2>4. ProgramInv' /\ CountInv' /\ CopyInv'
      BY Zenon, <1>0, <1>1, <2>1, <2>2 DEF ProgramInv, CountInv, CopyInv
    <2> QED
      BY Zenon, <1>2, <2>3, <2>4 DEF LoadInv
  <1>10. CASE CalMemSize
    <2> DEFINE k == Len(map) - count + 1
               d == map[k]
    <2>1. /\ place = "size" /\ rd' = rd /\ memory' = memory /\ count' = count - 1
          /\ memSize' = IF d.type = 1 /\ Top(d) >= memSize THEN Top(d) ELSE memSize
          /\ place' = IF count' = 0 THEN "paging" ELSE place
      BY Zenon, <1>10 DEF CalMemSize
    <2>2. count \in 1..Len(map)
      BY Zenon, <1>0, <2>1 DEF CountInv
    <2>3. Top(d) \in 0..AddrPages - 1
      <3>1. k \in 1..Len(map)
        BY SMT, <1>3, <2>2
      <3>2. d \in MemoryRange
        BY Zenon, <1>3, <3>1
      <3> HIDE DEF d
      <3>3. d.base \in Nat /\ d.length \in Nat
        BY SMT, <3>2 DEF MemoryRange
      <3>4. d.base % AddrPages \in 0..AddrPages - 1
            /\ d.length % AddrPages \in 0..AddrPages - 1
        BY Zenon, <1>3, <3>3, Parts
      <3>5. (d.base % AddrPages) + (d.length % AddrPages) \in Nat
        BY SMT, <1>3, <3>4
      <3> QED
        BY Zenon, <1>3, <3>5, Parts DEF Top
    <2>4. memSize' \in 0..AddrPages - 1
      BY Zenon, <1>0, <2>1, <2>3 DEF CountInv
    <2>5. ReadOk(rd, memory)'
      BY Zenon, <1>0, <1>1, <2>1, FloppyKept
    <2>6. CASE count' = 0
      <3>1. place' = "paging"
        BY Zenon, <2>1, <2>6
      <3>2. ProgramInv' /\ CountInv' /\ CopyInv'
        BY Zenon, <1>0, <1>1, <2>1, <2>4, <2>6, <3>1 DEF ProgramInv, CountInv, CopyInv
      <3> QED
        BY Zenon, <1>2, <2>5, <3>2 DEF LoadInv
    <2>7. CASE count' # 0
      <3>1. place' = place
        BY Zenon, <2>1, <2>7
      <3>2. count' \in 1..Len(map)
        BY SMT, <1>3, <2>1, <2>2, <2>7
      <3>3. ProgramInv' /\ CountInv' /\ CopyInv'
        BY Zenon, <1>0, <1>1, <2>1, <2>4, <3>1, <3>2 DEF ProgramInv, CountInv, CopyInv
      <3> QED
        BY Zenon, <1>2, <2>5, <3>3 DEF LoadInv
    <2> QED
      BY Zenon, <2>6, <2>7
  <1>11. CASE SetupPaging
    <2>1. /\ place = "paging" /\ place' = "copy" /\ rd' = rd /\ memory' = memory
          /\ count' = Len(headers) /\ memSize' = memSize
      BY Zenon, <1>11 DEF SetupPaging
    <2>2. count' \in 1..Len(headers) /\ 1..Len(headers) - count' = {}
      BY SMT, <1>3, <2>1
    <2>3. ReadOk(rd, memory)'
      BY Zenon, <1>0, <1>1, <2>1, FloppyKept
    <2>4. CopyInv'
      BY Zenon, <1>1, <2>1, <2>2 DEF CopyInv, Placed
    <2>5. ProgramInv' /\ CountInv'
      BY Zenon, <1>0, <1>1, <2>1, <2>2 DEF ProgramInv, CountInv
    <2> QED
      BY Zenon, <1>2, <2>3, <2>4, <2>5 DEF LoadInv
  <1>12. CASE InitKernelFile
    <2>1. place = "copy" /\ count \in 1..Len(headers) /\ Placed(Len(headers) - count)
      BY Zenon, <1>0, <1>12 DEF InitKernelFile, CountInv, CopyInv
    <2>2. PICK j \in 1..Len(headers) :
            /\ j = Len(headers) - count + 1 /\ j - 1 = Len(headers) - count
            /\ Len(headers) - (count - 1) = j
      <3> DEFINE k == Len(headers) - count + 1
      <3>1. /\ k \in 1..Len(headers) /\ k - 1 = Len(headers) - count
            /\ Len(headers) - (count - 1) = k
        BY SMT, <1>3, <2>1
      <3> QED
        BY Zenon, <3>1
    <2>3. /\ rd' = rd /\ memory' = memory /\ count' = count - 1
          /\ memSize' = memSize
          /\ image' = IF headers[j].type = 0 THEN image
                      ELSE Overwritten(image, Copied(headers[j]))
          /\ place' = IF count' = 0 THEN "entered" ELSE place
      BY Zenon, <1>12, <2>2 DEF InitKernelFile
    <2>4. ReadOk(rd, memory)'
      BY Zenon, <1>0, <1>1, <2>3, FloppyKept
    <2>5. Placed(j)'
      <3>1. Placed(j - 1)
        BY Zenon, <2>1, <2>2
      <3> QED
        BY Zenon, <1>0, <1>1, <2>3, <3>1, SegmentPlaced
    <2>6. CASE count' = 0
      <3>1. place' = "entered"
        BY Zenon, <2>3, <2>6
      <3>2. j = Len(headers)
        BY SMT, <1>3, <2>1, <2>2, <2>3, <2>6
      <3>3. ProgramInv' /\ CountInv'
        BY Zenon, <1>0, <1>1, <2>1, <2>3, <2>6, <3>1 DEF ProgramInv, CountInv
      <3>4. CopyInv'
        BY Zenon, <1>1, <2>5, <3>1, <3>2 DEF CopyInv
      <3> QED
        BY Zenon, <1>2, <2>4, <3>3, <3>4 DEF LoadInv
    <2>7. CASE count' # 0
      <3>1. place' = place
        BY Zenon, <2>3, <2>7
      <3>2. count' \in 1..Len(headers)
        BY SMT, <1>3, <2>1, <2>3, <2>7
      <3>3. ProgramInv' /\ CountInv'
        BY Zenon, <1>0, <1>1, <2>1, <2>3, <3>1, <3>2 DEF ProgramInv, CountInv
      <3>4. CopyInv'
        <4>1. (Len(headers) - count)' = j
          BY Zenon, <1>1, <2>2, <2>3
        <4> QED
          BY Zenon, <2>1, <2>5, <3>1, <4>1 DEF CopyInv
      <3> QED
        BY Zenon, <1>2, <2>4, <3>3, <3>4 DEF LoadInv
    <2> QED
      BY Zenon, <2>6, <2>7
  <1> QED
    BY Zenon, <1>5, <1>6, <1>7, <1>8, <1>9, <1>10, <1>11, <1>12 DEF BootStep

-----------------------------------------------------------------------------
(* What it makes of the files.                                             *)

\* The invariant of the loader: what has been read lies at its place, in order.
THEOREM LoadInvariance == Spec => []LoadInv
  <1>1. Init => LoadInv
    BY Zenon, LoadStarts DEF Init
  <1>2. LoadInv /\ [Next]_<<bootVars, startVars>> => LoadInv'
    <2> SUFFICES ASSUME LoadInv, [Next]_<<bootVars, startVars>> PROVE LoadInv'
      BY Zenon
    <2>1. CASE BootStep
      BY Zenon, <2>1, LoadStepKept
    <2>2. CASE UNCHANGED bootVars
      BY Zenon, <2>2, LoadKept
    <2> QED
      BY Zenon, <2>1, <2>2 DEF Next
  <1> QED
    BY PTL, <1>1, <1>2 DEF Spec

\* A file has been read: the sectors of its chain, and as many as its size
\* needs.
LEMMA FileRead ==
    ASSUME LoadInv, rd.step = "done"
    PROVE  /\ rd.file \in DOMAIN Files
           /\ Loaded(memory, rd.file, Len(fs.chain[rd.file]))
           /\ DOMAIN fs.chain[rd.file] = 1..Len(fs.chain[rd.file])
           /\ Len(fs.chain[rd.file]) \in Nat
           /\ \E i \in DOMAIN fs.root :
                /\ fs.root[i].name = rd.file /\ fs.root[i].size \in Nat
                /\ fs.root[i].size <= Len(fs.chain[rd.file]) * BytsPerSec
  <1> DEFINE file == rd.file
  <1>1. ReadOk(rd, memory) /\ Formatted(fs)
    BY Zenon DEF LoadInv, FoundInv
  <1>2. /\ rd \in RdType /\ OnFloppy(file)
        /\ Loaded(memory, file, Len(fs.chain[file]))
    BY Zenon, <1>1 DEF ReadOk
  <1>3. file \in DOMAIN Files
    BY Zenon, <1>2, Registers
  <1>4. PICK i \in DOMAIN fs.root : fs.root[i].name = file
                                    /\ fs.root[i].size <= Space(file)
    BY Zenon, <1>2 DEF OnFloppy
  <1> HIDE DEF file
  <1>5. /\ DOMAIN fs.chain[file] = 1..Len(fs.chain[file])
        /\ Len(fs.chain[file]) \in Nat \ {0}
        /\ fs.root[i].size \in Nat
        /\ fs.root[i].size <= Len(fs.chain[file]) * BytsPerSec
    BY Zenon, <1>1, <1>3, <1>4, ChainFollowed
  <1> QED
    BY Zenon, <1>2, <1>3, <1>4, <1>5 DEF file

\* A file that has been read is in memory, all of it and in order, whatever
\* the order of its clusters, and the search gives up only on a file that is
\* not there (start_read_file, readFileFAT12.asm).
THEOREM FilesArrive == Spec => []FileLoaded
  <1>1. LoadInv => FileLoaded
    <2> SUFFICES ASSUME LoadInv PROVE FileLoaded
      BY Zenon
    <2>1. ASSUME rd.step = "nofile", NEW i \in DOMAIN fs.root
          PROVE  fs.root[i].name # rd.file
      <3>1. ReadOk(rd, memory) /\ Formatted(fs)
        BY Zenon DEF LoadInv, FoundInv
      <3>2. Sought(rd.file, RootDirSectors * EntriesPerSec)
        BY Zenon, <2>1, <3>1 DEF ReadOk
      <3>3. fs.root \in Seq(DirEntry) /\ Len(fs.root) <= RootDirSectors * EntriesPerSec
        BY Zenon, <3>1, FormattedParts
      <3>4. i \in 1..RootDirSectors * EntriesPerSec
        <4> DEFINE n == RootDirSectors * EntriesPerSec
                   root == fs.root
        <4>1. n \in Nat
          BY SMT, Floppy
        <4>2. root \in Seq(DirEntry) /\ Len(root) <= n /\ i \in DOMAIN root
          BY Zenon, <3>3
        <4> HIDE DEF n, root, DirEntry
        <4>3. i \in 1..n
          BY SMT, <4>1, <4>2
        <4> QED
          BY Zenon, <4>3 DEF n
      <3> QED
        BY Zenon, <3>2, <3>4 DEF Sought, RootEntry
    <2>2. ASSUME rd.step = "done", NEW n \in DOMAIN SectorsOf(rd.file)
          PROVE  /\ Base(rd.file) + (n - 1) * BytsPerSec \in DOMAIN memory
                 /\ memory[Base(rd.file) + (n - 1) * BytsPerSec]
                      = SectorsOf(rd.file)[n]
      <3>1. /\ Loaded(memory, rd.file, Len(fs.chain[rd.file]))
            /\ DOMAIN fs.chain[rd.file] = 1..Len(fs.chain[rd.file])
        BY Zenon, <2>2, FileRead
      <3>2. n \in 1..Len(fs.chain[rd.file])
            /\ SectorsOf(rd.file)[n]
                 = fs.chain[rd.file][n] + RootDirSectors + DeltaSectorNo
        BY Zenon, <2>2, <3>1 DEF SectorsOf
      <3> QED
        BY Zenon, <3>1, <3>2 DEF Loaded
    <2> QED
      BY Zenon, <2>1, <2>2 DEF FileLoaded
  <1> QED
    BY PTL, <1>1, LoadInvariance

\* What is written to memory keeps to the space for the file (load.inc:36).
THEOREM FilesKeepApart == Spec => []KeepsToItsSpace
  <1>1. LoadInv => KeepsToItsSpace
    BY Zenon DEF LoadInv, ReadOk, InSpace, KeepsToItsSpace
  <1> QED
    BY PTL, <1>1, LoadInvariance

\* When the kernel is entered, each byte of its segments is where it was
\* linked (InitKernelFile).
THEOREM KernelArrives == Spec => []KernelPlaced
  <1>1. LoadInv => KernelPlaced
    <2> SUFFICES ASSUME LoadInv, place = "entered", NEW i \in DOMAIN headers,
                        NEW k \in 0..headers[i].filesz - 1, headers[i].type # 0
                 PROVE  image[headers[i].vaddr + k]
                          = <<SectorsOf("KERNEL")[(headers[i].offset + k) \div BytsPerSec + 1],
                              (headers[i].offset + k) % BytsPerSec>>
      BY Zenon DEF KernelPlaced
    <2> DEFINE b == headers[i].offset + k
               q == b \div BytsPerSec
               r == b % BytsPerSec
               v == headers[i].vaddr
               f == headers[i].filesz
               o == headers[i].offset
               chain == fs.chain["KERNEL"]
               L == Len(chain)
               B == BytsPerSec
               base == Base("KERNEL")
    <2>1. FoundInv /\ rd.step = "done" /\ rd.file = "KERNEL" /\ Placed(Len(headers))
      BY Zenon DEF LoadInv, ProgramInv, CopyInv
    <2>2. /\ i \in 1..Len(headers) /\ v \in Nat /\ f \in Nat /\ o \in Nat
      BY Zenon, <2>1, FoundParts
    <2>3. /\ "KERNEL" \in DOMAIN Files /\ Loaded(memory, "KERNEL", L)
          /\ DOMAIN chain = 1..L /\ L \in Nat
          /\ \E e \in DOMAIN fs.root :
                /\ fs.root[e].name = "KERNEL" /\ fs.root[e].size \in Nat
                /\ fs.root[e].size <= L * B
      BY Zenon, <2>1, FileRead
    <2>4. PICK e \in DOMAIN fs.root :
                /\ fs.root[e].name = "KERNEL" /\ fs.root[e].size \in Nat
                /\ fs.root[e].size <= L * B
      BY Zenon, <2>3
    <2>5. o + f <= fs.root[e].size
      BY Zenon, <2>1, <2>4 DEF FoundInv, Linked
    <2>6. B \in Nat \ {0} /\ base \in Nat
      <3>1. Files["KERNEL"].seg \in Nat /\ Files["KERNEL"].offset \in 0..SegBytes - 1
        BY Zenon, <2>3, Fat12Assumption
      <3>2. Files["KERNEL"].seg + Files["KERNEL"].offset \in Nat
        BY SMT, <3>1, Floppy
      <3> QED
        BY Zenon, <3>2, Floppy DEF Base
    <2>7. b \in Nat /\ b < L * B /\ v + k \in v..v + f - 1 /\ o + (v + k) - v = b
      <3> DEFINE size == fs.root[e].size
                 end == L * B
      <3>1. end \in Nat /\ size \in Nat /\ size <= end /\ o + f <= size
        <4>1. end \in Nat
          <5> HIDE DEF L, B
          <5> QED
            BY SMT, <2>3, <2>6
        <4> QED
          BY Zenon, <2>4, <2>5, <4>1
      <3>2. k \in 0..f - 1 /\ b = o + k
        BY Zenon
      <3> HIDE DEF size, end, b, o, v, f
      <3>3. b \in Nat /\ b < end /\ v + k \in v..v + f - 1 /\ o + (v + k) - v = b
        BY SMT, <2>2, <3>1, <3>2
      <3> QED
        BY Zenon, <3>3 DEF end
    <2>8. q \in Nat /\ r \in 0..B - 1 /\ b = q * B + r
      <3> HIDE DEF b
      <3> QED
        BY Zenon, <2>6, <2>7, Parts
    <2>9. image[v + k] = FileByte(b)
      <3> DEFINE h == headers[i]
      <3>1. v + k \in DOMAIN Copied(h) /\ Copied(h)[v + k] = FileByte(o + (v + k) - v)
        BY Zenon, <2>7 DEF Copied
      <3>2. image[v + k] = Copied(h)[v + k]
        BY Zenon, <2>1, <2>2, <3>1 DEF Placed
      <3> QED
        BY Zenon, <2>7, <3>1, <3>2
    <2> HIDE DEF q, r, b
    <2>10. q + 1 \in 1..L
      <3> HIDE DEF L, B
      <3>1. ASSUME L < q PROVE L * B + B <= q * B
        <4>1. 0 \in 0..B - 1
          BY SMT, <2>6
        <4> QED
          BY Zenon, <2>3, <2>6, <2>8, <3>1, <4>1, PartsApart
      <3>2. L * B \in Nat /\ q * B \in Nat
        BY SMT, <2>3, <2>6, <2>8
      <3>3. CASE q = L
        BY SMT, <2>7, <2>8, <3>2, <3>3
      <3>4. CASE L < q
        BY SMT, <2>6, <2>7, <2>8, <3>1, <3>2, <3>4
      <3>5. CASE q < L
        BY SMT, <2>3, <2>8, <3>5
      <3> QED
        BY SMT, <2>3, <2>8, <3>3, <3>4, <3>5
    <2>11. /\ base + q * B \in DOMAIN memory
           /\ memory[base + q * B] = chain[q + 1] + RootDirSectors + DeltaSectorNo
      <3>1. (q + 1) - 1 = q
        BY SMT, <2>8
      <3> QED
        BY Zenon, <2>3, <2>10, <3>1 DEF Loaded
    <2>12. base + b - r = base + q * B
      <3> DEFINE p == q * B
      <3>1. p \in Nat /\ b = p + r /\ r \in Nat
        BY SMT, <2>6, <2>8
      <3> HIDE DEF p, base
      <3>2. base + b - r = base + p
        BY SMT, <2>6, <3>1
      <3> QED
        BY Zenon, <3>2 DEF p
    <2>13. FileByte(b) = <<chain[q + 1] + RootDirSectors + DeltaSectorNo, r>>
      BY Zenon, <2>11, <2>12 DEF FileByte, r
    <2>14. SectorsOf("KERNEL")[q + 1] = chain[q + 1] + RootDirSectors + DeltaSectorNo
      BY Zenon, <2>3, <2>10 DEF SectorsOf
    <2> QED
      BY Zenon, <2>9, <2>13, <2>14 DEF q, r, b
  <1> QED
    BY PTL, <1>1, LoadInvariance

-----------------------------------------------------------------------------
(* What everything fits into.                                              *)

\* The larger of two bounds.
LEMMA LargerOf ==
    ASSUME NEW a \in Nat, NEW b \in Nat
    PROVE  Max({a, b}) \in Nat /\ a <= Max({a, b}) /\ b <= Max({a, b})
  <1> DEFINE S == {a, b}
  <1>1. \E m \in S : \A y \in S : m >= y
    BY SMT
  <1>2. Max(S) \in S /\ \A y \in S : Max(S) >= y
    <2> HIDE DEF S
    <2> QED
      BY Zenon, <1>1 DEF Max
  <1> QED
    BY SMT, <1>2

\* The boot program's variables.
LEMMA BootTyped == LoadInv => BootTypeOK
  <1> SUFFICES ASSUME LoadInv PROVE BootTypeOK
    BY Zenon
  <1>1. /\ Len(headers) \in Nat \ {0} /\ Len(map) \in Nat \ {0}
        /\ Len(map) <= BufSlots /\ BufSlots \in Nat \ {0}
    BY Zenon, FoundParts DEF LoadInv
  <1> DEFINE M == Max({BufSlots, Len(headers)})
  <1>2. M \in Nat /\ BufSlots <= M /\ Len(headers) <= M
    BY Zenon, <1>1, LargerOf
  <1> HIDE DEF M
  <1>3. /\ 0 \in 0..M /\ 0..Len(map) - 1 \subseteq 0..M /\ Len(map) \in 0..M
        /\ 1..Len(map) \subseteq 0..M /\ 1..Len(headers) \subseteq 0..M
    BY SMT, <1>1, <1>2
  <1>4. count \in 0..M
    BY Zenon, <1>3 DEF LoadInv, ProgramInv, CountInv
  <1> QED
    BY Zenon, <1>4 DEF LoadInv, ReadOk, ProgramInv, CountInv, BootTypeOK, M

\* The bits that are taken.
LEMMA BitsCut ==
    ASSUME NEW x \in Nat
    PROVE  /\ LowBits(x, 16) \in Bits16 /\ LowBits(x, 8) \in Bits8
           /\ LowBits(x, 4) \in 0..15
           /\ ShiftRight(x, 16) \in Nat /\ ShiftRight(x, 24) \in Nat
           /\ x \in Bits16 => ShiftRight(x, 12) \in 0..15
  <1>1. /\ LowBits(x, 16) = x % 65536 /\ LowBits(x, 8) = x % 256
        /\ LowBits(x, 4) = x % 16
        /\ ShiftRight(x, 16) = x \div 65536 /\ ShiftRight(x, 24) = x \div 16777216
        /\ ShiftRight(x, 12) = x \div 4096
    BY SMT DEF LowBits, ShiftRight
  <1>2. x % 65536 \in Bits16
    BY SMT DEF Bits16
  <1>3. x % 256 \in Bits8
    BY SMT DEF Bits8
  <1>4. x % 16 \in 0..15 /\ x \div 65536 \in Nat /\ x \div 16777216 \in Nat
    BY SMT
  <1>5. ASSUME x \in Bits16 PROVE x \div 4096 \in 0..15
    BY SMT, <1>5 DEF Bits16
  <1>6. LowBits(x, 16) \in Bits16
    BY SMT, <1>1, <1>2
  <1>7. LowBits(x, 8) \in Bits8
    BY SMT, <1>1, <1>3
  <1>8. /\ LowBits(x, 4) \in 0..15
        /\ ShiftRight(x, 16) \in Nat /\ ShiftRight(x, 24) \in Nat
    BY SMT, <1>1, <1>4
  <1>9. x \in Bits16 => ShiftRight(x, 12) \in 0..15
    BY SMT, <1>1, <1>5
  <1> QED
    BY Zenon, <1>6, <1>7, <1>8, <1>9

\* Fields of descriptors and gates have the width they have in memory.
LEMMA DescriptorTyped ==
    ASSUME NEW base \in Nat, NEW limit \in Nat, NEW attr \in Bits16
    PROVE  SegmentDesc(base, limit, attr) \in SegDescriptor
  <1>1. attr \in Nat
    BY SMT DEF Bits16
  <1>2. /\ LowBits(limit, 16) \in Bits16 /\ LowBits(base, 16) \in Bits16
        /\ LowBits(attr, 8) \in Bits8
        /\ ShiftRight(base, 16) \in Nat /\ ShiftRight(base, 24) \in Nat
        /\ ShiftRight(limit, 16) \in Nat /\ ShiftRight(attr, 12) \in 0..15
    BY Zenon, <1>1, BitsCut
  <1>3. /\ LowBits(ShiftRight(base, 16), 8) \in Bits8
        /\ LowBits(ShiftRight(base, 24), 8) \in Bits8
        /\ LowBits(ShiftRight(limit, 16), 4) \in 0..15
    BY Zenon, <1>2, BitsCut
  <1>4. LowBits(ShiftRight(limit, 16), 4) + (ShiftRight(attr, 12) * 16) \in Bits8
    BY SMT, <1>2, <1>3 DEF Bits8
  <1> QED
    BY Zenon, <1>2, <1>3, <1>4 DEF SegmentDesc, SegDescriptor

\* And so have those of gates.
LEMMA GateTyped ==
    ASSUME NEW handler \in Nat, NEW privilege \in 0..3
    PROVE  Gate(handler, privilege) \in GateType
  <1>1. /\ LowBits(handler, 16) \in Bits16
        /\ LowBits(ShiftRight(handler, 16), 16) \in Bits16
    BY Zenon, BitsCut
  <1>2. SELECTOR_KERNEL_CS \in Bits16
    BY SMT DEF SELECTOR_KERNEL_CS, Selector, Index, DescriptorSize, Privilege, Bits16
  <1>3. Attr.intGate + (privilege * 32) \in Bits8
    BY SMT DEF Attr, Bits8
  <1> QED
    BY Zenon, <1>1, <1>2, <1>3 DEF Gate, GateType

\* The loader's table, and what the kernel makes of it.
LEMMA DescriptorsTyped ==
    /\ NoDescriptor \in SegDescriptor
    /\ \A i \in 0..3 : LoaderGdt[i] \in SegDescriptor
    /\ \A p \in ProcNrs : LdtDesc(p) \in SegDescriptor
    /\ SegmentDesc(At.tss, TssBytes - 1, Attr.tss) \in SegDescriptor
    /\ LocalTable \in [0..LdtSize - 1 -> SegDescriptor]
  <1>1. NoDescriptor \in SegDescriptor
    <2>1. 0 \in Bits8 /\ 0 \in Bits16
      BY SMT DEF Bits8, Bits16
    <2> QED
      BY Zenon, <2>1 DEF NoDescriptor, SegDescriptor
  <1>2. /\ Attr.d + Attr.cr + Attr.g \in Bits16 /\ Attr.d + Attr.rw + Attr.g \in Bits16
        /\ Attr.rw + (Privilege.user * 32) \in Bits16
        /\ Attr.tss \in Bits16 /\ Attr.ldt \in Bits16
    BY SMT DEF Attr, Privilege, Bits16
  <1>3. 0 \in Nat /\ 1048575 \in Nat /\ 753664 \in Nat
    BY SMT
  <1>4. /\ LoaderGdt[0] \in SegDescriptor /\ LoaderGdt[1] \in SegDescriptor
        /\ LoaderGdt[2] \in SegDescriptor /\ LoaderGdt[3] \in SegDescriptor
    <2>1. /\ LoaderGdt[0] = NoDescriptor
          /\ LoaderGdt[1] = SegmentDesc(0, 1048575, Attr.d + Attr.cr + Attr.g)
          /\ LoaderGdt[2] = SegmentDesc(0, 1048575, Attr.d + Attr.rw + Attr.g)
          /\ LoaderGdt[3]
               = SegmentDesc(753664, 1048575, Attr.rw + (Privilege.user * 32))
      BY SMT DEF LoaderGdt, Index
    <2> QED
      BY SMT, <1>1, <1>2, <1>3, <2>1, DescriptorTyped
  <1>5. \A i \in 0..3 : LoaderGdt[i] \in SegDescriptor
    BY SMT, <1>4
  <1>6. ASSUME NEW p \in ProcNrs PROVE LdtDesc(p) \in SegDescriptor
    <2>1. ProcAddr(p) + LdtOffset \in Nat
      <3>1. IsAddress(ProcAddr(p) + LdtOffset)
        BY Zenon, LdtAddress
      <3> QED
        BY SMT, <3>1 DEF IsAddress
    <2>2. LdtSize * DescriptorSize - 1 \in Nat
      BY SMT DEF LdtSize, DescriptorSize
    <2> QED
      BY Zenon, <1>2, <2>1, <2>2, DescriptorTyped DEF LdtDesc
  <1>7. SegmentDesc(At.tss, TssBytes - 1, Attr.tss) \in SegDescriptor
    <2>1. At.tss \in Nat
      <3>1. IsAddress(At.tss)
        BY Zenon, LayoutAssumption
      <3> QED
        BY SMT, <3>1 DEF IsAddress
    <2>2. TssBytes - 1 \in Nat
      BY SMT DEF TssBytes
    <2> QED
      BY Zenon, <1>2, <2>1, <2>2, DescriptorTyped
  <1>8. LocalTable \in [0..LdtSize - 1 -> SegDescriptor]
    <2>1. 186 \in Bits8 /\ 178 \in Bits8
      BY SMT DEF Bits8
    <2>2. ASSUME NEW d \in SegDescriptor, NEW a \in Bits8
          PROVE  [d EXCEPT !.access = a] \in SegDescriptor
      BY Zenon DEF SegDescriptor
    <2>3. [LoaderGdt[1] EXCEPT !.access = 186] \in SegDescriptor
      BY Zenon, <1>4, <2>1, <2>2
    <2>4. [LoaderGdt[2] EXCEPT !.access = 178] \in SegDescriptor
      BY Zenon, <1>4, <2>1, <2>2
    <2> QED
      BY Zenon, <2>3, <2>4 DEF LocalTable
  <1> QED
    BY Zenon, <1>1, <1>5, <1>6, <1>7, <1>8

\* The gdt, at each place of the start.
LEMMA GdtTyped == StartInv => gdt \in [0..GdtSize - 1 -> SegDescriptor]
  <1> SUFFICES ASSUME StartInv PROVE gdt \in [0..GdtSize - 1 -> SegDescriptor]
    BY Zenon
  <1> DEFINE T == [0..GdtSize - 1 -> SegDescriptor]
  <1>1. gdt \in {Empty, GdtCopied, GdtWithTss, GdtDone}
    BY SMT DEF StartInv, TablesInv, Places, GdtThere, GatesDone, TssDone
  <1>2. Empty \in T
    BY Zenon, DescriptorsTyped DEF Empty
  <1>3. GdtCopied \in T
    <2>1. ASSUME NEW i \in 0..GdtSize - 1, i < 4 PROVE i \in 0..3
      BY SMT, <2>1, Sizes
    <2>2. \A i \in 0..GdtSize - 1 :
            (IF i < 4 THEN LoaderGdt[i] ELSE NoDescriptor) \in SegDescriptor
      BY Zenon, <2>1, DescriptorsTyped
    <2> QED
      BY Zenon, <2>2 DEF GdtCopied
  <1>4. GdtWithTss \in T
    <2>1. \A i \in 0..GdtSize - 1 : GdtCopied[i] \in SegDescriptor
      BY Zenon, <1>3
    <2> QED
      BY Zenon, <2>1, DescriptorsTyped DEF GdtWithTss
  <1>5. GdtDone \in T
    <2>1. ASSUME NEW i \in 0..GdtSize - 1, i >= Index.ldtFirst
          PROVE  i - Index.ldtFirst - NrTasks \in ProcNrs
      BY SMT, <2>1, Sizes
    <2>2. \A i \in 0..GdtSize - 1 : GdtWithTss[i] \in SegDescriptor
      BY Zenon, <1>4
    <2> QED
      BY Zenon, <2>1, <2>2, DescriptorsTyped DEF GdtDone
  <1> QED
    BY Zenon, <1>1, <1>2, <1>3, <1>4, <1>5

\* Gates, local tables and the mask, which each step writes whole.
TypesInv ==
    /\ \A v \in DOMAIN idt : v < IdtSize /\ idt[v] \in GateType
    /\ \A p \in ProcNrs : table[p].ldt \in [0..LdtSize - 1 -> SegDescriptor]
    /\ masked \subseteq 0..15

\* What memset leaves.
LEMMA ZeroTyped == ZeroProc.ldt \in [0..LdtSize - 1 -> SegDescriptor]
  <1> DEFINE l == [i \in 0..LdtSize - 1 |-> NoDescriptor]
  <1>1. l \in [0..LdtSize - 1 -> SegDescriptor]
    BY Zenon, DescriptorsTyped
  <1>2. ZeroProc.ldt = l
    BY Zenon DEF ZeroProc
  <1> QED
    BY Zenon, <1>1, <1>2

\* They are so before the kernel runs ...
LEMMA TypesStart == StartInit => TypesInv
  <1> SUFFICES ASSUME StartInit PROVE TypesInv
    BY Zenon
  <1>1. DOMAIN idt = {}
    BY SMT DEF StartInit
  <1>2. \A p \in ProcNrs : table[p] = ZeroProc
    BY Zenon DEF StartInit
  <1>3. masked \subseteq 0..15
    BY Zenon DEF StartInit
  <1> QED
    BY Zenon, <1>1, <1>2, <1>3, ZeroTyped DEF TypesInv

\* ... and after each of its steps.
LEMMA TypesStep ==
    ASSUME StartInv, TypesInv, KernelStep
    PROVE  TypesInv'
  <1> DEFINE T == [0..LdtSize - 1 -> SegDescriptor]
  <1> USE DEF tables, devices, procs
  <1>1. ASSUME idt' = idt, table' = table, masked' = masked PROVE TypesInv'
    BY Zenon, <1>1 DEF TypesInv
  <1>2. CASE InitGates
    <2>1. idt' = Gates /\ table' = table /\ masked' = masked
      BY Zenon, <1>2 DEF InitGates, Gates
    <2>2. ASSUME NEW v \in GateVectors PROVE v < IdtSize /\ Gates[v] \in GateType
      <3>1. v \in Nat /\ v < IdtSize /\ GatePrivilege(v) \in 0..3
        BY SMT, VectorRange DEF IdtSize
      <3>2. Handlers[v] \in Nat
        <4>1. IsAddress(Handlers[v])
          BY Zenon, LayoutAssumption
        <4> QED
          BY SMT, <4>1 DEF IsAddress
      <3> QED
        BY Zenon, <3>1, <3>2, GateTyped DEF Gates
    <2>3. DOMAIN Gates = GateVectors
      BY Zenon DEF Gates
    <2> QED
      BY Zenon, <2>1, <2>2, <2>3 DEF TypesInv
  <1>3. CASE InitLdts
    <2>1. /\ table' = [p \in ProcNrs |->
                        [ZeroProc EXCEPT !.ldtSel = LdtSlot(p) * DescriptorSize]]
          /\ idt' = idt /\ masked' = masked
      BY Zenon, <1>3 DEF InitLdts
    <2>2. ASSUME NEW x PROVE [ZeroProc EXCEPT !.ldtSel = x].ldt = ZeroProc.ldt
      BY SMT DEF ZeroProc
    <2>3. \A p \in ProcNrs : table'[p].ldt \in T
      BY Zenon, <2>1, <2>2, ZeroTyped
    <2> QED
      BY Zenon, <2>1, <2>3 DEF TypesInv
  <1>4. CASE InterruptInit
    BY Zenon, <1>4 DEF InterruptInit, AllLines, TypesInv
  <1>5. CASE InitSlots
    <2>1. /\ at = "slots" /\ idt' = idt /\ masked' = masked
          /\ table' = [p \in ProcNrs |->
                        [table[p] EXCEPT !.logicNr = p,
                                         !.name = IF p > 0 THEN "unused" ELSE @]]
      BY Zenon, <1>5 DEF InitSlots
    <2>2. at \in LdtsDone
      BY Zenon, <2>1 DEF LdtsDone, Enabled, GdtLoaded, IdtLoaded
    <2>3. \A p \in ProcNrs : "ldt" \in DOMAIN table[p]
      BY Zenon, <2>2 DEF StartInv, ProcsInv, EntryShape
    <2>4. ASSUME NEW p \in ProcNrs PROVE table'[p].ldt = table[p].ldt
      <3> DEFINE t == table[p]
                 name == IF p > 0 THEN "unused" ELSE t.name
      <3>1. table'[p] = [t EXCEPT !.logicNr = p, !.name = name]
        BY Zenon, <2>1
      <3>2. "ldt" \in DOMAIN t
        BY Zenon, <2>3
      <3> HIDE DEF t, name
      <3>3. [t EXCEPT !.logicNr = p, !.name = name].ldt = t.ldt
        BY Zenon, <3>2
      <3> QED
        BY Zenon, <3>1, <3>3 DEF t
    <2> QED
      BY Zenon, <2>1, <2>4 DEF TypesInv
  <1>6. CASE InitSysProc
    <2>1. /\ at = "procs" /\ idt' = idt /\ masked' = masked
          /\ table' = [table EXCEPT ![nr] =
                          FilledProc(nr, sys_proc_table[nr], stackTop')]
      BY Zenon, <1>6 DEF InitSysProc
    <2>2. at \in LdtsDone /\ at \in GdtThere /\ at \in Places
      BY Zenon, <2>1 DEF LdtsDone, Enabled, GdtLoaded, IdtLoaded, GdtThere, GatesDone,
         TssDone, Places
    <2>3. /\ nr \in SysNrs /\ SysNrs \subseteq ProcNrs
          /\ table = [p \in ProcNrs |-> table[p]] /\ EntryShape(table[nr])
      <3>1. SysNrs \subseteq ProcNrs
        BY SMT, Sizes
      <3>2. nr \in SysNrs
        BY Zenon, <2>1 DEF StartInv, ProcsInv
      <3>3. /\ table = [p \in ProcNrs |-> table[p]]
            /\ \A p \in ProcNrs : EntryShape(table[p])
        BY Zenon, <2>2 DEF StartInv, ProcsInv
      <3> QED
        BY Zenon, <3>1, <3>2, <3>3
    <2>4. gdt[1] = LoaderGdt[1] /\ gdt[2] = LoaderGdt[2]
      BY Zenon, <2>2, SegmentsThere DEF StartInv
    <2> DEFINE u == FilledProc(nr, sys_proc_table[nr], stackTop')
    <2>5. u.ldt = LocalTable
      BY SMT, <2>3, <2>4, EntryFilled
    <2> HIDE DEF u
    <2>6. ASSUME NEW p \in ProcNrs PROVE table'[p].ldt \in T
      <3>1. CASE p = nr
        <4>1. table'[p] = u
          BY Zenon, <2>1, <2>3, <3>1 DEF u
        <4> QED
          BY Zenon, <2>5, <4>1, DescriptorsTyped
      <3>2. CASE p # nr
        <4>1. table'[p] = table[p]
          BY Zenon, <2>1, <2>3, <3>2
        <4> QED
          BY Zenon, <4>1 DEF TypesInv
      <3> QED
        BY Zenon, <3>1, <3>2
    <2> QED
      BY Zenon, <2>1, <2>6 DEF TypesInv
  <1>7. CASE EnableKeyboard
    BY Zenon, <1>7 DEF EnableKeyboard, TypesInv
  <1>8. CASE \/ SaveBootParams \/ Start \/ CopyGdt \/ InitTss \/ CheckMagic
             \/ LoadGdt \/ LoadIdt \/ LoadTr \/ LockHunter \/ PutIrqHandler
             \/ Restart \/ \E i \in 0..15 : Interrupt(i)
    <2>1. idt' = idt /\ table' = table /\ masked' = masked
      BY Zenon, <1>8 DEF SaveBootParams, Start, CopyGdt, InitTss, CheckMagic,
         LoadGdt, LoadIdt, LoadTr, LockHunter, PutIrqHandler, Restart, Interrupt
    <2> QED
      BY Zenon, <1>1, <2>1
  <1> QED
    BY Zenon, <1>2, <1>3, <1>4, <1>5, <1>6, <1>7, <1>8 DEF KernelStep, StartStep

\* Every field of a descriptor and of a gate fits into its bits, and every
\* count and register keeps to its range, from the boot sector on.
THEOREM KernelTyped == Spec => []KernelTypeOK
  <1>1. Init => TypesInv
    BY Zenon, TypesStart DEF Init
  <1>2. StartInv /\ TypesInv /\ [Next]_<<bootVars, startVars>> => TypesInv'
    <2> SUFFICES ASSUME StartInv, TypesInv, [Next]_<<bootVars, startVars>>
                 PROVE  TypesInv'
      BY Zenon
    <2>1. CASE UNCHANGED startVars
      BY Zenon, <2>1 DEF startVars, TypesInv
    <2>2. CASE KernelStep
      BY Zenon, <2>2, TypesStep
    <2> QED
      BY Zenon, <2>1, <2>2 DEF Next
  <1>3. StartInv /\ LoadInv /\ TypesInv => KernelTypeOK
    BY Zenon, BootTyped, GdtTyped DEF KernelTypeOK, TypesInv
  <1> QED
    BY PTL, <1>1, <1>2, <1>3, StartInvariance, LoadInvariance DEF Spec
=============================================================================
