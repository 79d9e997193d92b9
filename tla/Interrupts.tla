----------------------------- MODULE Interrupts -----------------------------
(***************************************************************************)
(* Entering and leaving the flyanx kernel (src/kernel/kernel.asm): save,   *)
(* the hwint_master and hwint_slave templates, flyanx_386_sys_call,        *)
(* level0_sys_call with halt, and restart; with the notification of tasks  *)
(* by interrupt handlers and its held queue (interrupt and unhold in       *)
(* src/kernel/process.c), and with the stubs of the exceptions that a      *)
(* process raises and their handler (src/kernel/exception.c).              *)
(*                                                                         *)
(* `frames' is what lies on the kernel stack: the activations of kernel    *)
(* code, innermost last, each with the place it has reached.  While there  *)
(* is none a process runs.  A step is a stretch of instructions that no    *)
(* interrupt can divide (interrupts are off) or whose division makes no    *)
(* difference; an interrupt may enter between any two steps while `ifFlag' *)
(* is set.                                                                 *)
(***************************************************************************)
EXTENDS Integers, Sequences, FiniteSets, SequencesExt

CONSTANTS
    Irqs,       \* the interrupt lines that are used: 0-7 master, 8-15 slave
    AtBoot,     \* the lines enabled before the first process runs
    Tasks,      \* the tasks that interrupt handlers notify
    Notifies,   \* the task that the handler of a line notifies, or None
    Returns,    \* what the handler of a line may return: ENABLE or not
    Timer,      \* the line of the clock
    None,
    MaxDepth    \* bound on the activations on the kernel stack

ASSUME IrqsAssumption ==
    /\ Irqs \subseteq 0..15
    /\ AtBoot \subseteq Irqs
    /\ None \notin Tasks
    /\ Notifies \in [Irqs -> Tasks \cup {None}]
    /\ Returns \in [Irqs -> SUBSET BOOLEAN]
    /\ Timer \in Irqs
    /\ MaxDepth \in Nat \ {0}

VARIABLES
    frames,     \* the activations of kernel code
    ifFlag,     \* interrupts are enabled in the processor
    reenter,    \* kernel_reenter, a byte
    masked,     \* the mask bits set in the two 8259As, by line
    held,       \* held_head, held_tail, next_held and int_held
    waiting,    \* the tasks blocked receiving from ANY or HARDWARE
    overlaid    \* a frame was pushed over what it must not touch

vars == <<frames, ifFlag, reenter, masked, held, waiting, overlaid>>

InHandler == {"handler", "direct", "mask"}

InRestart == {"unhold", "load", "store", "notify", "loop", "clear",
              "toPcb", "pcb", "pops"}

Places == InHandler \cup InRestart \cup
          {"boot", "syscall", "report", "halted", "woken", "ret", "unwind"}

FrameType ==
    [irq    : Irqs \cup {None},     \* the line that is being served
     pc     : Places,
     target : Tasks \cup {None},    \* the local variable of unhold
     rest   : Tasks \cup {None}]    \* target->next_held, read but not stored

HeldType == [head : Tasks \cup {None},
             tail : Tasks \cup {None},
             next : [Tasks -> Tasks \cup {None}],
             flag : [Tasks -> BOOLEAN]]

Frame(irq, pc) == [irq |-> irq, pc |-> pc, target |-> None, rest |-> None]

Inc(b) == (b + 1) % 256

Dec(b) == (b + 255) % 256

-----------------------------------------------------------------------------
(* The stack of activations.                                               *)

Running == frames = <<>> /\ ~overlaid    \* a process has the processor

Top == Last(frames)

\* The innermost activation has reached place pc.
At(pc) == frames # <<>> /\ Top.pc = pc /\ ~overlaid

GoTo(pc) == frames' = [frames EXCEPT ![Len(frames)].pc = pc]

\* hlt ends with the first interrupt.
Woken == IF frames # <<>> /\ Top.pc = "halted"
         THEN [frames EXCEPT ![Len(frames)].pc = "woken"] ELSE frames

\* While restart reads the process back, esp points into the process table:
\* what is pushed then goes over the table entries.
OnTable == frames # <<>> /\ Top.pc \in {"pcb", "pops"}

-----------------------------------------------------------------------------
(* Notification of a task.                                                 *)

\* The branch of interrupt that puts the task in the held queue; with a null
\* held_tail the store through it goes to low memory.
Hold(h, t) ==
    IF h.flag[t] THEN h
    ELSE [h EXCEPT !.flag[t] = TRUE,
                   !.head = IF @ = None THEN t ELSE @,
                   !.next = IF h.head = None \/ h.tail = None
                            THEN [@ EXCEPT ![t] = None]
                            ELSE [[@ EXCEPT ![h.tail] = t] EXCEPT ![t] = None],
                   !.tail = t]

\* The other branch: a task that waits is woken, a busy one only marked.
Deliver(t) == waiting' = waiting \ {t}

\* Slip: kernel_reenter is not looked at.
MustHoldNever == FALSE

\* `switching' is set by the lock_ routines only, at boot.
MustHold == reenter # 0

-----------------------------------------------------------------------------
(* Hardware interrupts.                                                    *)

\* Slip: the mask is written only after interrupts are back on.
MaskBitNone(i) == {}

\* hwint_master masks line n; hwint_slave masks line n - 8, of the master.
MaskBit(i) == {IF i < 8 THEN i ELSE i - 8}

\* save, the mask, EOI and sti: one step, since the gate turns interrupts
\* off.
IrqEnter(i) ==
    /\ ~overlaid /\ ifFlag
    /\ i \notin masked
    /\ Len(frames) < MaxDepth
    /\ reenter' = Inc(reenter)
    /\ masked' = masked \cup MaskBit(i)
    /\ frames' = Append(Woken, Frame(i, "handler"))
    /\ overlaid' = OnTable
    /\ UNCHANGED <<ifFlag, held, waiting>>

\* The handler has nothing to tell a task.
HandlerQuiet ==
    /\ At("handler")
    /\ GoTo("mask")
    /\ UNCHANGED <<ifFlag, reenter, masked, held, waiting, overlaid>>

\* The handler calls interrupt, which must not touch the ready queues now.
HandlerHolds ==
    /\ At("handler")
    /\ Notifies[Top.irq] # None
    /\ MustHold
    /\ held' = Hold(held, Notifies[Top.irq])
    /\ GoTo("mask")
    /\ UNCHANGED <<ifFlag, reenter, masked, waiting, overlaid>>

\* The handler calls interrupt, which goes on to the ready queues.
HandlerNotifies ==
    /\ At("handler")
    /\ Notifies[Top.irq] # None
    /\ ~MustHold
    /\ GoTo("direct")
    /\ UNCHANGED <<ifFlag, reenter, masked, held, waiting, overlaid>>

DirectDelivery ==
    /\ At("direct")
    /\ Deliver(Notifies[Top.irq])
    /\ GoTo("mask")
    /\ UNCHANGED <<ifFlag, reenter, masked, held, overlaid>>

\* cli, the mask again if the handler returned ENABLE, sti.
HandlerReturns(enable) ==
    /\ At("mask") /\ enable \in Returns[Top.irq]
    /\ masked' = IF enable THEN masked \ MaskBit(Top.irq) ELSE masked
    /\ GoTo("ret")
    /\ UNCHANGED <<ifFlag, reenter, held, waiting, overlaid>>

\* ret, to the address save has pushed: restart if it found the kernel idle
\* (then this is the outermost activation), else restart_reenter.
ReturnToRestart ==
    /\ At("ret") /\ Len(frames) = 1
    /\ GoTo("unhold")
    /\ UNCHANGED <<ifFlag, reenter, masked, held, waiting, overlaid>>

\* Slip: restart_reenter does not count down.
ReturnUncounted ==
    /\ At("ret") /\ Len(frames) > 1
    /\ GoTo("unwind")
    /\ UNCHANGED <<ifFlag, reenter, masked, held, waiting, overlaid>>

ReturnToReenter ==
    /\ At("ret") /\ Len(frames) > 1
    /\ reenter' = Dec(reenter)
    /\ GoTo("unwind")
    /\ UNCHANGED <<ifFlag, masked, held, waiting, overlaid>>

\* The pops and iretd of a nested activation.
Unwind ==
    /\ At("unwind")
    /\ frames' = Front(frames)
    /\ UNCHANGED <<ifFlag, reenter, masked, held, waiting, overlaid>>

-----------------------------------------------------------------------------
(* What processes do.                                                      *)

\* enable_irq, from a driver's task; it turns interrupts off meanwhile.
EnableIrq(i) ==
    /\ Running
    /\ masked' = masked \ {i}
    /\ UNCHANGED <<frames, ifFlag, reenter, held, waiting, overlaid>>

\* int 0x94: save, with interrupts off until iretd or unhold.
SysCallEnter ==
    /\ Running
    /\ frames' = <<Frame(None, "syscall")>>
    /\ reenter' = Inc(reenter)
    /\ ifFlag' = FALSE
    /\ UNCHANGED <<masked, held, waiting, overlaid>>

\* The vectors of which the processor pushes an error code.
ErrorCodes == {8} \cup 10..14

\* The vectors with a stub of their own.
Exceptions == 0..16 \ {15}

\* A process raises an exception; its stub calls save.  An error code makes
\* the frame one word longer than its place in the process table, and only
\* the vector is pushed where the handler and `add esp' expect two words.
ExceptionEnter(vector) ==
    /\ Running
    /\ frames' = <<Frame(None, "report")>>
    /\ reenter' = Inc(reenter)
    /\ ifFlag' = FALSE
    /\ overlaid' = (vector \in ErrorCodes)
    /\ UNCHANGED <<masked, held, waiting>>

\* exception_handler prints, and returns to restart as a handler does.
ExceptionReported ==
    /\ At("report")
    /\ GoTo("ret")
    /\ UNCHANGED <<ifFlag, reenter, masked, held, waiting, overlaid>>

\* sys_call: somebody may start or stop waiting for interrupts.
SysCallBody(stillWaiting) ==
    /\ At("syscall")
    /\ waiting' = stillWaiting
    /\ GoTo("unhold")
    /\ UNCHANGED <<ifFlag, reenter, masked, held, overlaid>>

\* IDLE's level0(halt): save, sti, hlt.
Level0Halt ==
    /\ Running
    /\ frames' = <<Frame(None, "halted")>>
    /\ reenter' = Inc(reenter)
    /\ ifFlag' = TRUE
    /\ UNCHANGED <<masked, held, waiting, overlaid>>

\* cli and ret, after the interrupt that ended the hlt.
HaltEnds ==
    /\ At("woken")
    /\ ifFlag' = FALSE
    /\ GoTo("unhold")
    /\ UNCHANGED <<reenter, masked, held, waiting, overlaid>>

\* flyanx_main calls restart; kernel_reenter is 0 since boot.
BootRestarts ==
    /\ At("boot")
    /\ GoTo("unhold")
    /\ UNCHANGED <<ifFlag, reenter, masked, held, waiting, overlaid>>

-----------------------------------------------------------------------------
(* restart and unhold.                                                     *)

\* Slip: nothing is ever found in the held queue.
NoneHeldEver == TRUE

NoneHeld == held.head = None

UnholdBegins ==
    /\ At("unhold")
    /\ GoTo(IF NoneHeld THEN "toPcb" ELSE "load")
    /\ UNCHANGED <<ifFlag, reenter, masked, held, waiting, overlaid>>

\* target = held_head, and held_head->next_held into a register ...
UnholdLoads ==
    /\ At("load")
    /\ frames' = [frames EXCEPT ![Len(frames)] =
                    [@ EXCEPT !.target = held.head,
                              !.rest   = held.next[held.head],
                              !.pc     = "store"]]
    /\ UNCHANGED <<ifFlag, reenter, masked, held, waiting, overlaid>>

\* ... and from there into held_head.
UnholdStores ==
    /\ At("store")
    /\ held' = [held EXCEPT !.head = Top.rest]
    /\ GoTo("notify")
    /\ UNCHANGED <<ifFlag, reenter, masked, waiting, overlaid>>

\* interrupt, between cli and sti.
UnholdNotifies ==
    /\ At("notify")
    /\ IF MustHold
       THEN held' = Hold(held, Top.target) /\ UNCHANGED waiting
       ELSE Deliver(Top.target) /\ UNCHANGED held
    /\ ifFlag' = TRUE
    /\ GoTo("loop")
    /\ UNCHANGED <<reenter, masked, overlaid>>

UnholdLoops ==
    /\ At("loop")
    /\ GoTo(IF NoneHeld THEN "clear" ELSE "load")
    /\ UNCHANGED <<ifFlag, reenter, masked, held, waiting, overlaid>>

UnholdEnds ==
    /\ At("clear")
    /\ held' = [held EXCEPT !.tail = None]
    /\ GoTo("toPcb")
    /\ UNCHANGED <<ifFlag, reenter, masked, waiting, overlaid>>

\* mov esp, [curr_proc]
LoadStackPointer ==
    /\ At("toPcb")
    /\ GoTo("pcb")
    /\ UNCHANGED <<ifFlag, reenter, masked, held, waiting, overlaid>>

\* lldt, tss.sp0, and restart_reenter's dec
CountDown ==
    /\ At("pcb")
    /\ reenter' = Dec(reenter)
    /\ GoTo("pops")
    /\ UNCHANGED <<ifFlag, masked, held, waiting, overlaid>>

\* The pops and iretd, which sets the process's interrupt flag.
ResumeProcess ==
    /\ At("pops")
    /\ frames' = <<>>
    /\ ifFlag' = TRUE
    /\ UNCHANGED <<reenter, masked, held, waiting, overlaid>>

\* What happens to a process table that was written over is not modelled.
Wrecked == overlaid /\ UNCHANGED vars

-----------------------------------------------------------------------------
Init ==
    /\ frames = <<Frame(None, "boot")>>
    /\ ifFlag = TRUE
    /\ reenter = 0
    /\ masked = (0..15) \ AtBoot
    /\ held = [head |-> None, tail |-> None,
               next |-> [t \in Tasks |-> None],
               flag |-> [t \in Tasks |-> FALSE]]
    /\ waiting = {}
    /\ overlaid = FALSE

HandlerStep ==
    \/ HandlerQuiet \/ HandlerHolds \/ HandlerNotifies \/ DirectDelivery
    \/ \E enable \in BOOLEAN : HandlerReturns(enable)
    \/ ReturnToRestart \/ ReturnToReenter \/ Unwind

RestartStep ==
    \/ UnholdBegins \/ UnholdLoads \/ UnholdStores \/ UnholdNotifies
    \/ UnholdLoops \/ UnholdEnds
    \/ LoadStackPointer \/ CountDown \/ ResumeProcess

ProcessStep ==
    \/ SysCallEnter \/ Level0Halt
    \/ \E vector \in Exceptions : ExceptionEnter(vector)
    \/ \E i \in Irqs : EnableIrq(i)

Next ==
    \/ \E i \in Irqs : IrqEnter(i)
    \/ HandlerStep \/ RestartStep \/ ProcessStep
    \/ \E w \in SUBSET Tasks : SysCallBody(w)
    \/ ExceptionReported \/ HaltEnds \/ BootRestarts \/ Wrecked

Spec == Init /\ [][Next]_vars

KernelStep ==
    \/ HandlerStep \/ RestartStep
    \/ \E w \in SUBSET Tasks : SysCallBody(w)
    \/ ExceptionReported \/ HaltEnds \/ BootRestarts

\* The processor goes on with what runs; interrupts leave time in between
\* for each activation; the timer goes on.
FairSpec ==
    /\ Spec
    /\ \A depth \in 1..MaxDepth :
          SF_vars(KernelStep /\ Len(frames) = depth)
    /\ SF_vars(IrqEnter(Timer))

-----------------------------------------------------------------------------
TypeOK ==
    /\ frames \in Seq(FrameType) /\ Len(frames) <= MaxDepth
    /\ ifFlag \in BOOLEAN /\ overlaid \in BOOLEAN
    /\ reenter \in 0..255
    /\ masked \subseteq 0..15
    /\ held \in HeldType
    /\ waiting \subseteq Tasks

\* Activations that save has counted in and restart has not counted out.
Counted == {k \in DOMAIN frames : frames[k].pc \notin {"pops", "unwind"}}

\* kernel_reenter is the number of activations less one, however interrupts
\* nest: -1 (255) while a process runs, 0 in the outermost activation.
NestingCounted ==
    /\ TypeOK
    /\ ~overlaid => reenter = (Cardinality(Counted) + 255) % 256

\* A handler is not entered again before it returns: its line is masked
\* while the processor takes interrupts.
HandlerNotNested ==
    \A j, k \in DOMAIN frames :
        frames[j].pc \in InHandler /\ frames[k].irq = frames[j].irq
          /\ frames[k].pc \in InHandler => j = k

\* Only the outermost activation works on the ready queues: kernel_reenter
\* keeps interrupts that enter on top of it away from them.
ReadyQueuesExclusive ==
    ~overlaid =>
      \A k \in DOMAIN frames :
         frames[k].pc \in {"direct", "notify", "syscall"} => k = 1

\* Once the clock task has enabled the timer, what is held is looked at, by
\* the next tick at the latest: also what comes to be held after the last
\* look of unhold, just before a process or hlt goes on.
HeldLookedAt ==
    []<>(Timer \notin masked) =>
        (held.head # None ~> (held.head = None \/ overlaid))

(* What a comment in the source says and the code does not do.             *)

\* kernel.asm:365: tss.sp0 is the stack top of the next save, that is, save
\* writes a process's registers into its own table entry and nowhere else.
SavesOnStackTop == ~overlaid
=============================================================================
