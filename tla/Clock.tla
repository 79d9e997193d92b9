------------------------------- MODULE Clock --------------------------------
(***************************************************************************)
(* The clock driver (src/kernel/clock.c) at work in the kernel of Ipc: the *)
(* clock task, which answers requests by message, clock_handler, which the *)
(* timer interrupt runs, and milli_delay, which a process spins in.        *)
(*                                                                         *)
(* All processes but the clock task make any call that Ipc allows, or, if  *)
(* Polite, ask the clock by SEND_REC only.  Times are abstracted: what an  *)
(* answer says is not modelled, when it comes is.                          *)
(***************************************************************************)
EXTENDS Ipc

CONSTANTS
    CLOCK,          \* CLOCK_TASK
    TickMax,        \* ULONG_MAX: ticks and alarms wrap after it
    LastTick,       \* bound: no tick comes after this one (TickMax: no bound)
    ScheduleTicks,  \* SCHEDULE_TICKS
    Delays,         \* the delays, in ticks, that milli_delay is called with
    Requests,       \* the types of the messages that processes send
    Polite          \* processes ask the clock by SEND_REC only

ASSUME ClockAssumption ==
    /\ CLOCK \in IntTasks
    /\ TickMax \in Nat \ {0} /\ LastTick \in 0..TickMax
    /\ ScheduleTicks \in Nat \ {0}
    /\ Delays \subseteq 0..TickMax
    /\ Requests \subseteq {"request", "bad"}
    /\ Polite \in BOOLEAN

VARIABLE clk    \* the record described by ClockType

clockVars == <<kernel, up, clk>>

ClockType ==
    [place     : {"init", "receive", "serve", "reply", "panic", "lost"},
     \* of the clock task
     ticks     : 0..TickMax,
     nextAlarm : 0..TickMax,        \* TickMax: no alarm
     delay     : 0..TickMax,        \* delay_alarm; TickMax: no delay
     schedule  : 1..ScheduleTicks,  \* schedule_ticks
     lastProc  : Procs \cup {None},
     held      : BOOLEAN,           \* the clock task's int_held
     sysTime   : [Procs -> 0..TickMax],
     spinning  : [Procs -> BOOLEAN],        \* in the loop of milli_delay
     left      : [Procs -> 0..TickMax]]     \* ticks it has still to wait

After(t) == (t + 1) % (TickMax + 1)

-----------------------------------------------------------------------------
(* clock_handler.                                                          *)

\* Slip: a delay ends one tick before it is due.
DelayDueEarly(t) == clk.delay <= After(t)

DelayDue(t) == clk.delay <= t

\* What is charged: user_time goes to `target' (not kept here), sys_time to
\* the billed process if `target' is neither running nor the hardware.
SysTimeAfter(target) ==
    IF target \notin {kernel.curr, Hardware}
    THEN [clk.sysTime EXCEPT ![kernel.bill] = After(@)] ELSE clk.sysTime

\* The first half: the tick is counted and charged.
Counted(nested) ==
    [clk EXCEPT
       !.ticks   = After(@),
       !.sysTime = SysTimeAfter(IF nested THEN Hardware ELSE kernel.curr),
       !.left    = [p \in Procs |-> IF @[p] = 0 THEN 0 ELSE @[p] - 1]]

\* Slip: interrupt() writes the message of a task that is busy.
AlarmUnchecked(nested) ==
    /\ clk' = [Counted(nested) EXCEPT !.held = @ \/ nested]
    /\ kernel' = [kernel EXCEPT !.msg[CLOCK] = Hardware]

\* interrupt(CLOCK_TASK).  On top of other kernel code the notification is
\* held and comes when that code is left, but int_held lets it happen once.
Alarm(nested) ==
    /\ clk' = [Counted(nested) EXCEPT !.held = @ \/ nested]
    /\ kernel' = IF nested /\ clk.held THEN kernel
                 ELSE InterruptEffect(kernel, CLOCK)

QuietTick(nested) ==
    /\ clk' = [Counted(nested) EXCEPT
         !.delay    = IF DelayDue(After(clk.ticks)) THEN TickMax ELSE @,
         !.schedule = IF @ = 1 THEN ScheduleTicks ELSE @ - 1,
         !.lastProc = IF clk.schedule = 1 THEN kernel.bill ELSE @]
    /\ UNCHANGED kernel

\* kernel_reenter says whether the tick is nested; on IDLE's halt it is.
Tick(nested) ==
    /\ up
    /\ clk.place \notin {"init", "lost"}
    /\ clk.ticks < LastTick \/ LastTick = TickMax
    /\ IF clk.nextAlarm <= After(clk.ticks) THEN Alarm(nested)
                                            ELSE QuietTick(nested)
    /\ UNCHANGED up

-----------------------------------------------------------------------------
(* clock_task.                                                             *)

ClockRuns(place) == Running /\ kernel.curr = CLOCK /\ clk.place = place

\* clock_init: the timer is set, its handler entered and its line enabled.
ClockStarts ==
    /\ ClockRuns("init")
    /\ clk' = [clk EXCEPT !.place = "receive"]
    /\ UNCHANGED <<kernel, up>>

ClockReceives ==
    /\ ClockRuns("receive")
    /\ ReceiveCall(ANY)
    /\ clk' = [clk EXCEPT !.place = "serve"]

\* do_clock_int and the switch: a HARD_INT is served as a request is, and
\* an unknown type panics.
ClockServes(type) ==
    /\ ClockRuns("serve")
    /\ clk' = [clk EXCEPT
         !.place = IF kernel.msg[CLOCK] # Hardware /\ type = "bad"
                   THEN "panic" ELSE "reply",
         !.nextAlarm = TickMax]
    /\ UNCHANGED <<kernel, up>>

\* panic prints, with interrupts on.  The hlt behind it is a fault in a
\* task, whose error code makes the stub return to an unknown place.
ClockFaults ==
    /\ ClockRuns("panic")
    /\ clk' = [clk EXCEPT !.place = "lost"]
    /\ UNCHANGED <<kernel, up>>

\* Nothing is said about what the processor does from then on.
Lost == clk.place = "lost" /\ UNCHANGED clockVars

ReplyTo == kernel.msg[CLOCK]

\* send(msg.source), whatever the message was; what it returns is dropped.
ClockReplies ==
    /\ ClockRuns("reply")
    /\ SendCall(ReplyTo)
    /\ clk' = [clk EXCEPT !.place = "receive"]

-----------------------------------------------------------------------------
(* The other processes.                                                    *)

MilliDelay(n) ==
    /\ Running /\ kernel.curr \notin Users \cup {CLOCK}
    /\ clk.place # "init"
    /\ ~clk.spinning[kernel.curr]
    /\ clk' = [clk EXCEPT !.delay = (clk.ticks + n) % (TickMax + 1),
                          !.spinning[kernel.curr] = TRUE,
                          !.left[kernel.curr] = n]
    /\ UNCHANGED <<kernel, up>>

DelayEnds ==
    /\ Running /\ clk.spinning[kernel.curr]
    /\ clk.delay = TickMax
    /\ clk' = [clk EXCEPT !.spinning[kernel.curr] = FALSE,
                          !.left[kernel.curr] = 0]
    /\ UNCHANGED <<kernel, up>>

OtherCall ==
    /\ Running /\ kernel.curr # CLOCK
    /\ ~clk.spinning[kernel.curr]
    /\ \/ \E dest \in Procs : SendRecCall(dest)
       \/ \E dest \in Procs : (Polite => dest # CLOCK) /\ SendCall(dest)
       \/ \E src \in Procs \cup {ANY} :
             (Polite => src # CLOCK) /\ ReceiveCall(src)
       \/ ~Polite /\ SelfSendCall
    /\ UNCHANGED clk

-----------------------------------------------------------------------------
ClockInit ==
    /\ Init
    /\ clk = [place |-> "init", ticks |-> 0, nextAlarm |-> TickMax,
              delay |-> TickMax, schedule |-> ScheduleTicks,
              lastProc |-> None, held |-> FALSE,
              sysTime  |-> [p \in Procs |-> 0],
              spinning |-> [p \in Procs |-> FALSE],
              left     |-> [p \in Procs |-> 0]]

ClockTask ==
    \/ ClockStarts \/ ClockReceives \/ ClockReplies \/ ClockFaults
    \/ \E type \in Requests : ClockServes(type)

Ticks == \E nested \in BOOLEAN : Tick(nested)

ClockNext ==
    \/ ClockTask
    \/ Ticks
    \/ OtherCall
    \/ DelayEnds
    \/ \E n \in Delays : MilliDelay(n)
    \/ (Down /\ UNCHANGED clk)
    \/ Lost

\* The processor executes the current process; that is all the clock task
\* needs.
ClockSpec == ClockInit /\ [][ClockNext]_clockVars /\ WF_clockVars(ClockTask)

-----------------------------------------------------------------------------
ClockTypeOK == kernel \in KernelType /\ up \in BOOLEAN /\ clk \in ClockType

\* Whoever asks the clock by SEND_REC gets an answer: the clock task is
\* never caught sending to somebody who does not receive, and nobody's
\* message makes it answer the wrong process.
RequestsAnswered ==
    \A p \in Servers :
        kernel.sendTo[p] = CLOCK \/ kernel.getForm[p] = CLOCK ~>
            kernel.sendTo[p] # CLOCK /\ kernel.getForm[p] # CLOCK

\* milli_delay does not return before as many ticks as it was asked for,
\* whatever the clock task and the handler do with the alarms meanwhile.
DelayNotShort ==
    [][\A p \in Procs :
         clk.spinning[p] /\ ~clk'.spinning[p] => clk.left[p] = 0]_clockVars

\* The clock task has received something and has not answered it.
Serving == clk.place \in {"serve", "reply", "panic"} /\ Clean(kernel, CLOCK)

\* The clock task works on one static message: what it has received stays
\* there until it is answered or ends in a panic, whatever ticks and calls
\* come in between.
RequestKept ==
    /\ []ClockTypeOK
    /\ [][Serving /\ Serving' => kernel'.msg[CLOCK] = kernel.msg[CLOCK]]_clockVars
=============================================================================
