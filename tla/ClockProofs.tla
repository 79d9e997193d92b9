---------------------------- MODULE ClockProofs -----------------------------
(***************************************************************************)
(* Theorems about Clock, for every process table and every TickMax.        *)
(*                                                                         *)
(* The clock task, its handler and the processes that spin in milli_delay  *)
(* drive the kernel of Ipc by its own steps and by no other: ClockSpec     *)
(* implements the specification of Ipc, so that all that IpcProofs proves  *)
(* holds under the clock too.  What has to be known for that is that the   *)
(* clock task replies to a process (ClockInv): its message was written by  *)
(* one.                                                                    *)
(*                                                                         *)
(* Theorems about Rtc follow, for every time at which the kernel may boot  *)
(* from 2000 to 2038 and however long the reading of the clock takes.      *)
(***************************************************************************)
EXTENDS Clock, IpcProofs, Rtc

-----------------------------------------------------------------------------
(* What a call by one process leaves of the message of another.            *)

\* p keeps what it has if it waits for nothing, and what releases it leaves
\* it a message of somebody's.
KeepsMessage(k, j, p) ==
    /\ Clean(k, p) => Clean(j, p) /\ j.msg[p] = k.msg[p]
    /\ ~Clean(k, p) /\ Clean(j, p) => j.msg[p] \in Procs

\* flyanx_send by another process.
LEMMA SendKeeps ==
    ASSUME NEW k \in KernelType, PendingOwn(k), NEW c \in Procs,
           k.msg[c] = c, NEW d \in Procs, NEW p \in Procs \ {c},
           NEW j, SendShape(k, j, c, d)
    PROVE  KeepsMessage(k, j, p)
  BY DistinctNames DEF SendShape, KeepsMessage, Clean, Sending, Receiving,
                       KernelType, PendingOwn

\* flyanx_receive by another process: if it is p that is served, p was
\* sending and the message it is left with is its own.
LEMMA ReceiveKeeps ==
    ASSUME NEW k \in KernelType, PendingOwn(k), WaitersMatch(k),
           NEW c \in Procs, NEW src \in Procs \cup {ANY},
           NEW p \in Procs \ {c}, NEW j, ReceiveShape(k, j, c, src)
    PROVE  KeepsMessage(k, j, p)
  <1>1. j.msg[p] = k.msg[p]
    BY DEF ReceiveShape, KernelType
  <1>2. CASE /\ j.sendTo = k.sendTo
             /\ j.getForm = [k.getForm EXCEPT ![c] = src]
    BY <1>1, <1>2 DEF KeepsMessage, Clean, Sending, Receiving, KernelType
  <1>3. CASE /\ j.getForm = k.getForm
             /\ \E i \in DOMAIN k.waiters[c] :
                  j.sendTo = [k.sendTo EXCEPT ![k.waiters[c][i]] = None]
    <2>1. PICK i \in DOMAIN k.waiters[c] :
            j.sendTo = [k.sendTo EXCEPT ![k.waiters[c][i]] = None]
      BY <1>3
    <2>2. k.waiters[c][i] \in Procs
      BY DEF KernelType
    <2>3. Clean(k, p) => Clean(j, p)
      BY <1>3, <2>1, <2>2 DEF Clean, Sending, Receiving, KernelType
    <2>4. ~Clean(k, p) /\ Clean(j, p) => Sending(k, p)
      BY <1>3 DEF Clean, Sending, Receiving
    <2> QED BY <1>1, <2>3, <2>4 DEF KeepsMessage, PendingOwn
  <1> QED BY <1>2, <1>3 DEF ReceiveShape

\* One after the other, as in SEND_REC.
LEMMA KeepsTwice ==
    ASSUME NEW k, NEW h, NEW j, NEW p \in Procs,
           KeepsMessage(k, h, p), KeepsMessage(h, j, p)
    PROVE  KeepsMessage(k, j, p)
  BY DEF KeepsMessage

\* What any process but the clock task and whoever is delayed may do.
CallStep ==
    \/ \E dest \in Procs : SendCall(dest) \/ SendRecCall(dest)
    \/ \E src \in Procs \cup {ANY} : ReceiveCall(src)

\* sys_call by another process: the message of p is its own or is delivered.
LEMMA CallKeeps ==
    ASSUME KernelInv(kernel), CallStep, NEW p \in Procs \ {kernel.curr}
    PROVE  KeepsMessage(kernel, kernel', p)
  <1> DEFINE c == kernel.curr
  <1>1. /\ c # Idle /\ c \in Procs
        /\ kernel \in KernelType /\ PendingOwn(kernel) /\ WaitersMatch(kernel)
    BY DEF CallStep, SendCall, SendRecCall, ReceiveCall, Running, KernelInv,
           KernelType, TableInv
  <1>2. /\ KernelInv(Stamped) /\ Stamped.curr = c /\ Stamped.msg[c] = c
        /\ Stamped \in KernelType /\ PendingOwn(Stamped)
    BY <1>1, StampedOk DEF KernelInv, TableInv
  <1>3. KeepsMessage(kernel, Stamped, p)
    BY <1>1 DEF Stamped, KeepsMessage, Clean, Sending, Receiving, KernelType
  <1>4. ASSUME NEW dest \in Procs, SendCall(dest)
        PROVE  KeepsMessage(kernel, kernel', p)
    <2>1. KeepsMessage(Stamped, SendEffect(Stamped, c, dest), p)
      BY <1>1, <1>2, SendShaped, SendKeeps
    <2>2. KeepsMessage(kernel, SendEffect(Stamped, c, dest), p)
      BY <1>3, <2>1, KeepsTwice
    <2> QED BY <1>3, <1>4, <2>2 DEF SendCall
  <1>5. ASSUME NEW dest \in Procs, SendRecCall(dest)
        PROVE  KeepsMessage(kernel, kernel', p)
    <2> DEFINE h == SendEffect(Stamped, c, dest)
               j == ReceiveEffect(h, c, dest)
    <2>1. CASE SendStatus(Stamped, c, dest) = "OK"
      <3>1. dest \in Procs \ {c} /\ kernel' = j
        BY <1>5, <2>1 DEF SendRecCall
      <3>2. KernelInv(h)
        BY <1>1, <1>2, <2>1, <3>1, SendOk
      <3>3. h \in KernelType /\ PendingOwn(h) /\ WaitersMatch(h)
        BY <3>2 DEF KernelInv, TableInv
      <3>4. KeepsMessage(Stamped, h, p)
        BY <1>1, <1>2, SendShaped, SendKeeps
      <3>5. KeepsMessage(h, j, p)
        <4> HIDE DEF h
        <4> QED BY <1>1, <3>3, ReceiveShaped, ReceiveKeeps
      <3> HIDE DEF h, j
      <3>6. KeepsMessage(kernel, h, p)
        BY <1>3, <3>4, KeepsTwice
      <3> QED BY <3>1, <3>5, <3>6, KeepsTwice
    <2>2. CASE SendStatus(Stamped, c, dest) # "OK"
      BY <1>3, <1>5, <2>2 DEF SendRecCall
    <2> QED BY <2>1, <2>2
  <1>6. ASSUME NEW src \in Procs \cup {ANY}, ReceiveCall(src)
        PROVE  KeepsMessage(kernel, kernel', p)
    <2>1. kernel' = ReceiveEffect(kernel, c, src)
      BY <1>6 DEF ReceiveCall
    <2> QED BY <1>1, <2>1, ReceiveShaped, ReceiveKeeps
  <1> QED BY <1>4, <1>5, <1>6 DEF CallStep

-----------------------------------------------------------------------------
(* Every step of the clock is one of Ipc.                                  *)

ClockInv ==
    /\ Inv
    /\ clk \in ClockType
    /\ ~clk.spinning[CLOCK]
    /\ Serving => kernel.msg[CLOCK] \in Procs

\* The roles of the clock task and of the fields that a tick counts.
LEMMA ClockFacts ==
    /\ CLOCK \in IntTasks /\ CLOCK \in Procs /\ CLOCK # Idle
    /\ CLOCK \notin Users /\ Hardware \in Procs
    /\ TickMax \in Nat /\ TickMax > 0 /\ ScheduleTicks \in Nat \ {0}
    /\ None \notin Procs \cup {ANY}
  BY ClockAssumption, RolesAssumption, SlotsAssumption, ProcsAssumption,
     DistinctNames DEF Procs

\* A counter of ticks wraps after TickMax and only there.
LEMMA AfterOk ==
    ASSUME NEW t \in 0..TickMax
    PROVE  /\ After(t) \in 0..TickMax
           /\ t < TickMax => After(t) = t + 1
  BY ClockFacts DEF After

\* The modulus of milli_delay, in the same way.
LEMMA WrappedOk ==
    ASSUME NEW t \in 0..TickMax, NEW n \in 0..TickMax
    PROVE  /\ (t + n) % (TickMax + 1) \in 0..TickMax
           /\ t + n <= TickMax => (t + n) % (TickMax + 1) = t + n
  BY ClockFacts

\* What a tick counts stays within its types, and no tick moves the clock
\* task or anybody that spins.
LEMMA CountedOk ==
    ASSUME clk \in ClockType, NEW nested \in BOOLEAN
    PROVE  /\ Counted(nested) \in ClockType
           /\ Counted(nested).ticks = After(clk.ticks)
           /\ Counted(nested).left =
                [p \in Procs |-> IF clk.left[p] = 0 THEN 0 ELSE clk.left[p] - 1]
           /\ \A f \in DOMAIN clk \ {"ticks", "left"} :
                Counted(nested)[f] = clk[f]
  <1> DEFINE l == [p \in Procs |-> IF clk.left[p] = 0 THEN 0 ELSE clk.left[p] - 1]
  <1>1. SysTimeAfter(IF nested THEN Hardware ELSE kernel.curr) = clk.sysTime
    BY DEF SysTimeAfter
  <1>2. Counted(nested) = [clk EXCEPT !.ticks = After(clk.ticks),
                                      !.sysTime = clk.sysTime, !.left = l]
    BY <1>1 DEF Counted
  <1>3. After(clk.ticks) \in 0..TickMax
    BY AfterOk DEF ClockType
  <1>4. l \in [Procs -> 0..TickMax]
    BY ClockFacts DEF ClockType
  <1> HIDE DEF l
  <1>5. Counted(nested) \in ClockType
    BY <1>2, <1>3, <1>4 DEF ClockType
  <1> QED BY <1>2, <1>5 DEF ClockType, l

\* A tick without an alarm.
LEMMA QuietTickOk ==
    ASSUME clk \in ClockType, kernel \in KernelType, NEW nested \in BOOLEAN,
           QuietTick(nested)
    PROVE  /\ clk' \in ClockType /\ kernel' = kernel
           /\ clk'.place = clk.place /\ clk'.spinning = clk.spinning
           /\ clk'.nextAlarm = clk.nextAlarm
           /\ clk'.ticks = After(clk.ticks)
           /\ clk'.delay = IF DelayDue(After(clk.ticks)) THEN TickMax ELSE clk.delay
           /\ clk'.left =
                [p \in Procs |-> IF clk.left[p] = 0 THEN 0 ELSE clk.left[p] - 1]
  <1> DEFINE n == Counted(nested)
             d == IF DelayDue(After(clk.ticks)) THEN TickMax ELSE clk.delay
             s == IF clk.schedule = 1 THEN ScheduleTicks ELSE clk.schedule - 1
             l == IF clk.schedule = 1 THEN kernel.bill ELSE clk.lastProc
  <1>1. /\ n \in ClockType /\ n.ticks = After(clk.ticks)
        /\ n.left = [p \in Procs |-> IF clk.left[p] = 0 THEN 0 ELSE clk.left[p] - 1]
        /\ n.delay = clk.delay /\ n.schedule = clk.schedule
        /\ n.lastProc = clk.lastProc /\ n.place = clk.place
        /\ n.spinning = clk.spinning /\ n.nextAlarm = clk.nextAlarm
    BY CountedOk DEF ClockType
  <1> HIDE DEF n
  <1>2. clk' = [n EXCEPT !.delay = d, !.schedule = s, !.lastProc = l]
    BY <1>1 DEF QuietTick, n, ClockType
  <1>3. /\ d \in 0..TickMax /\ s \in 1..ScheduleTicks /\ l \in Procs \cup {None}
    <2>1. /\ clk.delay \in 0..TickMax /\ clk.schedule \in 1..ScheduleTicks
          /\ clk.lastProc \in Procs \cup {None}
          /\ kernel.bill \in Procs \cup {None}
      BY DEF ClockType, KernelType
    <2>2. s \in 1..ScheduleTicks
      BY <2>1, ClockFacts
    <2>3. d \in 0..TickMax
      BY <2>1, ClockFacts
    <2> QED BY <2>1, <2>2, <2>3
  <1> HIDE DEF d, s, l
  <1>4. clk' \in ClockType
    BY <1>1, <1>2, <1>3 DEF ClockType
  <1>5. clk'.delay = d /\ clk'.place = n.place /\ clk'.spinning = n.spinning
        /\ clk'.nextAlarm = n.nextAlarm /\ clk'.ticks = n.ticks
        /\ clk'.left = n.left
    BY <1>1, <1>2 DEF ClockType
  <1> QED BY <1>1, <1>4, <1>5 DEF d, QuietTick

\* An interrupt for the clock task, if the tick is not dropped.
LEMMA AlarmOk ==
    ASSUME clk \in ClockType, NEW nested \in BOOLEAN, Alarm(nested)
    PROVE  /\ clk' \in ClockType
           /\ clk'.place = clk.place /\ clk'.spinning = clk.spinning
           /\ kernel' = kernel \/ kernel' = InterruptEffect(kernel, CLOCK)
  <1> DEFINE n == Counted(nested)
  <1>1. /\ n \in ClockType /\ n.place = clk.place /\ n.spinning = clk.spinning
    BY CountedOk DEF ClockType
  <1> HIDE DEF n
  <1>2. \E h \in BOOLEAN : clk' = [n EXCEPT !.held = h]
    <2>1. clk' = [n EXCEPT !.held = n.held \/ nested]
      BY <1>1 DEF Alarm, n, ClockType
    <2>2. (n.held \/ nested) \in BOOLEAN
      OBVIOUS
    <2> QED BY <2>1, <2>2
  <1>3. clk' \in ClockType /\ clk'.place = n.place /\ clk'.spinning = n.spinning
    BY <1>1, <1>2 DEF ClockType
  <1> QED BY <1>1, <1>3 DEF Alarm

\* interrupt() leaves the message of a task alone that is busy, and writes
\* that of one it wakes.
LEMMA InterruptKeeps ==
    ASSUME NEW k \in KernelType, NEW t \in IntTasks
    PROVE  KeepsMessage(k, InterruptEffect(k, t), t)
  <1>1. t \in Procs /\ Hardware \in Procs
    BY RolesAssumption, SlotsAssumption DEF Procs
  <1>2. CASE Sending(k, t) \/ k.getForm[t] \notin {ANY, Hardware}
    BY <1>2 DEF InterruptEffect, KeepsMessage, Clean, Sending, Receiving,
                KernelType
  <1>3. CASE ~Sending(k, t) /\ k.getForm[t] \in {ANY, Hardware}
    <2> DEFINE m == [k EXCEPT !.msg[t] = Hardware, !.getForm[t] = None,
                              !.intBlocked[t] = FALSE]
    <2>1. InterruptEffect(k, t) = Ready(m, t)
      BY <1>3 DEF InterruptEffect
    <2>2. m \in KernelType /\ m.msg[t] = Hardware
      BY <1>1 DEF KernelType
    <2>3. SameTable(Ready(m, t), m)
      BY <2>2, QueuesOnly
    <2>4. ~Clean(k, t)
      BY <1>1, <1>3, DistinctNames DEF Clean, Receiving
    <2> HIDE DEF m
    <2> QED BY <1>1, <2>1, <2>2, <2>3, <2>4 DEF KeepsMessage, SameTable
  <1> QED BY <1>2, <1>3

-----------------------------------------------------------------------------
(* Every step of Clock is a step of Ipc, and keeps ClockInv.               *)

\* What a step does that ClockInv and the theorems rest on: the kernel takes
\* a step of its own, and a message that the clock task works on stays.
ClockStep ==
    /\ [Next]_vars
    /\ clk' \in ClockType
    /\ ~clk'.spinning[CLOCK]
    /\ Serving' => kernel'.msg[CLOCK] \in Procs
    /\ Serving /\ Serving' => kernel'.msg[CLOCK] = kernel.msg[CLOCK]

\* A step that changes neither the kernel nor what the clock task is at.
LEMMA StillStep ==
    ASSUME ClockInv, UNCHANGED <<kernel, up>>, clk' \in ClockType,
           ~clk'.spinning[CLOCK],
           clk'.place = clk.place \/ clk'.place \in {"init", "receive", "lost"}
                                  \/ clk.place \in {"serve", "reply"}
    PROVE  ClockStep
  <1>1. Serving' => Serving
    BY DEF Serving, Clean, Sending, Receiving
  <1> QED BY <1>1 DEF ClockStep, ClockInv, vars

\* A step in which the kernel keeps the message of the clock task.
LEMMA KeptStep ==
    ASSUME ClockInv, [Next]_vars, KeepsMessage(kernel, kernel', CLOCK),
           clk' \in ClockType, ~clk'.spinning[CLOCK], clk'.place = clk.place
    PROVE  ClockStep
  <1>1. CASE Clean(kernel, CLOCK)
    BY <1>1 DEF ClockStep, ClockInv, KeepsMessage, Serving
  <1>2. CASE ~Clean(kernel, CLOCK)
    BY <1>2 DEF ClockStep, ClockInv, KeepsMessage, Serving
  <1> QED BY <1>1, <1>2

\* The clock task's own receive: what it takes was written by its sender.
LEMMA ReceivesOwn ==
    ASSUME NEW k, KernelInv(k), k.curr = CLOCK, NEW j,
           ReceiveShape(k, j, CLOCK, ANY), Clean(j, CLOCK)
    PROVE  j.msg[CLOCK] \in Procs
  <1>1. /\ k \in KernelType /\ PendingOwn(k) /\ WaitersMatch(k)
        /\ CLOCK \in Procs /\ ANY # None /\ None \notin Procs
    BY ClockFacts DEF KernelInv, TableInv
  <1>2. j.getForm # [k.getForm EXCEPT ![CLOCK] = ANY]
    BY <1>1 DEF KernelType, Clean, Receiving
  <1>3. PICK i \in DOMAIN k.waiters[CLOCK] :
               j.msg = [k.msg EXCEPT ![CLOCK] = k.msg[k.waiters[CLOCK][i]]]
    BY <1>2 DEF ReceiveShape
  <1>4. k.waiters[CLOCK][i] \in Procs /\ k.sendTo[k.waiters[CLOCK][i]] = CLOCK
    BY <1>1 DEF WaitersMatch, ToSet
  <1> QED BY <1>1, <1>3, <1>4 DEF PendingOwn, Sending, KernelType

\* Every step of the clock driver is one of the kernel, keeps its own fields
\* in their types and leaves the message alone while it is worked on.
LEMMA ClockNextStep == ClockInv /\ [ClockNext]_clockVars => ClockStep
  <1> SUFFICES ASSUME ClockInv, [ClockNext]_clockVars PROVE ClockStep
    OBVIOUS
  <1>1. /\ KernelInv(kernel) /\ kernel \in KernelType /\ clk \in ClockType
        /\ ~clk.spinning[CLOCK] /\ Inv
    BY DEF ClockInv, Inv, KernelInv
  <1>2. CASE UNCHANGED clockVars
    BY <1>1, <1>2, StillStep DEF clockVars
  <1>3. CASE ClockStarts
    <2>1. /\ clk' \in ClockType /\ clk'.place = "receive"
          /\ clk'.spinning = clk.spinning
      BY <1>1, <1>3 DEF ClockStarts, ClockType
    <2> QED BY <1>1, <1>3, <2>1, StillStep DEF ClockStarts
  <1>4. CASE ClockReceives
    <2>1. /\ clk' \in ClockType /\ clk'.place = "serve"
          /\ clk'.spinning = clk.spinning /\ clk.place = "receive"
          /\ kernel.curr = CLOCK /\ ReceiveCall(ANY)
      BY <1>1, <1>4 DEF ClockReceives, ClockRuns, ClockType
    <2>2. kernel' = ReceiveEffect(kernel, CLOCK, ANY)
      BY <2>1 DEF ReceiveCall
    <2>3. Clean(kernel', CLOCK) => kernel'.msg[CLOCK] \in Procs
      BY <1>1, <2>1, <2>2, ClockFacts, ReceiveShaped, ReceivesOwn
    <2>4. Next
      BY <2>1 DEF Next
    <2> QED BY <1>1, <2>1, <2>3, <2>4 DEF ClockStep, Serving
  <1>5. CASE ClockReplies
    <2>1. /\ clk' \in ClockType /\ clk'.place = "receive"
          /\ clk'.spinning = clk.spinning /\ clk.place = "reply"
          /\ kernel.curr = CLOCK /\ SendCall(kernel.msg[CLOCK])
      BY <1>1, <1>5 DEF ClockReplies, ClockRuns, ClockType, ReplyTo
    <2>2. Clean(kernel, CLOCK)
      BY <1>1, <2>1, ClockFacts, CallerOk
    <2>3. kernel.msg[CLOCK] \in Procs
      BY <2>1, <2>2 DEF ClockInv, Serving
    <2>4. Next
      BY <2>1, <2>3 DEF Next
    <2> QED BY <1>1, <2>1, <2>4 DEF ClockStep, Serving
  <1>6. ASSUME NEW type \in Requests, ClockServes(type) PROVE ClockStep
    <2> DEFINE place == IF kernel.msg[CLOCK] # Hardware /\ type = "bad"
                        THEN "panic" ELSE "reply"
    <2>1. /\ clk' = [clk EXCEPT !.place = place, !.nextAlarm = TickMax]
          /\ clk.place = "serve" /\ kernel' = kernel /\ up' = up
      BY <1>6, Zenon DEF ClockServes, ClockRuns
    <2>2. place \in {"panic", "reply"}
      OBVIOUS
    <2> HIDE DEF place
    <2>3. TickMax \in 0..TickMax
      BY ClockFacts
    <2>4. clk' \in ClockType /\ clk'.spinning = clk.spinning
      BY <1>1, <2>1, <2>2, <2>3 DEF ClockType
    <2> QED BY <1>1, <2>1, <2>4, StillStep
  <1>7. ASSUME NEW nested \in BOOLEAN, Tick(nested) PROVE ClockStep
    <2>1. CASE QuietTick(nested)
      BY <1>1, <1>7, <2>1, QuietTickOk, StillStep DEF Tick
    <2>2. CASE Alarm(nested)
      <3>1. /\ clk' \in ClockType /\ clk'.place = clk.place
            /\ clk'.spinning = clk.spinning /\ up /\ up' = up
            /\ kernel' = kernel \/ kernel' = InterruptEffect(kernel, CLOCK)
        BY <1>1, <1>7, <2>2, AlarmOk DEF Tick
      <3>2. CASE kernel' = kernel
        BY <1>1, <3>1, <3>2, StillStep
      <3>3. CASE kernel' = InterruptEffect(kernel, CLOCK)
        <4>1. Next
          BY <3>1, <3>3, ClockFacts DEF Next, Interrupt
        <4>2. KeepsMessage(kernel, kernel', CLOCK)
          BY <1>1, <3>3, ClockFacts, InterruptKeeps
        <4> QED BY <1>1, <3>1, <4>1, <4>2, KeptStep
      <3> QED BY <3>1, <3>2, <3>3
    <2> QED BY <1>7, <2>1, <2>2 DEF Tick
  <1>8. CASE OtherCall
    <2>1. CASE SelfSendCall /\ clk' = clk
      <3>1. Next /\ kernel' = kernel
        BY <2>1 DEF Next, SelfSendCall
      <3>2. KeepsMessage(kernel, kernel', CLOCK)
        BY <3>1 DEF KeepsMessage
      <3> QED BY <1>1, <2>1, <3>1, <3>2, KeptStep
    <2>2. CASE kernel.curr # CLOCK /\ clk' = clk /\ CallStep
      <3>1. KeepsMessage(kernel, kernel', CLOCK)
        BY <1>1, <2>2, ClockFacts, CallKeeps
      <3>2. Next
        BY <2>2 DEF Next, CallStep
      <3> QED BY <1>1, <2>2, <3>1, <3>2, KeptStep
    <2> QED BY <1>8, <2>1, <2>2 DEF OtherCall, CallStep
  <1>9. CASE DelayEnds
    <2> DEFINE s == [clk.spinning EXCEPT ![kernel.curr] = FALSE]
               l == [clk.left EXCEPT ![kernel.curr] = 0]
    <2>0. /\ clk.spinning \in [Procs -> BOOLEAN] /\ clk.left \in [Procs -> 0..TickMax]
          /\ 0 \in 0..TickMax /\ kernel.curr \in Procs
      <3>1. 0 \in 0..TickMax
        BY ClockFacts
      <3> QED BY <1>1, <3>1 DEF ClockType, KernelType
    <2>1. /\ s \in [Procs -> BOOLEAN] /\ ~s[CLOCK]
          /\ l \in [Procs -> 0..TickMax]
      <3>1. l \in [Procs -> 0..TickMax]
        BY <2>0
      <3>2. s \in [Procs -> BOOLEAN]
        BY <2>0
      <3>3. ~s[CLOCK]
        BY <1>1, <2>0, ClockFacts
      <3> QED BY <3>1, <3>2, <3>3
    <2>2. clk' = [clk EXCEPT !.spinning = s, !.left = l]
      BY <1>9 DEF DelayEnds
    <2> HIDE DEF s, l
    <2>3. clk' \in ClockType /\ ~clk'.spinning[CLOCK] /\ clk'.place = clk.place
      BY <1>1, <2>1, <2>2 DEF ClockType
    <2> QED BY <1>9, <2>3, StillStep DEF DelayEnds
  <1>10. ASSUME NEW n \in Delays, MilliDelay(n) PROVE ClockStep
    <2>1. /\ n \in 0..TickMax /\ (clk.ticks + n) % (TickMax + 1) \in 0..TickMax
          /\ kernel.curr # CLOCK
      BY <1>1, <1>10, ClockAssumption, WrappedOk DEF MilliDelay, ClockType
    <2>2. clk' \in ClockType /\ ~clk'.spinning[CLOCK] /\ clk'.place = clk.place
      BY <1>1, <1>10, <2>1, ClockFacts DEF MilliDelay, ClockType, KernelType
    <2> QED BY <1>10, <2>2, StillStep DEF MilliDelay
  <1>11. CASE Down /\ UNCHANGED clk
    BY <1>1, <1>11, StillStep DEF Down, vars
  <1>12. CASE ClockFaults
    <2>1. /\ clk' \in ClockType /\ clk'.place = "lost"
          /\ clk'.spinning = clk.spinning
      BY <1>1, <1>12 DEF ClockFaults, ClockType
    <2> QED BY <1>1, <1>12, <2>1, StillStep DEF ClockFaults
  <1>13. CASE Lost
    BY <1>1, <1>13, StillStep DEF Lost, clockVars
  <1> QED BY <1>2, <1>3, <1>4, <1>5, <1>6, <1>7, <1>8, <1>9, <1>10, <1>11,
             <1>12, <1>13 DEF ClockNext, ClockTask, Ticks

\* After boot the clock task has not yet received anything.
LEMMA ClockInitInv == ClockInit => ClockInv
  <1> SUFFICES ASSUME ClockInit PROVE ClockInv
    OBVIOUS
  <1>1. Inv
    BY InitInv DEF ClockInit
  <1>2. clk \in ClockType /\ ~clk.spinning[CLOCK] /\ clk.place = "init"
    BY ClockFacts DEF ClockInit, ClockType
  <1> QED BY <1>1, <1>2 DEF ClockInv, Serving

\* The kernel's part of the invariant is kept because each step is one of Ipc.
LEMMA ClockNextInv == ClockInv /\ [ClockNext]_clockVars => ClockInv'
  <1> SUFFICES ASSUME ClockInv, ClockStep PROVE ClockInv'
    BY ClockNextStep
  <1>1. Inv'
    BY NextInv DEF ClockInv, ClockStep
  <1> QED BY <1>1 DEF ClockInv, ClockStep

\* The inductive invariant holds for ever.
THEOREM ClockInvariance == ClockSpec => []ClockInv
  BY ClockInitInv, ClockNextInv, PTL DEF ClockSpec

\* The clock task and its handler use the kernel as its specification says:
\* what holds of Ipc holds under the clock (clock_task replies to whoever
\* wrote its message, and that is a process or HARDWARE).
THEOREM ClockImplementsIpc == ClockSpec => Spec
  <1>1. ClockInit => Init
    BY DEF ClockInit
  <1>2. ClockInv /\ [ClockNext]_clockVars => [Next]_vars
    BY ClockNextStep DEF ClockStep
  <1> QED BY <1>1, <1>2, ClockInvariance, PTL DEF ClockSpec, Spec

\* The one static message of the clock task is not overwritten while it is
\* worked on, whatever calls and ticks come in between (clock.c, interrupt).
THEOREM RequestStays == ClockSpec => RequestKept
  <1>1. ClockInv => ClockTypeOK
    BY DEF ClockInv, ClockTypeOK, Inv, KernelInv
  <1>2. ClockInv /\ [ClockNext]_clockVars =>
          [Serving /\ Serving' =>
             kernel'.msg[CLOCK] = kernel.msg[CLOCK]]_clockVars
    BY ClockNextStep DEF ClockStep
  <1> QED BY <1>1, <1>2, ClockInvariance, PTL DEF ClockSpec, RequestKept

-----------------------------------------------------------------------------
(* milli_delay.                                                            *)

\* Ticks stop before any delay could reach ULONG_MAX, the value of
\* delay_alarm that stands for no delay.
NoWrap == \A n \in Delays \cup {0} : LastTick + n < TickMax

\* Then no alarm comes (none is ever set) and who spins keeps the processor,
\* so that delay_alarm is its own: it stands at least as far ahead as there
\* are ticks left to wait.
DelayInv ==
    /\ clk.nextAlarm = TickMax
    /\ clk.ticks <= LastTick
    /\ \A p \in Procs : clk.spinning[p] =>
         /\ p = kernel.curr
         /\ IF clk.delay = TickMax THEN clk.left[p] = 0
            ELSE clk.left[p] + clk.ticks <= clk.delay

\* What DelayNotShort says of a step.
NotShort ==
    \A p \in Procs : clk.spinning[p] /\ ~clk'.spinning[p] => clk.left[p] = 0

\* A step that nobody spins through.
LEMMA NobodySpins ==
    ASSUME DelayInv, \A p \in Procs : ~clk.spinning[p],
           clk'.spinning = clk.spinning, clk'.ticks = clk.ticks,
           clk'.nextAlarm = TickMax
    PROVE  DelayInv' /\ NotShort
  BY DEF DelayInv, NotShort

\* Whoever is spinning, it is the current process.
LEMMA OnlyCurrentSpins ==
    ASSUME DelayInv, ~clk.spinning[kernel.curr]
    PROVE  \A p \in Procs : ~clk.spinning[p]
  BY DEF DelayInv

\* clock_handler takes as much off what is left of the delay as it adds to
\* ticks, so delay_alarm is reached when nothing is left.
LEMMA DelayTick ==
    ASSUME NoWrap, ClockInv, DelayInv, NEW nested \in BOOLEAN, Tick(nested)
    PROVE  DelayInv' /\ NotShort
  <1>1. /\ clk \in ClockType /\ kernel \in KernelType
        /\ LastTick \in Nat /\ LastTick < TickMax /\ TickMax \in Nat
        /\ clk.ticks \in 0..TickMax /\ clk.nextAlarm = TickMax
    BY ClockAssumption DEF ClockInv, Inv, KernelInv, ClockType, DelayInv, NoWrap
  <1>2. clk.ticks < LastTick
    BY <1>1 DEF Tick
  <1>3. After(clk.ticks) = clk.ticks + 1 /\ After(clk.ticks) < TickMax
    BY <1>1, <1>2, AfterOk
  <1>4. QuietTick(nested)
    BY <1>1, <1>3 DEF Tick
  <1> DEFINE t == clk.ticks + 1
             rest(p) == IF clk.left[p] = 0 THEN 0 ELSE clk.left[p] - 1
  <1>5. /\ clk'.spinning = clk.spinning /\ clk'.nextAlarm = TickMax
        /\ clk'.ticks = t /\ kernel' = kernel
        /\ clk'.delay = IF clk.delay <= t THEN TickMax ELSE clk.delay
        /\ \A p \in Procs : clk'.left[p] = rest(p)
    BY <1>1, <1>3, <1>4, QuietTickOk DEF DelayDue
  <1>6. ASSUME NEW p \in Procs, clk.spinning[p]
        PROVE  IF clk'.delay = TickMax THEN clk'.left[p] = 0
               ELSE clk'.left[p] + t <= clk'.delay
    <2>1. clk.left[p] \in Nat /\ clk.delay \in 0..TickMax
      BY <1>1 DEF ClockType
    <2>2. CASE clk.delay = TickMax
      BY <1>1, <1>2, <1>5, <1>6, <2>1, <2>2 DEF DelayInv
    <2>3. CASE clk.delay # TickMax
      <3>1. clk.left[p] + clk.ticks <= clk.delay
        BY <1>6, <2>3 DEF DelayInv
      <3> QED BY <1>1, <1>2, <1>5, <2>1, <2>3, <3>1
    <2> QED BY <2>2, <2>3
  <1>7. DelayInv'
    BY <1>1, <1>2, <1>5, <1>6 DEF DelayInv
  <1> QED BY <1>5, <1>7 DEF NotShort

\* Nobody else changes a delay, and it begins with all that was asked for.
LEMMA DelayNext ==
    ASSUME NoWrap, ClockInv, DelayInv, [ClockNext]_clockVars
    PROVE  DelayInv' /\ NotShort
  <1>1. /\ clk \in ClockType /\ kernel \in KernelType /\ kernel.curr \in Procs
        /\ CLOCK \in Procs /\ ~clk.spinning[CLOCK]
        /\ clk.nextAlarm = TickMax
    BY ClockFacts DEF ClockInv, Inv, KernelInv, DelayInv, KernelType
  <1>2. CASE kernel' = kernel /\ clk' = clk
    BY <1>2 DEF DelayInv, NotShort
  <1>3. CASE ClockTask
    <2>1. kernel.curr = CLOCK
      BY <1>3 DEF ClockTask, ClockStarts, ClockReceives, ClockReplies,
                  ClockServes, ClockFaults, ClockRuns
    <2>2. /\ clk'.spinning = clk.spinning /\ clk'.ticks = clk.ticks
          /\ clk'.nextAlarm = TickMax
      <3>1. CASE ClockStarts \/ ClockReceives \/ ClockReplies \/ ClockFaults
        BY <1>1, <3>1 DEF ClockStarts, ClockReceives, ClockReplies,
                          ClockFaults, ClockType
      <3>2. CASE \E type \in Requests : ClockServes(type)
        <4>1. PICK place :
                clk' = [clk EXCEPT !.place = place, !.nextAlarm = TickMax]
          BY <3>2, Zenon DEF ClockServes
        <4> QED BY <1>1, <4>1 DEF ClockType
      <3> QED BY <1>3, <3>1, <3>2 DEF ClockTask
    <2> QED BY <1>1, <2>1, <2>2, OnlyCurrentSpins, NobodySpins
  <1>4. ASSUME NEW nested \in BOOLEAN, Tick(nested) PROVE DelayInv' /\ NotShort
    BY <1>4, DelayTick
  <1>5. CASE OtherCall
    <2>1. ~clk.spinning[kernel.curr] /\ clk' = clk
      BY <1>5 DEF OtherCall
    <2> QED BY <1>1, <2>1, OnlyCurrentSpins, NobodySpins
  <1>6. CASE DelayEnds
    <2> DEFINE s == [clk.spinning EXCEPT ![kernel.curr] = FALSE]
               l == [clk.left EXCEPT ![kernel.curr] = 0]
    <2>1. /\ clk' = [clk EXCEPT !.spinning = s, !.left = l]
          /\ kernel' = kernel /\ clk.delay = TickMax
      BY <1>6 DEF DelayEnds
    <2>2. \A p \in Procs : s[p] => clk.spinning[p] /\ p # kernel.curr
      BY <1>1 DEF ClockType
    <2> HIDE DEF s, l
    <2>3. /\ clk'.spinning = s /\ clk'.ticks = clk.ticks
          /\ clk'.nextAlarm = clk.nextAlarm
      BY <1>1, <2>1 DEF ClockType
    <2> QED BY <2>1, <2>2, <2>3 DEF DelayInv, NotShort
  <1>7. ASSUME NEW n \in Delays, MilliDelay(n) PROVE DelayInv' /\ NotShort
    <2> DEFINE s == [clk.spinning EXCEPT ![kernel.curr] = TRUE]
               l == [clk.left EXCEPT ![kernel.curr] = n]
               d == (clk.ticks + n) % (TickMax + 1)
    <2>1. /\ clk' = [clk EXCEPT !.delay = d, !.spinning = s, !.left = l]
          /\ kernel' = kernel /\ ~clk.spinning[kernel.curr]
      BY <1>7 DEF MilliDelay
    <2>2. \A p \in Procs : ~clk.spinning[p]
      BY <2>1, OnlyCurrentSpins
    <2>3. /\ \A p \in Procs : s[p] => p = kernel.curr
          /\ l[kernel.curr] = n
      BY <1>1, <2>2 DEF ClockType
    <2>4. d = clk.ticks + n /\ d # TickMax
      <3>1. /\ clk.ticks \in 0..TickMax /\ clk.ticks <= LastTick
            /\ n \in 0..TickMax /\ LastTick + n < TickMax
            /\ LastTick \in Nat /\ TickMax \in Nat
        BY <1>1, ClockAssumption DEF ClockType, DelayInv, NoWrap
      <3>2. clk.ticks + n <= TickMax
        BY <3>1
      <3>3. d = clk.ticks + n
        BY <3>1, <3>2, WrappedOk, Zenon
      <3> HIDE DEF d
      <3> QED BY <3>1, <3>3
    <2> HIDE DEF s, l, d
    <2>5. /\ clk'.spinning = s /\ clk'.ticks = clk.ticks /\ clk'.left = l
          /\ clk'.nextAlarm = clk.nextAlarm /\ clk'.delay = d
      BY <1>1, <2>1 DEF ClockType
    <2>6. l[kernel.curr] + clk.ticks <= d
      <3>1. n \in Nat /\ clk.ticks \in Nat
        BY <1>1, ClockAssumption DEF ClockType
      <3> QED BY <2>3, <2>4, <3>1
    <2> QED BY <2>1, <2>2, <2>3, <2>4, <2>5, <2>6 DEF DelayInv, NotShort
  <1> QED BY <1>2, <1>3, <1>4, <1>5, <1>6, <1>7
          DEF ClockNext, Ticks, Down, Lost, clockVars, vars

\* milli_delay waits for as many ticks as it was asked for, until the count
\* of ticks comes near ULONG_MAX (do_clock_int, clock_handler, milli_delay).
THEOREM DelaysLastLong == ASSUME NoWrap PROVE ClockSpec => DelayNotShort
  <1>1. ClockInit => DelayInv
    BY ClockFacts, ClockAssumption DEF ClockInit, DelayInv
  <1>2. ClockInv /\ DelayInv /\ [ClockNext]_clockVars => DelayInv' /\ NotShort
    BY DelayNext
  <1>3. ClockInv /\ DelayInv /\ [ClockNext]_clockVars =>
          [\A p \in Procs :
             clk.spinning[p] /\ ~clk'.spinning[p] => clk.left[p] = 0]_clockVars
    BY <1>2 DEF NotShort
  <1> QED BY <1>1, <1>2, <1>3, ClockInvariance, PTL DEF ClockSpec, DelayNotShort

-----------------------------------------------------------------------------
(* The calendar: YearStart and MonthStarts in closed form, and Unix, which *)
(* counts the seconds of Succ one by one up to the greatest int.           *)

\* The equation that YearStart solves.
Years(f) ==
    [year \in Nat |->
        IF year = 0 THEN 10957
        ELSE f[year - 1] + (IF (year - 1) % 4 = 0 THEN 366 ELSE 365)]

\* Every fourth year is a day longer.
LEMMA YearsPass ==
    ASSUME NEW y \in Nat
    PROVE  YearStart[y] = 10957 + 365 * y + (y + 3) \div 4
  <1> DEFINE c == [year \in Nat |-> 10957 + 365 * year + (year + 3) \div 4]
  <1>1. c = Years(c)
    <2> SUFFICES ASSUME NEW n \in Nat
                 PROVE  c[n] = IF n = 0 THEN 10957
                               ELSE c[n - 1] + (IF (n - 1) % 4 = 0 THEN 366 ELSE 365)
      BY DEF Years
    <2>1. CASE n = 0
      BY SMT, <2>1
    <2>2. CASE n # 0
      <3>1. n - 1 \in Nat
        BY SMT, <2>2
      <3>2. c[n - 1] = 10957 + 365 * (n - 1) + ((n - 1) + 3) \div 4
        BY ZenonT(30), <3>1
      <3>3. (n + 3) \div 4 = (n - 1 + 3) \div 4 + (IF (n - 1) % 4 = 0 THEN 1 ELSE 0)
        BY SMT, <3>1
      <3>4. c[n] = 10957 + 365 * n + (n + 3) \div 4
        BY Zenon
      <3> HIDE DEF c
      <3> QED BY SMT, <2>2, <3>1, <3>2, <3>3, <3>4
    <2> HIDE DEF c
    <2> QED BY SMT, <2>1, <2>2
  <1>2. YearStart = Years(YearStart)
    <2>1. YearStart = CHOOSE f : f = Years(f)
      BY Zenon DEF YearStart, Years
    <2> HIDE DEF c
    <2> QED BY Zenon, <1>1, <2>1
  <1>0. c[y] = 10957 + 365 * y + (y + 3) \div 4
    BY ZenonT(30)
  <1> DEFINE D == {n \in Nat : YearStart[n] # c[n]}
  <1> HIDE DEF c
  <1>3. ASSUME D # {} PROVE FALSE
    <2>1. PICK n \in D : \A x \in D : n <= x
      <3>1. D \in SUBSET Nat
        BY Zenon
      <3> QED BY Zenon, <1>3, <3>1, MinExists
    <2>2. n \in Nat /\ YearStart[n] # c[n]
      BY Zenon
    <2>3. /\ YearStart[n] = IF n = 0 THEN 10957
              ELSE YearStart[n - 1] + (IF (n - 1) % 4 = 0 THEN 366 ELSE 365)
          /\ c[n] = IF n = 0 THEN 10957
              ELSE c[n - 1] + (IF (n - 1) % 4 = 0 THEN 366 ELSE 365)
      <3>1. \A f : Years(f)[n] = IF n = 0 THEN 10957
                    ELSE f[n - 1] + (IF (n - 1) % 4 = 0 THEN 366 ELSE 365)
        BY Zenon, <2>2 DEF Years
      <3>2. Years(YearStart)[n] = YearStart[n] /\ Years(c)[n] = c[n]
        BY Zenon, <1>1, <1>2
      <3> QED BY SMT, <3>1, <3>2
    <2>4. n # 0
      BY SMT, <2>2, <2>3
    <2>5. n - 1 \in Nat /\ ~(n <= n - 1)
      BY SMT, <2>2, <2>4
    <2>6. n - 1 \notin D
      BY Zenon, <2>1, <2>5
    <2>7. YearStart[n - 1] = c[n - 1]
      BY Zenon, <2>5, <2>6
    <2> QED BY SMT, <2>2, <2>3, <2>7
  <1>4. YearStart[y] = c[y]
    BY Zenon, <1>3
  <1> QED BY SMT, <1>0, <1>4

\* The equation that MonthStarts solves.
Months(year, f) ==
    [month \in 1..12 |->
        IF month = 1 THEN 0 ELSE f[month - 1] + MonthLength(year, month - 1)]

\* The months of a leap year and of the others.
LEMMA MonthsPass ==
    ASSUME NEW y \in Nat
    PROVE  \A month \in 1..12 :
             MonthStarts(y)[month]
               = MonthMap[month] - (IF month > 2 /\ y % 4 # 0 THEN 1 ELSE 0)
  <1> DEFINE c == [month \in 1..12 |->
                     MonthMap[month] - (IF month > 2 /\ y % 4 # 0 THEN 1 ELSE 0)]
             s == MonthStarts(y)
  <1>0. /\ MonthMap[1] = 0 /\ MonthMap[2] = 31 /\ MonthMap[3] = 60 /\ MonthMap[4] = 91
        /\ MonthMap[5] = 121 /\ MonthMap[6] = 152 /\ MonthMap[7] = 182
        /\ MonthMap[8] = 213 /\ MonthMap[9] = 244 /\ MonthMap[10] = 274
        /\ MonthMap[11] = 305 /\ MonthMap[12] = 335
    BY SMT DEF MonthMap
  <1>1. c = Months(y, c)
    <2> SUFFICES ASSUME NEW n \in 1..12
                 PROVE  c[n] = IF n = 1 THEN 0 ELSE c[n - 1] + MonthLength(y, n - 1)
      BY DEF Months
    <2> QED BY SMTT(30), <1>0 DEF MonthLength
  <1>2. s = Months(y, s)
    <2>1. s = CHOOSE f : f = Months(y, f)
      BY Zenon DEF MonthStarts, Months
    <2> HIDE DEF c
    <2> QED BY Zenon, <1>1, <2>1
  <1>3. \A n \in 1..12 : s[n] = IF n = 1 THEN 0 ELSE s[n - 1] + MonthLength(y, n - 1)
    <2> HIDE DEF s
    <2>1. \A n \in 1..12 : Months(y, s)[n] = IF n = 1 THEN 0 ELSE s[n - 1] + MonthLength(y, n - 1)
      BY Zenon DEF Months
    <2> QED BY Zenon, <1>2, <2>1
  <1> HIDE DEF s
  <1>4. s[1] = 0 /\ s[2] = 31 /\ s[3] = 31 + MonthLength(y, 2)
    BY SMT, <1>3 DEF MonthLength
  <1>5. /\ s[4] = s[3] + 31 /\ s[5] = s[4] + 30 /\ s[6] = s[5] + 31 /\ s[7] = s[6] + 30
        /\ s[8] = s[7] + 31 /\ s[9] = s[8] + 31 /\ s[10] = s[9] + 30
        /\ s[11] = s[10] + 31 /\ s[12] = s[11] + 30
    BY SMT, <1>3 DEF MonthLength
  <1>6. MonthLength(y, 2) = 29 - (IF y % 4 # 0 THEN 1 ELSE 0)
    BY SMT DEF MonthLength
  <1> QED BY SMT, <1>0, <1>4, <1>5, <1>6 DEF s

\* The days from 1970 to the day of t.
DayOf(t) == YearStart[t[1]] + MonthStarts(t[1])[t[2]] + t[3] - 1

LEMMA FieldsOf ==
    ASSUME NEW t \in Times
    PROVE  /\ t = [k \in 1..6 |-> t[k]]
           /\ t[1] \in 0..99 /\ t[2] \in 1..12
           /\ t[3] \in 1..MonthLength(t[1], t[2])
           /\ MonthLength(t[1], t[2]) \in 28..31
           /\ t[4] \in 0..23 /\ t[5] \in 0..59 /\ t[6] \in 0..59
  <1>1. /\ t \in [1..6 -> Nat]
        /\ \A k \in 1..6 : First[k] <= t[k] /\ t[k] <= Final(t)[k]
    BY Zenon DEF Times
  <1>2. MonthLength(t[1], t[2]) \in 28..31
    BY SMT DEF MonthLength
  <1>3. /\ First[1] = 0 /\ First[2] = 1 /\ First[3] = 1 /\ First[4] = 0
        /\ First[5] = 0 /\ First[6] = 0
    BY SMT DEF First
  <1>4. /\ Final(t)[1] = 99 /\ Final(t)[2] = 12
        /\ Final(t)[3] = MonthLength(t[1], t[2])
        /\ Final(t)[4] = 23 /\ Final(t)[5] = 59 /\ Final(t)[6] = 59
    BY SMT DEF Final
  <1>5. t = [k \in 1..6 |-> t[k]]
    BY Zenon, <1>1
  <1> QED
    BY SMT, <1>1, <1>2, <1>3, <1>4, <1>5

LEMMA DayOfYear ==
    ASSUME NEW t \in Times
    PROVE  /\ DayOf(t) = 10957 + 365 * t[1] + (t[1] + 3) \div 4
                         + MonthMap[t[2]] + t[3] - 1
                         - (IF t[2] > 2 /\ t[1] % 4 # 0 THEN 1 ELSE 0)
           /\ MonthMap[t[2]] \in 0..335
           /\ DayOf(t) \in Nat
           /\ Unix(t) = Seconds(DayOf(t), t)
  <1>1. t[1] \in Nat /\ t[2] \in 1..12 /\ t[3] \in 1..31
    BY SMT, FieldsOf
  <1>2. YearStart[t[1]] = 10957 + 365 * t[1] + (t[1] + 3) \div 4
    BY SMT, <1>1, YearsPass
  <1>3. MonthStarts(t[1])[t[2]]
          = MonthMap[t[2]] - (IF t[2] > 2 /\ t[1] % 4 # 0 THEN 1 ELSE 0)
    BY Zenon, <1>1, MonthsPass
  <1>4. \A m \in 1..12 : MonthMap[m] \in 0..335
    BY SMT DEF MonthMap
  <1>5. MonthMap[t[2]] \in 0..335
    BY ZenonT(30), <1>1, <1>4
  <1>6. (t[1] + 3) \div 4 \in Nat
    BY SMT, <1>1
  <1>7. Unix(t) = Seconds(DayOf(t), t)
    BY Zenon DEF Unix, DayOf
  <1> DEFINE a == YearStart[t[1]]
             b == MonthStarts(t[1])[t[2]]
             q == (t[1] + 3) \div 4
             l == IF t[2] > 2 /\ t[1] % 4 # 0 THEN 1 ELSE 0
             x == MonthMap[t[2]]
  <1>8. DayOf(t) = a + b + t[3] - 1
    BY Zenon DEF DayOf
  <1>9. l \in 0..1 /\ (x = 0 => l = 0)
    BY SMT, <1>1 DEF MonthMap
  <1>10. a = 10957 + 365 * t[1] + q /\ b = x - l /\ q \in Nat /\ x \in 0..335
    BY SMT, <1>2, <1>3, <1>5, <1>6
  <1> HIDE DEF a, b, q, l, x
  <1>11. /\ DayOf(t) = 10957 + 365 * t[1] + q + x + t[3] - 1 - l
         /\ DayOf(t) \in Nat
    BY SMT, <1>1, <1>8, <1>9, <1>10
  <1> QED
    BY SMT, <1>5, <1>7, <1>11 DEF q, l, x

\* The calendar counts seconds.
LEMMA SecondsPass ==
    ASSUME NEW t \in Times, Unix(t) < IntMax
    PROVE  /\ Succ(t) \in Times
           /\ Unix(Succ(t)) = Unix(t) + 1
           /\ \/ t[1] < Succ(t)[1]
              \/ t[1] = Succ(t)[1] /\ t[2] <= Succ(t)[2]
  <1> DEFINE K == {k \in 1..6 : t[k] < Final(t)[k]}
             s == Succ(t)
             y == t[1]
             m == t[2]
             n == MonthLength(y, m)
  <1>1. /\ y \in 0..99 /\ m \in 1..12 /\ t[3] \in 1..n /\ n \in 28..31
        /\ t[4] \in 0..23 /\ t[5] \in 0..59 /\ t[6] \in 0..59
    BY Zenon, FieldsOf
  <1>2. /\ Final(t)[1] = 99 /\ Final(t)[2] = 12 /\ Final(t)[3] = n
        /\ Final(t)[4] = 23 /\ Final(t)[5] = 59 /\ Final(t)[6] = 59
    BY SMT DEF Final
  <1>3. /\ First[1] = 0 /\ First[2] = 1 /\ First[3] = 1 /\ First[4] = 0
        /\ First[5] = 0 /\ First[6] = 0
    BY SMT DEF First
  <1>4. /\ DayOf(t) \in Nat /\ Unix(t) = Seconds(DayOf(t), t)
        /\ DayOf(t) = 10957 + 365 * y + (y + 3) \div 4 + MonthMap[m] + t[3] - 1
                      - (IF m > 2 /\ y % 4 # 0 THEN 1 ELSE 0)
    BY SMT, DayOfYear
  <1>5. /\ MonthMap[1] = 0 /\ MonthMap[2] = 31 /\ MonthMap[3] = 60 /\ MonthMap[4] = 91
        /\ MonthMap[5] = 121 /\ MonthMap[6] = 152 /\ MonthMap[7] = 182
        /\ MonthMap[8] = 213 /\ MonthMap[9] = 244 /\ MonthMap[10] = 274
        /\ MonthMap[11] = 305 /\ MonthMap[12] = 335
    BY SMT DEF MonthMap
  <1> HIDE DEF y, m, n
  \* What Succ changes.
  <1>6. ASSUME NEW i \in 1..6, t[i] < Final(t)[i],
               \A k \in 1..6 : k > i => ~(t[k] < Final(t)[k])
        PROVE  \A k \in 1..6 : s[k] = IF k < i THEN t[k]
                                      ELSE IF k = i THEN t[k] + 1 ELSE First[k]
    <2>1. i \in K /\ \A k \in K : i >= k
      BY SMT, <1>6
    <2>2. \A j \in K : (\A k \in K : j >= k) => j = i
      BY SMT, <2>1
    <2> HIDE DEF K
    <2>3. Max(K) = i
      BY Zenon, <2>1, <2>2 DEF Max
    <2> QED
      BY SMT, <2>3 DEF Succ, K
  <1>7. ASSUME s \in Times, Unix(s) = Seconds(DayOf(s), s) => Unix(s) = Unix(t) + 1,
               y < s[1] \/ (y = s[1] /\ m <= s[2])
        PROVE  /\ Succ(t) \in Times /\ Unix(Succ(t)) = Unix(t) + 1
               /\ \/ t[1] < Succ(t)[1]
                  \/ t[1] = Succ(t)[1] /\ t[2] <= Succ(t)[2]
    <2>1. Unix(s) = Seconds(DayOf(s), s)
      BY SMT, <1>7, DayOfYear
    <2> QED
      BY Zenon, <1>7, <2>1 DEF y, m
  \* What remains for a time whose fields are known.
  <1>8. ASSUME s[1] \in 0..99, s[2] \in 1..12, s[3] \in 1..MonthLength(s[1], s[2]),
               s[4] \in 0..23, s[5] \in 0..59, s[6] \in 0..59
        PROVE  s \in Times
    <2>1. /\ Final(s)[1] = 99 /\ Final(s)[2] = 12
          /\ Final(s)[3] = MonthLength(s[1], s[2])
          /\ Final(s)[4] = 23 /\ Final(s)[5] = 59 /\ Final(s)[6] = 59
      BY SMT DEF Final
    <2>2. MonthLength(s[1], s[2]) \in 28..31
      BY SMT DEF MonthLength
    <2>3. \A k \in 1..6 : s[k] \in Nat /\ First[k] <= s[k] /\ s[k] <= Final(s)[k]
      BY SMT, <1>3, <1>8, <2>1, <2>2
    <2> DEFINE i == Max(K)
               field(k) == CASE k < i -> t[k]
                             [] k = i -> t[k] + 1
                             [] k > i -> First[k]
    <2>4. s = [k \in 1..6 |-> field(k)]
      BY DEF Succ
    <2> HIDE DEF s, i, field
    <2>5. \A k \in 1..6 : field(k) \in Nat
      BY Zenon, <2>3, <2>4
    <2>6. s \in [1..6 -> Nat]
      BY Zenon, <2>4, <2>5
    <2> QED
      BY Zenon, <2>3, <2>6 DEF Times
  \* The days do not change with the hours.
  <1>9. ASSUME s \in Times, s[1] = y, s[2] = m, s[3] = t[3] PROVE DayOf(s) = DayOf(t)
    BY Zenon, <1>9 DEF DayOf, y, m
  <1>10. t[1] = y /\ t[2] = m /\ n = MonthLength(y, m)
    BY Zenon DEF y, m, n
  <1> HIDE DEF s
  <1>11. CASE t[6] < 59
    <2>1. s[1] = y /\ s[2] = m /\ s[3] = t[3] /\ s[4] = t[4] /\ s[5] = t[5] /\ s[6] = t[6] + 1
      BY SMT, <1>1, <1>2, <1>6, <1>10, <1>11
    <2>2. s \in Times
      BY SMT, <1>1, <1>8, <1>10, <1>11, <2>1
    <2>3. DayOf(s) = DayOf(t)
      BY Zenon, <1>9, <2>1, <2>2
    <2>4. Unix(s) = Seconds(DayOf(s), s) => Unix(s) = Unix(t) + 1
      <3> DEFINE d == DayOf(t)
                 z == t[6]
      <3>1. Unix(t) = Seconds(d, t) /\ d \in Nat
        BY SMT, <1>4
      <3>2. Seconds(DayOf(s), s) = Seconds(d, s)
        BY Zenon, <2>3
      <3>3. s[4] = t[4] /\ s[5] = t[5] /\ s[6] = z + 1 /\ t[6] = z
        BY Zenon, <2>1
      <3>4. z \in Nat /\ t[5] \in Nat /\ t[4] \in Nat
        BY SMT, <1>1
      <3> HIDE DEF d, z
      <3> QED
        BY SMT, <3>1, <3>2, <3>3, <3>4 DEF Seconds
    <2> QED
      BY SMT, <1>1, <1>7, <2>1, <2>2, <2>4
  <1>12. CASE t[6] = 59 /\ t[5] < 59
    <2>1. s[1] = y /\ s[2] = m /\ s[3] = t[3] /\ s[4] = t[4] /\ s[5] = t[5] + 1 /\ s[6] = 0
      BY SMT, <1>1, <1>2, <1>3, <1>6, <1>10, <1>12
    <2>2. s \in Times
      BY SMT, <1>1, <1>8, <1>10, <1>12, <2>1
    <2>3. DayOf(s) = DayOf(t)
      BY Zenon, <1>9, <2>1, <2>2
    <2>4. Unix(s) = Seconds(DayOf(s), s) => Unix(s) = Unix(t) + 1
      BY SMT, <1>1, <1>4, <1>12, <2>1, <2>3 DEF Seconds
    <2> QED
      BY SMT, <1>1, <1>7, <2>1, <2>2, <2>4
  <1>13. CASE t[6] = 59 /\ t[5] = 59 /\ t[4] < 23
    <2>1. s[1] = y /\ s[2] = m /\ s[3] = t[3] /\ s[4] = t[4] + 1 /\ s[5] = 0 /\ s[6] = 0
      BY SMT, <1>1, <1>2, <1>3, <1>6, <1>10, <1>13
    <2>2. s \in Times
      BY SMT, <1>1, <1>8, <1>10, <1>13, <2>1
    <2>3. DayOf(s) = DayOf(t)
      BY Zenon, <1>9, <2>1, <2>2
    <2>4. Unix(s) = Seconds(DayOf(s), s) => Unix(s) = Unix(t) + 1
      BY SMT, <1>1, <1>4, <1>13, <2>1, <2>3 DEF Seconds
    <2> QED
      BY SMT, <1>1, <1>7, <2>1, <2>2, <2>4
  \* At midnight a day more.
  <1>14. ASSUME t[6] = 59, t[5] = 59, t[4] = 23, s \in Times,
                s[4] = 0, s[5] = 0, s[6] = 0, DayOf(s) = DayOf(t) + 1
         PROVE  Unix(s) = Seconds(DayOf(s), s) => Unix(s) = Unix(t) + 1
    BY SMT, <1>4, <1>14 DEF Seconds
  <1>15. CASE t[6] = 59 /\ t[5] = 59 /\ t[4] = 23 /\ t[3] < n
    <2>1. s[1] = y /\ s[2] = m /\ s[3] = t[3] + 1 /\ s[4] = 0 /\ s[5] = 0 /\ s[6] = 0
      BY SMT, <1>1, <1>2, <1>3, <1>6, <1>10, <1>15
    <2>2. s \in Times
      BY SMT, <1>1, <1>8, <1>10, <1>15, <2>1
    <2>3. DayOf(s) = 10957 + 365 * y + (y + 3) \div 4 + MonthMap[m] + (t[3] + 1) - 1
                      - (IF m > 2 /\ y % 4 # 0 THEN 1 ELSE 0)
      BY SMT, <2>1, <2>2, DayOfYear
    <2>4. MonthMap[m] \in Nat
      BY SMT, <1>1, <1>5
    <2>5. DayOf(s) = DayOf(t) + 1
      BY SMT, <1>1, <1>4, <2>3, <2>4
    <2> QED
      BY SMT, <1>1, <1>7, <1>14, <1>15, <2>1, <2>2, <2>5
  <1>16. CASE t[6] = 59 /\ t[5] = 59 /\ t[4] = 23 /\ t[3] = n /\ m < 12
    <2>1. s[1] = y /\ s[2] = m + 1 /\ s[3] = 1 /\ s[4] = 0 /\ s[5] = 0 /\ s[6] = 0
      BY SMT, <1>1, <1>2, <1>3, <1>6, <1>10, <1>16
    <2>2. s \in Times
      <3>1. MonthLength(y, m + 1) \in 28..31
        BY SMT DEF MonthLength
      <3> QED
        BY SMT, <1>1, <1>8, <1>10, <1>16, <2>1, <3>1
    <2>3. DayOf(s) = 10957 + 365 * y + (y + 3) \div 4 + MonthMap[m + 1] + 1 - 1
                      - (IF m + 1 > 2 /\ y % 4 # 0 THEN 1 ELSE 0)
      BY SMT, <2>1, <2>2, DayOfYear
    <2>4. MonthMap[m + 1] - (IF m + 1 > 2 /\ y % 4 # 0 THEN 1 ELSE 0)
            = MonthMap[m] + n - (IF m > 2 /\ y % 4 # 0 THEN 1 ELSE 0)
      BY SMT, <1>1, <1>5, <1>10, <1>16 DEF MonthLength
    <2>5. MonthMap[m] \in Nat /\ MonthMap[m + 1] \in Nat
      BY SMT, <1>1, <1>5, <1>16
    <2>6. DayOf(s) = DayOf(t) + 1
      BY SMT, <1>1, <1>4, <1>16, <2>3, <2>4, <2>5
    <2> QED
      BY SMT, <1>1, <1>7, <1>14, <1>16, <2>1, <2>2, <2>6
  <1>17. CASE t[6] = 59 /\ t[5] = 59 /\ t[4] = 23 /\ t[3] = n /\ m = 12
    <2>0. n = 31
      BY SMT, <1>10, <1>17 DEF MonthLength
    <2>1. y # 99
      <3>1. CASE y = 99
        <4>1. DayOf(t) > 40000
          BY SMT, <1>4, <1>5, <1>17, <2>0, <3>1
        <4>2. Unix(t) > IntMax
          BY SMT, <1>4, <1>17, <4>1 DEF Seconds, IntMax
        <4> QED
          BY SMT, <4>2, <1>4, <1>17 DEF Seconds, IntMax
      <3> QED
        BY Zenon, <3>1
    <2>2. s[1] = y + 1 /\ s[2] = 1 /\ s[3] = 1 /\ s[4] = 0 /\ s[5] = 0 /\ s[6] = 0
      BY SMT, <1>1, <1>2, <1>3, <1>6, <1>10, <1>17, <2>1
    <2>3. s \in Times
      <3>1. MonthLength(y + 1, 1) \in 28..31
        BY SMT DEF MonthLength
      <3> QED
        BY SMT, <1>1, <1>8, <1>10, <1>17, <2>1, <2>2, <3>1
    <2>4. DayOf(s) = 10957 + 365 * (y + 1) + (y + 1 + 3) \div 4
      BY SMT, <1>1, <1>5, <2>2, <2>3, DayOfYear
    <2>5. DayOf(s) = DayOf(t) + 1
      BY SMT, <1>1, <1>4, <1>5, <1>17, <2>0, <2>4
    <2> QED
      BY SMT, <1>1, <1>7, <1>14, <1>17, <2>2, <2>3, <2>5
  <1> QED
    BY SMT, <1>1, <1>11, <1>12, <1>13, <1>15, <1>16, <1>17

-----------------------------------------------------------------------------
(* mktime by days and months, and what it makes of registers that were     *)
(* read one after the other.                                               *)

\* The days from 1970 to a month as mktime counts them.
DaysTo(year, month) ==
    365 * (year + 30) + LeapDays(year + 30) + MonthMap[month]
      - (IF month > 1 /\ (year + 32) % 4 # 0 THEN 1 ELSE 0)

\* The value of each register that has been read.
Values == [k \in 1..6 |-> IF bcd THEN Bcd2Dec(got[k]) ELSE got[k]]

\* Of n values read in the order of the registers, each prefix is a time that
\* is not after t: as a year, as a month, as a day, and so on.
Behind(n, r, t) ==
    /\ n >= 1 => r[1] \in Nat /\ r[1] <= t[1]
    /\ n >= 2 => /\ r[2] \in 1..12
                 /\ r[1] < t[1] \/ (r[1] = t[1] /\ r[2] <= t[2])
    /\ n >= 3 => /\ r[3] \in 1..31
                 /\ DaysTo(r[1], r[2]) + r[3] - 1 <= DayOf(t)
    /\ n >= 4 => /\ r[4] \in 0..23
                 /\ (DaysTo(r[1], r[2]) + r[3] - 1) * 24 + r[4] <= DayOf(t) * 24 + t[4]
    /\ n >= 5 => /\ r[5] \in 0..59
                 /\ ((DaysTo(r[1], r[2]) + r[3] - 1) * 24 + r[4]) * 60 + r[5]
                      <= (DayOf(t) * 24 + t[4]) * 60 + t[5]
    /\ n >= 6 => r[6] \in 0..59 /\ Mktime(r) <= Unix(t)

LEMMA MktimeSeconds ==
    ASSUME NEW r, r[1] \in Nat, r[2] \in 1..12, r[3] \in 1..31
    PROVE  Mktime(r) = Seconds(DaysTo(r[1], r[2]) + r[3] - 1, r)
  <1> DEFINE y == r[1]
             m == MonthMap[r[2]]
             l == IF r[2] > 1 /\ (y + 32) % 4 # 0 THEN 1 ELSE 0
             e == IF r[2] - 1 > 0 /\ (y + 2000 - 1970 + 2) % 4 # 0 THEN 1 ELSE 0
  <1>1. y + 2000 - 1970 = y + 30 /\ y \in Nat
    BY SMT
  <1>2. m \in Nat /\ LeapDays(y + 30) \in Nat
    BY SMT, <1>1 DEF MonthMap, LeapDays
  <1>3. l \in 0..1 /\ e = l
    BY SMT
  <1>4. Mktime(r) = Seconds(365 * (y + 2000 - 1970) + LeapDays(y + 2000 - 1970)
                            + m + r[3] - 1 - e, r)
    BY DEF Mktime
  <1>5. DaysTo(y, r[2]) = 365 * (y + 30) + LeapDays(y + 30) + m - l
    BY DEF DaysTo
  <1> HIDE DEF y, m, l, e
  <1>6. 365 * (y + 2000 - 1970) + LeapDays(y + 2000 - 1970) + m + r[3] - 1 - e
          = DaysTo(y, r[2]) + r[3] - 1
    BY SMT, <1>1, <1>2, <1>3, <1>5
  <1>7. Mktime(r) = Seconds(DaysTo(y, r[2]) + r[3] - 1, r)
    BY SMT, <1>4, <1>6
  <1> QED
    BY Zenon, <1>7 DEF y

\* mktime counts the days of the calendar, but for one day in some Februaries.
LEMMA DaysToDay ==
    ASSUME NEW t \in Times
    PROVE  /\ DaysTo(t[1], t[2]) \in Nat
           /\ DaysTo(t[1], t[2]) + t[3] - 1
                = DayOf(t) - (IF EarlyFebruary(t) THEN 1 ELSE 0)
  <1> DEFINE y == t[1]
             m == t[2]
             b == MonthMap[m]
  <1>1. y \in 0..99 /\ m \in 1..12 /\ t[3] \in 1..31
    BY SMT, FieldsOf
  <1>2. /\ DayOf(t) = 10957 + 365 * y + (y + 3) \div 4 + b + t[3] - 1
                      - (IF m > 2 /\ y % 4 # 0 THEN 1 ELSE 0)
        /\ b \in 0..335
    BY SMT, DayOfYear
  <1>3. m > 1 => b >= 31
    BY SMT, <1>1 DEF MonthMap
  <1>4. LeapDays(y + 30) = 7 + (y + 3) \div 4
    BY SMT, <1>1 DEF LeapDays
  <1>5. (y + 32) % 4 = y % 4
    BY SMT, <1>1
  <1>6. DaysTo(y, m) = 365 * (y + 30) + LeapDays(y + 30) + b
                       - (IF m > 1 /\ (y + 32) % 4 # 0 THEN 1 ELSE 0)
    BY SMT DEF DaysTo
  <1>7. EarlyFebruary(t) <=> m = 2 /\ y % 4 # 0
    BY SMT DEF EarlyFebruary
  <1> HIDE DEF y, m, b
  <1>8. /\ DaysTo(y, m) \in Nat
        /\ DaysTo(y, m) + t[3] - 1 = DayOf(t) - (IF EarlyFebruary(t) THEN 1 ELSE 0)
    BY SMT, <1>1, <1>2, <1>3, <1>4, <1>5, <1>6, <1>7
  <1> QED
    BY Zenon, <1>8 DEF y, m

LEMMA DaysToGrow ==
    ASSUME NEW y \in Nat, NEW m \in 1..12, NEW z \in Nat, NEW n \in 1..12,
           y < z \/ (y = z /\ m <= n)
    PROVE  /\ DaysTo(y, m) \in Nat /\ DaysTo(z, n) \in Nat
           /\ DaysTo(y, m) <= DaysTo(z, n)
  <1> DEFINE a == MonthMap[m]
             b == MonthMap[n]
             p == IF m > 1 /\ (y + 32) % 4 # 0 THEN 1 ELSE 0
             q == IF n > 1 /\ (z + 32) % 4 # 0 THEN 1 ELSE 0
             u == LeapDays(y + 30)
             v == LeapDays(z + 30)
  <1>1. /\ a \in 0..335 /\ b \in 0..335
        /\ m > 1 => a >= 31
        /\ n > 1 => b >= 31
        /\ m < n => a < b
    BY SMT DEF MonthMap
  <1>2. u \in Nat /\ v \in Nat /\ (y < z => u <= v) /\ (y = z => u = v)
    BY SMT DEF LeapDays
  <1>3. p \in 0..1 /\ q \in 0..1 /\ (p = 1 => m > 1) /\ (q = 1 => n > 1)
    BY SMT
  <1>4. m = n => a = b
    BY Zenon
  <1>5. y = z /\ m = n => p = q
    BY Zenon
  <1>6. DaysTo(y, m) = 365 * (y + 30) + u + a - p /\ DaysTo(z, n) = 365 * (z + 30) + v + b - q
    BY DEF DaysTo
  <1>7. y = z /\ m > 1 => p = q \/ n <= 1
    BY SMT
  <1> HIDE DEF a, b, p, q, u, v
  <1> QED
    BY SMT, <1>1, <1>2, <1>3, <1>4, <1>5, <1>6, <1>7

LEMMA DaysToNat ==
    ASSUME NEW y \in Nat, NEW m \in 1..12
    PROVE  DaysTo(y, m) \in Nat
  <1>1. y = y /\ m <= m
    BY SMT
  <1> QED
    BY Zenon, <1>1, DaysToGrow

LEMMA SecondsInt ==
    ASSUME NEW v \in Nat, NEW r, r[4] \in Nat, r[5] \in Nat, r[6] \in Nat
    PROVE  Seconds(v, r) \in Int
  <1> DEFINE x == v * 24 + r[4]
             y == x * 60 + r[5]
  <1>1. x \in Nat
    BY SMT
  <1> HIDE DEF x
  <1>2. y \in Nat
    BY SMT, <1>1
  <1>3. Seconds(v, r) = y * 60 + r[6]
    BY DEF Seconds, x
  <1> HIDE DEF y
  <1> QED
    BY SMT, <1>2, <1>3

\* A time of the day grows with its parts.
LEMMA PartsGrow ==
    ASSUME NEW a \in Int, NEW b \in Int, NEW c \in Nat,
           NEW x \in 0..(c - 1), NEW y \in 0..(c - 1),
           c \in {24, 60}, a * c + x <= b * c + y
    PROVE  a <= b
  <1>1. CASE c = 24
    BY SMT, <1>1
  <1>2. CASE c = 60
    BY SMT, <1>2
  <1> QED
    BY SMT, <1>1, <1>2

\* What has been read stays behind while seconds pass.
LEMMA BehindStays ==
    ASSUME NEW t \in Times, Unix(t) < IntMax, NEW r, NEW n \in 0..6, Behind(n, r, t)
    PROVE  Behind(n, r, Succ(t))
  <1> DEFINE s == Succ(t)
             d == DayOf(t)
             e == DayOf(s)
             v == DaysTo(r[1], r[2]) + r[3] - 1
  <1>1. /\ s \in Times /\ Unix(s) = Unix(t) + 1
        /\ t[1] < s[1] \/ (t[1] = s[1] /\ t[2] <= s[2])
    BY Zenon, SecondsPass
  <1>2. /\ t[1] \in Nat /\ t[2] \in 1..12
        /\ t[4] \in 0..23 /\ t[5] \in 0..59 /\ t[6] \in 0..59
    BY SMT, FieldsOf
  <1>3. /\ s[1] \in Nat /\ s[2] \in 1..12
        /\ s[4] \in 0..23 /\ s[5] \in 0..59 /\ s[6] \in 0..59
    BY SMT, <1>1, FieldsOf
  <1>4. d \in Nat /\ Unix(t) = Seconds(d, t)
    BY SMT, DayOfYear
  <1>5. e \in Nat /\ Unix(s) = Seconds(e, s)
    BY SMT, <1>1, DayOfYear
  <1>6. /\ n >= 1 => r[1] \in Nat /\ r[1] <= t[1]
        /\ n >= 2 => /\ r[2] \in 1..12
                     /\ r[1] < t[1] \/ (r[1] = t[1] /\ r[2] <= t[2])
        /\ n >= 3 => r[3] \in 1..31 /\ v <= d
        /\ n >= 4 => r[4] \in 0..23 /\ v * 24 + r[4] <= d * 24 + t[4]
        /\ n >= 5 => /\ r[5] \in 0..59
                     /\ (v * 24 + r[4]) * 60 + r[5] <= (d * 24 + t[4]) * 60 + t[5]
        /\ n >= 6 => r[6] \in 0..59 /\ Mktime(r) <= Unix(t)
    BY DEF Behind
  <1>7. n >= 3 => v \in Nat
    <2>1. SUFFICES ASSUME n >= 3 PROVE v \in Nat
      OBVIOUS
    <2>2. r[1] \in Nat /\ r[2] \in 1..12 /\ r[3] \in 1..31
      <3> HIDE DEF v, d
      <3> QED
        BY SMT, <1>6, <2>1
    <2>3. DaysTo(r[1], r[2]) \in Nat
      BY Zenon, <2>2, DaysToNat
    <2> QED
      BY SMT, <2>2, <2>3
  <1> DEFINE h == t[4]
             i == s[4]
             g == d * 24 + h
             j == e * 24 + i
             p == t[5]
             q == s[5]
             w == g * 60 + p
             z == j * 60 + q
  <1>8. /\ h \in 0..23 /\ i \in 0..23 /\ p \in 0..59 /\ q \in 0..59
        /\ d \in Nat /\ e \in Nat
    BY Zenon, <1>2, <1>3, <1>4, <1>5
  <1> HIDE DEF s, d, e, h, i, p, q, v
  <1>9. g \in Nat /\ j \in Nat
    BY SMT, <1>8
  <1>10. Unix(t) = w * 60 + t[6] /\ Unix(s) = z * 60 + s[6]
    BY SMT, <1>4, <1>5 DEF Seconds, h, i, p, q
  <1> HIDE DEF g, j
  <1>11. w \in Nat /\ z \in Nat
    BY SMT, <1>8, <1>9
  <1> HIDE DEF w, z
  <1>12. w <= z /\ Unix(t) \in Nat
    BY SMT, <1>1, <1>2, <1>3, <1>10, <1>11
  <1>13. g <= j
    BY SMT, <1>8, <1>9, <1>12, PartsGrow DEF w, z
  <1>14. d <= e
    BY SMT, <1>8, <1>13, PartsGrow DEF g, j
  <1>15. /\ n >= 1 => r[1] <= s[1]
         /\ n >= 2 => r[1] < s[1] \/ (r[1] = s[1] /\ r[2] <= s[2])
    BY SMT, <1>1, <1>2, <1>3, <1>6
  <1>16. /\ n >= 3 => v <= e
         /\ n >= 4 => v * 24 + r[4] <= j
         /\ n >= 5 => (v * 24 + r[4]) * 60 + r[5] <= z
    <2>1. n >= 3 => v <= e
      BY SMT, <1>6, <1>7, <1>8, <1>14
    <2>2. ASSUME n >= 4 PROVE v * 24 + r[4] <= j
      <3>1. v * 24 + r[4] <= g /\ v * 24 + r[4] \in Nat
        BY SMT, <1>6, <1>7, <2>2 DEF g, h
      <3> QED
        BY SMT, <1>9, <1>13, <3>1
    <2>3. ASSUME n >= 5 PROVE (v * 24 + r[4]) * 60 + r[5] <= z
      <3>1. v * 24 + r[4] \in Nat /\ r[5] \in Nat
        BY SMT, <1>6, <1>7, <2>3
      <3>2. (v * 24 + r[4]) * 60 + r[5] <= w
        BY SMT, <1>6, <2>3 DEF w, g, h, p
      <3> DEFINE x == v * 24 + r[4]
      <3> HIDE DEF x
      <3> QED
        BY SMT, <1>11, <1>12, <3>1, <3>2 DEF x
    <2> QED
      BY SMT, <2>1, <2>2, <2>3
  <1>17. n >= 6 => Mktime(r) <= Unix(s)
    <2>1. SUFFICES ASSUME n >= 6 PROVE Mktime(r) <= Unix(s)
      OBVIOUS
    <2>2. Mktime(r) = Seconds(v, r)
      BY SMT, <1>6, <2>1, MktimeSeconds DEF v
    <2>3. /\ r[4] \in 0..23 /\ r[5] \in 0..59 /\ r[6] \in 0..59 /\ v \in Nat
          /\ Mktime(r) <= Unix(t)
      BY SMT, <1>6, <1>7, <2>1
    <2>4. r[4] \in Nat /\ r[5] \in Nat /\ r[6] \in Nat
      BY SMT, <2>3
    <2>5. Mktime(r) \in Int
      BY SMT, <2>2, <2>3, <2>4, SecondsInt
    <2> QED
      BY SMT, <1>1, <1>12, <2>3, <2>5
  <1>18. Behind(n, r, s)
    BY SMT, <1>6, <1>15, <1>16, <1>17 DEF Behind, v, e, j, z, i, q
  <1> QED
    BY Zenon, <1>18 DEF s

\* The next register that is read continues what is behind.
LEMMA BehindReads ==
    ASSUME NEW t \in Times, NEW n \in 0..5, NEW r, Behind(n, r, t),
           NEW q, \A k \in 1..n : q[k] = r[k], q[n + 1] = t[n + 1]
    PROVE  Behind(n + 1, q, t)
  <1> DEFINE d == DayOf(t)
             v == DaysTo(q[1], q[2]) + q[3] - 1
  <1>1. /\ t[1] \in 0..99 /\ t[2] \in 1..12 /\ t[3] \in 1..31
        /\ t[4] \in 0..23 /\ t[5] \in 0..59 /\ t[6] \in 0..59
    BY SMT, FieldsOf
  <1>2. /\ n >= 1 => q[1] = r[1]
        /\ n >= 2 => q[2] = r[2]
        /\ n >= 3 => q[3] = r[3]
        /\ n >= 4 => q[4] = r[4]
        /\ n >= 5 => q[5] = r[5]
    BY SMT
  <1>3. /\ n >= 1 => q[1] \in Nat /\ q[1] <= t[1]
        /\ n >= 2 => /\ q[2] \in 1..12
                     /\ q[1] < t[1] \/ (q[1] = t[1] /\ q[2] <= t[2])
        /\ n >= 3 => q[3] \in 1..31 /\ v <= d
        /\ n >= 4 => q[4] \in 0..23 /\ v * 24 + q[4] <= d * 24 + t[4]
        /\ n >= 5 => /\ q[5] \in 0..59
                     /\ (v * 24 + q[4]) * 60 + q[5] <= (d * 24 + t[4]) * 60 + t[5]
    <2>1. n >= 1 => q[1] \in Nat /\ q[1] <= t[1]
      BY SMT, <1>2 DEF Behind
    <2>2. n >= 2 => /\ q[2] \in 1..12
                    /\ q[1] < t[1] \/ (q[1] = t[1] /\ q[2] <= t[2])
      BY SMT, <1>2 DEF Behind
    <2>3. n >= 3 => v = DaysTo(r[1], r[2]) + r[3] - 1
      BY SMT, <1>2
    <2> HIDE DEF v, d
    <2>4. n >= 3 => q[3] \in 1..31 /\ v <= d
      BY SMT, <1>2, <2>3 DEF Behind, d
    <2>5. n >= 4 => q[4] \in 0..23 /\ v * 24 + q[4] <= d * 24 + t[4]
      BY SMT, <1>2, <2>3 DEF Behind, d
    <2>6. n >= 5 => /\ q[5] \in 0..59
                    /\ (v * 24 + q[4]) * 60 + q[5] <= (d * 24 + t[4]) * 60 + t[5]
      BY SMT, <1>2, <2>3 DEF Behind, d
    <2> QED
      BY SMT, <2>1, <2>2, <2>4, <2>5, <2>6
  <1>4. d \in Nat /\ Unix(t) = Seconds(d, t)
    BY SMT, DayOfYear
  <1>5. n >= 2 /\ q[3] \in 1..31 =>
          /\ v \in Nat
          /\ q[3] = t[3] => v <= d
    <2>1. SUFFICES ASSUME n >= 2, q[3] \in 1..31
                   PROVE  v \in Nat /\ (q[3] = t[3] => v <= d)
      OBVIOUS
    <2>2. /\ q[1] \in Nat /\ q[2] \in 1..12
          /\ q[1] < t[1] \/ (q[1] = t[1] /\ q[2] <= t[2])
      <3> HIDE DEF v, d
      <3> QED
        BY SMT, <1>3, <2>1
    <2>3. t[1] \in Nat /\ t[2] \in 1..12
      BY SMT, <1>1
    <2>4. DaysTo(q[1], q[2]) \in Nat /\ DaysTo(q[1], q[2]) <= DaysTo(t[1], t[2])
      BY Zenon, <2>2, <2>3, DaysToGrow
    <2>5. /\ DaysTo(t[1], t[2]) \in Nat
          /\ DaysTo(t[1], t[2]) + t[3] - 1 <= d
      BY SMT, <1>4, DaysToDay
    <2> HIDE DEF d
    <2> QED
      BY SMT, <1>1, <1>4, <2>1, <2>4, <2>5
  <1>6. q[n + 1] = t[n + 1]
    OBVIOUS
  <1>7. CASE n = 0
    BY SMT, <1>1, <1>6, <1>7 DEF Behind
  <1>8. CASE n = 1
    BY SMT, <1>1, <1>3, <1>6, <1>8 DEF Behind
  <1>9. CASE n = 2
    BY SMT, <1>1, <1>3, <1>5, <1>6, <1>9 DEF Behind
  <1>10. CASE n = 3
    <2> HIDE DEF d, v
    <2>1. q[4] \in 0..23 /\ v * 24 + q[4] <= d * 24 + t[4]
      BY SMT, <1>1, <1>3, <1>4, <1>5, <1>6, <1>10
    <2> QED
      BY SMT, <1>3, <1>10, <2>1 DEF Behind, d, v
  <1>11. CASE n = 4
    <2> HIDE DEF d, v
    <2> DEFINE x == v * 24 + q[4]
               g == d * 24 + t[4]
    <2>1. x \in Nat /\ g \in Nat /\ x <= g
      BY SMT, <1>1, <1>3, <1>4, <1>5, <1>11
    <2>2. q[5] = t[5] /\ t[5] \in 0..59
      BY SMT, <1>1, <1>6, <1>11
    <2> HIDE DEF x, g
    <2>3. q[5] \in 0..59 /\ x * 60 + q[5] <= g * 60 + t[5]
      BY SMT, <2>1, <2>2
    <2> QED
      BY SMT, <1>3, <1>11, <2>3 DEF Behind, d, v, x, g
  <1>12. CASE n = 5
    <2>1. Mktime(q) = Seconds(v, q)
      BY SMT, <1>3, <1>12, MktimeSeconds
    <2> HIDE DEF d, v
    <2> DEFINE x == v * 24 + q[4]
               g == d * 24 + t[4]
               w == x * 60 + q[5]
               z == g * 60 + t[5]
    <2>2. x \in Nat /\ g \in Nat /\ w <= z /\ q[5] \in 0..59 /\ t[5] \in 0..59
      BY SMT, <1>1, <1>3, <1>4, <1>5, <1>12
    <2>3. q[6] = t[6] /\ t[6] \in 0..59
      BY SMT, <1>1, <1>6, <1>12
    <2>4. Seconds(v, q) = w * 60 + q[6] /\ Seconds(d, t) = z * 60 + t[6]
      BY SMT DEF Seconds
    <2> HIDE DEF x, g
    <2>5. w \in Nat /\ z \in Nat
      BY SMT, <2>2
    <2> HIDE DEF w, z
    <2>6. q[6] \in 0..59 /\ Seconds(v, q) <= Seconds(d, t)
      BY SMT, <2>2, <2>3, <2>4, <2>5
    <2> QED
      BY SMT, <1>3, <1>4, <1>12, <2>1, <2>6 DEF Behind, d, v
  <1> QED
    BY SMT, <1>7, <1>8, <1>9, <1>10, <1>11, <1>12

-----------------------------------------------------------------------------
(* The reading of the clock.                                               *)

\* bcd2dec undoes the coding of the registers.
LEMMA Decoded ==
    ASSUME NEW n \in 0..99
    PROVE  Bcd2Dec(16 * (n \div 10) + (n % 10)) = n
  <1> DEFINE a == n \div 10
             b == n % 10
             c == 16 * a + b
  <1>1. a \in 0..9 /\ b \in 0..9 /\ n = 10 * a + b
    BY SMT
  <1> HIDE DEF a, b
  <1>2. c \div 16 = a /\ c % 16 = b
    BY SMT, <1>1
  <1> HIDE DEF c
  <1>3. Bcd2Dec(c) = a * 10 + b
    BY Zenon, <1>2 DEF Bcd2Dec
  <1>4. Bcd2Dec(c) = n
    BY SMT, <1>1, <1>3
  <1> QED
    BY <1>4 DEF a, b, c

\* RtcInv is inductive: nothing is read ahead of the time, and the first
\* values stay those of start until a second passes.
RtcInv ==
    /\ start \in Starts /\ time \in Times /\ bcd \in BOOLEAN /\ boot \in Int
    /\ got \in Seq(Nat) /\ Len(got) <= 6
    /\ Unix(start) <= Unix(time)
    /\ Unix(time) <= Unix(start) + MaxSeconds
    /\ time = start => \A k \in 1..Len(got) : Values[k] = start[k]
    /\ Behind(Len(got), Values, time)
    /\ boot # -1 => Len(got) = 6
    /\ ExactIfStill
    /\ NeverAhead

LEMMA RtcInvInit == RtcInit => RtcInv
  <1> SUFFICES ASSUME RtcInit PROVE RtcInv
    OBVIOUS
  <1>1. /\ start \in Starts /\ time = start /\ bcd \in BOOLEAN
        /\ got = <<>> /\ boot = -1
    BY Zenon DEF RtcInit
  <1>2. start \in Times /\ MaxSeconds \in Nat
    BY Zenon, <1>1, RtcAssumption
  <1>3. Unix(start) \in Int
    <2>1. /\ start[4] \in Nat /\ start[5] \in Nat /\ start[6] \in Nat
          /\ DayOf(start) \in Nat /\ Unix(start) = Seconds(DayOf(start), start)
      BY SMT, <1>2, FieldsOf, DayOfYear
    <2> QED
      BY Zenon, <2>1, SecondsInt
  <1>4. got \in Seq(Nat) /\ Len(got) = 0
    BY SMT, <1>1
  <1>5. Behind(0, Values, time)
    BY SMT DEF Behind
  <1>6. \A k \in 1..0 : Values[k] = start[k]
    BY SMT
  <1>7. ExactIfStill /\ NeverAhead
    BY Zenon, <1>1 DEF ExactIfStill, NeverAhead
  <1> QED
    BY SMT, <1>1, <1>2, <1>3, <1>4, <1>5, <1>6, <1>7 DEF RtcInv

LEMMA RtcInvNext == RtcInv /\ [RtcNext]_rtcVars => RtcInv'
  <1> SUFFICES ASSUME RtcInv, [RtcNext]_rtcVars
               PROVE  RtcInv'
    OBVIOUS
  <1>1. /\ start \in Starts /\ time \in Times /\ bcd \in BOOLEAN /\ boot \in Int
        /\ got \in Seq(Nat) /\ Len(got) <= 6
        /\ Unix(start) <= Unix(time)
        /\ Unix(time) <= Unix(start) + MaxSeconds
        /\ time = start => \A k \in 1..Len(got) : Values[k] = start[k]
        /\ Behind(Len(got), Values, time)
        /\ boot # -1 => Len(got) = 6
        /\ ExactIfStill
        /\ NeverAhead
    BY Zenon DEF RtcInv
  <1>2. /\ start \in Times /\ MaxSeconds \in Nat
        /\ Unix(start) + MaxSeconds <= IntMax
    BY Zenon, <1>1, RtcAssumption
  <1>8. Len(got) \in 0..6
    <2>1. got \in Seq(Nat) /\ Len(got) <= 6
      BY Zenon, <1>1
    <2>2. Len(got) \in Nat
      BY SMT, <2>1
    <2> DEFINE n == Len(got)
    <2>3. n \in Nat /\ n <= 6
      BY Zenon, <2>1, <2>2
    <2> HIDE DEF n
    <2>4. n \in 0..6
      BY SMT, <2>3
    <2> QED
      BY Zenon, <2>4 DEF n
  <1>3. \A t \in Times : Unix(t) \in Nat
    <2>1. SUFFICES ASSUME NEW t \in Times PROVE Unix(t) \in Nat
      OBVIOUS
    <2>2. /\ t[4] \in Nat /\ t[5] \in Nat /\ t[6] \in Nat
          /\ DayOf(t) \in Nat /\ Unix(t) = Seconds(DayOf(t), t)
      BY SMT, FieldsOf, DayOfYear
    <2> DEFINE d == DayOf(t)
               h == d * 24 + t[4]
               w == h * 60 + t[5]
    <2>3. Unix(t) = w * 60 + t[6]
      BY Zenon, <2>2 DEF Seconds
    <2> HIDE DEF d
    <2>4. h \in Nat
      BY SMT, <2>2 DEF d
    <2> HIDE DEF h
    <2>5. w \in Nat
      BY SMT, <2>2, <2>4
    <2> HIDE DEF w
    <2> QED
      BY SMT, <2>2, <2>3, <2>5
  <1>4. CASE ReadRegister
    <2>1. /\ Len(got) < 6
          /\ got' = Append(got, RegisterOf(time[Len(got) + 1]))
          /\ time' = time /\ bcd' = bcd /\ start' = start /\ boot' = boot
      BY Zenon, <1>4 DEF ReadRegister, Field
    <2> DEFINE n == Len(got)
               f == time[n + 1]
    <2>2. n \in 0..5 /\ n + 1 \in 1..6
      <3>1. n \in 0..6 /\ n < 6
        BY Zenon, <1>8, <2>1
      <3> HIDE DEF n
      <3> QED
        BY SMT, <3>1
    <2>3. f \in 0..99
      <3>1. /\ time[1] \in 0..99 /\ time[2] \in 0..99 /\ time[3] \in 0..99
            /\ time[4] \in 0..99 /\ time[5] \in 0..99 /\ time[6] \in 0..99
        <4>1. time \in Times
          BY Zenon, <1>1
        <4> QED
          BY SMT, <4>1, FieldsOf
      <3> HIDE DEF n
      <3>2. \A k \in 1..6 : time[k] \in 0..99
        BY SMT, <3>1
      <3> QED
        BY Zenon, <2>2, <3>2
    <2>4. RegisterOf(f) \in Nat
      <3> HIDE DEF f
      <3> QED
        BY SMT, <2>3 DEF RegisterOf
    <2>5. /\ got' \in Seq(Nat) /\ Len(got') = n + 1
          /\ got'[n + 1] = RegisterOf(f)
          /\ \A k \in 1..n : got'[k] = got[k]
      BY SMT, <1>1, <2>1, <2>4
    <2>6. \A k \in 1..6 : /\ Values[k] = (IF bcd THEN Bcd2Dec(got[k]) ELSE got[k])
                          /\ Values'[k] = (IF bcd THEN Bcd2Dec(got'[k]) ELSE got'[k])
      BY Zenon, <2>1 DEF Values
    <2>7. Values'[n + 1] = f
      <3>1. Values'[n + 1] = IF bcd THEN Bcd2Dec(RegisterOf(f)) ELSE RegisterOf(f)
        BY Zenon, <2>2, <2>5, <2>6
      <3>2. Bcd2Dec(16 * (f \div 10) + (f % 10)) = f
        BY Zenon, <2>3, Decoded
      <3> HIDE DEF f
      <3>3. RegisterOf(f) = IF bcd THEN 16 * (f \div 10) + (f % 10) ELSE f
        BY DEF RegisterOf
      <3> QED
        BY Zenon, <3>1, <3>2, <3>3
    <2>8. \A k \in 1..n : Values'[k] = Values[k]
      <3>1. \A k \in 1..n : k \in 1..6
        BY SMT, <2>2
      <3> QED
        BY Zenon, <2>5, <2>6, <3>1
    <2>9. Behind(n + 1, Values', time)
      BY Zenon, <1>1, <2>2, <2>7, <2>8, BehindReads
    <2>10. time = start => \A k \in 1..(n + 1) : Values'[k] = start[k]
      <3>1. \A k \in 1..(n + 1) : k = n + 1 \/ k \in 1..n
        BY SMT, <2>2
      <3> QED
        BY Zenon, <1>1, <2>7, <2>8, <3>1
    <2>11. boot = -1
      BY SMT, <1>1, <2>1
    <2>12. ExactIfStill' /\ NeverAhead'
      BY Zenon, <2>1, <2>11 DEF ExactIfStill, NeverAhead
    <2> HIDE DEF n
    <2>13. Len(got') <= 6
      BY SMT, <2>2, <2>5
    <2> QED
      BY Zenon, <1>1, <2>1, <2>5, <2>9, <2>10, <2>11, <2>12, <2>13 DEF RtcInv
  <1>5. CASE SetBootTime
    <2> DEFINE raw == [k \in 1..6 |-> got[CHOOSE i \in 1..6 : Field(i) = k]]
               r == [k \in 1..6 |-> IF bcd THEN Bcd2Dec(raw[k]) ELSE raw[k]]
    <2>1. /\ Len(got) = 6 /\ boot = -1 /\ boot' = Mktime(r)
          /\ time' = time /\ bcd' = bcd /\ start' = start /\ got' = got
      BY Zenon, <1>5 DEF SetBootTime
    <2>2. r = Values
      <3>1. \A k \in 1..6 : (CHOOSE i \in 1..6 : Field(i) = k) = k
        BY Zenon DEF Field
      <3>2. \A k \in 1..6 : raw[k] = got[k]
        BY Zenon, <3>1
      <3> HIDE DEF raw
      <3> QED
        BY SMT, <3>2 DEF Values
    <2> HIDE DEF raw, r
    <2>3. Behind(6, Values, time)
      BY Zenon, <1>1, <2>1
    <2>4. /\ Mktime(Values) <= Unix(time)
          /\ Values[1] \in Nat /\ Values[2] \in 1..12 /\ Values[3] \in 1..31
          /\ Values[4] \in Nat /\ Values[5] \in Nat /\ Values[6] \in Nat
      BY SMT, <2>3 DEF Behind
    <2>5. boot' \in Int
      <3>1. DaysTo(Values[1], Values[2]) \in Nat
        BY Zenon, <2>4, DaysToNat
      <3>2. DaysTo(Values[1], Values[2]) + Values[3] - 1 \in Nat
        BY SMT, <2>4, <3>1
      <3>3. Mktime(Values) = Seconds(DaysTo(Values[1], Values[2]) + Values[3] - 1, Values)
        BY Zenon, <2>4, MktimeSeconds
      <3> QED
        BY Zenon, <2>1, <2>2, <2>4, <3>2, <3>3, SecondsInt
    <2>6. ASSUME time = start, ~EarlyFebruary(start) PROVE boot' = Unix(time)
      <3>1. \A k \in 1..6 : Values[k] = time[k]
        BY Zenon, <1>1, <2>1, <2>6
      <3>2. /\ Values[1] = time[1] /\ Values[2] = time[2] /\ Values[3] = time[3]
            /\ Values[4] = time[4] /\ Values[5] = time[5] /\ Values[6] = time[6]
        BY SMT, <3>1
      <3>3. DaysTo(time[1], time[2]) + time[3] - 1 = DayOf(time)
        <4>1. /\ DaysTo(time[1], time[2]) + time[3] - 1
                    = DayOf(time) - (IF EarlyFebruary(time) THEN 1 ELSE 0)
              /\ DayOf(time) \in Nat
          BY SMT, <1>1, DaysToDay, DayOfYear
        <4> QED
          BY SMT, <2>6, <4>1
      <3>4. Mktime(Values) = Seconds(DayOf(time), time)
        <4>1. Mktime(Values) = Seconds(DaysTo(Values[1], Values[2]) + Values[3] - 1, Values)
          BY Zenon, <2>4, MktimeSeconds
        <4> QED
          BY Zenon, <3>2, <3>3, <4>1 DEF Seconds
      <3>5. Unix(time) = Seconds(DayOf(time), time)
        BY Zenon DEF Unix, DayOf
      <3> QED
        BY Zenon, <2>1, <2>2, <3>4, <3>5
    <2>7. Values' = Values
      BY Zenon, <2>1 DEF Values
    <2>8. ExactIfStill'
      BY Zenon, <2>1, <2>6 DEF ExactIfStill
    <2>9. NeverAhead'
      BY Zenon, <2>1, <2>2, <2>4 DEF NeverAhead
    <2>10. Len(got) <= 6
      BY Zenon, <1>1
    <2> QED
      BY Zenon, <1>1, <2>1, <2>5, <2>7, <2>8, <2>9, <2>10 DEF RtcInv
  <1>6. CASE Advance
    <2>1. /\ boot = -1 /\ Unix(time) < Unix(start) + MaxSeconds
          /\ time' = Succ(time)
          /\ bcd' = bcd /\ start' = start /\ got' = got /\ boot' = boot
      BY Zenon, <1>6 DEF Advance
    <2>2. Unix(time) < IntMax
      <3>1. Unix(time) \in Nat /\ Unix(start) \in Nat
        BY Zenon, <1>1, <1>2, <1>3
      <3> QED
        BY SMT, <1>2, <2>1, <3>1 DEF IntMax
    <2>3. time' \in Times /\ Unix(time') = Unix(time) + 1
      BY Zenon, <1>1, <2>1, <2>2, SecondsPass
    <2>4. Values' = Values
      BY Zenon, <2>1 DEF Values
    <2>5. Behind(Len(got), Values, time')
      BY Zenon, <1>1, <1>8, <2>1, <2>2, BehindStays
    <2>6. Unix(start) <= Unix(time') /\ Unix(time') <= Unix(start) + MaxSeconds /\ time' # start
      <3>1. Unix(time) \in Nat /\ Unix(start) \in Nat
        BY Zenon, <1>1, <1>2, <1>3
      <3>2. Unix(start) <= Unix(time') /\ Unix(time') <= Unix(start) + MaxSeconds /\ Unix(time') # Unix(start)
        BY SMT, <1>1, <1>2, <2>1, <2>3, <3>1
      <3> QED
        BY Zenon, <3>2
    <2>7. ExactIfStill' /\ NeverAhead'
      BY Zenon, <2>1 DEF ExactIfStill, NeverAhead
    <2>8. Len(got) <= 6
      BY Zenon, <1>1
    <2> QED
      BY Zenon, <1>1, <2>1, <2>3, <2>4, <2>5, <2>6, <2>7, <2>8 DEF RtcInv
  <1>7. CASE UNCHANGED rtcVars
    <2>1. /\ time' = time /\ bcd' = bcd /\ start' = start /\ got' = got /\ boot' = boot
      BY Zenon, <1>7 DEF rtcVars
    <2>2. Values' = Values
      BY Zenon, <2>1 DEF Values
    <2>3. ExactIfStill' /\ NeverAhead'
      BY Zenon, <1>1, <2>1 DEF ExactIfStill, NeverAhead
    <2>4. Len(got) <= 6
      BY Zenon, <1>1
    <2> QED
      BY Zenon, <1>1, <2>1, <2>2, <2>3, <2>4 DEF RtcInv
  <1> QED
    BY Zenon, <1>4, <1>5, <1>6, <1>7 DEF RtcNext

\* The invariant of the reading: what has been read is a time that is not
\* after the one in the CMOS.
THEOREM ReadsBehind == RtcSpec => []RtcInv
  BY PTL, RtcInvInit, RtcInvNext DEF RtcSpec

\* If no second passes during the reading boot_time is the time, from 2000 to
\* the last second that an int holds, but for the Februaries that mktime puts
\* a day early.
THEOREM BootTimeExact == RtcSpec => []ExactIfStill
  <1>1. RtcInv => ExactIfStill
    BY Zenon DEF RtcInv
  <1> QED
    BY PTL, <1>1, ReadsBehind

\* However long the reading takes boot_time is not after the time.
THEOREM BootTimeNotAhead == RtcSpec => []NeverAhead
  <1>1. RtcInv => NeverAhead
    BY Zenon DEF RtcInv
  <1> QED
    BY PTL, <1>1, ReadsBehind
=============================================================================
