-------------------------- MODULE InterruptProofs --------------------------
(***************************************************************************)
(* Theorems about Interrupts: what TLC checks for two lines and three      *)
(* activations, for any lines, tasks and depth.                            *)
(*                                                                         *)
(* The inductive invariant says of each activation where on the stack it   *)
(* may be (Well): what began in a process is the outermost one, and what   *)
(* returns to restart_reenter is not.  With that, the counter follows.     *)
(***************************************************************************)
EXTENDS Interrupts, FiniteSetTheorems, TLAPS

\* Where only the outermost activation can be.
Outer == InRestart \cup {"boot", "syscall", "report", "halted", "woken"}

\* Places that kernel_reenter does not count any more.
CountedOut == {"pops", "unwind"}

\* Activation f, the k-th.
Well(f, k) ==
    /\ f.pc \in Outer => k = 1
    /\ f.pc = "unwind" => k > 1
    /\ f.pc \in InHandler => f.irq \in Irqs
    /\ f.pc \in {"pcb", "pops"} => overlaid \/ k = Len(frames)
    /\ f.pc \in {"store", "notify"} => f.target # None
    /\ f.pc = "load" => held.head # None

Shape == \A k \in 1..Len(frames) : Well(frames[k], k)

Counting == ~overlaid => reenter = (Cardinality(Counted) + 255) % 256

NestInv == TypeOK /\ Shape /\ Counting

-----------------------------------------------------------------------------
(* The stack.                                                              *)

\* The innermost activation is the last of the sequence.
LEMMA TopOfStack ==
    ASSUME TypeOK
    PROVE  /\ Len(frames) \in Nat
           /\ DOMAIN frames = 1..Len(frames)
           /\ frames \in Seq(FrameType)
           /\ \A k \in 1..Len(frames) : frames[k] \in FrameType
           /\ frames # <<>> =>
                /\ Len(frames) \in 1..Len(frames)
                /\ Top = frames[Len(frames)]
  BY DEF TypeOK, Top, Last

\* GoTo changes the place of the innermost activation alone.
LEMMA GoToTop ==
    ASSUME TypeOK, frames # <<>>, NEW b \in Places, GoTo(b)
    PROVE  /\ frames' \in Seq(FrameType)
           /\ Len(frames') = Len(frames)
           /\ \A k \in 1..Len(frames) \ {Len(frames)} : frames'[k] = frames[k]
           /\ LET f == frames'[Len(frames)]
                  g == frames[Len(frames)]
              IN  /\ f.pc = b /\ f.irq = g.irq
                  /\ f.target = g.target /\ f.rest = g.rest
  <1>1. Len(frames) \in Nat /\ Len(frames) \in 1..Len(frames)
    BY TopOfStack
  <1>2. frames' = [frames EXCEPT ![Len(frames)].pc = b]
    BY DEF GoTo
  <1>3. [frames[Len(frames)] EXCEPT !.pc = b] \in FrameType
    BY <1>1, TopOfStack DEF FrameType
  <1>4. frames' = [frames EXCEPT ![Len(frames)] = [frames[Len(frames)] EXCEPT !.pc = b]]
    BY <1>2
  <1>5. frames' \in Seq(FrameType) /\ Len(frames') = Len(frames)
    BY <1>1, <1>3, <1>4, TopOfStack
  <1>6. frames[Len(frames)] \in FrameType
    BY <1>1, TopOfStack
  <1> QED
    BY <1>1, <1>4, <1>5, <1>6, TopOfStack DEF FrameType

\* What an interrupt finds on the stack, after the hlt it may end.
LEMMA WokenStack ==
    ASSUME TypeOK, NEW n \in Nat, n = Len(frames)
    PROVE  /\ Woken \in Seq(FrameType) /\ Len(Woken) = n
           /\ \A k \in 1..n : /\ Woken[k].irq = frames[k].irq
                             /\ Woken[k].target = frames[k].target
                             /\ \/ Woken[k].pc = frames[k].pc
                                \/ /\ k = n /\ frames[k].pc = "halted"
                                   /\ Woken[k].pc = "woken"
  <1>1. CASE frames # <<>> /\ Top.pc = "halted"
    <2> DEFINE g == [frames[n] EXCEPT !.pc = "woken"]
    <2>2. /\ n \in 1..n /\ Top = frames[n] /\ frames[n] \in FrameType
          /\ frames \in Seq(FrameType)
      BY <1>1, TopOfStack
    <2>3. /\ g \in FrameType /\ g.irq = frames[n].irq
          /\ g.target = frames[n].target /\ g.pc = "woken"
      BY <2>2 DEF FrameType, Places
    <2>4. Woken = [frames EXCEPT ![n] = g]
      BY <1>1 DEF Woken
    <2> HIDE DEF g
    <2>5. /\ Woken \in Seq(FrameType) /\ Len(Woken) = n /\ Woken[n] = g
          /\ \A k \in 1..n : k # n => Woken[k] = frames[k]
      BY <2>2, <2>3, <2>4
    <2> QED
      BY <1>1, <2>2, <2>3, <2>5
  <1>2. CASE ~(frames # <<>> /\ Top.pc = "halted")
    <2>1. Woken = frames
      BY <1>2 DEF Woken
    <2> QED
      BY <2>1, TopOfStack
  <1> QED
    BY <1>1, <1>2

\* Counted is finite, and not larger than the stack is deep.
LEMMA CountedFinite ==
    ASSUME TypeOK
    PROVE  /\ IsFiniteSet(Counted)
           /\ Cardinality(Counted) \in Nat
           /\ Cardinality(Counted) <= Len(frames)
           /\ Counted \subseteq 1..Len(frames)
  <1>1. Len(frames) \in Nat /\ Counted \in SUBSET (1..Len(frames))
    BY TopOfStack DEF Counted
  <1>2. IsFiniteSet(1..Len(frames)) /\ Cardinality(1..Len(frames)) = Len(frames)
    BY <1>1, FS_Interval
  <1>3. IsFiniteSet(Counted) /\ Cardinality(Counted) <= Len(frames)
    BY <1>1, <1>2, FS_Subset
  <1> QED
    BY <1>1, <1>3, FS_CardinalityType

\* The held queue keeps its type, and does not become empty.
LEMMA HoldKeeps ==
    ASSUME NEW h \in HeldType, NEW t \in Tasks
    PROVE  /\ Hold(h, t) \in HeldType
           /\ h.head # None => Hold(h, t).head # None
  <1>1. CASE h.flag[t]
    BY <1>1 DEF Hold
  <1>2. CASE ~h.flag[t]
    <2> DEFINE g == Hold(h, t)
    <2>1. g = [h EXCEPT !.flag[t] = TRUE,
                   !.head = IF @ = None THEN t ELSE @,
                   !.next = IF h.head = None \/ h.tail = None
                            THEN [@ EXCEPT ![t] = None]
                            ELSE [[@ EXCEPT ![h.tail] = t] EXCEPT ![t] = None],
                   !.tail = t]
      BY <1>2 DEF Hold
    <2>2. [h.next EXCEPT ![t] = None] \in [Tasks -> Tasks \cup {None}]
      BY DEF HeldType
    <2>3. h.tail # None =>
            [[h.next EXCEPT ![h.tail] = t] EXCEPT ![t] = None]
              \in [Tasks -> Tasks \cup {None}]
      BY DEF HeldType
    <2>4. [h.flag EXCEPT ![t] = TRUE] \in [Tasks -> BOOLEAN]
      BY DEF HeldType
    <2>5. g \in HeldType
      BY <2>1, <2>2, <2>3, <2>4 DEF HeldType
    <2> QED
      BY <2>1, <2>5, IrqsAssumption DEF HeldType
  <1> QED
    BY <1>1, <1>2

-----------------------------------------------------------------------------
(* The steps that move the innermost activation on.                        *)

\* Moving the innermost activation between places that count alike keeps the
\* invariant.
LEMMA MoveInv ==
    ASSUME NestInv, NEW a, NEW b \in Places, At(a), GoTo(b),
           UNCHANGED <<reenter, overlaid>>,
           ifFlag' \in BOOLEAN, masked' \subseteq 0..15,
           held' \in HeldType, waiting' \subseteq Tasks,
           (held.head # None => held'.head # None) \/ a \in InRestart,
           a \notin CountedOut, b \notin CountedOut,
           b \in Outer => a \in Outer \/ Len(frames) = 1,
           b \in InHandler => a \in InHandler,
           b \in {"store", "notify"} => a \in {"store", "notify"},
           b = "load" => held'.head # None
    PROVE  NestInv'
  <1>t. TypeOK
    BY DEF NestInv
  <1>n. PICK n \in Nat : n = Len(frames)
    BY <1>t, TopOfStack
  <1>1. /\ n \in 1..n /\ frames # <<>> /\ ~overlaid
        /\ frames[n].pc = a /\ DOMAIN frames = 1..n
    BY <1>n, <1>t, TopOfStack DEF At
  <1>g. /\ frames' \in Seq(FrameType)
        /\ Len(frames') = n
        /\ \A k \in 1..n \ {n} : frames'[k] = frames[k]
        /\ LET f == frames'[n]
               g == frames[n]
           IN  /\ f.pc = b /\ f.irq = g.irq
               /\ f.target = g.target /\ f.rest = g.rest
    BY <1>1, <1>n, <1>t, GoToTop
  <1>2. /\ frames' \in Seq(FrameType) /\ Len(frames') = n
        /\ DOMAIN frames' = 1..n
        /\ \A k \in 1..n \ {n} : frames'[k] = frames[k]
        /\ frames'[n].pc = b /\ frames'[n].irq = frames[n].irq
        /\ frames'[n].target = frames[n].target
    BY <1>g
  <1>w. Well(frames[n], n)
    BY <1>1, <1>n DEF NestInv, Shape
  <1>3. TypeOK'
    BY <1>2, <1>n DEF NestInv, TypeOK
  <1>4. ASSUME NEW k \in 1..n PROVE Well(frames[k], k)'
    <2>1. Well(frames[k], k)
      BY <1>n DEF NestInv, Shape
    <2>2. CASE k = n
      BY <1>1, <1>2, <1>n, <2>1, <2>2 DEF Well, Outer, CountedOut
    <2>3. CASE k # n
      <3>1. frames'[k] = frames[k]
        BY <1>2, <2>3
      <3>2. a \notin InRestart
        <4>1. frames[n].pc \in Outer => n = 1
          BY <1>w DEF Well
        <4>2. frames[n].pc \notin Outer
          BY <1>1, <2>3, <4>1
        <4> QED
          BY <1>1, <4>2 DEF Outer
      <3> QED
        BY <1>1, <1>2, <1>n, <2>1, <2>3, <3>1, <3>2 DEF Well
    <2> QED
      BY <2>2, <2>3
  <1>5. Counted' = Counted
    BY <1>1, <1>2 DEF Counted, CountedOut
  <1>6. Counting'
    BY <1>5 DEF NestInv, Counting
  <1> QED
    BY <1>2, <1>n, <1>3, <1>4, <1>6 DEF NestInv, Shape

\* What At says of the innermost activation, under the invariant.
LEMMA AtTop ==
    ASSUME NestInv, NEW a, At(a)
    PROVE  /\ frames # <<>> /\ ~overlaid
           /\ Len(frames) \in Nat
           /\ Top \in FrameType /\ Top.pc = a
           /\ Well(Top, Len(frames))
  <1>1. TypeOK
    BY DEF NestInv
  <1>2. /\ frames # <<>> /\ ~overlaid /\ Top.pc = a
    BY DEF At
  <1>3. /\ Len(frames) \in Nat /\ Len(frames) \in 1..Len(frames)
        /\ Top = frames[Len(frames)] /\ Top \in FrameType
    BY <1>1, <1>2, TopOfStack
  <1>4. Well(Top, Len(frames))
    BY <1>3 DEF NestInv, Shape
  <1> QED
    BY <1>2, <1>3, <1>4

\* hwint and exception stubs: what happens on the stack of an interrupt.
LEMMA HandlerInv ==
    ASSUME NestInv,
           \/ HandlerQuiet \/ HandlerHolds \/ HandlerNotifies
           \/ DirectDelivery \/ \E enable \in BOOLEAN : HandlerReturns(enable)
           \/ ReturnToRestart \/ ExceptionReported
    PROVE  NestInv'
  <1> USE DEF Places, InHandler, InRestart, Outer, CountedOut
  <1>1. /\ ifFlag \in BOOLEAN /\ masked \subseteq 0..15
        /\ held \in HeldType /\ waiting \subseteq Tasks
    BY DEF NestInv, TypeOK
  <1>2. CASE HandlerQuiet
    BY <1>1, <1>2, MoveInv DEF HandlerQuiet
  <1>3. CASE HandlerHolds
    <2>1. At("handler") /\ GoTo("mask") /\ held' = Hold(held, Notifies[Top.irq])
      BY <1>3 DEF HandlerHolds
    <2>2. Top.irq \in Irqs
      BY <2>1, AtTop DEF Well
    <2>3. Notifies[Top.irq] \in Tasks
      BY <1>3, <2>2, IrqsAssumption DEF HandlerHolds
    <2>4. held' \in HeldType /\ (held.head # None => held'.head # None)
      BY <1>1, <2>1, <2>3, HoldKeeps
    <2> QED
      BY <1>1, <1>3, <2>1, <2>4, MoveInv DEF HandlerHolds
  <1>4. CASE HandlerNotifies
    BY <1>1, <1>4, MoveInv DEF HandlerNotifies
  <1>5. CASE DirectDelivery
    BY <1>1, <1>5, MoveInv DEF DirectDelivery, Deliver
  <1>6. CASE \E enable \in BOOLEAN : HandlerReturns(enable)
    <2>1. masked' \subseteq 0..15
      BY <1>1, <1>6 DEF HandlerReturns
    <2> QED
      BY <1>1, <1>6, <2>1, MoveInv DEF HandlerReturns
  <1>7. CASE ReturnToRestart
    BY <1>1, <1>7, MoveInv DEF ReturnToRestart
  <1>8. CASE ExceptionReported
    <2>1. Len(frames) = 1
      BY <1>8, AtTop DEF ExceptionReported, Well
    <2> QED
      BY <1>1, <1>8, <2>1, MoveInv DEF ExceptionReported
  <1> QED
    BY <1>2, <1>3, <1>4, <1>5, <1>6, <1>7, <1>8

\* The way from unhold to the process table, and to unhold from processes.
LEMMA RestartInv ==
    ASSUME NestInv,
           \/ UnholdBegins \/ UnholdStores \/ UnholdNotifies \/ UnholdLoops
           \/ UnholdEnds \/ LoadStackPointer \/ BootRestarts \/ HaltEnds
           \/ \E w \in SUBSET Tasks : SysCallBody(w)
    PROVE  NestInv'
  <1> USE DEF Places, InHandler, InRestart, Outer, CountedOut
  <1>1. /\ ifFlag \in BOOLEAN /\ masked \subseteq 0..15
        /\ held \in HeldType /\ waiting \subseteq Tasks
    BY DEF NestInv, TypeOK
  <1>2. CASE UnholdBegins
    <2>1. CASE NoneHeld
      BY <1>1, <1>2, <2>1, MoveInv DEF UnholdBegins
    <2>2. CASE ~NoneHeld
      BY <1>1, <1>2, <2>2, MoveInv DEF UnholdBegins, NoneHeld
    <2> QED
      BY <2>1, <2>2
  <1>3. CASE UnholdStores
    <2>1. Top \in FrameType
      BY <1>3, AtTop DEF UnholdStores
    <2>2. held' \in HeldType
      BY <1>1, <1>3, <2>1 DEF UnholdStores, FrameType, HeldType
    <2> QED
      BY <1>1, <1>3, <2>2, MoveInv DEF UnholdStores
  <1>4. CASE UnholdNotifies
    <2>1. Top.target \in Tasks
      BY <1>4, AtTop DEF UnholdNotifies, FrameType, Well
    <2>2. held' \in HeldType /\ waiting' \subseteq Tasks
      BY <1>1, <1>4, <2>1, HoldKeeps DEF UnholdNotifies, Deliver
    <2> QED
      BY <1>1, <1>4, <2>2, MoveInv DEF UnholdNotifies
  <1>5. CASE UnholdLoops
    <2>1. CASE NoneHeld
      BY <1>1, <1>5, <2>1, MoveInv DEF UnholdLoops
    <2>2. CASE ~NoneHeld
      BY <1>1, <1>5, <2>2, MoveInv DEF UnholdLoops, NoneHeld
    <2> QED
      BY <2>1, <2>2
  <1>6. CASE UnholdEnds
    <2>1. held' \in HeldType
      BY <1>1, <1>6 DEF UnholdEnds, HeldType
    <2> QED
      BY <1>1, <1>6, <2>1, MoveInv DEF UnholdEnds
  <1>7. CASE LoadStackPointer
    BY <1>1, <1>7, MoveInv DEF LoadStackPointer
  <1>8. CASE BootRestarts
    BY <1>1, <1>8, MoveInv DEF BootRestarts
  <1>9. CASE HaltEnds
    BY <1>1, <1>9, MoveInv DEF HaltEnds
  <1>10. CASE \E w \in SUBSET Tasks : SysCallBody(w)
    BY <1>1, <1>10, MoveInv DEF SysCallBody
  <1> QED
    BY <1>2, <1>3, <1>4, <1>5, <1>6, <1>7, <1>8, <1>9, <1>10

-----------------------------------------------------------------------------
(* The steps that count.                                                   *)

\* save on top of what runs.
LEMMA IrqEnterInv ==
    ASSUME NestInv, NEW i \in Irqs, IrqEnter(i)
    PROVE  NestInv'
  <1>t. TypeOK
    BY DEF NestInv
  <1>n. PICK n \in Nat : n = Len(frames)
    BY <1>t, TopOfStack
  <1> DEFINE f == Frame(i, "handler")
  <1>1. f \in FrameType /\ f.pc = "handler" /\ f.irq = i
    BY DEF f, Frame, FrameType, Places, InHandler
  <1>2. /\ Woken \in Seq(FrameType) /\ Len(Woken) = n
        /\ \A k \in 1..n : /\ Woken[k].irq = frames[k].irq
                          /\ Woken[k].target = frames[k].target
                          /\ \/ Woken[k].pc = frames[k].pc
                             \/ /\ k = n /\ frames[k].pc = "halted"
                                /\ Woken[k].pc = "woken"
    BY <1>n, <1>t, WokenStack
  <1>3. /\ frames' \in Seq(FrameType) /\ Len(frames') = n + 1
        /\ \A k \in 1..n : frames'[k] = Woken[k]
        /\ frames'[n + 1] = f
        /\ DOMAIN frames' = 1..n + 1
    BY <1>1, <1>2 DEF IrqEnter
  <1>4. /\ ~overlaid /\ n < MaxDepth
        /\ reenter' = Inc(reenter) /\ overlaid' = OnTable
        /\ masked' = masked \cup MaskBit(i)
        /\ UNCHANGED <<ifFlag, held, waiting>>
    BY <1>n DEF IrqEnter
  <1>5. TypeOK'
    <2>1. MaskBit(i) \subseteq 0..15 /\ OnTable \in BOOLEAN
      BY IrqsAssumption DEF MaskBit, OnTable
    <2>2. reenter' \in 0..255
      BY <1>4, <1>t DEF TypeOK, Inc
    <2>3. n + 1 <= MaxDepth
      BY <1>4, IrqsAssumption
    <2> QED
      BY <1>3, <1>4, <1>t, <2>1, <2>2, <2>3 DEF TypeOK
  <1>6. ASSUME NEW k \in 1..n + 1 PROVE Well(frames[k], k)'
    <2>1. CASE k = n + 1
      BY <1>1, <1>3, <2>1 DEF Well, Outer, InRestart
    <2>2. CASE k # n + 1
      <3>1. k \in 1..n /\ frames'[k] = Woken[k]
        BY <1>3, <2>2
      <3>2. Well(frames[k], k)
        BY <1>n, <3>1 DEF NestInv, Shape
      <3>3. frames[k].pc \in {"pcb", "pops"} => overlaid'
        <4>1. SUFFICES ASSUME frames[k].pc \in {"pcb", "pops"} PROVE overlaid'
          OBVIOUS
        <4>2. k = n
          BY <1>4, <1>n, <3>2, <4>1 DEF Well
        <4>3. frames # <<>> /\ Top = frames[k]
          BY <1>n, <1>t, <3>1, <4>2, TopOfStack
        <4> QED
          BY <1>4, <4>1, <4>3 DEF OnTable
      <3> QED
        BY <1>2, <1>3, <1>4, <3>1, <3>2, <3>3
           DEF Well, Outer, InHandler, InRestart
    <2> QED
      BY <2>1, <2>2
  <1>7. Counting'
    <2>1. Counted' = Counted \cup {n + 1} /\ n + 1 \notin Counted
      BY <1>1, <1>2, <1>3, <1>n, <1>t, TopOfStack DEF Counted
    <2>2. /\ Cardinality(Counted') = Cardinality(Counted) + 1
          /\ Cardinality(Counted) \in Nat
      BY <1>t, <2>1, CountedFinite, FS_AddElement
    <2>3. reenter = (Cardinality(Counted) + 255) % 256
      BY <1>4 DEF NestInv, Counting
    <2>4. reenter' = (Cardinality(Counted') + 255) % 256
      BY <1>4, <2>2, <2>3 DEF Inc
    <2> QED
      BY <2>4 DEF Counting
  <1> QED
    BY <1>3, <1>5, <1>6, <1>7 DEF NestInv, Shape

\* What a process begins is the only activation.
LEMMA EnterInv ==
    ASSUME NestInv, Running, NEW b \in {"syscall", "report", "halted"},
           frames' = <<Frame(None, b)>>, reenter' = Inc(reenter),
           ifFlag' \in BOOLEAN, overlaid' \in BOOLEAN,
           UNCHANGED <<masked, held, waiting>>
    PROVE  NestInv'
  <1>1. Frame(None, b) \in FrameType /\ Frame(None, b).pc = b
    BY DEF Frame, FrameType, Places
  <1>2. /\ frames' \in Seq(FrameType) /\ Len(frames') = 1
        /\ DOMAIN frames' = 1..1 /\ frames'[1].pc = b
    BY <1>1
  <1>3. Counted = {} /\ Counted' = {1}
    BY <1>2 DEF Running, Counted
  <1>4. Cardinality(Counted) = 0 /\ Cardinality(Counted') = 1
    BY <1>3, FS_EmptySet, FS_Singleton
  <1>5. reenter = 255 /\ reenter' = 0
    BY <1>4 DEF NestInv, Counting, Running, Inc
  <1>6. TypeOK'
    BY <1>2, <1>5, IrqsAssumption DEF NestInv, TypeOK
  <1>7. Shape'
    BY <1>2 DEF Shape, Well, InHandler
  <1> QED
    BY <1>4, <1>5, <1>6, <1>7 DEF NestInv, Counting

\* restart_reenter counts a nested activation out; mov esp, and restart the
\* outermost one.
LEMMA CountOutInv ==
    ASSUME NestInv, ReturnToReenter \/ CountDown
    PROVE  NestInv'
  <1>t. TypeOK
    BY DEF NestInv
  <1>n. PICK n \in Nat : n = Len(frames)
    BY <1>t, TopOfStack
  <1>1. PICK a \in {"ret", "pcb"}, b \in CountedOut :
           /\ At(a) /\ GoTo(b) /\ reenter' = Dec(reenter)
           /\ b = "unwind" => n > 1
           /\ b = "pops" => a = "pcb"
    BY <1>n DEF ReturnToReenter, CountDown, CountedOut
  <1>2. UNCHANGED <<ifFlag, masked, held, waiting, overlaid>>
    BY DEF ReturnToReenter, CountDown
  <1>3. /\ n \in 1..n /\ frames # <<>> /\ ~overlaid
        /\ frames[n].pc = a /\ DOMAIN frames = 1..n
    BY <1>n, <1>t, <1>1, TopOfStack DEF At
  <1>4. b \in Places
    BY <1>1 DEF CountedOut, Places, InRestart
  <1>5. /\ frames' \in Seq(FrameType)
        /\ Len(frames') = n
        /\ \A k \in 1..n \ {n} : frames'[k] = frames[k]
        /\ LET f == frames'[n]
               g == frames[n]
           IN  /\ f.pc = b /\ f.irq = g.irq
               /\ f.target = g.target /\ f.rest = g.rest
    BY <1>1, <1>3, <1>4, <1>n, <1>t, GoToTop
  <1>6. DOMAIN frames' = 1..n
    BY <1>5
  <1>7. TypeOK'
    BY <1>1, <1>2, <1>5, <1>n, <1>t DEF TypeOK, Dec
  <1>8. ASSUME NEW k \in 1..n PROVE Well(frames[k], k)'
    <2>1. Well(frames[k], k)
      BY <1>n DEF NestInv, Shape
    <2>2. CASE k = n
      BY <1>1, <1>2, <1>3, <1>5, <1>n, <2>1, <2>2
         DEF Well, Outer, InHandler, InRestart, CountedOut
    <2>3. CASE k # n
      <3>1. frames'[k] = frames[k]
        BY <1>5, <2>3
      <3> QED
        BY <1>2, <1>5, <1>n, <2>1, <2>3, <3>1 DEF Well
    <2> QED
      BY <2>2, <2>3
  <1>9. Counting'
    <2>1. Counted' = Counted \ {n} /\ n \in Counted
      BY <1>1, <1>3, <1>5, <1>6 DEF Counted, CountedOut
    <2>2. /\ Cardinality(Counted') = Cardinality(Counted) - 1
          /\ Cardinality(Counted) \in Nat /\ Cardinality(Counted') \in Nat
      BY <1>t, <2>1, CountedFinite, FS_RemoveElement, FS_CardinalityType
    <2>3. reenter = (Cardinality(Counted) + 255) % 256
      BY <1>3 DEF NestInv, Counting
    <2>4. reenter' = (Cardinality(Counted') + 255) % 256
      BY <1>1, <2>2, <2>3 DEF Dec
    <2> QED
      BY <2>4 DEF Counting
  <1> QED
    BY <1>5, <1>7, <1>8, <1>9 DEF NestInv, Shape

\* An iretd removes the innermost activation.
LEMMA PoppedStack ==
    ASSUME NestInv, NEW n \in Nat, n = Len(frames), Unwind \/ ResumeProcess
    PROVE  /\ n \in 1..n
           /\ frames' \in Seq(FrameType) /\ Len(frames') = n - 1
           /\ \A k \in 1..n - 1 : frames'[k] = frames[k]
  <1>t. TypeOK
    BY DEF NestInv
  <1>1. n \in 1..n /\ frames # <<>>
    BY <1>t, TopOfStack DEF Unwind, ResumeProcess, At
  <1>2. CASE Unwind
    <2>1. frames' = SubSeq(frames, 1, n - 1)
      BY <1>2 DEF Unwind, Front
    <2> QED
      BY <1>1, <1>t, <2>1 DEF TypeOK
  <1>3. CASE ResumeProcess
    <2>1. At("pops") /\ frames' = <<>>
      BY <1>3 DEF ResumeProcess
    <2>2. n = 1
      BY <2>1, AtTop DEF Well, Outer, InRestart
    <2> QED
      BY <2>1, <2>2
  <1> QED
    BY <1>2, <1>3

\* The iretd of a nested activation, and of the outermost one.
LEMMA ReturnInv ==
    ASSUME NestInv, Unwind \/ ResumeProcess
    PROVE  NestInv'
  <1>t. TypeOK
    BY DEF NestInv
  <1>n. PICK n \in Nat : n = Len(frames)
    BY <1>t, TopOfStack
  <1>1. PICK a \in CountedOut : At(a)
    BY DEF Unwind, ResumeProcess, CountedOut
  <1>2. /\ n \in 1..n /\ frames # <<>> /\ ~overlaid
        /\ frames[n].pc = a /\ DOMAIN frames = 1..n
    BY <1>n, <1>t, <1>1, TopOfStack DEF At
  <1>3. /\ frames' \in Seq(FrameType) /\ Len(frames') = n - 1
        /\ \A k \in 1..n - 1 : frames'[k] = frames[k]
    BY <1>n, PoppedStack
  <1>4. /\ UNCHANGED <<reenter, masked, held, waiting, overlaid>>
        /\ ifFlag' \in BOOLEAN
    BY <1>t DEF Unwind, ResumeProcess, TypeOK
  <1>5. DOMAIN frames' = 1..n - 1
    BY <1>3
  <1>6. TypeOK'
    BY <1>2, <1>3, <1>4, <1>n, <1>t, IrqsAssumption DEF TypeOK
  <1>7. ASSUME NEW k \in 1..n - 1 PROVE Well(frames[k], k)'
    <2>1. k \in 1..n /\ k # n /\ frames'[k] = frames[k]
      BY <1>3, <1>n
    <2>2. Well(frames[k], k)
      BY <1>n, <2>1 DEF NestInv, Shape
    <2>3. frames[k].pc \notin {"pcb", "pops"}
      BY <1>2, <1>n, <2>1, <2>2 DEF Well
    <2> QED
      BY <1>4, <2>1, <2>2, <2>3 DEF Well
  <1>8. Counted' = Counted
    BY <1>1, <1>2, <1>3, <1>5 DEF Counted, CountedOut
  <1> QED
    BY <1>3, <1>4, <1>6, <1>7, <1>8 DEF NestInv, Shape, Counting

\* target = held_head, and the register that holds the rest of the queue.
LEMMA LoadedStack ==
    ASSUME NestInv, NEW n \in Nat, n = Len(frames), UnholdLoads
    PROVE  /\ n = 1 /\ frames[n].pc = "load" /\ ~overlaid
           /\ frames' \in Seq(FrameType) /\ Len(frames') = n
           /\ frames'[n].pc = "store" /\ frames'[n].target # None
           /\ \A k \in 1..n : k # n => frames'[k] = frames[k]
  <1>t. TypeOK
    BY DEF NestInv
  <1>1. /\ n \in 1..n /\ frames # <<>> /\ ~overlaid
        /\ frames[n].pc = "load" /\ DOMAIN frames = 1..n
        /\ frames[n] \in FrameType /\ frames \in Seq(FrameType)
    BY <1>t, TopOfStack DEF UnholdLoads, At
  <1>w. Well(frames[n], n)
    BY <1>1 DEF NestInv, Shape
  <1>2. held.head \in Tasks /\ held.next[held.head] \in Tasks \cup {None}
    BY <1>1, <1>w, <1>t DEF Well, TypeOK, HeldType
  <1> DEFINE g == [frames[n] EXCEPT !.target = held.head,
                                    !.rest   = held.next[held.head],
                                    !.pc     = "store"]
  <1>3. g \in FrameType /\ g.pc = "store" /\ g.target = held.head
    BY <1>1, <1>2 DEF FrameType, Places, InRestart
  <1>4. frames' = [frames EXCEPT ![n] = g]
    BY DEF UnholdLoads
  <1> HIDE DEF g
  <1>5. n \in DOMAIN frames /\ frames'[n] = g
    BY <1>1, <1>4
  <1>6. \A k \in 1..n : k # n => frames'[k] = frames[k]
    BY <1>1, <1>4
  <1>7. frames' \in Seq(FrameType) /\ Len(frames') = n
    BY <1>1, <1>3, <1>4
  <1>8. n = 1
    BY <1>1, <1>w DEF Well, Outer, InRestart
  <1> QED
    BY <1>1, <1>2, <1>3, <1>5, <1>6, <1>7, <1>8, IrqsAssumption

\* The first half of taking the head off the held queue.
LEMMA UnholdLoadsInv ==
    ASSUME NestInv, UnholdLoads
    PROVE  NestInv'
  <1>t. TypeOK
    BY DEF NestInv
  <1>n. PICK n \in Nat : n = Len(frames)
    BY <1>t, TopOfStack
  <1>1. n = 1 /\ frames[n].pc = "load" /\ ~overlaid /\ DOMAIN frames = 1..n
    BY <1>n, <1>t, LoadedStack, TopOfStack
  <1>2. /\ frames' \in Seq(FrameType) /\ Len(frames') = n /\ DOMAIN frames' = 1..n
        /\ frames'[n].pc = "store" /\ frames'[n].target # None
    BY <1>n, LoadedStack
  <1>3. UNCHANGED <<ifFlag, reenter, masked, held, waiting, overlaid>>
    BY DEF UnholdLoads
  <1>4. TypeOK'
    BY <1>2, <1>3, <1>n, <1>t DEF TypeOK
  <1>5. Shape'
    BY <1>1, <1>2 DEF Shape, Well, Outer, InHandler, InRestart
  <1>6. Counted' = Counted
    BY <1>1, <1>2 DEF Counted
  <1> QED
    BY <1>3, <1>4, <1>5, <1>6 DEF NestInv, Counting

\* What leaves the stack alone.
LEMMA SameStackInv ==
    ASSUME NestInv, UNCHANGED <<frames, ifFlag, reenter, held, waiting, overlaid>>,
           masked' \subseteq 0..15
    PROVE  NestInv'
  BY DEF NestInv, TypeOK, Shape, Well, Counting, Counted

\* flyanx_main calls restart with kernel_reenter at 0, one activation deep.
LEMMA NestInvInit == Init => NestInv
  <1> SUFFICES ASSUME Init PROVE NestInv
    OBVIOUS
  <1>1. Frame(None, "boot") \in FrameType /\ Frame(None, "boot").pc = "boot"
    BY DEF Frame, FrameType, Places
  <1>2. /\ frames \in Seq(FrameType) /\ Len(frames) = 1 /\ DOMAIN frames = 1..1
        /\ frames[1].pc = "boot"
    BY <1>1 DEF Init
  <1>3. TypeOK
    <2>1. held \in HeldType
      BY DEF Init, HeldType
    <2>2. Len(frames) <= MaxDepth
      BY <1>2, IrqsAssumption
    <2>3. reenter \in 0..255 /\ masked \subseteq 0..15 /\ waiting \subseteq Tasks
      BY DEF Init
    <2>4. ifFlag \in BOOLEAN /\ overlaid \in BOOLEAN
      BY Zenon DEF Init
    <2> QED
      BY <1>2, <2>1, <2>2, <2>3, <2>4 DEF TypeOK
  <1>4. Shape
    BY <1>2 DEF Shape, Well, InHandler
  <1>5. Cardinality(Counted) = 1
    <2>1. Counted = {1}
      BY <1>2 DEF Counted
    <2> QED
      BY <2>1, FS_Singleton
  <1>6. Counting
    BY <1>5 DEF Init, Counting
  <1> QED
    BY <1>3, <1>4, <1>6 DEF NestInv

\* No step of the kernel, of a process or of an interrupt breaks the invariant.
LEMMA NestInvNext == NestInv /\ [Next]_vars => NestInv'
  <1> SUFFICES ASSUME NestInv, [Next]_vars PROVE NestInv'
    OBVIOUS
  <1>1. masked \subseteq 0..15
    BY DEF NestInv, TypeOK
  <1>2. CASE \E i \in Irqs : IrqEnter(i)
    BY <1>2, IrqEnterInv
  <1>3. CASE HandlerStep
    BY <1>3, HandlerInv, CountOutInv, ReturnInv DEF HandlerStep
  <1>4. CASE RestartStep
    BY <1>4, RestartInv, UnholdLoadsInv, CountOutInv, ReturnInv DEF RestartStep
  <1>5. CASE ProcessStep
    <2>1. CASE SysCallEnter
      BY <2>1, EnterInv DEF SysCallEnter, NestInv, TypeOK
    <2>2. CASE Level0Halt
      BY <2>2, EnterInv DEF Level0Halt, NestInv, TypeOK
    <2>3. CASE \E vector \in Exceptions : ExceptionEnter(vector)
      <3>1. PICK vector \in Exceptions : ExceptionEnter(vector)
        BY <2>3
      <3>2. overlaid' \in BOOLEAN
        <4>1. overlaid' = (vector \in ErrorCodes)
          BY <3>1 DEF ExceptionEnter
        <4>2. (vector \in ErrorCodes) \in BOOLEAN
          OBVIOUS
        <4> QED
          BY <4>1, <4>2
      <3> QED
        BY <3>1, <3>2, EnterInv DEF ExceptionEnter
    <2>4. CASE \E i \in Irqs : EnableIrq(i)
      BY <1>1, <2>4, SameStackInv DEF EnableIrq
    <2> QED
      BY <1>5, <2>1, <2>2, <2>3, <2>4 DEF ProcessStep
  <1>6. CASE \/ \E w \in SUBSET Tasks : SysCallBody(w)
             \/ HaltEnds \/ BootRestarts
    BY <1>6, RestartInv
  <1>7. CASE ExceptionReported
    BY <1>7, HandlerInv
  <1>8. CASE Wrecked \/ UNCHANGED vars
    BY <1>1, <1>8, SameStackInv DEF Wrecked, vars
  <1> QED
    BY <1>2, <1>3, <1>4, <1>5, <1>6, <1>7, <1>8 DEF Next

\* Whatever enters and leaves the kernel in whatever order, each activation
\* is where on the stack it may be, and kernel_reenter counts them.
THEOREM NestInvariance == Spec => []NestInv
  BY NestInvInit, NestInvNext, PTL DEF Spec

\* kernel_reenter is the number of activations less one, modulo 256, however
\* deep interrupts nest and whatever restart is interrupted in.
THEOREM NestingCorrect == Spec => []NestingCounted
  <1>1. NestInv => NestingCounted
    BY DEF NestInv, Counting, NestingCounted
  <1> QED
    BY <1>1, NestInvariance, PTL

-----------------------------------------------------------------------------
(* Handlers: which activations are in one, and what brought them there.    *)

\* An activation that is in a handler after a step was in it before, and
\* calls the ready queues only if interrupt let it; or it has just entered.
HandlersKept ==
    \A k \in 1..Len(frames') : frames'[k].pc \in InHandler =>
        \/ /\ k \in 1..Len(frames) /\ frames[k].pc \in InHandler
           /\ frames'[k].irq = frames[k].irq
           /\ frames'[k].pc = "direct" =>
                 frames[k].pc = "direct" \/ (HandlerNotifies /\ k = Len(frames))
        \/ /\ k = Len(frames) + 1 /\ frames'[k].pc = "handler"
           /\ IrqEnter(frames'[k].irq)

\* A step of the innermost activation that is no entry to a handler.
LEMMA GoToKeeps ==
    ASSUME TypeOK, NEW a, NEW b \in Places, At(a), GoTo(b),
           b \in InHandler => a \in InHandler,
           b = "direct" => HandlerNotifies
    PROVE  HandlersKept
  <1>n. PICK n \in Nat : n = Len(frames)
    BY TopOfStack
  <1>1. n \in 1..n /\ frames # <<>> /\ frames[n].pc = a
    BY <1>n, TopOfStack DEF At
  <1>2. /\ Len(frames') = n
        /\ \A k \in 1..n \ {n} : frames'[k] = frames[k]
        /\ LET f == frames'[n]
               g == frames[n]
           IN  /\ f.pc = b /\ f.irq = g.irq
               /\ f.target = g.target /\ f.rest = g.rest
    BY <1>1, <1>n, GoToTop
  <1>3. ASSUME NEW k \in 1..n, frames'[k].pc \in InHandler
        PROVE  /\ frames[k].pc \in InHandler /\ frames'[k].irq = frames[k].irq
               /\ frames'[k].pc = "direct" =>
                     frames[k].pc = "direct" \/ (HandlerNotifies /\ k = n)
    <2>1. CASE k = n
      BY <1>1, <1>2, <1>3, <2>1
    <2>2. CASE k # n
      BY <1>2, <1>3, <2>2
    <2> QED
      BY <2>1, <2>2
  <1> QED
    BY <1>2, <1>3, <1>n DEF HandlersKept

\* A step that leaves the stack alone.
LEMMA SameStackKeeps ==
    ASSUME UNCHANGED frames
    PROVE  HandlersKept
  BY DEF HandlersKept

\* A process enters the kernel otherwise than by an interrupt.
LEMMA OneFrameKeeps ==
    ASSUME NEW b \in {"syscall", "report", "halted"}, frames' = <<Frame(None, b)>>
    PROVE  HandlersKept
  <1>1. Len(frames') = 1 /\ frames'[1].pc = b
    BY DEF Frame
  <1> QED
    BY <1>1 DEF HandlersKept, InHandler

\* Every step of the specification.
LEMMA StepKeepsHandlers ==
    ASSUME NestInv, [Next]_vars
    PROVE  HandlersKept
  <1>t. TypeOK
    BY DEF NestInv
  <1>n. PICK n \in Nat : n = Len(frames)
    BY <1>t, TopOfStack
  <1>1. ASSUME NEW i \in Irqs, IrqEnter(i) PROVE HandlersKept
    <2>1. /\ Woken \in Seq(FrameType) /\ Len(Woken) = n
          /\ \A k \in 1..n : /\ Woken[k].irq = frames[k].irq
                            /\ \/ Woken[k].pc = frames[k].pc
                               \/ Woken[k].pc = "woken"
      BY <1>n, <1>t, WokenStack
    <2> DEFINE f == Frame(i, "handler")
    <2>2. f \in FrameType /\ f.pc = "handler" /\ f.irq = i
      BY DEF Frame, FrameType, Places, InHandler
    <2> HIDE DEF f
    <2>3. frames' = Append(Woken, f)
      BY <1>1 DEF IrqEnter, f
    <2>4. /\ Len(frames') = n + 1 /\ frames'[n + 1] = f
          /\ \A k \in 1..n : frames'[k] = Woken[k]
      BY <2>1, <2>2, <2>3
    <2>5. ASSUME NEW k \in 1..n + 1, frames'[k].pc \in InHandler
          PROVE  \/ /\ k \in 1..n /\ frames[k].pc \in InHandler
                    /\ frames'[k].irq = frames[k].irq
                    /\ frames'[k].pc = frames[k].pc
                 \/ /\ k = n + 1 /\ frames'[k].pc = "handler"
                    /\ IrqEnter(frames'[k].irq)
      <3>1. CASE k = n + 1
        BY <1>1, <2>2, <2>4, <3>1
      <3>2. CASE k # n + 1
        <4>1. k \in 1..n
          BY <3>2
        <4> QED
          BY <2>1, <2>4, <2>5, <4>1 DEF InHandler
      <3> QED
        BY <3>1, <3>2
    <2> QED
      BY <1>n, <2>4, <2>5 DEF HandlersKept
  <1>2. CASE HandlerStep
    <2> USE DEF Places, InHandler, InRestart
    <2>1. CASE HandlerQuiet
      BY <1>t, <2>1, GoToKeeps DEF HandlerQuiet
    <2>2. CASE HandlerHolds
      BY <1>t, <2>2, GoToKeeps DEF HandlerHolds
    <2>3. CASE HandlerNotifies
      <3>1. At("handler") /\ GoTo("direct")
        BY <2>3 DEF HandlerNotifies
      <3> QED
        BY <1>t, <2>3, <3>1, GoToKeeps
    <2>4. CASE DirectDelivery
      BY <1>t, <2>4, GoToKeeps DEF DirectDelivery
    <2>5. CASE \E enable \in BOOLEAN : HandlerReturns(enable)
      BY <1>t, <2>5, GoToKeeps DEF HandlerReturns
    <2>6. CASE ReturnToRestart
      BY <1>t, <2>6, GoToKeeps DEF ReturnToRestart
    <2>7. CASE ReturnToReenter
      BY <1>t, <2>7, GoToKeeps DEF ReturnToReenter
    <2>8. CASE Unwind
      <3>1. n \in 1..n /\ Len(frames') = n - 1 /\ \A k \in 1..n - 1 : frames'[k] = frames[k]
        BY <1>n, <2>8, PoppedStack
      <3> QED
        BY <1>n, <3>1 DEF HandlersKept
    <2> QED
      BY <1>2, <2>1, <2>2, <2>3, <2>4, <2>5, <2>6, <2>7, <2>8 DEF HandlerStep
  <1>3. CASE RestartStep
    <2> USE DEF Places, InHandler, InRestart
    <2>1. CASE UnholdBegins \/ UnholdLoops
      <3>1. PICK a \in {"unhold", "loop"}, b \in {"toPcb", "clear", "load"} :
               At(a) /\ GoTo(b)
        BY <2>1 DEF UnholdBegins, UnholdLoops
      <3> QED
        BY <1>t, <3>1, GoToKeeps
    <2>2. CASE UnholdLoads
      <3>1. /\ n = 1 /\ Len(frames') = n /\ frames'[n].pc = "store"
        BY <1>n, <2>2, LoadedStack
      <3> QED
        BY <3>1 DEF HandlersKept
    <2>3. CASE UnholdStores
      BY <1>t, <2>3, GoToKeeps DEF UnholdStores
    <2>4. CASE UnholdNotifies
      BY <1>t, <2>4, GoToKeeps DEF UnholdNotifies
    <2>5. CASE UnholdEnds
      BY <1>t, <2>5, GoToKeeps DEF UnholdEnds
    <2>6. CASE LoadStackPointer
      BY <1>t, <2>6, GoToKeeps DEF LoadStackPointer
    <2>7. CASE CountDown
      BY <1>t, <2>7, GoToKeeps DEF CountDown
    <2>8. CASE ResumeProcess
      <3>1. Len(frames') = 0
        BY <2>8 DEF ResumeProcess
      <3> QED
        BY <3>1 DEF HandlersKept
    <2> QED
      BY <1>3, <2>1, <2>2, <2>3, <2>4, <2>5, <2>6, <2>7, <2>8 DEF RestartStep
  <1>4. CASE ProcessStep
    BY <1>4, OneFrameKeeps, SameStackKeeps
       DEF ProcessStep, SysCallEnter, Level0Halt, ExceptionEnter, EnableIrq
  <1>5. CASE \/ \E w \in SUBSET Tasks : SysCallBody(w)
             \/ ExceptionReported \/ HaltEnds \/ BootRestarts
    <2>1. PICK a \in {"syscall", "report", "woken", "boot"}, b \in {"unhold", "ret"} :
             At(a) /\ GoTo(b)
      BY <1>5 DEF SysCallBody, ExceptionReported, HaltEnds, BootRestarts
    <2> QED
      BY <1>t, <2>1, GoToKeeps DEF Places, InHandler, InRestart
  <1>6. CASE Wrecked \/ UNCHANGED vars
    BY <1>6, SameStackKeeps DEF Wrecked, vars
  <1> QED
    BY <1>1, <1>2, <1>3, <1>4, <1>5, <1>6 DEF Next

-----------------------------------------------------------------------------
(* The ready queues.  kernel_reenter is a byte: with 257 activations it    *)
(* would be 0 again.                                                       *)

DirectAlone == \A k \in 1..Len(frames) : frames[k].pc = "direct" => k = 1

\* interrupt goes on to the ready queues in the outermost activation only.
LEMMA NotifiesAlone ==
    ASSUME MaxDepth <= 256, NestInv, HandlerNotifies
    PROVE  Len(frames) = 1
  <1>t. TypeOK
    BY DEF NestInv
  <1>n. PICK n \in Nat : n = Len(frames)
    BY <1>t, TopOfStack
  <1>1. /\ n \in 1..n /\ ~overlaid /\ frames[n].pc = "handler"
        /\ DOMAIN frames = 1..n
    BY <1>n, <1>t, TopOfStack DEF HandlerNotifies, At
  <1>2. n <= 256
    BY <1>n, <1>t, IrqsAssumption DEF TypeOK
  <1>3. PICK c \in Nat : c = Cardinality(Counted) /\ c <= n
    BY <1>n, <1>t, CountedFinite
  <1>4. (c + 255) % 256 = 0
    BY <1>1, <1>3 DEF HandlerNotifies, MustHold, NestInv, Counting
  <1>5. c = 1
    BY <1>2, <1>3, <1>4
  <1>6. PICK x : Counted = {x}
    BY <1>3, <1>5, <1>t, CountedFinite, FS_Singleton
  <1>7. n \in Counted
    BY <1>1 DEF Counted
  <1>8. 1 \in Counted
    <2>1. 1 \in 1..n /\ Well(frames[1], 1)
      BY <1>1, <1>n DEF NestInv, Shape
    <2>2. frames[1].pc # "unwind"
      BY <2>1 DEF Well
    <2>3. frames[1].pc = "pops" => n = 1
      BY <1>1, <1>n, <2>1 DEF Well
    <2> QED
      BY <1>1, <2>1, <2>2, <2>3 DEF Counted
  <1> QED
    BY <1>6, <1>7, <1>8, <1>n

\* A byte is enough for the activations, then no two of them are ever at
\* work on the ready queues.
THEOREM ReadyQueuesCorrect ==
    ASSUME MaxDepth <= 256
    PROVE  Spec => []ReadyQueuesExclusive
  <1>1. Init => DirectAlone
    BY DEF Init, DirectAlone, Frame
  <1>2. NestInv /\ DirectAlone /\ [Next]_vars => DirectAlone'
    <2> SUFFICES ASSUME NestInv, DirectAlone, [Next]_vars,
                        NEW k \in 1..Len(frames'), frames'[k].pc = "direct"
                 PROVE  k = 1
      BY DEF DirectAlone
    <2>1. HandlersKept
      BY StepKeepsHandlers
    <2>2. k \in 1..Len(frames) /\ (frames[k].pc = "direct" \/ (HandlerNotifies /\ k = Len(frames)))
      BY <2>1 DEF HandlersKept, InHandler
    <2> QED
      BY <2>2, NotifiesAlone DEF DirectAlone
  <1>3. NestInv /\ DirectAlone => ReadyQueuesExclusive
    <2>1. NestInv => DOMAIN frames = 1..Len(frames)
      BY TopOfStack DEF NestInv
    <2> QED
      BY <2>1 DEF NestInv, Shape, Well, DirectAlone, ReadyQueuesExclusive, Outer, InRestart
  <1> QED
    BY <1>1, <1>2, <1>3, NestInvariance, PTL DEF Spec

-----------------------------------------------------------------------------
(* The masks.  The template of the slave masks another line than its own,  *)
(* which is why the lines of the master are spoken of.                     *)

MaskedInHandler ==
    \A k \in 1..Len(frames) : frames[k].pc \in InHandler => frames[k].irq \in masked

OnceInHandler ==
    \A j, k \in 1..Len(frames) :
        frames[j].pc \in InHandler /\ frames[k].irq = frames[j].irq
          /\ frames[k].pc \in InHandler => j = k

\* Who unmasks a line: its handler when it returns, or a process.
LEMMA MaskStep ==
    ASSUME Irqs \subseteq 0..7, NestInv, [Next]_vars, NEW i \in masked,
           i \notin masked'
    PROVE  \/ Len(frames) = 0
           \/ /\ Len(frames) \in 1..Len(frames)
              /\ frames[Len(frames)].pc = "mask" /\ frames[Len(frames)].irq = i
              /\ frames'[Len(frames)].pc = "ret"
  <1>t. TypeOK
    BY DEF NestInv
  <1>1. CASE \E e \in Irqs : EnableIrq(e)
    BY <1>1 DEF EnableIrq, Running
  <1>2. CASE \E enable \in BOOLEAN : HandlerReturns(enable)
    <2>1. /\ At("mask") /\ GoTo("ret") /\ i \in MaskBit(Top.irq)
      BY <1>2 DEF HandlerReturns
    <2>2. Top.irq \in Irqs
      BY <2>1, AtTop DEF Well, InHandler
    <2>3. i = Top.irq
      <3>1. PICK r \in 0..7 : r = Top.irq
        BY <2>2
      <3> QED
        BY <2>1, <3>1 DEF MaskBit
    <2>4. /\ Len(frames) \in 1..Len(frames) /\ frames # <<>>
          /\ frames[Len(frames)].pc = "mask" /\ frames[Len(frames)].irq = i
      BY <1>t, <2>1, <2>3, TopOfStack DEF At
    <2>5. frames'[Len(frames)].pc = "ret"
      BY <1>t, <2>1, <2>4, GoToTop DEF Places
    <2> QED
      BY <2>4, <2>5
  <1>3. CASE ~((\E e \in Irqs : EnableIrq(e))
               \/ (\E enable \in BOOLEAN : HandlerReturns(enable)))
    <2>1. CASE \E e \in Irqs : IrqEnter(e)
      BY <2>1 DEF IrqEnter
    <2>2. CASE HandlerStep \/ RestartStep \/ ProcessStep
      BY <1>3, <2>2
         DEF HandlerStep, HandlerQuiet, HandlerHolds, HandlerNotifies,
             DirectDelivery, ReturnToRestart, ReturnToReenter, Unwind,
             RestartStep, UnholdBegins, UnholdLoads, UnholdStores,
             UnholdNotifies, UnholdLoops, UnholdEnds, LoadStackPointer,
             CountDown, ResumeProcess,
             ProcessStep, SysCallEnter, Level0Halt, ExceptionEnter
    <2>3. CASE \/ \E w \in SUBSET Tasks : SysCallBody(w)
               \/ ExceptionReported \/ HaltEnds \/ BootRestarts
               \/ Wrecked \/ UNCHANGED vars
      BY <2>3 DEF SysCallBody, ExceptionReported, HaltEnds, BootRestarts,
                  Wrecked, vars
    <2> QED
      BY <2>1, <2>2, <2>3 DEF Next
  <1> QED
    BY <1>1, <1>2, <1>3

\* As long as the lines are those of the master, no handler is entered again
\* before it has returned.
THEOREM HandlersCorrect ==
    ASSUME Irqs \subseteq 0..7
    PROVE  Spec => []HandlerNotNested
  <1> DEFINE MaskInv == MaskedInHandler /\ OnceInHandler
  <1>1. Init => MaskInv
    BY DEF Init, MaskedInHandler, OnceInHandler, Frame, InHandler
  <1>2. NestInv /\ MaskInv /\ [Next]_vars => MaskInv'
    <2> SUFFICES ASSUME NestInv, MaskInv, [Next]_vars PROVE MaskInv'
      OBVIOUS
    <2>t. TypeOK
      BY DEF NestInv
    <2>n. PICK n \in Nat : n = Len(frames)
      BY <2>t, TopOfStack
    <2>1. ASSUME NEW k \in 1..Len(frames'), frames'[k].pc \in InHandler
          PROVE  \/ /\ k \in 1..n /\ frames[k].pc \in InHandler
                    /\ frames'[k].irq = frames[k].irq
                    /\ frames[k].irq \in masked
                 \/ /\ k = n + 1 /\ IrqEnter(frames'[k].irq)
      BY <2>1, <2>n, StepKeepsHandlers DEF HandlersKept, MaskedInHandler
    <2>2. ASSUME NEW i, IrqEnter(i) PROVE i \notin masked
      BY <2>2 DEF IrqEnter
    <2>3. MaskedInHandler'
      <3> SUFFICES ASSUME NEW k \in 1..Len(frames'), frames'[k].pc \in InHandler
                   PROVE  frames'[k].irq \in masked'
        BY DEF MaskedInHandler
      <3>t. frames'[k].pc \in InHandler
        OBVIOUS
      <3>1. CASE k = n + 1 /\ IrqEnter(frames'[k].irq)
        <4>1. NestInv'
          BY NestInvNext
        <4>2. Well(frames[k], k)'
          BY <4>1 DEF NestInv, Shape
        <4>3. PICK i \in 0..7 : i = frames'[k].irq
          BY <3>t, <4>2 DEF Well
        <4> QED
          BY <3>1, <4>3 DEF IrqEnter, MaskBit
      <3>2. CASE /\ k \in 1..n /\ frames[k].pc \in InHandler
                 /\ frames'[k].irq = frames[k].irq /\ frames[k].irq \in masked
        <4> SUFFICES ASSUME frames[k].irq \notin masked' PROVE FALSE
          BY <3>2
        <4>1. n # 0
          BY <3>2
        <4>2. /\ n \in 1..n /\ frames[n].pc = "mask"
              /\ frames[n].irq = frames[k].irq /\ frames'[n].pc = "ret"
          BY <2>n, <3>2, <4>1, MaskStep
        <4>3. k = n
          BY <2>n, <3>2, <4>2 DEF OnceInHandler, InHandler
        <4> QED
          BY <4>2, <4>3 DEF InHandler
      <3> QED
        BY <2>1, <3>1, <3>2
    <2>4. OnceInHandler'
      <3> SUFFICES ASSUME NEW j \in 1..Len(frames'), NEW k \in 1..Len(frames'),
                          frames'[j].pc \in InHandler, frames'[k].pc \in InHandler,
                          frames'[k].irq = frames'[j].irq
                   PROVE  j = k
        BY DEF OnceInHandler
      <3> QED
        BY <2>1, <2>2, <2>n DEF OnceInHandler
    <2> QED
      BY <2>3, <2>4
  <1>3. NestInv /\ MaskInv => HandlerNotNested
    <2>1. NestInv => DOMAIN frames = 1..Len(frames)
      BY TopOfStack DEF NestInv
    <2> QED
      BY <2>1 DEF OnceInHandler, HandlerNotNested
  <1> QED
    BY <1>1, <1>2, <1>3, NestInvariance, PTL DEF Spec
=============================================================================
