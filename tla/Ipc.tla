-------------------------------- MODULE Ipc --------------------------------
(***************************************************************************)
(* Message passing and dispatching in the flyanx kernel: sys_call,         *)
(* flyanx_send and flyanx_receive (src/kernel/ipc_msg.c) together with the *)
(* ready queues they drive and the interrupt message (src/kernel/          *)
(* process.c).                                                             *)
(*                                                                         *)
(* A system call enters through an interrupt gate and runs with interrupts *)
(* off, so one call is one step.  An interrupt whose handler notifies a    *)
(* task is another.  What the kernel keeps is one record, `kernel', and    *)
(* each routine is an operator from the record before the routine to the   *)
(* record after it: that is how SEND_REC runs flyanx_receive on what       *)
(* flyanx_send left.                                                       *)
(*                                                                         *)
(* The ready queues come from Dispatch.tla.                                *)
(***************************************************************************)
EXTENDS Dispatch

CONSTANTS
    SysServers,   \* is_sys_server: the slots of MM, FS and FLY
    IntTasks,     \* the tasks some interrupt handler passes to interrupt()
    ANY,          \* receive from anybody
    BootQueue     \* the ready queue of each class when flyanx_main restarts

ASSUME RolesAssumption ==
    /\ IntTasks \subseteq Tasks \ {Idle, Hardware}
    /\ SysServers \subseteq Servers \cup Free
    /\ ANY \notin Procs \cup {None}

ASSUME BootAssumption ==
    /\ BootQueue \in [Classes -> Seq(Schedulable)]
    /\ \A c \in Classes :
         /\ IsInjective(BootQueue[c])
         /\ ToSet(BootQueue[c]) = {p \in Schedulable : Class(p) = c}

VARIABLES
    kernel,   \* the record described by KernelType
    up        \* FALSE once the kernel has panicked

vars == <<kernel, up>>

(* The fields of the process table and the globals of process.c.  send_to  *)
(* is read only where SENDING is set and get_form only where RECEIVING is, *)
(* so each flag and its number are one field, None while the flag is clear *)
(* (the third flag, NO_MAP, is never set).  msg[p] is the source field of  *)
(* the message p's transfer pointer designates, that is, who wrote the     *)
(* body in p's buffer; None while p waits for a message with nothing of    *)
(* its own in it, since nobody reads it then.  next_waiter chains are the  *)
(* sequences waiters[d], next_ready chains the sequences queue[c].         *)
KernelType ==
    [sendTo     : [Procs -> Procs \cup {None}],
     getForm    : [Procs -> Procs \cup {ANY, None}],
     waiters    : [Procs -> Seq(Procs)],
     msg        : [Procs -> Procs \cup {None}],
     queue      : [Classes -> Seq(Procs)],
     curr       : Procs,
     bill       : Procs \cup {None},
     intBlocked : [Procs -> BOOLEAN]]

Sending(k, p)   == k.sendTo[p] # None
Receiving(k, p) == k.getForm[p] # None
Clean(k, p)     == ~Sending(k, p) /\ ~Receiving(k, p)    \* flags = CLEAN_MAP

-----------------------------------------------------------------------------
(* flyanx_send.                                                            *)

\* Slip: only a target that is sending to the caller itself is refused.
WouldLockAtOnce(k, caller, dest) == k.sendTo[dest] = caller

\* The walk along send_to from dest meets the caller: the caller is in every
\* set that holds dest and is closed under "is blocked sending to".
WouldLock(k, caller, dest) ==
    \A S \in SUBSET Procs :
        (/\ dest \in S
         /\ \A p \in S : Sending(k, p) => k.sendTo[p] \in S)
        => caller \in S

SendStatus(k, caller, dest) ==
    IF caller \in Users /\ dest \notin SysServers THEN "BAD_DEST"
    ELSE IF dest \in Free THEN "BAD_DEST"
    ELSE IF WouldLock(k, caller, dest) THEN "LOCKED"
    ELSE "OK"

\* The target is blocked receiving, and from this sender or from anybody.
Expects(k, target, sender) ==
    /\ ~Sending(k, target)
    /\ k.getForm[target] \in {sender, ANY}

Deliver(k, caller, dest) ==
    Ready([k EXCEPT !.msg[dest] = k.msg[caller],
                    !.getForm[dest] = None], dest)

\* Slip: the caller is put at the head of the chain of waiters.
BlockSenderFirst(k, caller, dest) ==
    LET off == IF Clean(k, caller) THEN Unready(k, caller) ELSE k
    IN  [off EXCEPT !.sendTo[caller] = dest,
                    !.waiters[dest] = <<caller>> \o @]

BlockSender(k, caller, dest) ==
    LET off == IF Clean(k, caller) THEN Unready(k, caller) ELSE k
    IN  [off EXCEPT !.sendTo[caller] = dest,
                    !.waiters[dest] = Append(@, caller)]

SendEffect(k, caller, dest) ==
    IF Expects(k, dest, caller) THEN Deliver(k, caller, dest)
                                ELSE BlockSender(k, caller, dest)

-----------------------------------------------------------------------------
(* flyanx_receive.                                                         *)

\* Slip: ANY is compared as if it were a sender.
AcceptableExactly(k, caller, src) ==
    {i \in DOMAIN k.waiters[caller] : k.waiters[caller][i] = src}

\* The places in the caller's chain of waiting senders that it accepts.
Acceptable(k, caller, src) ==
    {i \in DOMAIN k.waiters[caller] : src \in {k.waiters[caller][i], ANY}}

\* Slip: the chain loses its first waiter, whoever was served.
TakeFromUnlinkingFirst(k, caller, i) ==
    LET sender == k.waiters[caller][i]
        taken  == [k EXCEPT !.msg[caller] = k.msg[sender],
                            !.waiters[caller] = Tail(@),
                            !.sendTo[sender] = None]
    IN  IF Clean(taken, sender) THEN Ready(taken, sender) ELSE taken

\* Slip: the sender is made ready although it may still be receiving.
TakeFromReadyAlways(k, caller, i) ==
    LET sender == k.waiters[caller][i]
    IN  Ready([k EXCEPT !.msg[caller] = k.msg[sender],
                        !.waiters[caller] = RemoveAt(@, i),
                        !.sendTo[sender] = None], sender)

\* Takes the message of the waiter in place i and releases that waiter.
TakeFrom(k, caller, i) ==
    LET sender == k.waiters[caller][i]
        taken  == [k EXCEPT !.msg[caller] = k.msg[sender],
                            !.waiters[caller] = RemoveAt(@, i),
                            !.sendTo[sender] = None]
    IN  IF Clean(taken, sender) THEN Ready(taken, sender) ELSE taken

BlockReceiver(k, caller, src) ==
    LET off == IF Clean(k, caller) THEN Unready(k, caller) ELSE k
    IN  [off EXCEPT !.getForm[caller] = src,
                    !.msg[caller] = IF Sending(k, caller) THEN @ ELSE None]

ReceiveEffect(k, caller, src) ==
    LET found == Acceptable(k, caller, src) IN
    IF ~Sending(k, caller) /\ found # {}
    THEN TakeFrom(k, caller, CHOOSE i \in found : \A j \in found : i <= j)
    ELSE BlockReceiver(k, caller, src)

-----------------------------------------------------------------------------
(* interrupt, entered from a handler that interrupted a process (with      *)
(* kernel_reenter = 0 and no lock_ routine under way).  Its last lines are *)
(* the task branch of ready, written out.                                  *)

\* Slip: the task is woken whomever it waits for.
InterruptAnyReceiver(k, task) ==
    IF Sending(k, task) \/ ~Receiving(k, task)
    THEN [k EXCEPT !.intBlocked[task] = TRUE]
    ELSE Ready([k EXCEPT !.msg[task] = Hardware,
                         !.getForm[task] = None,
                         !.intBlocked[task] = FALSE], task)

InterruptEffect(k, task) ==
    IF Sending(k, task) \/ k.getForm[task] \notin {ANY, Hardware}
    THEN [k EXCEPT !.intBlocked[task] = TRUE]
    ELSE Ready([k EXCEPT !.msg[task] = Hardware,
                         !.getForm[task] = None,
                         !.intBlocked[task] = FALSE], task)

-----------------------------------------------------------------------------
(* The state flyanx_main hands to restart: queues filled by ready, current *)
(* process chosen by lock_hunter.  The slot of each user is taken as       *)
(* filled and made ready in the same way.                                  *)

BootKernel ==
    Hunter([sendTo     |-> [p \in Procs |-> None],
            getForm    |-> [p \in Procs |-> None],
            waiters    |-> [p \in Procs |-> <<>>],
            msg        |-> [p \in Procs |-> None],
            queue      |-> BootQueue,
            curr       |-> Idle,
            bill       |-> None,
            intBlocked |-> [p \in Procs |-> FALSE]])

Init == kernel = BootKernel /\ up = TRUE

\* Slip: line 50 is left out and the message keeps its old source.
Unstamped == kernel

\* sys_call writes the caller's number into its own message before sending.
Stamped == [kernel EXCEPT !.msg[kernel.curr] = kernel.curr]

\* A process that can execute an `int 0x94' is on the processor.
Running == up /\ kernel.curr # Idle

\* A bad number, or anything but SEND_REC by a user: sys_call returns an
\* error before it changes anything.
RefusedCall == Running /\ UNCHANGED vars

\* assert(caller->logic_nr != src_dest_msgp) fails: bad_assertion panics.
SelfSendCall ==
    /\ Running
    /\ up' = FALSE
    /\ UNCHANGED kernel

SendCall(dest) ==
    /\ Running
    /\ kernel.curr \notin Users
    /\ dest # kernel.curr
    /\ kernel' = IF SendStatus(Stamped, kernel.curr, dest) = "OK"
                 THEN SendEffect(Stamped, kernel.curr, dest)
                 ELSE Stamped
    /\ UNCHANGED up

ReceiveCall(src) ==
    /\ Running
    /\ kernel.curr \notin Users
    /\ kernel' = ReceiveEffect(kernel, kernel.curr, src)
    /\ UNCHANGED up

\* Slip: the receive half runs although the send was refused.
SendRecCallAnyway(dest) ==
    LET sent == IF SendStatus(Stamped, kernel.curr, dest) = "OK"
                THEN SendEffect(Stamped, kernel.curr, dest)
                ELSE Stamped
    IN
    /\ Running
    /\ dest # kernel.curr
    /\ kernel' = ReceiveEffect(sent, kernel.curr, dest)
    /\ UNCHANGED up

\* Slip: a sender that blocks forgets the receive half.
SendRecCallUnlessBlocked(dest) ==
    LET sent == SendEffect(Stamped, kernel.curr, dest) IN
    /\ Running
    /\ dest # kernel.curr
    /\ kernel' = IF SendStatus(Stamped, kernel.curr, dest) # "OK" THEN Stamped
                 ELSE IF Sending(sent, kernel.curr) THEN sent
                 ELSE ReceiveEffect(sent, kernel.curr, dest)
    /\ UNCHANGED up

SendRecCall(dest) ==
    LET sent == SendEffect(Stamped, kernel.curr, dest) IN
    /\ Running
    /\ dest # kernel.curr
    /\ kernel' = IF SendStatus(Stamped, kernel.curr, dest) = "OK"
                 THEN ReceiveEffect(sent, kernel.curr, dest)
                 ELSE Stamped
    /\ UNCHANGED up

Interrupt(task) ==
    /\ up
    /\ kernel' = InterruptEffect(kernel, task)
    /\ UNCHANGED up

\* down_run halts with interrupts off, for ever.
Down == ~up /\ UNCHANGED vars

Next ==
    \/ RefusedCall
    \/ SelfSendCall
    \/ \E dest \in Procs : SendCall(dest) \/ SendRecCall(dest)
    \/ \E src \in Procs \cup {ANY} : ReceiveCall(src)
    \/ \E task \in IntTasks : Interrupt(task)
    \/ Down

Spec == Init /\ [][Next]_vars

-----------------------------------------------------------------------------
(* What the kernel promises about any state k it leaves behind.            *)

Runnable(k) == {p \in Schedulable : Clean(k, p)}

\* A process waits in the chain of its destination, of no other, and once.
WaitersMatch(k) ==
    \A d \in Procs :
        /\ IsInjective(k.waiters[d])
        /\ ToSet(k.waiters[d]) = {p \in Procs : k.sendTo[p] = d}

\* No set of processes is blocked sending only to one another.
Acyclic(k) ==
    \A S \in SUBSET Procs :
        S # {} => \E p \in S : k.sendTo[p] \notin S

\* The walk of flyanx_send finds the caller exactly if blocking the caller
\* on dest would close a cycle.
LockCheckMatches(k) ==
    \A dest \in Procs \ {k.curr} :
        WouldLock(k, k.curr, dest)
          <=> ~Acyclic([k EXCEPT !.sendTo[k.curr] = dest])

\* Users block on system servers and on nobody else.
UsersConfined(k) ==
    \A u \in Users : {k.sendTo[u], k.getForm[u]} \subseteq SysServers \cup {None}

\* Nobody is left waiting for a message that stands in its own chain.
NothingMissed(k) ==
    \A d \in Procs : \A p \in ToSet(k.waiters[d]) : ~Expects(k, d, p)

\* A buffer is the sender's own until its message has been taken.
PendingOwn(k) ==
    \A p \in Procs : Sending(k, p) => k.msg[p] = p

\* The queue of each class holds exactly its runnable processes, each once.
QueuesMatch(k) ==
    \A c \in Classes :
        /\ IsInjective(k.queue[c])
        /\ ToSet(k.queue[c]) = {p \in Runnable(k) : Class(p) = c}

\* The processor is with the head of a queue, with a user only if no task
\* and no server is ready, with IDLE only if nobody is; and users and IDLE
\* are billed for themselves.
DispatchOk(k) ==
    /\ k.curr # Idle =>
         LET q == k.queue[Class(k.curr)] IN q # <<>> /\ Head(q) = k.curr
    /\ k.curr \in Users \cup {Idle} =>
         /\ k.queue["task"] = <<>> /\ k.queue["server"] = <<>>
         /\ k.bill = k.curr
    /\ k.curr = Idle => k.queue["user"] = <<>>

-----------------------------------------------------------------------------
(* Invariants.                                                             *)

\* The process table stays within its types; no process number is garbage.
TypeOK == kernel \in KernelType /\ up \in BOOLEAN

\* waiters[] and the SENDING flags describe the same set of pending sends,
\* however flyanx_send and flyanx_receive relink the chains.
WaitersExact == WaitersMatch(kernel)

\* The check at ipc_msg.c:87-104 keeps every chain of send_to finite; its
\* own `while (TRUE)' ends only because of that.
NoSendCycle == Acyclic(kernel)

\* ERROR_LOCKED is returned for every send that would deadlock and for no
\* other: the walk needs neither the whole graph nor a visited set.
LockCheckExact == up => LockCheckMatches(kernel)

\* ipc_msg.c:35-37, 58-60 and 77-79 together keep a user from waiting for
\* a task or for another user, whichever half of SEND_REC would do it.
UsersCallServersOnly == UsersConfined(kernel)

\* Sender and receiver that want one another are never both blocked.
NoMissedRendezvous == NothingMissed(kernel)

\* A message is not overwritten in its sender's buffer before it is copied,
\* even when SEND_REC lends the same buffer to the reply.
PendingMessageIntact == PendingOwn(kernel)

\* Nothing runnable is lost from the ready queues and nothing blocked is in
\* them, across ready, unready, interrupt and the composed SEND_REC.
ReadyExact == QueuesMatch(kernel)

\* unready removes the head only: a process that blocks is the current one,
\* so the current one must be the head of its queue at every call.
Dispatched == DispatchOk(kernel)

(* Action properties.                                                      *)

\* A send that completes has put its message where the receiver reads, and
\* a receive that completes brought a message its caller asked for.
DeliveryCorrect ==
    [][\A p \in Procs :
         /\ Sending(kernel, p) /\ ~Sending(kernel', p) =>
              kernel'.msg[kernel.sendTo[p]] = p
         /\ Receiving(kernel, p) /\ ~Receiving(kernel', p) =>
              kernel.getForm[p] \in {kernel'.msg[p], ANY}
      ]_vars

\* Senders waiting for one receiver keep their order, and a new one queues
\* behind all of them.
NoOvertaking ==
    [][\A d \in Procs :
         LET before == kernel.waiters[d]
             after  == kernel'.waiters[d]
         IN  \A i, j \in DOMAIN after : i < j =>
               /\ after[j] \in ToSet(before) => after[i] \in ToSet(before)
               /\ \A a, b \in DOMAIN before :
                    after[i] = before[a] /\ after[j] = before[b] => a < b
      ]_vars

(* What comments in the source say and the code does not do.               *)

\* process.h:55: int_blocked records an interrupt message that a busy task
\* holds up.  Held up, not lost: a task that is no longer busy and waits
\* for an interrupt would not still have one recorded.
BlockedInterruptDelivered ==
    \A t \in IntTasks :
        kernel.intBlocked[t] => ~Expects(kernel, t, Hardware)
=============================================================================
