---------------------------- MODULE DispatchSpec ----------------------------
(***************************************************************************)
(* What the ready queues promise to the rest of the kernel: each class is  *)
(* a sequence of distinct processes, changed by the operators of Dispatch  *)
(* and by nothing else.  ReadyQueue.tla implements it with linked lists.   *)
(*                                                                         *)
(* The guards say when the kernel calls the routines; Ipc.tla (ReadyExact, *)
(* Dispatched) shows that it calls them at no other moment.                *)
(***************************************************************************)
EXTENDS Dispatch

VARIABLE disp   \* queue, curr and bill, as Dispatch describes them

Queued(d, p) == p \in ToSet(d.queue[Class(p)])

\* A process that is not ready becomes ready: at boot, or because a task, a
\* server or an interrupt releases it.  An interrupt releases tasks only,
\* and a user releases servers only.
MayBecomeReady(d, p) ==
    /\ p \in Schedulable
    /\ ~Queued(d, p)
    /\ p \in Users => d.curr \notin Users \cup {Idle}

\* The caller of a system call blocks.  It was the running process when the
\* call began, so it is the head of its queue; the call may have given the
\* processor to somebody else in the meantime.
MayBlock(d, p) ==
    /\ p \in Schedulable
    /\ Queued(d, p)
    /\ Head(d.queue[Class(p)]) = p

Init == disp = [queue |-> [c \in Classes |-> <<>>],
                curr  |-> None,
                bill  |-> None]

MakeReady(p) == MayBecomeReady(disp, p) /\ disp' = Ready(disp, p)

Block(p) == MayBlock(disp, p) /\ disp' = Unready(disp, p)

Choose == disp' = Hunter(disp)

Next == Choose \/ \E p \in Procs : MakeReady(p) \/ Block(p)

Spec == Init /\ [][Next]_disp
=============================================================================
