------------------------------ MODULE Dispatch ------------------------------
(***************************************************************************)
(* The ready queues of the flyanx kernel and its dispatcher: hunter, ready *)
(* and unready (src/kernel/process.c).  Each routine is an operator from   *)
(* the state before it to the state after it, where a state is any record  *)
(* with these fields:                                                      *)
(*    queue[c]   the processes of class c that are ready, in the order of  *)
(*               the chain that starts at ready_head[c],                   *)
(*    curr       curr_proc, the process that has the processor,            *)
(*    bill       bill_proc, the process that is billed for it.             *)
(* ReadyQueue.tla has the pointers and shows that they implement this.     *)
(***************************************************************************)
EXTENDS Naturals, Sequences, FiniteSets, SequencesExt

CONSTANTS
    Tasks,        \* the processes of priority PROC_PRI_TASK, by logic number
    Servers,      \* ... of priority PROC_PRI_SERVER
    Users,        \* ... of priority PROC_PRI_USER
    Free,         \* unused slots of the process table (PROC_PRI_NONE)
    Idle,         \* IDLE_TASK
    Hardware,     \* HARDWARE, the slot that names the sender of an interrupt
    None,         \* a pointer or number never assigned since boot
    Wild          \* what is read through a null next_ready pointer

Procs == Tasks \cup Servers \cup Users \cup Free

Classes == {"task", "server", "user"}

\* is_task_proc, is_serv_proc; every routine takes the rest for users.
Class(p) == IF p \in Tasks THEN "task"
            ELSE IF p \in Servers THEN "server" ELSE "user"

\* The processes that ever run: HARDWARE has no code and IDLE is not queued.
Schedulable == (Tasks \cup Servers \cup Users) \ {Idle, Hardware}

ASSUME ProcsAssumption ==
    /\ IsFiniteSet(Procs)
    /\ Tasks \cap (Servers \cup Users \cup Free) = {}
    /\ Servers \cap (Users \cup Free) = {}
    /\ Users \cap Free = {}

ASSUME SlotsAssumption ==
    /\ {Idle, Hardware} \subseteq Tasks
    /\ Idle # Hardware
    /\ None \notin Procs
    /\ Wild \notin Procs

-----------------------------------------------------------------------------
\* Slip: the bill stays with whoever ran before.
HunterUnbilled(k) ==
    IF k.queue["task"] # <<>> THEN [k EXCEPT !.curr = Head(k.queue["task"])]
    ELSE IF k.queue["server"] # <<>>
    THEN [k EXCEPT !.curr = Head(k.queue["server"])]
    ELSE [k EXCEPT !.curr = IF k.queue["user"] # <<>>
                            THEN Head(k.queue["user"]) ELSE Idle]

\* hunter: the head of the first queue that is not empty, else IDLE.
Hunter(k) ==
    IF k.queue["task"] # <<>> THEN [k EXCEPT !.curr = Head(k.queue["task"])]
    ELSE IF k.queue["server"] # <<>>
    THEN [k EXCEPT !.curr = Head(k.queue["server"])]
    ELSE LET prey == IF k.queue["user"] # <<>>
                     THEN Head(k.queue["user"]) ELSE Idle
         IN  [k EXCEPT !.curr = prey, !.bill = prey]

\* Slip: every class is pushed on the head, as users are.
ReadyAtHead(k, p) ==
    [k EXCEPT !.queue[Class(p)] = <<p>> \o @,
              !.curr = IF Class(p) # "user" /\ k.queue[Class(p)] = <<>>
                       THEN p ELSE @]

\* ready: tasks and servers join the tail, and run at once if their own
\* queue was empty; users are pushed on the head and run when chosen.
Ready(k, p) ==
    LET c == Class(p) IN
    IF c = "user"
    THEN [k EXCEPT !.queue[c] = <<p>> \o k.queue[c]]
    ELSE [k EXCEPT !.queue[c] = Append(k.queue[c], p),
                   !.curr = IF k.queue[c] = <<>> THEN p ELSE k.curr]

\* The branch of unready for a process that is not at the head of its queue:
\* the scan stops at p itself, so what is unlinked is the one behind p.
UnlinkBehind(q, p) ==
    LET i == CHOOSE i \in DOMAIN q : q[i] = p IN
    IF p \notin ToSet(q) THEN q
    ELSE IF i = Len(q) THEN Append(q, Wild) ELSE RemoveAt(q, i + 1)

Unready(k, p) ==
    LET c == Class(p)
        q == k.queue[c]
    IN  IF q = <<>> THEN k
        ELSE IF Head(q) # p THEN [k EXCEPT !.queue[c] = UnlinkBehind(q, p)]
        ELSE LET shorter == [k EXCEPT !.queue[c] = Tail(q)]
             IN  IF p = k.curr THEN Hunter(shorter) ELSE shorter
=============================================================================
