----------------------------- MODULE ReadyQueue -----------------------------
(***************************************************************************)
(* The linked lists behind Dispatch: ready_head, ready_tail and next_ready *)
(* (src/kernel/process.c).  None is the null pointer, which is also what a *)
(* pointer holds that was never assigned, if memory was zero at power on:  *)
(* the loader does not clear it.                                           *)
(***************************************************************************)
EXTENDS Dispatch

VARIABLE mem

MemType ==
    [head : [Classes -> Procs \cup {None}],
     tail : [Classes -> Procs \cup {None}],
     next : [Procs -> Procs \cup {None}],
     curr : Procs \cup {None},
     bill : Procs \cup {None}]

\* The nodes met by following next_ready from ready_head, None behind the
\* last one.  A list that does not end is cut after as many nodes as there
\* are processes, plus one.
Nodes(m, c) ==
    LET node[i \in 1..Cardinality(Procs) + 1] ==
            IF i = 1 THEN m.head[c]
            ELSE IF node[i - 1] \in Procs THEN m.next[node[i - 1]] ELSE None
    IN  node

Chain(m, c) ==
    LET node == Nodes(m, c)
    IN  [i \in 1..Cardinality({j \in DOMAIN node : node[j] # None}) |-> node[i]]

-----------------------------------------------------------------------------
HunterLists(m) ==
    IF m.head["task"] # None THEN [m EXCEPT !.curr = m.head["task"]]
    ELSE IF m.head["server"] # None
    THEN [m EXCEPT !.curr = m.head["server"]]
    ELSE LET prey == IF m.head["user"] # None THEN m.head["user"] ELSE Idle
         IN  [m EXCEPT !.curr = prey, !.bill = prey]

\* Slip: the new last node keeps the next_ready it had when it was last
\* taken off a queue.
ReadyListsDangling(m, p) ==
    LET c == Class(p) IN
    IF c = "user"
    THEN [m EXCEPT !.head[c] = p, !.next[p] = m.head[c]]
    ELSE IF m.head[c] # None
    THEN [m EXCEPT !.next[m.tail[c]] = p, !.tail[c] = p]
    ELSE [m EXCEPT !.head[c] = p, !.curr = p, !.tail[c] = p]

\* Slip: an empty queue gets a head but no tail.
ReadyListsTailless(m, p) ==
    LET c == Class(p) IN
    IF c = "user"
    THEN [m EXCEPT !.head[c] = p, !.next[p] = m.head[c]]
    ELSE IF m.head[c] # None
    THEN [m EXCEPT !.next = [@ EXCEPT ![m.tail[c]] = p, ![p] = None],
                   !.tail[c] = p]
    ELSE [m EXCEPT !.head[c] = p, !.curr = p, !.next[p] = None]

\* ready_tail of the users is written in the one case in which the new
\* process is not the last of its queue.
ReadyLists(m, p) ==
    LET c == Class(p) IN
    IF c = "user"
    THEN [m EXCEPT !.tail[c] = IF m.head[c] # None THEN p ELSE @,
                   !.next[p] = m.head[c],
                   !.head[c] = p]
    ELSE IF m.head[c] # None
    THEN [m EXCEPT !.next = [@ EXCEPT ![m.tail[c]] = p, ![p] = None],
                   !.tail[c] = p]
    ELSE [m EXCEPT !.head[c] = p, !.curr = p,
                   !.tail[c] = p, !.next[p] = None]

\* The scan of unready for a process that is not at the head.
UnlinkLists(m, p) ==
    LET c     == Class(p)
        found == p \in ToSet(Chain(m, c))
        after == IF m.next[p] \in Procs THEN m.next[m.next[p]] ELSE Wild
    IN  [m EXCEPT !.next[p] = IF found THEN after ELSE @,
                  !.tail[c] = IF ~found /\ @ = p THEN None ELSE @]

UnreadyLists(m, p) ==
    LET c == Class(p) IN
    IF m.head[c] = None THEN m
    ELSE IF m.head[c] # p THEN UnlinkLists(m, p)
    ELSE LET shorter == [m EXCEPT !.head[c] = m.next[p]]
         IN  IF p = m.curr THEN HunterLists(shorter) ELSE shorter

-----------------------------------------------------------------------------
\* How the lists are read as the queues of Dispatch.
Queues(m) == [queue |-> [c \in Classes |-> Chain(m, c)],
              curr  |-> m.curr,
              bill  |-> m.bill]

Abstract == INSTANCE DispatchSpec WITH disp <- Queues(mem)

Init == mem = [head |-> [c \in Classes |-> None],
               tail |-> [c \in Classes |-> None],
               next |-> [p \in Procs |-> None],
               curr |-> None,
               bill |-> None]

MakeReady(p) ==
    /\ Abstract!MayBecomeReady(Queues(mem), p)
    /\ mem' = ReadyLists(mem, p)

Block(p) ==
    /\ Abstract!MayBlock(Queues(mem), p)
    /\ mem' = UnreadyLists(mem, p)

Choose == mem' = HunterLists(mem)

Next == Choose \/ \E p \in Procs : MakeReady(p) \/ Block(p)

Spec == Init /\ [][Next]_mem

-----------------------------------------------------------------------------
\* Nothing is ever read through a null next_ready.
TypeOK == mem \in MemType

\* The lists are the queues of DispatchSpec: whatever order processes come
\* and go in, stale tails and stale next_ready pointers (neither is reset
\* when a process leaves) never lose or repeat one.
ImplementsDispatch == Abstract!Spec

\* ready appends through ready_tail, which unready leaves alone when it
\* removes the head: the tail must be the last node whenever there is one.
TailsReach ==
  /\ TypeOK
  /\ \A c \in {"task", "server"} :
        mem.head[c] # None => mem.tail[c] = Last(Chain(mem, c))
=============================================================================
