----------------------------- MODULE IpcProofs -----------------------------
(***************************************************************************)
(* Theorems about Ipc, for every process table, chain length and order of  *)
(* boot.  The inductive invariant is KernelInv of the record: the          *)
(* invariants that TLC checks on small instances, strengthened by          *)
(*   - HalvesAgree: who is blocked in both halves of SEND_REC waits for    *)
(*     the process it sends to;                                            *)
(*   - IdleClean: only schedulable processes ever block.                   *)
(* Its parts are needed together.  A receiver that takes a message makes   *)
(* the sender a pure receiver: that nothing in the sender's own chain is   *)
(* missed then follows from HalvesAgree.  unready only works for the head  *)
(* of a queue: that the caller is the head is DispatchOk.                  *)
(***************************************************************************)
EXTENDS Ipc, SeqLemmas

HalvesAgree(k) ==
    \A p \in Procs :
        Sending(k, p) /\ Receiving(k, p) => k.getForm[p] = k.sendTo[p]

IdleClean(k) == \A p \in Procs \ Schedulable : Clean(k, p)

\* What concerns the process table alone, whoever is queued or running.
TableInv(k) ==
    /\ WaitersMatch(k)
    /\ Acyclic(k)
    /\ NothingMissed(k)
    /\ PendingOwn(k)
    /\ UsersConfined(k)
    /\ HalvesAgree(k)
    /\ IdleClean(k)

KernelInv(k) ==
    /\ k \in KernelType
    /\ TableInv(k)
    /\ QueuesMatch(k)
    /\ DispatchOk(k)

\* The queues hold exactly the processes of R, each in that of its class.
QueuesAre(k, R) ==
    \A c \in Classes :
        /\ IsInjective(k.queue[c])
        /\ ToSet(k.queue[c]) = {p \in R : Class(p) = c}

AtHead(k, p) ==
    k.queue[Class(p)] # <<>> /\ Head(k.queue[Class(p)]) = p

\* j differs from k in the queues, the current and the billed process only.
SameTable(j, k) ==
    /\ j.sendTo = k.sendTo /\ j.getForm = k.getForm
    /\ j.waiters = k.waiters /\ j.msg = k.msg
    /\ j.intBlocked = k.intBlocked

\* The constants that stand for something other than a process.
LEMMA DistinctNames ==
    /\ ANY \notin Procs
    /\ None \notin Procs \cup {ANY}
    /\ Wild \notin Procs
  BY RolesAssumption, SlotsAssumption

-----------------------------------------------------------------------------
(* The dispatcher.                                                         *)

\* The class of a process tells which set of process numbers it is in.
LEMMA ClassFacts ==
    /\ \A p \in Procs : Class(p) \in Classes
    /\ \A p \in Schedulable : /\ Class(p) = "task" <=> p \in Tasks
                              /\ Class(p) = "server" <=> p \in Servers
                              /\ Class(p) = "user" <=> p \in Users
    /\ Schedulable \subseteq Procs /\ Idle \in Procs /\ Idle \notin Schedulable
  BY ProcsAssumption, RolesAssumption, SlotsAssumption DEF Class, Classes, Schedulable, Procs

\* What hunter chooses is the head of the first queue that is not empty.
LEMMA HunterOk ==
    ASSUME NEW k \in KernelType, NEW R \in SUBSET Schedulable, QueuesAre(k, R)
    PROVE  /\ Hunter(k) \in KernelType
           /\ DispatchOk(Hunter(k))
           /\ Hunter(k).queue = k.queue
           /\ SameTable(Hunter(k), k)
  <1>1. ASSUME NEW c \in Classes, k.queue[c] # <<>>
        PROVE  Head(k.queue[c]) \in R /\ Class(Head(k.queue[c])) = c
    <2>1. k.queue[c] \in Seq(Procs) /\ IsInjective(k.queue[c])
      BY DEF KernelType, QueuesAre
    <2>2. Head(k.queue[c]) \in ToSet(k.queue[c])
      BY <1>1, <2>1, TailInj
    <2> QED BY <2>2 DEF QueuesAre
  <1>2. Classes = {"task", "server", "user"} /\ Idle \in Procs
    BY RolesAssumption, SlotsAssumption DEF Classes, Procs
  <1>3. CASE k.queue["task"] # <<>>
    <2> DEFINE h == Head(k.queue["task"])
    <2>1. h \in Schedulable /\ Class(h) = "task" /\ h \in Tasks /\ h \in Procs
      BY <1>1, <1>2, <1>3, ClassFacts
    <2>2. Hunter(k) = [k EXCEPT !.curr = h]
      BY <1>3 DEF Hunter
    <2>3. h \notin Users \cup {Idle}
      BY <2>1, ClassFacts, ProcsAssumption
    <2> HIDE DEF h
    <2>4. Hunter(k) \in KernelType
      BY <2>1, <2>2 DEF KernelType
    <2>5. DispatchOk(Hunter(k))
      BY <1>3, <2>1, <2>2, <2>3 DEF DispatchOk, KernelType, h
    <2> QED BY <2>2, <2>4, <2>5 DEF SameTable, KernelType
  <1>4. CASE k.queue["task"] = <<>> /\ k.queue["server"] # <<>>
    <2> DEFINE h == Head(k.queue["server"])
    <2>1. h \in Schedulable /\ Class(h) = "server" /\ h \in Servers /\ h \in Procs
      BY <1>1, <1>2, <1>4, ClassFacts
    <2>2. Hunter(k) = [k EXCEPT !.curr = h]
      BY <1>4 DEF Hunter
    <2>3. h \notin Users \cup {Idle}
      BY <2>1, ClassFacts, ProcsAssumption
    <2> HIDE DEF h
    <2>4. Hunter(k) \in KernelType
      BY <2>1, <2>2 DEF KernelType
    <2>5. DispatchOk(Hunter(k))
      BY <1>4, <2>1, <2>2, <2>3 DEF DispatchOk, KernelType, h
    <2> QED BY <2>2, <2>4, <2>5 DEF SameTable, KernelType
  <1>5. CASE /\ k.queue["task"] = <<>> /\ k.queue["server"] = <<>>
             /\ k.queue["user"] # <<>>
    <2> DEFINE h == Head(k.queue["user"])
    <2>1. h \in Schedulable /\ Class(h) = "user" /\ h \in Procs /\ h # Idle
      BY <1>1, <1>2, <1>5, ClassFacts
    <2>2. Hunter(k) = [k EXCEPT !.curr = h, !.bill = h]
      BY <1>5 DEF Hunter
    <2> HIDE DEF h
    <2>4. Hunter(k) \in KernelType
      BY <2>1, <2>2 DEF KernelType
    <2>5. DispatchOk(Hunter(k))
      BY <1>5, <2>1, <2>2 DEF DispatchOk, KernelType, h
    <2> QED BY <2>2, <2>4, <2>5 DEF SameTable, KernelType
  <1>6. CASE /\ k.queue["task"] = <<>> /\ k.queue["server"] = <<>>
             /\ k.queue["user"] = <<>>
    <2>2. Hunter(k) = [k EXCEPT !.curr = Idle, !.bill = Idle]
      BY <1>6 DEF Hunter
    <2>4. Hunter(k) \in KernelType
      BY <1>2, <2>2 DEF KernelType
    <2>5. DispatchOk(Hunter(k))
      BY <1>6, <2>2 DEF DispatchOk, KernelType
    <2> QED BY <2>2, <2>4, <2>5 DEF SameTable, KernelType
  <1> QED BY <1>3, <1>4, <1>5, <1>6

\* ready adds one process, and leaves the heads of the queues as they are,
\* but for a user, which becomes the head of its own.
LEMMA ReadyOk ==
    ASSUME NEW k \in KernelType, NEW R \in SUBSET Schedulable,
           QueuesAre(k, R), DispatchOk(k), NEW p \in Schedulable \ R,
           p \in Users => k.curr \notin Users \cup {Idle}
    PROVE  /\ Ready(k, p) \in KernelType
           /\ QueuesAre(Ready(k, p), R \cup {p})
           /\ DispatchOk(Ready(k, p))
           /\ SameTable(Ready(k, p), k)
           /\ \A x \in R : /\ AtHead(k, x) /\ (x \in Users => p \notin Users)
                           => AtHead(Ready(k, p), x)
  <1> DEFINE c == Class(p)
             q == k.queue[c]
             r == Ready(k, p)
  <1>1. /\ p \in Procs /\ c \in Classes /\ p # Idle
        /\ c = "task" <=> p \in Tasks
        /\ c = "server" <=> p \in Servers
        /\ c = "user" <=> p \in Users
    BY ClassFacts
  <1>2. /\ q \in Seq(Procs) /\ IsInjective(q) /\ p \notin ToSet(q)
        /\ ToSet(q) = {x \in R : Class(x) = c}
    BY <1>1 DEF KernelType, QueuesAre
  <1>3. CASE c = "user"
    <2> DEFINE a == <<p>> \o q
    <2>1. /\ a \in Seq(Procs) /\ IsInjective(a) /\ ToSet(a) = ToSet(q) \cup {p}
      BY <1>1, <1>2, PushInj
    <2>2. r = [k EXCEPT !.queue = [k.queue EXCEPT ![c] = a]]
      BY <1>3 DEF Ready
    <2> HIDE DEF a, r, q
    <2>3. /\ r.queue[c] = a /\ r.curr = k.curr /\ r.bill = k.bill
          /\ \A d \in Classes \ {c} : r.queue[d] = k.queue[d]
      BY <1>1, <2>2 DEF KernelType
    <2>4. r \in KernelType /\ SameTable(r, k)
      BY <1>1, <2>1, <2>2 DEF KernelType, SameTable
    <2>5. QueuesAre(r, R \cup {p})
      BY <1>1, <1>2, <2>1, <2>3 DEF QueuesAre
    <2>6. k.curr # Idle /\ k.curr \notin Users
      BY <1>1, <1>3
    <2>7. Class(k.curr) # c /\ Class(k.curr) \in Classes
      <3>1. k.curr \in Procs /\ k.queue[Class(k.curr)] # <<>>
            /\ Head(k.queue[Class(k.curr)]) = k.curr
        BY <2>6 DEF DispatchOk, KernelType
      <3>2. Class(k.curr) \in Classes
        BY <3>1, ClassFacts
      <3>3. k.curr \in ToSet(k.queue[Class(k.curr)])
        BY <3>1, <3>2, TailInj DEF QueuesAre, KernelType
      <3>4. k.curr \in Schedulable
        BY <3>2, <3>3 DEF QueuesAre
      <3> QED BY <1>3, <2>6, <3>2, <3>4, ClassFacts
    <2>8. DispatchOk(r)
      BY <2>3, <2>6, <2>7 DEF DispatchOk
    <2>9. ASSUME NEW x \in R, AtHead(k, x), x \in Users => p \notin Users
          PROVE  AtHead(r, x)
      <3> Class(x) \in Classes \ {c}
        BY <1>1, <1>3, <2>9, ClassFacts
      <3> QED BY <2>3, <2>9 DEF AtHead
    <2> QED BY <2>4, <2>5, <2>8, <2>9 DEF r
  <1>4. CASE c # "user"
    <2> DEFINE a == Append(q, p)
               n == IF q = <<>> THEN p ELSE k.curr
    <2>1. /\ a \in Seq(Procs) /\ IsInjective(a) /\ ToSet(a) = ToSet(q) \cup {p}
          /\ a # <<>> /\ Head(a) = IF q = <<>> THEN p ELSE Head(q)
      BY <1>1, <1>2, AppendInj
    <2>2. r = [k EXCEPT !.queue = [k.queue EXCEPT ![c] = a], !.curr = n]
      BY <1>4 DEF Ready
    <2>3. n \in Procs
      BY <1>1 DEF KernelType
    <2> HIDE DEF a, r, n
    <2>4. /\ r.queue[c] = a /\ r.curr = n /\ r.bill = k.bill
          /\ \A d \in Classes \ {c} : r.queue[d] = k.queue[d]
      BY <1>1, <2>2 DEF KernelType
    <2>5. r \in KernelType /\ SameTable(r, k)
      BY <1>1, <2>1, <2>2, <2>3 DEF KernelType, SameTable
    <2>6. QueuesAre(r, R \cup {p})
      BY <1>1, <1>2, <2>1, <2>4 DEF QueuesAre
    <2>7. DispatchOk(r)
      <3>1. CASE q = <<>>
        <4>1. r.curr = p /\ Head(r.queue[Class(p)]) = p
              /\ r.queue[Class(p)] # <<>>
          BY <3>1, <2>1, <2>4 DEF n
        <4>2. p \notin Users \cup {Idle}
          BY <1>1, <1>4
        <4> QED BY <4>1, <4>2 DEF DispatchOk
      <3>2. CASE q # <<>>
        <4>1. r.curr = k.curr /\ Head(a) = Head(q)
          BY <3>2, <2>1, <2>4 DEF n
        <4>2. c = "task" \/ c = "server"
          BY <1>1, <1>4 DEF Classes
        <4>3. k.curr \notin Users \cup {Idle}
          BY <3>2, <4>2 DEF DispatchOk
        <4>4. Class(k.curr) \in Classes
          BY ClassFacts DEF KernelType
        <4>5. r.queue[Class(k.curr)] # <<>>
              /\ Head(r.queue[Class(k.curr)]) = k.curr
          BY <2>1, <2>4, <3>2, <4>1, <4>3, <4>4 DEF DispatchOk
        <4> QED BY <4>1, <4>3, <4>5 DEF DispatchOk
      <3> QED BY <3>1, <3>2
    <2>8. ASSUME NEW x \in R, AtHead(k, x) PROVE AtHead(r, x)
      <3> Class(x) \in Classes
        BY ClassFacts
      <3> QED BY <2>1, <2>4, <2>8 DEF AtHead
    <2> QED BY <2>5, <2>6, <2>7, <2>8 DEF r
  <1> QED BY <1>3, <1>4

\* unready takes the head of a queue off it and finds the next to run.
LEMMA UnreadyOk ==
    ASSUME NEW k \in KernelType, NEW R \in SUBSET Schedulable,
           QueuesAre(k, R), DispatchOk(k), NEW p \in R, AtHead(k, p)
    PROVE  /\ Unready(k, p) \in KernelType
           /\ QueuesAre(Unready(k, p), R \ {p})
           /\ DispatchOk(Unready(k, p))
           /\ SameTable(Unready(k, p), k)
  <1> DEFINE c == Class(p)
             q == k.queue[c]
             t == Tail(q)
             s == [k EXCEPT !.queue = [k.queue EXCEPT ![c] = t]]
  <1>1. c \in Classes /\ q # <<>> /\ Head(q) = p
    BY ClassFacts DEF AtHead
  <1>2. /\ q \in Seq(Procs) /\ IsInjective(q) /\ ToSet(q) = {x \in R : Class(x) = c}
    BY <1>1 DEF KernelType, QueuesAre
  <1>3. /\ t \in Seq(Procs) /\ IsInjective(t) /\ ToSet(t) = ToSet(q) \ {p}
    BY <1>1, <1>2, TailInj
  <1>4. Unready(k, p) = IF p = k.curr THEN Hunter(s) ELSE s
    BY <1>1 DEF Unready
  <1> HIDE DEF t, q
  <1>5. /\ s.queue[c] = t /\ s.curr = k.curr /\ s.bill = k.bill
        /\ \A d \in Classes \ {c} : s.queue[d] = k.queue[d]
    BY <1>1 DEF KernelType
  <1>6. s \in KernelType /\ SameTable(s, k)
    BY <1>1, <1>3 DEF KernelType, SameTable
  <1> HIDE DEF s
  <1>7. QueuesAre(s, R \ {p})
    BY <1>1, <1>2, <1>3, <1>5 DEF QueuesAre
  <1>8. CASE p = k.curr
    <2>1. /\ Hunter(s) \in KernelType /\ DispatchOk(Hunter(s))
          /\ Hunter(s).queue = s.queue /\ SameTable(Hunter(s), s)
      BY <1>6, <1>7, HunterOk
    <2>2. QueuesAre(Hunter(s), R \ {p})
      BY <1>7, <2>1 DEF QueuesAre
    <2> QED BY <1>4, <1>6, <1>8, <2>1, <2>2 DEF SameTable
  <1>9. CASE p # k.curr
    <2>1. k.curr # Idle
      BY <1>1 DEF DispatchOk, Classes, q
    <2>2. Class(k.curr) # c /\ Class(k.curr) \in Classes
      BY <1>1, <1>9, <2>1, ClassFacts DEF DispatchOk, KernelType, q
    <2>3. k.curr \in Users => c = "user"
      BY <1>1 DEF DispatchOk, Classes, q
    <2>4. k.curr \in Users => Class(k.curr) = "user"
      BY ProcsAssumption DEF Class
    <2>5. DispatchOk(s)
      BY <1>5, <2>1, <2>2, <2>3, <2>4 DEF DispatchOk
    <2> QED BY <1>4, <1>6, <1>7, <1>9, <2>5
  <1> QED BY <1>8, <1>9

-----------------------------------------------------------------------------
(* The process table.                                                      *)

\* What the table promises does not depend on the queues.
LEMMA SameTableOk ==
    ASSUME NEW k \in KernelType, NEW j \in KernelType, SameTable(j, k)
    PROVE  /\ TableInv(k) => TableInv(j)
           /\ Runnable(j) = Runnable(k)
  BY DEF SameTable, TableInv, WaitersMatch, Acyclic, NothingMissed, PendingOwn,
         UsersConfined, HalvesAgree, IdleClean, Runnable, Clean, Sending,
         Receiving, Expects

\* A target that was waiting is handed the message of the sender c.
LEMMA TableDeliver ==
    ASSUME NEW k \in KernelType, NEW j \in KernelType, TableInv(k),
           NEW d \in Procs, NEW src, src \in Procs, ~Sending(k, d),
           Receiving(k, d),
           j.sendTo = k.sendTo, j.waiters = k.waiters,
           j.msg = [k.msg EXCEPT ![d] = src],
           j.getForm = [k.getForm EXCEPT ![d] = None]
    PROVE  /\ TableInv(j)
           /\ Runnable(j) = Runnable(k) \cup {d}
           /\ d \in Schedulable \ Runnable(k)
  <1>1. /\ k.sendTo[d] = None /\ j.getForm[d] = None
        /\ \A p \in Procs \ {d} : j.getForm[p] = k.getForm[p] /\ j.msg[p] = k.msg[p]
    BY DEF Sending, KernelType
  <1>2. d \in Schedulable \ Runnable(k)
    BY DEF TableInv, IdleClean, Clean, Runnable
  <1>3. WaitersMatch(j) /\ Acyclic(j)
    BY DEF TableInv, WaitersMatch, Acyclic
  <1>4. NothingMissed(j)
    <2> SUFFICES ASSUME NEW x \in Procs, NEW p \in ToSet(k.waiters[x])
                 PROVE  ~Expects(j, x, p)
      BY DEF NothingMissed
    <2>1. p \in Procs /\ ~Expects(k, x, p)
      BY DEF TableInv, WaitersMatch, NothingMissed
    <2>2. None # p /\ None # ANY
      BY <2>1, DistinctNames
    <2> QED BY <1>1, <2>1, <2>2 DEF Expects, Sending
  <1>5. PendingOwn(j)
    BY <1>1 DEF TableInv, PendingOwn, Sending
  <1>6. UsersConfined(j)
    <2> SUFFICES ASSUME NEW u \in Users
                 PROVE  {j.sendTo[u], j.getForm[u]} \subseteq SysServers \cup {None}
      BY DEF UsersConfined
    <2>1. {k.sendTo[u], k.getForm[u]} \subseteq SysServers \cup {None}
      BY DEF TableInv, UsersConfined
    <2>2. u \in Procs
      BY DEF Procs
    <2> QED BY <1>1, <2>1, <2>2
  <1>7. HalvesAgree(j)
    BY <1>1 DEF TableInv, HalvesAgree, Sending, Receiving
  <1>8. IdleClean(j)
    BY <1>1 DEF TableInv, IdleClean, Clean, Sending, Receiving
  <1>9. Runnable(j) = Runnable(k) \cup {d}
    <2>1. \A p \in Schedulable : p \in Procs
      BY ClassFacts
    <2> QED BY <1>1, <1>2, <2>1 DEF Runnable, Clean, Sending, Receiving
  <1> QED BY <1>2, <1>3, <1>4, <1>5, <1>6, <1>7, <1>8, <1>9 DEF TableInv

\* Blocking c on d closes no cycle if the walk from d does not meet c: a set
\* that were closed now would, cut down to what the walk can reach, have
\* been closed before.
LEMMA NoCycleClosed ==
    ASSUME NEW k \in KernelType, Acyclic(k), NEW c \in Procs, NEW d \in Procs,
           NEW j, j.sendTo = [k.sendTo EXCEPT ![c] = d], ~WouldLock(k, c, d)
    PROVE  Acyclic(j)
  <1> SUFFICES ASSUME NEW S \in SUBSET Procs, S # {},
                      \A p \in S : j.sendTo[p] \in S
               PROVE  FALSE
    BY DEF Acyclic
  <1>1. \A p \in S \ {c} : k.sendTo[p] \in S
    BY DEF KernelType
  <1>2. c \in S => d \in S
    BY DEF KernelType
  <1>3. CASE c \notin S
    BY <1>1, <1>3 DEF Acyclic
  <1>4. CASE c \in S
    <2>1. PICK W \in SUBSET Procs :
            /\ d \in W /\ c \notin W
            /\ \A p \in W : Sending(k, p) => k.sendTo[p] \in W
      BY DEF WouldLock
    <2>2. \A p \in S \cap W : k.sendTo[p] \in S \cap W
      BY <1>1, <2>1, DistinctNames DEF Sending
    <2>3. S \cap W # {}
      BY <1>2, <1>4, <2>1
    <2> QED BY <2>2, <2>3 DEF Acyclic
  <1> QED BY <1>3, <1>4

\* A sender blocks on a target that is not waiting for it.
LEMMA TableBlockSend ==
    ASSUME NEW k \in KernelType, NEW j \in KernelType, TableInv(k),
           NEW c \in Schedulable, NEW d \in Procs \ {c}, Clean(k, c),
           k.msg[c] = c, ~WouldLock(k, c, d), ~Expects(k, d, c),
           c \in Users => d \in SysServers,
           j.sendTo = [k.sendTo EXCEPT ![c] = d],
           j.waiters = [k.waiters EXCEPT ![d] = Append(k.waiters[d], c)],
           j.msg = k.msg, j.getForm = k.getForm
    PROVE  /\ TableInv(j)
           /\ Runnable(j) = Runnable(k) \ {c}
  <1>1. c \in Procs /\ c # None /\ d # None
    BY ClassFacts, DistinctNames
  <1>2. /\ k.sendTo[c] = None /\ k.getForm[c] = None /\ j.sendTo[c] = d
        /\ \A p \in Procs \ {c} : j.sendTo[p] = k.sendTo[p]
    BY <1>1 DEF Clean, Sending, Receiving, KernelType
  <1>3. WaitersMatch(j) /\ ToSet(j.waiters[d]) = ToSet(k.waiters[d]) \cup {c}
        /\ \A x \in Procs \ {d} : j.waiters[x] = k.waiters[x]
    <2>1. \A x \in Procs \ {d} : j.waiters[x] = k.waiters[x]
      BY DEF KernelType
    <2>2. j.waiters[d] = Append(k.waiters[d], c)
      BY DEF KernelType
    <2>3. /\ IsInjective(k.waiters[d]) /\ k.waiters[d] \in Seq(Procs)
          /\ ToSet(k.waiters[d]) = {p \in Procs : k.sendTo[p] = d}
      BY DEF TableInv, WaitersMatch, KernelType
    <2>4. c \notin ToSet(k.waiters[d])
      BY <1>1, <1>2, <2>3
    <2>5. /\ IsInjective(j.waiters[d])
          /\ ToSet(j.waiters[d]) = ToSet(k.waiters[d]) \cup {c}
      BY <1>1, <2>2, <2>3, <2>4, AppendInj
    <2>6. ToSet(j.waiters[d]) = {p \in Procs : j.sendTo[p] = d}
      BY <1>1, <1>2, <2>3, <2>5
    <2>7. ASSUME NEW x \in Procs \ {d}
          PROVE  /\ IsInjective(j.waiters[x])
                 /\ ToSet(j.waiters[x]) = {p \in Procs : j.sendTo[p] = x}
      <3>1. \A p \in Procs : k.sendTo[p] = x <=> j.sendTo[p] = x
        BY <1>1, <1>2, DistinctNames
      <3> QED BY <2>1, <3>1 DEF TableInv, WaitersMatch
    <2> QED BY <2>1, <2>5, <2>6, <2>7 DEF WaitersMatch
  <1>4. Acyclic(j)
    BY <1>1, NoCycleClosed DEF TableInv
  <1>5. NothingMissed(j)
    <2> SUFFICES ASSUME NEW x \in Procs, NEW p \in ToSet(j.waiters[x]),
                        Expects(j, x, p)
                 PROVE  FALSE
      BY DEF NothingMissed
    <2>1. x # c
      BY <1>1, <1>2 DEF Expects, Sending
    <2>2. Expects(k, x, p)
      BY <1>2, <2>1 DEF Expects, Sending
    <2>3. p \in ToSet(k.waiters[x]) \/ (x = d /\ p = c)
      BY <1>3
    <2> QED BY <2>2, <2>3 DEF TableInv, NothingMissed
  <1>6. PendingOwn(j)
    BY <1>2 DEF TableInv, PendingOwn, Sending
  <1>7. UsersConfined(j)
    <2> SUFFICES ASSUME NEW u \in Users
                 PROVE  {j.sendTo[u], j.getForm[u]} \subseteq SysServers \cup {None}
      BY DEF UsersConfined
    <2>1. {k.sendTo[u], k.getForm[u]} \subseteq SysServers \cup {None}
      BY DEF TableInv, UsersConfined
    <2>2. u \in Procs
      BY DEF Procs
    <2> QED BY <1>2, <2>1, <2>2
  <1>8. HalvesAgree(j)
    BY <1>2 DEF TableInv, HalvesAgree, Sending, Receiving
  <1>9. IdleClean(j)
    BY <1>2 DEF TableInv, IdleClean, Clean, Sending, Receiving
  <1>10. Runnable(j) = Runnable(k) \ {c}
    <2>1. \A p \in Schedulable : p \in Procs
      BY ClassFacts
    <2> QED BY <1>1, <1>2, <2>1 DEF Runnable, Clean, Sending, Receiving
  <1> QED BY <1>3, <1>4, <1>5, <1>6, <1>7, <1>8, <1>9, <1>10 DEF TableInv

\* A receiver takes the message of its waiter s, which may go on receiving.
LEMMA TableTake ==
    ASSUME NEW k \in KernelType, NEW j \in KernelType, TableInv(k),
           NEW c \in Procs, Clean(k, c), NEW i \in DOMAIN k.waiters[c],
           NEW s, s = k.waiters[c][i],
           j.sendTo = [k.sendTo EXCEPT ![s] = None],
           j.waiters = [k.waiters EXCEPT ![c] = RemoveAt(k.waiters[c], i)],
           j.msg = [k.msg EXCEPT ![c] = k.msg[s]], j.getForm = k.getForm
    PROVE  /\ TableInv(j)
           /\ s \in Schedulable \ Runnable(k)
           /\ Runnable(j) = IF Clean(j, s) THEN Runnable(k) \cup {s} ELSE Runnable(k)
  <1>1. /\ s \in Procs /\ k.sendTo[s] = c /\ s # c /\ k.sendTo[c] = None
    <2>1. s \in ToSet(k.waiters[c])
      BY DEF ToSet
    <2> QED BY <2>1, DistinctNames
            DEF TableInv, WaitersMatch, Clean, Sending
  <1>2. /\ j.sendTo[s] = None
        /\ \A p \in Procs \ {s} : j.sendTo[p] = k.sendTo[p]
        /\ \A p \in Procs \ {c} : j.msg[p] = k.msg[p]
    BY <1>1 DEF KernelType
  <1>3. c # None /\ c # ANY /\ \A p \in Procs : p # None /\ p # ANY
    BY DistinctNames
  <1>4. s \in Schedulable \ Runnable(k)
    BY <1>1, <1>3 DEF TableInv, IdleClean, Clean, Sending, Runnable
  <1>5. /\ \A x \in Procs \ {c} : j.waiters[x] = k.waiters[x]
        /\ IsInjective(j.waiters[c])
        /\ ToSet(j.waiters[c]) = ToSet(k.waiters[c]) \ {s}
    <2>1. k.waiters[c] \in Seq(Procs) /\ IsInjective(k.waiters[c])
      BY DEF TableInv, WaitersMatch, KernelType
    <2>2. j.waiters[c] = RemoveAt(k.waiters[c], i)
          /\ \A x \in Procs \ {c} : j.waiters[x] = k.waiters[x]
      BY DEF KernelType
    <2> QED BY <2>1, <2>2, RemoveAtInj
  <1>6. WaitersMatch(j)
    <2>1. ToSet(j.waiters[c]) = {p \in Procs : j.sendTo[p] = c}
      BY <1>1, <1>2, <1>3, <1>5 DEF TableInv, WaitersMatch
    <2>2. ASSUME NEW x \in Procs \ {c}
          PROVE  /\ IsInjective(j.waiters[x])
                 /\ ToSet(j.waiters[x]) = {p \in Procs : j.sendTo[p] = x}
      <3>1. \A p \in Procs : k.sendTo[p] = x <=> j.sendTo[p] = x
        BY <1>1, <1>2, <1>3
      <3> QED BY <1>5, <3>1 DEF TableInv, WaitersMatch
    <2> QED BY <1>5, <2>1, <2>2 DEF WaitersMatch
  <1>7. Acyclic(j)
    <2> SUFFICES ASSUME NEW S \in SUBSET Procs, S # {},
                        \A p \in S : j.sendTo[p] \in S
                 PROVE  FALSE
      BY DEF Acyclic
    <2>1. s \notin S
      BY <1>2, <1>3
    <2>2. \A p \in S : k.sendTo[p] \in S
      BY <1>2, <2>1
    <2> QED BY <2>2 DEF TableInv, Acyclic
  <1>8. NothingMissed(j)
    <2> SUFFICES ASSUME NEW x \in Procs, NEW p \in ToSet(j.waiters[x]),
                        Expects(j, x, p)
                 PROVE  FALSE
      BY DEF NothingMissed
    <2>1. p \in ToSet(k.waiters[x]) /\ p \in Procs /\ k.sendTo[p] = x
      BY <1>5 DEF TableInv, WaitersMatch
    <2>2. CASE x # s
      <3>1. Expects(k, x, p)
        BY <1>2, <2>2 DEF Expects, Sending
      <3> QED BY <2>1, <3>1 DEF TableInv, NothingMissed
    <2>3. CASE x = s
      <3>1. k.getForm[s] \in {p, ANY}
        BY <2>3 DEF Expects
      <3>2. Sending(k, s) /\ Receiving(k, s)
        BY <1>1, <1>3, <2>1, <3>1, DistinctNames DEF Sending, Receiving
      <3>3. k.getForm[s] = c
        BY <1>1, <3>2 DEF TableInv, HalvesAgree
      <3>4. p = c
        BY <1>3, <3>1, <3>3
      <3> QED BY <1>1, <1>3, <2>1, <2>3, <3>4
    <2> QED BY <2>2, <2>3
  <1>9. PendingOwn(j)
    BY <1>1, <1>2 DEF TableInv, PendingOwn, Sending
  <1>10. UsersConfined(j)
    <2> SUFFICES ASSUME NEW u \in Users
                 PROVE  {j.sendTo[u], j.getForm[u]} \subseteq SysServers \cup {None}
      BY DEF UsersConfined
    <2>1. {k.sendTo[u], k.getForm[u]} \subseteq SysServers \cup {None}
      BY DEF TableInv, UsersConfined
    <2>2. u \in Procs
      BY DEF Procs
    <2> QED BY <1>2, <2>1, <2>2
  <1>11. HalvesAgree(j)
    BY <1>2 DEF TableInv, HalvesAgree, Sending, Receiving
  <1>12. IdleClean(j)
    BY <1>2 DEF TableInv, IdleClean, Clean, Sending, Receiving
  <1>13. Runnable(j) = IF Clean(j, s) THEN Runnable(k) \cup {s} ELSE Runnable(k)
    <2>1. \A p \in Schedulable : p \in Procs
      BY ClassFacts
    <2> QED BY <1>1, <1>2, <1>4, <2>1 DEF Runnable, Clean, Sending, Receiving
  <1> QED BY <1>4, <1>6, <1>7, <1>8, <1>9, <1>10, <1>11, <1>12, <1>13 DEF TableInv

\* A receiver for which nobody acceptable waits blocks; it may be one that
\* blocked in the first half of SEND_REC already.
LEMMA TableBlockReceive ==
    ASSUME NEW k \in KernelType, NEW j \in KernelType, TableInv(k),
           NEW c \in Schedulable, NEW src \in Procs \cup {ANY},
           ~Receiving(k, c),
           Sending(k, c) => src = k.sendTo[c],
           ~Sending(k, c) => Acceptable(k, c, src) = {},
           c \in Users => src \in SysServers,
           j.sendTo = k.sendTo, j.waiters = k.waiters,
           j.msg = [k.msg EXCEPT ![c] = IF Sending(k, c) THEN k.msg[c] ELSE None],
           j.getForm = [k.getForm EXCEPT ![c] = src]
    PROVE  /\ TableInv(j)
           /\ Runnable(j) = Runnable(k) \ {c}
  <1>1. c \in Procs /\ src # None
    BY ClassFacts, DistinctNames
  <1>2. /\ k.getForm[c] = None /\ j.getForm[c] = src
        /\ \A p \in Procs \ {c} : j.getForm[p] = k.getForm[p] /\ j.msg[p] = k.msg[p]
        /\ Sending(k, c) => j.msg[c] = k.msg[c]
    BY <1>1 DEF Receiving, KernelType
  <1>3. WaitersMatch(j) /\ Acyclic(j)
    BY DEF TableInv, WaitersMatch, Acyclic
  <1>4. NothingMissed(j)
    <2> SUFFICES ASSUME NEW x \in Procs, NEW p \in ToSet(k.waiters[x]),
                        Expects(j, x, p)
                 PROVE  FALSE
      BY DEF NothingMissed
    <2>1. CASE x # c
      <3>1. Expects(k, x, p)
        BY <1>2, <2>1 DEF Expects, Sending
      <3> QED BY <3>1 DEF TableInv, NothingMissed
    <2>2. CASE x = c
      <3>1. ~Sending(k, c) /\ src \in {p, ANY}
        BY <1>2, <2>2 DEF Expects, Sending
      <3>2. PICK i \in DOMAIN k.waiters[c] : k.waiters[c][i] = p
        BY <2>2 DEF ToSet
      <3>3. i \in Acceptable(k, c, src)
        BY <3>1, <3>2 DEF Acceptable
      <3> QED BY <3>1, <3>3
    <2> QED BY <2>1, <2>2
  <1>5. PendingOwn(j)
    BY <1>2 DEF TableInv, PendingOwn, Sending
  <1>6. UsersConfined(j)
    <2> SUFFICES ASSUME NEW u \in Users
                 PROVE  {j.sendTo[u], j.getForm[u]} \subseteq SysServers \cup {None}
      BY DEF UsersConfined
    <2>1. {k.sendTo[u], k.getForm[u]} \subseteq SysServers \cup {None}
      BY DEF TableInv, UsersConfined
    <2>2. u \in Procs
      BY DEF Procs
    <2> QED BY <1>2, <2>1, <2>2
  <1>7. HalvesAgree(j)
    BY <1>2 DEF TableInv, HalvesAgree, Sending, Receiving
  <1>8. IdleClean(j)
    BY <1>2 DEF TableInv, IdleClean, Clean, Sending, Receiving
  <1>9. Runnable(j) = Runnable(k) \ {c}
    <2>1. \A p \in Schedulable : p \in Procs
      BY ClassFacts
    <2> QED BY <1>1, <1>2, <2>1 DEF Runnable, Clean, Sending, Receiving
  <1> QED BY <1>3, <1>4, <1>5, <1>6, <1>7, <1>8, <1>9 DEF TableInv

-----------------------------------------------------------------------------
(* The routines of ipc_msg.c, each as a whole.                             *)

\* A caller is runnable and at the head of its queue.
LEMMA CallerOk ==
    ASSUME NEW k, KernelInv(k), k.curr # Idle
    PROVE  /\ k.curr \in Runnable(k) /\ k.curr \in Schedulable
           /\ k.curr \in Procs /\ Clean(k, k.curr) /\ AtHead(k, k.curr)
  <1> DEFINE c == k.curr
             q == k.queue[Class(c)]
  <1>1. c \in Procs /\ Class(c) \in Classes /\ q # <<>> /\ Head(q) = c
    BY ClassFacts DEF KernelInv, KernelType, DispatchOk
  <1>2. q \in Seq(Procs) /\ IsInjective(q)
    BY <1>1 DEF KernelInv, KernelType, QueuesMatch
  <1>3. c \in ToSet(q)
    BY <1>1, <1>2, TailInj
  <1>4. c \in Runnable(k)
    BY <1>1, <1>3 DEF KernelInv, QueuesMatch
  <1> QED BY <1>1, <1>4 DEF Runnable, AtHead

\* The queues match the table if they hold the runnable processes.
LEMMA QueuesMatchAre ==
    ASSUME NEW k
    PROVE  /\ QueuesMatch(k) <=> QueuesAre(k, Runnable(k))
           /\ Runnable(k) \in SUBSET Schedulable
  BY DEF QueuesMatch, QueuesAre, Runnable

\* ready of a process just released, in a table whose queues lag behind.
LEMMA WakeOk ==
    ASSUME NEW k, KernelInv(k), NEW m \in KernelType, TableInv(m),
           m.queue = k.queue, m.curr = k.curr, m.bill = k.bill,
           NEW p \in Schedulable \ Runnable(k),
           Runnable(m) = Runnable(k) \cup {p},
           p \in Users => k.curr \notin Users \cup {Idle}
    PROVE  /\ KernelInv(Ready(m, p))
           /\ SameTable(Ready(m, p), m)
           /\ \A x \in Runnable(k) :
                AtHead(k, x) /\ (x \in Users => p \notin Users)
                => AtHead(Ready(m, p), x)
  <1>1. QueuesAre(m, Runnable(k)) /\ DispatchOk(m)
    BY QueuesMatchAre DEF KernelInv, QueuesAre, DispatchOk
  <1>2. /\ Ready(m, p) \in KernelType
        /\ QueuesAre(Ready(m, p), Runnable(k) \cup {p})
        /\ DispatchOk(Ready(m, p))
        /\ SameTable(Ready(m, p), m)
        /\ \A x \in Runnable(k) : /\ AtHead(m, x) /\ (x \in Users => p \notin Users)
                                  => AtHead(Ready(m, p), x)
    BY <1>1, QueuesMatchAre, ReadyOk
  <1>3. TableInv(Ready(m, p)) /\ Runnable(Ready(m, p)) = Runnable(m)
    BY <1>2, SameTableOk
  <1>4. QueuesMatch(Ready(m, p))
    BY <1>2, <1>3, QueuesMatchAre
  <1> QED BY <1>2, <1>3, <1>4 DEF KernelInv, AtHead

\* Giving a message to a process that expects it preserves the invariant.
LEMMA DeliverOk ==
    ASSUME NEW k, KernelInv(k), NEW c \in Procs, NEW d \in Procs,
           k.msg[c] \in Procs, Expects(k, d, c),
           d \in Users => k.curr \notin Users \cup {Idle}
    PROVE  /\ KernelInv(Deliver(k, c, d))
           /\ Deliver(k, c, d).sendTo = k.sendTo
           /\ Deliver(k, c, d).waiters = k.waiters
           /\ Deliver(k, c, d).getForm = [k.getForm EXCEPT ![d] = None]
           /\ \A x \in Runnable(k) :
                AtHead(k, x) /\ (x \in Users => d \notin Users)
                => AtHead(Deliver(k, c, d), x)
  <1> DEFINE m == [k EXCEPT !.msg[d] = k.msg[c], !.getForm[d] = None]
  <1>1. k \in KernelType /\ TableInv(k)
    BY DEF KernelInv
  <1>2. /\ m \in KernelType /\ m.sendTo = k.sendTo /\ m.waiters = k.waiters
        /\ m.msg = [k.msg EXCEPT ![d] = k.msg[c]]
        /\ m.getForm = [k.getForm EXCEPT ![d] = None]
        /\ m.queue = k.queue /\ m.curr = k.curr /\ m.bill = k.bill
    BY <1>1 DEF KernelType
  <1>3. ~Sending(k, d) /\ Receiving(k, d)
    BY DistinctNames DEF Expects, Receiving
  <1>4. Deliver(k, c, d) = Ready(m, d)
    BY DEF Deliver
  <1> HIDE DEF m
  <1>5. /\ TableInv(m) /\ Runnable(m) = Runnable(k) \cup {d}
        /\ d \in Schedulable \ Runnable(k)
    BY <1>1, <1>2, <1>3, TableDeliver
  <1>6. /\ KernelInv(Ready(m, d)) /\ SameTable(Ready(m, d), m)
        /\ \A x \in Runnable(k) :
             AtHead(k, x) /\ (x \in Users => d \notin Users)
             => AtHead(Ready(m, d), x)
    BY <1>2, <1>5, WakeOk
  <1> QED BY <1>2, <1>4, <1>6 DEF SameTable

\* unready of a process at the head, before the table says that it blocks.
LEMMA SleepOk ==
    ASSUME NEW k, KernelInv(k), NEW c \in Runnable(k), AtHead(k, c)
    PROVE  /\ Unready(k, c) \in KernelType
           /\ SameTable(Unready(k, c), k)
           /\ \A j \in KernelType :
                /\ TableInv(j) /\ Runnable(j) = Runnable(k) \ {c}
                /\ j.queue = Unready(k, c).queue
                /\ j.curr = Unready(k, c).curr
                /\ j.bill = Unready(k, c).bill
                => KernelInv(j)
  <1>1. /\ Unready(k, c) \in KernelType
        /\ QueuesAre(Unready(k, c), Runnable(k) \ {c})
        /\ DispatchOk(Unready(k, c))
        /\ SameTable(Unready(k, c), k)
    BY QueuesMatchAre, UnreadyOk DEF KernelInv
  <1>2. ASSUME NEW j \in KernelType, TableInv(j),
               Runnable(j) = Runnable(k) \ {c},
               j.queue = Unready(k, c).queue, j.curr = Unready(k, c).curr,
               j.bill = Unready(k, c).bill
        PROVE  KernelInv(j)
    <2>1. QueuesMatch(j)
      BY <1>1, <1>2, QueuesMatchAre DEF QueuesAre
    <2>2. DispatchOk(j)
      BY <1>1, <1>2 DEF DispatchOk
    <2> QED BY <1>2, <2>1, <2>2 DEF KernelInv
  <1> QED BY <1>1, <1>2

\* Blocking the current process as a sender preserves the invariant, if the
\* lock check has found no way back to it.
LEMMA BlockSenderOk ==
    ASSUME NEW k, KernelInv(k), NEW c \in Runnable(k), AtHead(k, c),
           NEW d \in Procs \ {c}, k.msg[c] = c,
           ~WouldLock(k, c, d), ~Expects(k, d, c),
           c \in Users => d \in SysServers
    PROVE  /\ KernelInv(BlockSender(k, c, d))
           /\ BlockSender(k, c, d).sendTo = [k.sendTo EXCEPT ![c] = d]
           /\ BlockSender(k, c, d).getForm = k.getForm
           /\ BlockSender(k, c, d).msg = k.msg
  <1> DEFINE o == Unready(k, c)
             j == [o EXCEPT !.sendTo[c] = d,
                            !.waiters[d] = Append(o.waiters[d], c)]
  <1>1. c \in Schedulable /\ c \in Procs /\ Clean(k, c)
    BY ClassFacts DEF Runnable
  <1>2. o \in KernelType /\ SameTable(o, k)
    BY SleepOk
  <1>3. BlockSender(k, c, d) = j
    BY <1>1 DEF BlockSender
  <1> HIDE DEF o
  <1>4. /\ j.sendTo = [k.sendTo EXCEPT ![c] = d] /\ j.getForm = k.getForm
        /\ j.waiters = [k.waiters EXCEPT ![d] = Append(k.waiters[d], c)]
        /\ j.msg = k.msg
        /\ j.queue = o.queue /\ j.curr = o.curr /\ j.bill = o.bill
    BY <1>2 DEF SameTable, KernelType
  <1>5. j \in KernelType
    <2>1. Append(o.waiters[d], c) \in Seq(Procs)
      BY <1>1, <1>2 DEF KernelType
    <2> QED BY <1>1, <1>2, <2>1 DEF KernelType
  <1> HIDE DEF j
  <1>6. TableInv(j) /\ Runnable(j) = Runnable(k) \ {c}
    BY <1>1, <1>4, <1>5, TableBlockSend DEF KernelInv
  <1>7. KernelInv(j)
    BY <1>4, <1>5, <1>6, SleepOk DEF o
  <1> QED BY <1>3, <1>4, <1>7

\* Taking the message of a waiter preserves the invariant.
LEMMA TakeFromOk ==
    ASSUME NEW k, KernelInv(k), k.curr \notin Users \cup {Idle},
           NEW i \in DOMAIN k.waiters[k.curr]
    PROVE  KernelInv(TakeFrom(k, k.curr, i))
  <1> DEFINE c == k.curr
             s == k.waiters[c][i]
             m == [k EXCEPT !.msg[c] = k.msg[s],
                            !.waiters[c] = RemoveAt(k.waiters[c], i),
                            !.sendTo[s] = None]
  <1>1. c \in Procs /\ Clean(k, c) /\ k \in KernelType /\ TableInv(k)
    BY CallerOk DEF KernelInv
  <1>2. k.waiters[c] \in Seq(Procs) /\ IsInjective(k.waiters[c]) /\ s \in Procs
    BY <1>1 DEF KernelType, TableInv, WaitersMatch
  <1>3. TakeFrom(k, c, i) = IF Clean(m, s) THEN Ready(m, s) ELSE m
    BY DEF TakeFrom
  <1>4. m \in KernelType
    <2>1. RemoveAt(k.waiters[c], i) \in Seq(Procs)
      BY <1>2, RemoveAtInj
    <2> QED BY <1>1, <1>2, <2>1 DEF KernelType
  <1>5. /\ m.sendTo = [k.sendTo EXCEPT ![s] = None]
        /\ m.waiters = [k.waiters EXCEPT ![c] = RemoveAt(k.waiters[c], i)]
        /\ m.msg = [k.msg EXCEPT ![c] = k.msg[s]] /\ m.getForm = k.getForm
        /\ m.queue = k.queue /\ m.curr = k.curr /\ m.bill = k.bill
    BY <1>1 DEF KernelType
  <1> HIDE DEF m
  <1>6. /\ TableInv(m) /\ s \in Schedulable \ Runnable(k)
        /\ Runnable(m) = IF Clean(m, s) THEN Runnable(k) \cup {s} ELSE Runnable(k)
    BY <1>1, <1>4, <1>5, TableTake
  <1>7. CASE Clean(m, s)
    <2> Runnable(m) = Runnable(k) \cup {s}
      BY <1>6, <1>7
    <2> QED BY <1>3, <1>4, <1>5, <1>6, <1>7, WakeOk
  <1>8. CASE ~Clean(m, s)
    <2>1. QueuesMatch(m) /\ DispatchOk(m)
      BY <1>5, <1>6, <1>8 DEF KernelInv, QueuesMatch, DispatchOk
    <2> QED BY <1>3, <1>4, <1>6, <1>8, <2>1 DEF KernelInv
  <1> QED BY <1>7, <1>8

\* The first half of SEND_REC may have moved the processor elsewhere, or
\* blocked the caller already.
LEMMA BlockReceiverOk ==
    ASSUME NEW k, KernelInv(k), NEW c \in Schedulable,
           NEW src \in Procs \cup {ANY}, ~Receiving(k, c),
           Sending(k, c) => src = k.sendTo[c],
           ~Sending(k, c) => AtHead(k, c) /\ Acceptable(k, c, src) = {},
           c \in Users => src \in SysServers
    PROVE  KernelInv(BlockReceiver(k, c, src))
  <1> DEFINE o == IF Clean(k, c) THEN Unready(k, c) ELSE k
             j == [o EXCEPT !.getForm[c] = src,
                            !.msg[c] = IF Sending(k, c) THEN o.msg[c] ELSE None]
  <1>1. c \in Procs /\ (Clean(k, c) <=> ~Sending(k, c))
    BY ClassFacts DEF Clean
  <1>2. Clean(k, c) => c \in Runnable(k) /\ AtHead(k, c)
    BY <1>1 DEF Runnable
  <1>3. o \in KernelType /\ SameTable(o, k)
    <2>1. CASE Clean(k, c)
      BY <1>2, <2>1, SleepOk
    <2>2. CASE ~Clean(k, c)
      BY <2>2 DEF KernelInv, SameTable
    <2> QED BY <2>1, <2>2
  <1>4. BlockReceiver(k, c, src) = j
    BY DEF BlockReceiver
  <1> HIDE DEF o
  <1>5. /\ j.sendTo = k.sendTo /\ j.waiters = k.waiters
        /\ j.getForm = [k.getForm EXCEPT ![c] = src]
        /\ j.msg = [k.msg EXCEPT ![c] = IF Sending(k, c) THEN k.msg[c] ELSE None]
        /\ j.queue = o.queue /\ j.curr = o.curr /\ j.bill = o.bill
    BY <1>3 DEF SameTable, KernelType
  <1>6. j \in KernelType
    BY <1>1, <1>3 DEF KernelType
  <1> HIDE DEF j
  <1>7. TableInv(j) /\ Runnable(j) = Runnable(k) \ {c}
    BY <1>5, <1>6, TableBlockReceive DEF KernelInv
  <1>8. CASE Clean(k, c)
    BY <1>2, <1>4, <1>5, <1>6, <1>7, <1>8, SleepOk DEF o
  <1>9. CASE ~Clean(k, c)
    <2>1. Runnable(j) = Runnable(k)
      BY <1>7, <1>9 DEF Runnable
    <2>2. j.queue = k.queue /\ j.curr = k.curr /\ j.bill = k.bill
      BY <1>5, <1>9 DEF o
    <2>3. QueuesMatch(j) /\ DispatchOk(j)
      BY <2>1, <2>2 DEF KernelInv, QueuesMatch, DispatchOk
    <2> QED BY <1>4, <1>6, <1>7, <2>3 DEF KernelInv
  <1> QED BY <1>8, <1>9

\* flyanx_receive preserves the invariant.
LEMMA ReceiveOk ==
    ASSUME NEW k, KernelInv(k), k.curr \notin Users \cup {Idle},
           NEW src \in Procs \cup {ANY}
    PROVE  KernelInv(ReceiveEffect(k, k.curr, src))
  <1> DEFINE c == k.curr
             found == Acceptable(k, c, src)
  <1>1. /\ c \in Schedulable /\ c \in Procs /\ AtHead(k, c)
        /\ ~Sending(k, c) /\ ~Receiving(k, c)
    BY CallerOk DEF Clean
  <1>2. CASE found = {}
    <2>1. ReceiveEffect(k, c, src) = BlockReceiver(k, c, src)
      BY <1>2 DEF ReceiveEffect
    <2>2. KernelInv(BlockReceiver(k, c, src))
      BY <1>1, <1>2, BlockReceiverOk
    <2> QED BY <2>1, <2>2
  <1>3. CASE found # {}
    <2> DEFINE i == CHOOSE i \in found : \A n \in found : i <= n
    <2>1. k.waiters[c] \in Seq(Procs)
      BY <1>1 DEF KernelInv, KernelType
    <2>2. i \in found
      <3>1. found \subseteq Nat
        BY <2>1 DEF Acceptable
      <3>2. \E n \in found : \A x \in found : n <= x
        BY <1>3, <3>1, MinExists
      <3> QED BY <3>2
    <2>3. i \in DOMAIN k.waiters[c]
      BY <2>2 DEF Acceptable
    <2>4. ReceiveEffect(k, c, src) = TakeFrom(k, c, i)
      BY <1>1, <1>3 DEF ReceiveEffect
    <2> HIDE DEF i
    <2> QED BY <2>3, <2>4, TakeFromOk
  <1> QED BY <1>2, <1>3

\* interrupt hands HARD_INT to a task that waits for it, or leaves a mark.
LEMMA InterruptOk ==
    ASSUME NEW k, KernelInv(k), NEW t \in IntTasks
    PROVE  KernelInv(InterruptEffect(k, t))
  <1>1. /\ t \in Schedulable /\ t \in Procs /\ t \notin Users /\ Hardware \in Procs
        /\ k \in KernelType /\ TableInv(k)
    BY RolesAssumption, SlotsAssumption, ProcsAssumption DEF KernelInv, Schedulable, Procs
  <1>2. CASE Sending(k, t) \/ k.getForm[t] \notin {ANY, Hardware}
    <2> DEFINE j == [k EXCEPT !.intBlocked[t] = TRUE]
    <2>1. InterruptEffect(k, t) = j
      BY <1>2 DEF InterruptEffect
    <2>2. /\ j \in KernelType /\ j.sendTo = k.sendTo /\ j.getForm = k.getForm
          /\ j.waiters = k.waiters /\ j.msg = k.msg
          /\ j.queue = k.queue /\ j.curr = k.curr /\ j.bill = k.bill
      BY <1>1 DEF KernelType
    <2> HIDE DEF j
    <2>3. TableInv(j)
      BY <1>1, <2>2 DEF TableInv, WaitersMatch, Acyclic, NothingMissed,
             PendingOwn, UsersConfined, HalvesAgree, IdleClean, Clean, Sending,
             Receiving, Expects
    <2>4. QueuesMatch(j) /\ DispatchOk(j)
      BY <2>2 DEF KernelInv, QueuesMatch, DispatchOk, Runnable, Clean, Sending,
                  Receiving
    <2> QED BY <2>1, <2>2, <2>3, <2>4 DEF KernelInv
  <1>3. CASE ~Sending(k, t) /\ k.getForm[t] \in {ANY, Hardware}
    <2> DEFINE m == [k EXCEPT !.msg[t] = Hardware,
                              !.getForm[t] = None,
                              !.intBlocked[t] = FALSE]
    <2>1. InterruptEffect(k, t) = Ready(m, t)
      BY <1>3 DEF InterruptEffect
    <2>2. /\ m \in KernelType /\ m.sendTo = k.sendTo /\ m.waiters = k.waiters
          /\ m.msg = [k.msg EXCEPT ![t] = Hardware]
          /\ m.getForm = [k.getForm EXCEPT ![t] = None]
          /\ m.queue = k.queue /\ m.curr = k.curr /\ m.bill = k.bill
      BY <1>1 DEF KernelType
    <2> HIDE DEF m
    <2>3. Receiving(k, t)
      BY <1>1, <1>3, DistinctNames DEF Receiving
    <2>4. /\ TableInv(m) /\ Runnable(m) = Runnable(k) \cup {t}
          /\ t \in Schedulable \ Runnable(k)
      BY <1>1, <1>3, <2>2, <2>3, TableDeliver
    <2>5. KernelInv(Ready(m, t))
      BY <1>1, <2>2, <2>4, WakeOk
    <2> QED BY <2>1, <2>5
  <1> QED BY <1>2, <1>3

-----------------------------------------------------------------------------
(* The specification.                                                      *)

Inv == KernelInv(kernel) /\ up \in BOOLEAN

\* What flyanx_main hands to restart satisfies the invariant.
LEMMA InitInv == Init => Inv
  <1> SUFFICES ASSUME Init PROVE Inv
    OBVIOUS
  <1> DEFINE b == [sendTo     |-> [p \in Procs |-> None],
                   getForm    |-> [p \in Procs |-> None],
                   waiters    |-> [p \in Procs |-> <<>>],
                   msg        |-> [p \in Procs |-> None],
                   queue      |-> BootQueue,
                   curr       |-> Idle,
                   bill       |-> None,
                   intBlocked |-> [p \in Procs |-> FALSE]]
  <1>1. kernel = Hunter(b) /\ up \in BOOLEAN
    BY DEF Init, BootKernel
  <1>2. /\ BootQueue \in [Classes -> Seq(Procs)]
        /\ Idle \in Procs
    <2>1. Schedulable \subseteq Procs /\ Idle \in Procs
      BY ClassFacts
    <2>2. Seq(Schedulable) \subseteq Seq(Procs)
      BY <2>1
    <2> QED BY <2>1, <2>2, BootAssumption
  <1>3. b \in KernelType
    BY <1>2 DEF KernelType
  <1>4. /\ b.sendTo = [p \in Procs |-> None] /\ b.getForm = [p \in Procs |-> None]
        /\ b.waiters = [p \in Procs |-> <<>>] /\ b.queue = BootQueue
    OBVIOUS
  <1> HIDE DEF b
  <1>5. \A p \in Procs : Clean(b, p) /\ ToSet(b.waiters[p]) = {}
                         /\ IsInjective(b.waiters[p])
    BY <1>4 DEF Clean, Sending, Receiving, ToSet, IsInjective
  <1>6. Runnable(b) = Schedulable
    BY <1>5, ClassFacts DEF Runnable
  <1>7. QueuesAre(b, Schedulable)
    BY <1>4, BootAssumption DEF QueuesAre
  <1>8. TableInv(b)
    <2>1. WaitersMatch(b)
      BY <1>4, <1>5, DistinctNames DEF WaitersMatch
    <2>2. Acyclic(b)
      BY <1>4, DistinctNames DEF Acyclic
    <2>3. NothingMissed(b) /\ PendingOwn(b) /\ HalvesAgree(b) /\ IdleClean(b)
      BY <1>5 DEF NothingMissed, PendingOwn, HalvesAgree, IdleClean, Clean
    <2>4. UsersConfined(b)
      <3> \A u \in Users : u \in Procs
        BY DEF Procs
      <3> QED BY <1>4 DEF UsersConfined
    <2> QED BY <2>1, <2>2, <2>3, <2>4 DEF TableInv
  <1>9. /\ Hunter(b) \in KernelType /\ DispatchOk(Hunter(b))
        /\ Hunter(b).queue = b.queue /\ SameTable(Hunter(b), b)
    BY <1>3, <1>7, HunterOk
  <1>10. TableInv(Hunter(b)) /\ Runnable(Hunter(b)) = Schedulable
    BY <1>3, <1>6, <1>8, <1>9, SameTableOk
  <1>11. QueuesMatch(Hunter(b))
    BY <1>7, <1>9, <1>10, QueuesMatchAre DEF QueuesAre
  <1> QED BY <1>1, <1>9, <1>10, <1>11 DEF Inv, KernelInv

\* Writing the caller's number into its message disturbs nothing.
LEMMA StampedOk ==
    ASSUME KernelInv(kernel), kernel.curr # Idle
    PROVE  /\ KernelInv(Stamped)
           /\ Stamped.curr = kernel.curr
           /\ Stamped.msg[kernel.curr] = kernel.curr
  <1>1. kernel.curr \in Procs /\ kernel \in KernelType
    BY DEF KernelInv, KernelType
  <1>2. /\ Stamped \in KernelType
        /\ Stamped.sendTo = kernel.sendTo /\ Stamped.getForm = kernel.getForm
        /\ Stamped.waiters = kernel.waiters
        /\ Stamped.msg = [kernel.msg EXCEPT ![kernel.curr] = kernel.curr]
        /\ Stamped.queue = kernel.queue /\ Stamped.curr = kernel.curr
        /\ Stamped.bill = kernel.bill
    BY <1>1 DEF Stamped, KernelType
  <1>3. TableInv(Stamped)
    <2>1. PendingOwn(Stamped)
      BY <1>1, <1>2 DEF KernelInv, KernelType, TableInv, PendingOwn, Sending
    <2> QED BY <1>2, <2>1
            DEF KernelInv, TableInv, WaitersMatch, Acyclic, NothingMissed,
                UsersConfined, HalvesAgree, IdleClean, Clean, Sending,
                Receiving, Expects
  <1>4. QueuesMatch(Stamped) /\ DispatchOk(Stamped)
    BY <1>2 DEF KernelInv, QueuesMatch, DispatchOk, Runnable, Clean, Sending,
                Receiving
  <1>5. Stamped.msg[kernel.curr] = kernel.curr
    BY <1>1, <1>2 DEF KernelType
  <1> QED BY <1>2, <1>3, <1>4, <1>5 DEF KernelInv

\* What a status OK of flyanx_send says of the destination.
LEMMA StatusOk ==
    ASSUME NEW k, NEW c, NEW d \in Procs, SendStatus(k, c, d) = "OK"
    PROVE  /\ ~WouldLock(k, c, d)
           /\ c \in Users => d \in SysServers /\ d \notin Users
  BY RolesAssumption, SlotsAssumption, ProcsAssumption DEF SendStatus

\* flyanx_send preserves the invariant, if it does not return an error.
LEMMA SendOk ==
    ASSUME NEW k, KernelInv(k), k.curr # Idle, k.msg[k.curr] = k.curr,
           NEW d \in Procs \ {k.curr},
           SendStatus(k, k.curr, d) = "OK"
    PROVE  KernelInv(SendEffect(k, k.curr, d))
  <1> DEFINE c == k.curr
  <1>1. c \in Runnable(k) /\ c \in Procs /\ AtHead(k, c)
    BY CallerOk
  <1>2. /\ ~WouldLock(k, c, d)
        /\ c \in Users => d \in SysServers /\ d \notin Users
    BY StatusOk
  <1>3. CASE Expects(k, d, c)
    BY <1>1, <1>2, <1>3, DeliverOk DEF SendEffect
  <1>4. CASE ~Expects(k, d, c)
    BY <1>1, <1>2, <1>4, BlockSenderOk DEF SendEffect
  <1> QED BY <1>3, <1>4

\* SEND_REC: after either outcome of the send, the receive blocks.  Had the
\* destination an answer waiting already, its own send would have been to
\* the caller, and it could not have been waiting for the caller's.
LEMMA SendRecOk ==
    ASSUME NEW k, KernelInv(k), k.curr # Idle, k.msg[k.curr] = k.curr,
           NEW d \in Procs \ {k.curr}, SendStatus(k, k.curr, d) = "OK"
    PROVE  KernelInv(ReceiveEffect(SendEffect(k, k.curr, d), k.curr, d))
  <1> DEFINE c == k.curr
  <1>1. /\ c \in Runnable(k) /\ c \in Procs /\ AtHead(k, c) /\ c \in Schedulable
        /\ k.sendTo[c] = None /\ k.getForm[c] = None
        /\ k \in KernelType /\ TableInv(k)
    BY CallerOk DEF Clean, Sending, Receiving, KernelInv
  <1>2. /\ ~WouldLock(k, c, d)
        /\ c \in Users => d \in SysServers /\ d \notin Users
    BY StatusOk
  <1>3. c # None /\ d # None /\ d # ANY
    BY <1>1, DistinctNames
  <1>4. CASE Expects(k, d, c)
    <2> DEFINE j == Deliver(k, c, d)
    <2>1. SendEffect(k, c, d) = j
      BY <1>4 DEF SendEffect
    <2>2. d \in Users => c \notin Users \cup {Idle}
      BY <1>2
    <2>3. /\ KernelInv(j) /\ j.sendTo = k.sendTo /\ j.waiters = k.waiters
          /\ j.getForm = [k.getForm EXCEPT ![d] = None]
          /\ AtHead(j, c)
      BY <1>1, <1>2, <1>4, <2>2, DeliverOk
    <2> HIDE DEF j
    <2>4. ~Sending(j, c) /\ ~Receiving(j, c)
      BY <1>1, <2>3 DEF Sending, Receiving, KernelType
    <2>5. Acceptable(j, c, d) = {}
      <3>1. k.sendTo[d] = None
        BY <1>4 DEF Expects, Sending
      <3>2. d \notin ToSet(k.waiters[c])
        BY <1>1, <1>3, <3>1 DEF TableInv, WaitersMatch
      <3> QED BY <1>3, <2>3, <3>2 DEF Acceptable, ToSet
    <2>6. ReceiveEffect(j, c, d) = BlockReceiver(j, c, d)
      BY <2>5 DEF ReceiveEffect
    <2>7. KernelInv(BlockReceiver(j, c, d))
      BY <1>1, <1>2, <2>3, <2>4, <2>5, BlockReceiverOk
    <2> QED BY <2>1, <2>6, <2>7
  <1>5. CASE ~Expects(k, d, c)
    <2> DEFINE j == BlockSender(k, c, d)
    <2>1. SendEffect(k, c, d) = j
      BY <1>5 DEF SendEffect
    <2>2. /\ KernelInv(j) /\ j.sendTo = [k.sendTo EXCEPT ![c] = d]
          /\ j.getForm = k.getForm
      BY <1>1, <1>2, <1>5, BlockSenderOk
    <2> HIDE DEF j
    <2>3. j.sendTo[c] = d /\ Sending(j, c) /\ ~Receiving(j, c)
      BY <1>1, <1>3, <2>2 DEF Sending, Receiving, KernelType
    <2>4. ReceiveEffect(j, c, d) = BlockReceiver(j, c, d)
      BY <2>3 DEF ReceiveEffect
    <2>5. KernelInv(BlockReceiver(j, c, d))
      BY <1>1, <1>2, <2>2, <2>3, BlockReceiverOk
    <2> QED BY <2>1, <2>4, <2>5
  <1> QED BY <1>4, <1>5

\* Every step preserves the invariant: one case for each kind of call, the
\* interrupt and the panic.
LEMMA NextInv == Inv /\ [Next]_vars => Inv'
  <1> SUFFICES ASSUME Inv, [Next]_vars PROVE Inv'
    OBVIOUS
  <1>1. KernelInv(kernel) /\ up \in BOOLEAN
    BY DEF Inv
  <1>2. CASE UNCHANGED vars
    BY <1>1, <1>2 DEF Inv, vars
  <1>3. CASE RefusedCall
    BY <1>1, <1>3 DEF Inv, RefusedCall, vars
  <1>4. CASE SelfSendCall
    BY <1>1, <1>4 DEF Inv, SelfSendCall
  <1>5. ASSUME NEW dest \in Procs, SendCall(dest) PROVE Inv'
    <2>1. /\ kernel.curr # Idle /\ kernel.curr \notin Users /\ dest # kernel.curr
          /\ KernelInv(Stamped) /\ Stamped.curr = kernel.curr
          /\ Stamped.msg[kernel.curr] = kernel.curr
      BY <1>1, <1>5, StampedOk DEF SendCall, Running
    <2>2. CASE SendStatus(Stamped, kernel.curr, dest) = "OK"
      <3>1. KernelInv(SendEffect(Stamped, kernel.curr, dest))
        BY <2>1, <2>2, SendOk
      <3> QED BY <1>1, <1>5, <2>2, <3>1 DEF Inv, SendCall
    <2>3. CASE SendStatus(Stamped, kernel.curr, dest) # "OK"
      BY <1>1, <1>5, <2>1, <2>3 DEF Inv, SendCall
    <2> QED BY <2>2, <2>3
  <1>6. ASSUME NEW dest \in Procs, SendRecCall(dest) PROVE Inv'
    <2>1. /\ kernel.curr # Idle /\ dest # kernel.curr
          /\ KernelInv(Stamped) /\ Stamped.curr = kernel.curr
          /\ Stamped.msg[kernel.curr] = kernel.curr
      BY <1>1, <1>6, StampedOk DEF SendRecCall, Running
    <2>2. CASE SendStatus(Stamped, kernel.curr, dest) = "OK"
      <3>1. KernelInv(ReceiveEffect(SendEffect(Stamped, kernel.curr, dest),
                                    kernel.curr, dest))
        BY <2>1, <2>2, SendRecOk
      <3> QED BY <1>1, <1>6, <2>2, <3>1 DEF Inv, SendRecCall
    <2>3. CASE SendStatus(Stamped, kernel.curr, dest) # "OK"
      BY <1>1, <1>6, <2>1, <2>3 DEF Inv, SendRecCall
    <2> QED BY <2>2, <2>3
  <1>7. ASSUME NEW src \in Procs \cup {ANY}, ReceiveCall(src) PROVE Inv'
    <2>1. kernel.curr \notin Users \cup {Idle}
      BY <1>7 DEF ReceiveCall, Running
    <2>2. KernelInv(ReceiveEffect(kernel, kernel.curr, src))
      BY <1>1, <2>1, ReceiveOk
    <2> QED BY <1>1, <1>7, <2>2 DEF Inv, ReceiveCall
  <1>8. ASSUME NEW task \in IntTasks, Interrupt(task) PROVE Inv'
    <2>1. KernelInv(InterruptEffect(kernel, task))
      BY <1>1, InterruptOk
    <2> QED BY <1>1, <1>8, <2>1 DEF Inv, Interrupt
  <1>9. CASE Down
    BY <1>1, <1>9 DEF Inv, Down, vars
  <1> QED BY <1>2, <1>3, <1>4, <1>5, <1>6, <1>7, <1>8, <1>9 DEF Next

\* The inductive invariant holds for ever.
THEOREM Invariance == Spec => []Inv
  BY InitInv, NextInv, PTL DEF Spec

\* The process table never leaves its types: no call path stores a garbage
\* number or a garbage link, whatever the processes ask for.
THEOREM TypeCorrect == Spec => []TypeOK
  <1>1. Inv => TypeOK
    BY DEF Inv, KernelInv, TypeOK
  <1> QED BY Invariance, <1>1, PTL

\* The chains of waiters are exactly the pending sends (flyanx_send,
\* flyanx_receive).
THEOREM WaitersCorrect == Spec => []WaitersExact
  <1>1. Inv => WaitersExact
    BY DEF Inv, KernelInv, TableInv, WaitersExact
  <1> QED BY Invariance, <1>1, PTL

\* No cycle of senders ever forms, for any number of processes.
THEOREM DeadlockFreeSends == Spec => []NoSendCycle
  <1>1. Inv => NoSendCycle
    BY DEF Inv, KernelInv, TableInv, NoSendCycle
  <1> QED BY Invariance, <1>1, PTL

\* No rendezvous is missed, SEND_REC's two halves included.
THEOREM RendezvousComplete == Spec => []NoMissedRendezvous
  <1>1. Inv => NoMissedRendezvous
    BY DEF Inv, KernelInv, TableInv, NoMissedRendezvous
  <1> QED BY Invariance, <1>1, PTL

\* A pending message keeps its sender's content until it is copied.
THEOREM PendingIntact == Spec => []PendingMessageIntact
  <1>1. Inv => PendingMessageIntact
    BY DEF Inv, KernelInv, TableInv, PendingMessageIntact
  <1> QED BY Invariance, <1>1, PTL

\* The ready queues hold exactly the runnable processes.
THEOREM QueuesCorrect == Spec => []ReadyExact
  <1>1. Inv => ReadyExact
    BY DEF Inv, KernelInv, ReadyExact
  <1> QED BY Invariance, <1>1, PTL

\* The current process is always the head of its queue, so the branch of
\* unready that would unlink the wrong process is never taken.
THEOREM DispatchCorrect == Spec => []Dispatched
  <1>1. Inv => Dispatched
    BY DEF Inv, KernelInv, Dispatched
  <1> QED BY Invariance, <1>1, PTL

\* Users wait for system servers only.
THEOREM UsersIsolated == Spec => []UsersCallServersOnly
  <1>1. Inv => UsersCallServersOnly
    BY DEF Inv, KernelInv, TableInv, UsersCallServersOnly
  <1> QED BY Invariance, <1>1, PTL

\* If the walk from d meets c, blocking c on d closes a cycle: the processes
\* from which the walk leads to c (the least set that holds c and whoever
\* sends into it) then all send to one another.
LEMMA CycleIfMet ==
    ASSUME NEW k \in KernelType, NEW c \in Procs, NEW d \in Procs \ {c},
           ~Sending(k, c), WouldLock(k, c, d),
           NEW j, j.sendTo = [k.sendTo EXCEPT ![c] = d]
    PROVE  ~Acyclic(j)
  <1> DEFINE Backward(B) == /\ c \in B
                            /\ \A p \in Procs : k.sendTo[p] \in B => p \in B
             L == {p \in Procs : \A B \in SUBSET Procs : Backward(B) => p \in B}
  <1>0. \A p \in L, B \in SUBSET Procs : Backward(B) => p \in B
    OBVIOUS
  <1>1. Backward(L)
    <2>1. c \in L
      OBVIOUS
    <2>2. ASSUME NEW p \in Procs, k.sendTo[p] \in L PROVE p \in L
      BY <2>2
    <2> QED BY <2>1, <2>2
  <1>2. d \in L
    <2> SUFFICES ASSUME NEW B \in SUBSET Procs, Backward(B), d \notin B
                 PROVE  FALSE
      OBVIOUS
    <2> DEFINE W == Procs \ B
    <2>1. \A p \in W : Sending(k, p) => k.sendTo[p] \in W
      BY DEF KernelType, Sending
    <2>2. d \in W /\ c \notin W /\ W \in SUBSET Procs
      OBVIOUS
    <2> QED BY <2>1, <2>2 DEF WouldLock
  <1>3. ASSUME NEW p \in L \ {c} PROVE k.sendTo[p] \in L
    <2> SUFFICES ASSUME k.sendTo[p] \notin L PROVE FALSE
      OBVIOUS
    <2> DEFINE B == L \ {p}
    <2>1. Backward(B)
      <3>1. c \in B
        BY <1>1
      <3>2. ASSUME NEW x \in Procs, k.sendTo[x] \in B PROVE x \in B
        <4>1. x \in L
          BY <1>1, <3>2
        <4>2. x # p
          BY <3>2
        <4> QED BY <4>1, <4>2
      <3> QED BY <3>1, <3>2
    <2>2. B \in SUBSET Procs
      OBVIOUS
    <2>3. p \in B
      <3> HIDE DEF B, L
      <3> QED BY <1>0, <2>1, <2>2
    <2> QED BY <2>3
  <1> HIDE DEF L
  <1>4. \A p \in L : j.sendTo[p] \in L
    <2>1. L \subseteq Procs
      BY DEF L
    <2> QED BY <1>2, <1>3, <2>1 DEF KernelType
  <1>5. L # {} /\ L \in SUBSET Procs
    BY <1>2 DEF L
  <1> QED BY <1>4, <1>5 DEF Acyclic

\* ERROR_LOCKED is exact: the walk along send_to refuses the sends that
\* would deadlock, and only those, in a process table of any size.
THEOREM LockCheckCorrect == Spec => []LockCheckExact
  <1>1. Inv => LockCheckExact
    <2> SUFFICES ASSUME Inv, NEW d \in Procs \ {kernel.curr}
                 PROVE  WouldLock(kernel, kernel.curr, d)
                          <=> ~Acyclic([kernel EXCEPT !.sendTo[kernel.curr] = d])
      BY DEF LockCheckExact, LockCheckMatches
    <2> DEFINE c == kernel.curr
               j == [kernel EXCEPT !.sendTo[c] = d]
    <2>1. kernel \in KernelType /\ Acyclic(kernel) /\ c \in Procs
      BY DEF Inv, KernelInv, TableInv, KernelType
    <2>2. ~Sending(kernel, c)
      <3>1. CASE c = Idle
        BY <2>1, <3>1, ClassFacts DEF Inv, KernelInv, TableInv, IdleClean, Clean
      <3>2. CASE c # Idle
        BY <3>2, CallerOk DEF Inv, Clean
      <3> QED BY <3>1, <3>2
    <2>3. j.sendTo = [kernel.sendTo EXCEPT ![c] = d]
      BY <2>1 DEF KernelType
    <2>0. d \in Procs \ {c}
      OBVIOUS
    <2> HIDE DEF j, c
    <2>4. WouldLock(kernel, c, d) => ~Acyclic(j)
      BY <2>0, <2>1, <2>2, <2>3, CycleIfMet
    <2>5. ~WouldLock(kernel, c, d) => Acyclic(j)
      BY <2>1, <2>3, NoCycleClosed
    <2>6. WouldLock(kernel, c, d) <=> ~Acyclic(j)
      BY <2>4, <2>5 DEF WouldLock, Acyclic
    <2> USE DEF c, j
    <2> QED BY <2>6
  <1> QED BY Invariance, <1>1, PTL

-----------------------------------------------------------------------------
(* The action properties: who is released was served, and senders are      *)
(* served in the order they came in.                                       *)
(*                                                                         *)
(* What flyanx_send and flyanx_receive may do to the table is said once,   *)
(* as the shapes SendShape and ReceiveShape; SEND_REC is the one after the *)
(* other.  That a buffer still holds its sender's message and that chains  *)
(* have no repetition comes from the invariant.                            *)

\* What DeliveryCorrect says of a step from record k to record j.
DeliversRight(k, j) ==
    \A p \in Procs :
      /\ Sending(k, p) /\ ~Sending(j, p) => j.msg[k.sendTo[p]] = p
      /\ Receiving(k, p) /\ ~Receiving(j, p) =>
           k.getForm[p] \in {j.msg[p], ANY}

\* What NoOvertaking says of one chain.
OrderKept(before, after) ==
    \A i, j \in DOMAIN after : i < j =>
      /\ after[j] \in ToSet(before) => after[i] \in ToSet(before)
      /\ \A a, b \in DOMAIN before :
           after[i] = before[a] /\ after[j] = before[b] => a < b

KeepsOrder(k, j) == \A d \in Procs : OrderKept(k.waiters[d], j.waiters[d])

Correct(k, j) == DeliversRight(k, j) /\ KeepsOrder(k, j)

\* flyanx_send hands the message over, or puts the caller into the chain.
SendShape(k, j, c, d) ==
    \/ /\ ~Sending(k, d) /\ k.getForm[d] \in {c, ANY}
       /\ j.sendTo = k.sendTo /\ j.waiters = k.waiters
       /\ j.getForm = [k.getForm EXCEPT ![d] = None]
       /\ j.msg = [k.msg EXCEPT ![d] = k.msg[c]]
    \/ /\ j.sendTo = [k.sendTo EXCEPT ![c] = d]
       /\ j.waiters = [k.waiters EXCEPT ![d] = Append(k.waiters[d], c)]
       /\ j.getForm = k.getForm /\ j.msg = k.msg

\* flyanx_receive takes the message of a waiter, or blocks the caller.
ReceiveShape(k, j, c, src) ==
    \/ /\ ~Sending(k, c)
       /\ \E i \in DOMAIN k.waiters[c] :
            LET s == k.waiters[c][i] IN
            /\ j.sendTo = [k.sendTo EXCEPT ![s] = None]
            /\ j.waiters = [k.waiters EXCEPT ![c] = RemoveAt(k.waiters[c], i)]
            /\ j.msg = [k.msg EXCEPT ![c] = k.msg[s]]
       /\ j.getForm = k.getForm
    \/ /\ j.sendTo = k.sendTo /\ j.waiters = k.waiters
       /\ j.getForm = [k.getForm EXCEPT ![c] = src]
       /\ \A p \in Procs \ {c} : j.msg[p] = k.msg[p]

-----------------------------------------------------------------------------
(* Chains.                                                                 *)

\* A chain that stays as it is keeps its order, since nobody is in it twice.
LEMMA SameChain ==
    ASSUME NEW S, NEW q \in Seq(S), IsInjective(q)
    PROVE  OrderKept(q, q)
  BY DEF OrderKept, IsInjective, ToSet

\* A newcomer at the end.
LEMMA LongerChain ==
    ASSUME NEW S, NEW q \in Seq(S), NEW e \in S, IsInjective(q), e \notin ToSet(q)
    PROVE  OrderKept(q, Append(q, e))
  <1> DEFINE r == Append(q, e)
  <1>1. /\ Len(q) \in Nat /\ DOMAIN q = 1..Len(q) /\ DOMAIN r = 1..(Len(q) + 1)
        /\ \A i \in 1..Len(q) : r[i] = q[i]
        /\ r[Len(q) + 1] = e
    OBVIOUS
  <1> HIDE DEF r
  <1> SUFFICES ASSUME NEW i \in DOMAIN r, NEW j \in DOMAIN r, i < j
               PROVE  /\ r[i] \in ToSet(q)
                      /\ \A a, b \in DOMAIN q :
                           r[i] = q[a] /\ r[j] = q[b] => a < b
    BY DEF OrderKept, r
  <1>2. i \in DOMAIN q /\ r[i] = q[i]
    BY <1>1
  <1>3. ASSUME NEW a \in DOMAIN q, NEW b \in DOMAIN q, r[i] = q[a], r[j] = q[b]
        PROVE  a < b
    <2>1. j # Len(q) + 1
      BY <1>1, <1>3 DEF ToSet
    <2>2. j \in DOMAIN q /\ r[j] = q[j]
      BY <1>1, <2>1
    <2>3. a = i /\ b = j
      BY <1>2, <1>3, <2>2 DEF IsInjective
    <2> QED BY <2>3
  <1> QED BY <1>2, <1>3 DEF ToSet

\* Removing keeps the type of a sequence.
LEMMA RemoveAtSeq ==
    ASSUME NEW S, NEW q \in Seq(S), NEW n \in DOMAIN q
    PROVE  RemoveAt(q, n) \in Seq(S)
  <1>1. SubSeq(q, 1, n - 1) \in Seq(S) /\ SubSeq(q, n + 1, Len(q)) \in Seq(S)
    OBVIOUS
  <1> QED BY <1>1, ConcatProperties DEF RemoveAt

\* One that is unlinked, wherever it is.
LEMMA ShorterChain ==
    ASSUME NEW S, NEW q \in Seq(S), NEW n \in DOMAIN q, IsInjective(q)
    PROVE  OrderKept(q, RemoveAt(q, n))
  <1> DEFINE x == SubSeq(q, 1, n - 1)
             y == SubSeq(q, n + 1, Len(q))
             r == RemoveAt(q, n)
             at(i) == IF i < n THEN i ELSE i + 1
  <1>1. n \in 1..Len(q) /\ Len(q) \in Nat /\ DOMAIN q = 1..Len(q)
    OBVIOUS
  <1>2. /\ x \in Seq(S) /\ Len(x) = n - 1 /\ \A i \in 1..(n - 1) : x[i] = q[i]
        /\ y \in Seq(S) /\ Len(y) = Len(q) - n
        /\ \A i \in 1..(Len(q) - n) : y[i] = q[i + n]
    BY <1>1
  <1>3. r = x \o y
    BY DEF RemoveAt
  <1> HIDE DEF x, y, r
  <1>4. /\ DOMAIN r = 1..(Len(q) - 1)
        /\ \A i \in 1..(Len(q) - 1) : r[i] = IF i <= n - 1 THEN x[i]
                                            ELSE y[i - (n - 1)]
    <2>1. /\ x \o y \in Seq(S) /\ Len(x \o y) = Len(x) + Len(y)
          /\ \A i \in 1..Len(x) + Len(y) :
               (x \o y)[i] = IF i <= Len(x) THEN x[i] ELSE y[i - Len(x)]
      BY <1>2, ConcatProperties
    <2>2. Len(x) + Len(y) = Len(q) - 1 /\ Len(x) = n - 1
      BY <1>1, <1>2
    <2> QED BY <1>3, <2>1, <2>2
  <1>5. ASSUME NEW i \in DOMAIN r
        PROVE  at(i) \in DOMAIN q /\ r[i] = q[at(i)] /\ i \in Nat
    <2>1. CASE i < n
      BY <1>1, <1>2, <1>4, <2>1
    <2>2. CASE ~(i < n)
      <3>1. /\ r[i] = y[i - (n - 1)] /\ i - (n - 1) \in 1..(Len(q) - n)
            /\ i - (n - 1) + n = i + 1 /\ i + 1 \in DOMAIN q
        BY <1>1, <1>4, <2>2
      <3> QED BY <1>2, <1>4, <2>2, <3>1
    <2> QED BY <2>1, <2>2
  <1>6. \A i \in DOMAIN r, a \in DOMAIN q : r[i] = q[a] => a = at(i)
    BY <1>5 DEF IsInjective
  <1>7. \A i, j \in DOMAIN r : i < j => at(i) < at(j)
    BY <1>1, <1>5
  <1>8. \A i \in DOMAIN r : r[i] \in ToSet(q)
    BY <1>5 DEF ToSet
  <1> HIDE DEF at
  <1>9. OrderKept(q, r)
    BY <1>6, <1>7, <1>8 DEF OrderKept
  <1> QED BY <1>9 DEF r

-----------------------------------------------------------------------------
(* The routines.                                                           *)

\* ready and unready touch the queues only, whoever they are called for.
LEMMA QueuesOnly ==
    ASSUME NEW k \in KernelType, NEW p
    PROVE  SameTable(Ready(k, p), k) /\ SameTable(Unready(k, p), k)
  <1>1. SameTable(Ready(k, p), k)
    BY DEF Ready, SameTable, KernelType
  <1>2. \A q : SameTable(Hunter([k EXCEPT !.queue[Class(p)] = q]), k)
    BY DEF Hunter, SameTable, KernelType
  <1>3. \A q : SameTable([k EXCEPT !.queue[Class(p)] = q], k)
    BY DEF SameTable, KernelType
  <1>4. SameTable(k, k)
    BY DEF SameTable
  <1>5. SameTable(Unready(k, p), k)
    BY <1>2, <1>3, <1>4 DEF Unready
  <1> QED BY <1>1, <1>5

\* flyanx_send.
LEMMA SendShaped ==
    ASSUME NEW k \in KernelType, NEW c \in Procs, NEW d \in Procs
    PROVE  SendShape(k, SendEffect(k, c, d), c, d)
  <1>1. CASE Expects(k, d, c)
    <2> DEFINE m == [k EXCEPT !.msg[d] = k.msg[c], !.getForm[d] = None]
    <2>1. SendEffect(k, c, d) = Ready(m, d)
      BY <1>1 DEF SendEffect, Deliver
    <2>2. /\ m \in KernelType /\ m.sendTo = k.sendTo /\ m.waiters = k.waiters
          /\ m.getForm = [k.getForm EXCEPT ![d] = None]
          /\ m.msg = [k.msg EXCEPT ![d] = k.msg[c]]
      BY DEF KernelType
    <2> HIDE DEF m
    <2>3. SameTable(Ready(m, d), m)
      BY <2>2, QueuesOnly
    <2> QED BY <1>1, <2>1, <2>2, <2>3 DEF SendShape, SameTable, Expects
  <1>2. CASE ~Expects(k, d, c)
    <2> DEFINE o == IF Clean(k, c) THEN Unready(k, c) ELSE k
               j == [o EXCEPT !.sendTo[c] = d,
                              !.waiters[d] = Append(o.waiters[d], c)]
    <2>1. SendEffect(k, c, d) = j
      BY <1>2 DEF SendEffect, BlockSender
    <2>2. SameTable(o, k)
      BY QueuesOnly DEF SameTable
    <2> HIDE DEF o
    <2>3. /\ j.sendTo = [o.sendTo EXCEPT ![c] = d] /\ j.getForm = o.getForm
          /\ j.waiters = [o.waiters EXCEPT ![d] = Append(o.waiters[d], c)]
          /\ j.msg = o.msg
      OBVIOUS
    <2> QED BY <2>1, <2>2, <2>3 DEF SendShape, SameTable
  <1> QED BY <1>1, <1>2

\* flyanx_receive.
LEMMA ReceiveShaped ==
    ASSUME NEW k \in KernelType, NEW c \in Procs, NEW src \in Procs \cup {ANY}
    PROVE  ReceiveShape(k, ReceiveEffect(k, c, src), c, src)
  <1> DEFINE found == Acceptable(k, c, src)
  <1>1. CASE ~Sending(k, c) /\ found # {}
    <2> DEFINE i == CHOOSE i \in found : \A n \in found : i <= n
               s == k.waiters[c][i]
               m == [k EXCEPT !.msg[c] = k.msg[s],
                              !.waiters[c] = RemoveAt(k.waiters[c], i),
                              !.sendTo[s] = None]
    <2>1. k.waiters[c] \in Seq(Procs)
      BY DEF KernelType
    <2>2. i \in DOMAIN k.waiters[c]
      <3>1. found \subseteq DOMAIN k.waiters[c] /\ found \subseteq Nat
        BY <2>1 DEF Acceptable
      <3>2. \E n \in found : \A x \in found : n <= x
        BY <1>1, <3>1, MinExists
      <3> QED BY <3>1, <3>2
    <2>3. ReceiveEffect(k, c, src) = TakeFrom(k, c, i)
      BY <1>1 DEF ReceiveEffect
    <2> HIDE DEF i
    <2>4. s \in Procs
      BY <2>1, <2>2
    <2>5. TakeFrom(k, c, i) = IF Clean(m, s) THEN Ready(m, s) ELSE m
      BY DEF TakeFrom
    <2>6. m \in KernelType
      <3>1. RemoveAt(k.waiters[c], i) \in Seq(Procs)
        BY <2>1, <2>2, RemoveAtSeq
      <3> QED BY <2>4, <3>1 DEF KernelType
    <2>7. /\ m.sendTo = [k.sendTo EXCEPT ![s] = None]
          /\ m.waiters = [k.waiters EXCEPT ![c] = RemoveAt(k.waiters[c], i)]
          /\ m.msg = [k.msg EXCEPT ![c] = k.msg[s]] /\ m.getForm = k.getForm
      BY DEF KernelType
    <2> HIDE DEF m
    <2>8. SameTable(TakeFrom(k, c, i), m)
      BY <2>5, <2>6, QueuesOnly DEF SameTable
    <2> QED BY <1>1, <2>2, <2>3, <2>7, <2>8 DEF ReceiveShape, SameTable
  <1>2. CASE ~(~Sending(k, c) /\ found # {})
    <2> DEFINE o == IF Clean(k, c) THEN Unready(k, c) ELSE k
               j == [o EXCEPT !.getForm[c] = src,
                              !.msg[c] = IF Sending(k, c) THEN o.msg[c] ELSE None]
    <2>1. ReceiveEffect(k, c, src) = j
      BY <1>2 DEF ReceiveEffect, BlockReceiver
    <2>2. SameTable(o, k)
      BY QueuesOnly DEF SameTable
    <2> HIDE DEF o
    <2>3. /\ j.sendTo = o.sendTo /\ j.waiters = o.waiters
          /\ j.getForm = [o.getForm EXCEPT ![c] = src]
          /\ j.msg = [o.msg EXCEPT ![c] = IF Sending(k, c) THEN o.msg[c] ELSE None]
      OBVIOUS
    <2>4. \A p \in Procs \ {c} : j.msg[p] = k.msg[p]
      BY <2>2, <2>3 DEF SameTable, KernelType
    <2> QED BY <2>1, <2>2, <2>3, <2>4 DEF ReceiveShape, SameTable
  <1> QED BY <1>1, <1>2

-----------------------------------------------------------------------------
(* What the shapes mean for who waits.                                     *)

\* Where the table stays as it is, nobody is released and no chain changes.
LEMMA SameCorrect ==
    ASSUME NEW k \in KernelType, WaitersMatch(k), NEW j,
           j.sendTo = k.sendTo, j.getForm = k.getForm, j.waiters = k.waiters
    PROVE  Correct(k, j)
  <1>1. KeepsOrder(k, j)
    BY SameChain DEF KeepsOrder, WaitersMatch, KernelType
  <1> QED BY <1>1 DEF Correct, DeliversRight, Sending, Receiving

\* A call of flyanx_send, the caller's message being its own.
LEMMA SendCorrect ==
    ASSUME NEW k \in KernelType, TableInv(k), NEW c \in Procs, Clean(k, c),
           k.msg[c] = c, NEW d \in Procs, NEW j, SendShape(k, j, c, d)
    PROVE  Correct(k, j)
  <1>1. /\ \A x \in Procs : k.waiters[x] \in Seq(Procs) /\ IsInjective(k.waiters[x])
        /\ \A x \in Procs : c \notin ToSet(k.waiters[x])
    BY DistinctNames DEF TableInv, WaitersMatch, KernelType, Clean, Sending
  <1>2. d # None /\ c # None
    BY DistinctNames
  <1>3. CASE /\ ~Sending(k, d) /\ k.getForm[d] \in {c, ANY}
             /\ j.sendTo = k.sendTo /\ j.waiters = k.waiters
             /\ j.getForm = [k.getForm EXCEPT ![d] = None]
             /\ j.msg = [k.msg EXCEPT ![d] = k.msg[c]]
    <2>1. KeepsOrder(k, j)
      BY <1>1, <1>3, SameChain DEF KeepsOrder
    <2>2. j.msg[d] = c /\ \A p \in Procs \ {d} : j.getForm[p] = k.getForm[p]
      BY <1>3 DEF KernelType
    <2>3. DeliversRight(k, j)
      BY <1>3, <2>2 DEF DeliversRight, Sending, Receiving
    <2> QED BY <2>1, <2>3 DEF Correct
  <1>4. CASE /\ j.sendTo = [k.sendTo EXCEPT ![c] = d]
             /\ j.waiters = [k.waiters EXCEPT ![d] = Append(k.waiters[d], c)]
             /\ j.getForm = k.getForm /\ j.msg = k.msg
    <2>1. ASSUME NEW x \in Procs PROVE OrderKept(k.waiters[x], j.waiters[x])
      <3>1. CASE x = d
        <4>1. j.waiters[x] = Append(k.waiters[x], c)
          BY <1>4, <3>1 DEF KernelType
        <4> QED BY <1>1, <4>1, LongerChain
      <3>2. CASE x # d
        <4>1. j.waiters[x] = k.waiters[x]
          BY <1>4, <3>2 DEF KernelType
        <4> QED BY <1>1, <4>1, SameChain
      <3> QED BY <3>1, <3>2
    <2>2. \A p \in Procs : Sending(k, p) => Sending(j, p)
      BY <1>2, <1>4 DEF Sending, KernelType
    <2>3. DeliversRight(k, j)
      BY <1>4, <2>2 DEF DeliversRight, Receiving
    <2> QED BY <2>1, <2>3 DEF Correct, KeepsOrder
  <1> QED BY <1>3, <1>4 DEF SendShape

\* A call of flyanx_receive.
LEMMA ReceiveCorrect ==
    ASSUME NEW k \in KernelType, TableInv(k), NEW c \in Procs, ~Receiving(k, c),
           NEW src \in Procs \cup {ANY}, NEW j, ReceiveShape(k, j, c, src)
    PROVE  Correct(k, j)
  <1>1. \A x \in Procs : k.waiters[x] \in Seq(Procs) /\ IsInjective(k.waiters[x])
    BY DEF TableInv, WaitersMatch, KernelType
  <1>2. ASSUME ~Sending(k, c), j.getForm = k.getForm,
               NEW i \in DOMAIN k.waiters[c], NEW s, s = k.waiters[c][i],
               j.sendTo = [k.sendTo EXCEPT ![s] = None],
               j.waiters = [k.waiters EXCEPT ![c] = RemoveAt(k.waiters[c], i)],
               j.msg = [k.msg EXCEPT ![c] = k.msg[s]]
        PROVE  Correct(k, j)
    <2>1. s \in Procs /\ k.sendTo[s] = c /\ k.msg[s] = s /\ j.msg[c] = s
      <3>1. s \in ToSet(k.waiters[c])
        BY <1>2 DEF ToSet
      <3>2. s \in Procs /\ k.sendTo[s] = c
        BY <3>1 DEF TableInv, WaitersMatch
      <3>3. k.msg[s] = s
        BY <3>2, DistinctNames DEF TableInv, PendingOwn, Sending
      <3> QED BY <1>2, <3>2, <3>3 DEF KernelType
    <2>2. ASSUME NEW x \in Procs PROVE OrderKept(k.waiters[x], j.waiters[x])
      <3>1. CASE x = c
        <4>1. j.waiters[x] = RemoveAt(k.waiters[x], i)
          BY <1>2, <3>1 DEF KernelType
        <4> QED BY <1>1, <1>2, <3>1, <4>1, ShorterChain
      <3>2. CASE x # c
        <4>1. j.waiters[x] = k.waiters[x]
          BY <1>2, <3>2 DEF KernelType
        <4> QED BY <1>1, <4>1, SameChain
      <3> QED BY <3>1, <3>2
    <2>3. \A p \in Procs \ {s} : j.sendTo[p] = k.sendTo[p]
      BY <1>2 DEF KernelType
    <2>4. DeliversRight(k, j)
      BY <1>2, <2>1, <2>3 DEF DeliversRight, Sending, Receiving
    <2> QED BY <2>2, <2>4 DEF Correct, KeepsOrder
  <1>3. CASE /\ j.sendTo = k.sendTo /\ j.waiters = k.waiters
             /\ j.getForm = [k.getForm EXCEPT ![c] = src]
    <2>1. KeepsOrder(k, j)
      BY <1>1, <1>3, SameChain DEF KeepsOrder
    <2>2. \A p \in Procs \ {c} : j.getForm[p] = k.getForm[p]
      BY <1>3 DEF KernelType
    <2>3. DeliversRight(k, j)
      BY <1>3, <2>2 DEF DeliversRight, Sending, Receiving
    <2> QED BY <2>1, <2>3 DEF Correct
  <1> QED BY <1>2, <1>3 DEF ReceiveShape

\* SEND_REC: the second half undoes nothing of the first.  A receiver that
\* was served keeps its message, since only the caller's buffer is written
\* then; a caller that blocked as a sender takes nothing.
LEMMA SendRecCorrect ==
    ASSUME NEW k \in KernelType, TableInv(k), NEW c \in Procs, Clean(k, c),
           k.msg[c] = c, NEW d \in Procs \ {c},
           NEW h \in KernelType, TableInv(h), SendShape(k, h, c, d),
           NEW j, ReceiveShape(h, j, c, d)
    PROVE  Correct(k, j)
  <1>1. d # None /\ c # None /\ k.sendTo[c] = None /\ k.getForm[c] = None
    BY DistinctNames DEF Clean, Sending, Receiving
  <1>2. Correct(k, h)
    BY SendCorrect
  <1>3. CASE /\ h.sendTo = k.sendTo /\ h.waiters = k.waiters
             /\ k.getForm[d] \in {c, ANY}
             /\ h.getForm = [k.getForm EXCEPT ![d] = None]
             /\ h.msg = [k.msg EXCEPT ![d] = k.msg[c]]
    <2>1. /\ h.msg[d] = c /\ h.getForm[c] = None
          /\ \A p \in Procs \ {d} : h.getForm[p] = k.getForm[p]
      BY <1>1, <1>3 DEF KernelType
    <2>2. Correct(h, j)
      BY <2>1, ReceiveCorrect DEF Receiving
    <2>3. \A p \in Procs \ {c} : j.msg[p] = h.msg[p]
      BY DEF ReceiveShape, KernelType
    <2>4. KeepsOrder(k, j)
      BY <1>3, <2>2 DEF Correct, KeepsOrder
    <2>5. DeliversRight(k, j)
      <3>1. ASSUME NEW p \in Procs, Sending(k, p), ~Sending(j, p)
            PROVE  j.msg[k.sendTo[p]] = p
        BY <1>3, <2>2, <3>1 DEF Correct, DeliversRight, Sending
      <3>2. ASSUME NEW p \in Procs, Receiving(k, p), ~Receiving(j, p)
            PROVE  k.getForm[p] \in {j.msg[p], ANY}
        <4>1. CASE p = d
          BY <1>3, <2>1, <2>3, <4>1
        <4>2. CASE p # d
          BY <2>1, <2>2, <3>2, <4>2 DEF Correct, DeliversRight, Receiving
        <4> QED BY <4>1, <4>2
      <3> QED BY <3>1, <3>2 DEF DeliversRight
    <2> QED BY <2>4, <2>5 DEF Correct
  <1>4. CASE /\ h.sendTo = [k.sendTo EXCEPT ![c] = d] /\ h.getForm = k.getForm
    <2>1. Sending(h, c) /\ \A p \in Procs : Sending(k, p) => Sending(h, p)
      BY <1>1, <1>4 DEF Sending, KernelType
    <2>2. /\ j.sendTo = h.sendTo /\ j.waiters = h.waiters
          /\ j.getForm = [h.getForm EXCEPT ![c] = d]
      BY <2>1 DEF ReceiveShape
    <2>3. \A p \in Procs : Sending(k, p) => Sending(j, p)
      BY <2>1, <2>2 DEF Sending
    <2>4. \A p \in Procs : Receiving(k, p) => Receiving(j, p)
      BY <1>1, <1>4, <2>2 DEF Receiving, KernelType
    <2>5. KeepsOrder(k, j)
      BY <1>2, <2>2 DEF Correct, KeepsOrder
    <2> QED BY <2>3, <2>4, <2>5 DEF Correct, DeliversRight
  <1> QED BY <1>3, <1>4 DEF SendShape

\* interrupt hands HARD_INT to a task that waits for it, and to no other.
LEMMA InterruptCorrect ==
    ASSUME NEW k \in KernelType, TableInv(k), NEW t \in IntTasks
    PROVE  Correct(k, InterruptEffect(k, t))
  <1>1. WaitersMatch(k) /\ t \in Procs /\ Hardware \in Procs
    BY RolesAssumption, SlotsAssumption DEF TableInv, Procs
  <1>2. CASE Sending(k, t) \/ k.getForm[t] \notin {ANY, Hardware}
    <2>1. InterruptEffect(k, t) = [k EXCEPT !.intBlocked[t] = TRUE]
      BY <1>2 DEF InterruptEffect
    <2>2. /\ InterruptEffect(k, t).sendTo = k.sendTo
          /\ InterruptEffect(k, t).getForm = k.getForm
          /\ InterruptEffect(k, t).waiters = k.waiters
      BY <2>1 DEF KernelType
    <2> QED BY <1>1, <2>2, SameCorrect
  <1>3. CASE ~(Sending(k, t) \/ k.getForm[t] \notin {ANY, Hardware})
    <2> DEFINE m == [k EXCEPT !.msg[t] = Hardware,
                              !.getForm[t] = None,
                              !.intBlocked[t] = FALSE]
               j == InterruptEffect(k, t)
    <2>1. j = Ready(m, t)
      BY <1>3 DEF InterruptEffect
    <2>2. /\ m \in KernelType /\ m.sendTo = k.sendTo /\ m.waiters = k.waiters
          /\ m.msg = [k.msg EXCEPT ![t] = Hardware]
          /\ m.getForm = [k.getForm EXCEPT ![t] = None]
      BY <1>1 DEF KernelType
    <2> HIDE DEF m
    <2>3. /\ j.sendTo = k.sendTo /\ j.waiters = k.waiters
          /\ j.msg = [k.msg EXCEPT ![t] = Hardware]
          /\ j.getForm = [k.getForm EXCEPT ![t] = None]
      BY <2>1, <2>2, QueuesOnly DEF SameTable
    <2> HIDE DEF j
    <2>4. KeepsOrder(k, j)
      BY <1>1, <2>3, SameChain DEF KeepsOrder, WaitersMatch, KernelType
    <2>5. j.msg[t] = Hardware /\ \A p \in Procs \ {t} : j.getForm[p] = k.getForm[p]
      BY <1>1, <2>3 DEF KernelType
    <2>6. DeliversRight(k, j)
      BY <1>3, <2>3, <2>5 DEF DeliversRight, Sending, Receiving
    <2>7. Correct(k, j)
      BY <2>4, <2>6 DEF Correct
    <2> QED BY <2>7 DEF j
  <1> QED BY <1>2, <1>3

-----------------------------------------------------------------------------
(* The specification.                                                      *)

\* Writing the caller's number into its message changes neither who waits
\* nor where.
LEMMA StampedSame ==
    ASSUME KernelInv(kernel), NEW j, Correct(Stamped, j)
    PROVE  Correct(kernel, j)
  <1>1. /\ Stamped.sendTo = kernel.sendTo /\ Stamped.getForm = kernel.getForm
        /\ Stamped.waiters = kernel.waiters
    BY DEF Stamped, KernelInv, KernelType
  <1> QED BY <1>1 DEF Correct, DeliversRight, KeepsOrder, Sending, Receiving

\* Every step, one case for each kind of call.
LEMMA NextCorrect == Inv /\ [Next]_vars => Correct(kernel, kernel')
  <1> SUFFICES ASSUME Inv, [Next]_vars PROVE Correct(kernel, kernel')
    OBVIOUS
  <1>1. /\ KernelInv(kernel) /\ kernel \in KernelType /\ TableInv(kernel)
        /\ WaitersMatch(kernel)
    BY DEF Inv, KernelInv, TableInv
  <1>2. CASE kernel' = kernel
    BY <1>1, <1>2, SameCorrect
  <1>3. ASSUME kernel.curr # Idle
        PROVE  /\ KernelInv(Stamped) /\ Stamped.curr = kernel.curr
               /\ Stamped.msg[kernel.curr] = kernel.curr
               /\ kernel.curr \in Procs /\ Clean(Stamped, kernel.curr)
               /\ Stamped \in KernelType /\ TableInv(Stamped)
               /\ Correct(Stamped, Stamped)
    <2>1. /\ KernelInv(Stamped) /\ Stamped.curr = kernel.curr
          /\ Stamped.msg[kernel.curr] = kernel.curr
      BY <1>1, <1>3, StampedOk
    <2>2. kernel.curr \in Procs /\ Clean(Stamped, kernel.curr)
      BY <1>3, <2>1, CallerOk
    <2>3. Stamped \in KernelType /\ TableInv(Stamped) /\ WaitersMatch(Stamped)
      BY <2>1 DEF KernelInv, TableInv
    <2>4. Correct(Stamped, Stamped)
      BY <2>3, SameCorrect
    <2> QED BY <2>1, <2>2, <2>3, <2>4
  <1>4. ASSUME NEW dest \in Procs, SendCall(dest) PROVE Correct(kernel, kernel')
    <2> DEFINE c == kernel.curr
    <2>1. c # Idle
      BY <1>4 DEF SendCall, Running
    <2>2. Correct(Stamped, SendEffect(Stamped, c, dest))
      BY <1>3, <2>1, SendShaped, SendCorrect
    <2>3. Correct(Stamped, kernel')
      BY <1>3, <1>4, <2>1, <2>2 DEF SendCall
    <2> QED BY <1>1, <2>3, StampedSame
  <1>5. ASSUME NEW dest \in Procs, SendRecCall(dest) PROVE Correct(kernel, kernel')
    <2> DEFINE c == kernel.curr
               h == SendEffect(Stamped, c, dest)
    <2>1. c # Idle /\ dest # c
      BY <1>5 DEF SendRecCall, Running
    <2>2. CASE SendStatus(Stamped, c, dest) = "OK"
      <3>1. KernelInv(h)
        BY <1>3, <2>1, <2>2, SendOk
      <3>2. h \in KernelType /\ TableInv(h) /\ SendShape(Stamped, h, c, dest)
        BY <1>3, <2>1, <3>1, SendShaped DEF KernelInv
      <3> HIDE DEF h
      <3>3. ReceiveShape(h, ReceiveEffect(h, c, dest), c, dest)
        BY <1>3, <2>1, <3>2, ReceiveShaped
      <3>4. Correct(Stamped, ReceiveEffect(h, c, dest))
        BY <1>3, <2>1, <3>2, <3>3, SendRecCorrect
      <3>5. kernel' = ReceiveEffect(h, c, dest)
        BY <1>5, <2>2 DEF SendRecCall, h
      <3> QED BY <1>1, <3>4, <3>5, StampedSame
    <2>3. CASE SendStatus(Stamped, c, dest) # "OK"
      <3>1. kernel' = Stamped
        BY <1>5, <2>3 DEF SendRecCall
      <3> QED BY <1>1, <1>3, <2>1, <3>1, StampedSame
    <2> QED BY <2>2, <2>3
  <1>6. ASSUME NEW src \in Procs \cup {ANY}, ReceiveCall(src)
        PROVE  Correct(kernel, kernel')
    <2>1. kernel.curr # Idle /\ kernel' = ReceiveEffect(kernel, kernel.curr, src)
      BY <1>6 DEF ReceiveCall, Running
    <2>2. kernel.curr \in Procs /\ ~Receiving(kernel, kernel.curr)
      BY <1>1, <2>1, CallerOk DEF Clean
    <2>3. ReceiveShape(kernel, kernel', kernel.curr, src)
      BY <1>1, <2>1, <2>2, ReceiveShaped
    <2> QED BY <1>1, <2>2, <2>3, ReceiveCorrect
  <1>7. ASSUME NEW task \in IntTasks, Interrupt(task) PROVE Correct(kernel, kernel')
    BY <1>1, <1>7, InterruptCorrect DEF Interrupt
  <1>8. CASE RefusedCall \/ SelfSendCall \/ Down \/ UNCHANGED vars
    BY <1>2, <1>8 DEF RefusedCall, SelfSendCall, Down, vars
  <1> QED BY <1>4, <1>5, <1>6, <1>7, <1>8 DEF Next

\* A sender that is released has its message where its receiver reads, and a
\* receiver that is released has a message it asked for: in SEND, RECEIVE
\* and SEND_REC of sys_call and in interrupt, for any process table.
THEOREM DeliveredRight == Spec => DeliveryCorrect
  <1>1. Inv /\ [Next]_vars =>
          [\A p \in Procs :
             /\ Sending(kernel, p) /\ ~Sending(kernel', p) =>
                  kernel'.msg[kernel.sendTo[p]] = p
             /\ Receiving(kernel, p) /\ ~Receiving(kernel', p) =>
                  kernel.getForm[p] \in {kernel'.msg[p], ANY}
          ]_vars
    BY NextCorrect DEF Correct, DeliversRight
  <1> QED BY <1>1, Invariance, PTL DEF Spec, DeliveryCorrect

\* Senders are taken out of a chain of waiters in any order, and those that
\* stay keep theirs; who comes in queues behind them.
THEOREM NobodyOvertakes == Spec => NoOvertaking
  <1>1. Inv /\ [Next]_vars =>
          [\A d \in Procs :
             LET before == kernel.waiters[d]
                 after  == kernel'.waiters[d]
             IN  \A i, j \in DOMAIN after : i < j =>
                   /\ after[j] \in ToSet(before) => after[i] \in ToSet(before)
                   /\ \A a, b \in DOMAIN before :
                        after[i] = before[a] /\ after[j] = before[b] => a < b
          ]_vars
    BY NextCorrect DEF Correct, KeepsOrder, OrderKept
  <1> QED BY <1>1, Invariance, PTL DEF Spec, NoOvertaking
=============================================================================
