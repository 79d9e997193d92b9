------------------------- MODULE ReadyQueueProofs --------------------------
(***************************************************************************)
(* The linked lists of process.c implement the queues of DispatchSpec, for *)
(* every number of processes and every order in which they come and go.    *)
(*                                                                         *)
(* That the walk of Chain along next_ready meets the sequence q is what    *)
(* ListOf says of q link by link.  The walk is a recursive function, and   *)
(* the induction on it is done by hand: two solutions of its equation      *)
(* cannot first differ anywhere (MinExists).                               *)
(***************************************************************************)
EXTENDS ReadyQueue, SeqLemmas, FiniteSetTheorems

\* The nodes of list c are those of q, in the order of q: the head, each
\* link, the null pointer behind the last one and, where ready needs it,
\* the tail.
ListOf(m, c, q) ==
    /\ q \in Seq(Schedulable) /\ IsInjective(q)
    /\ \A i \in 1..Len(q) : Class(q[i]) = c
    /\ m.head[c] = IF q = <<>> THEN None ELSE q[1]
    /\ \A i \in 1..Len(q) :
         m.next[q[i]] = IF i = Len(q) THEN None ELSE q[i + 1]
    /\ c # "user" /\ q # <<>> => m.tail[c] = q[Len(q)]

Lists(m) == m \in MemType /\ \A c \in Classes : ListOf(m, c, Chain(m, c))

-----------------------------------------------------------------------------
(* What the walk meets.                                                    *)

\* Processes and the null pointer.
LEMMA Names ==
    /\ None \notin Procs /\ Wild \notin Procs /\ Idle \in Procs
    /\ Schedulable \subseteq Procs
    /\ \A p \in Procs : Class(p) \in Classes
    /\ IsFiniteSet(Procs) /\ Cardinality(Procs) \in Nat
  <1>1. IsFiniteSet(Procs) /\ Cardinality(Procs) \in Nat
    BY ProcsAssumption, FS_CardinalityType
  <1> QED BY <1>1, SlotsAssumption DEF Procs, Schedulable, Class, Classes

\* A queue of distinct processes is no longer than there are processes.
LEMMA ShortEnough ==
    ASSUME NEW q \in Seq(Procs), IsInjective(q)
    PROVE  Len(q) <= Cardinality(Procs)
  <1>1. /\ Len(q) \in Nat /\ q \in [1..Len(q) -> Procs]
        /\ \A i, j \in 1..Len(q) : q[i] = q[j] => i = j
    BY DEF IsInjective
  <1>2. IsFiniteSet(1..Len(q)) /\ Cardinality(1..Len(q)) = Len(q)
    BY <1>1, FS_Interval
  <1>3. ~(Cardinality(Procs) < Cardinality(1..Len(q)))
    BY <1>1, <1>2, Names, FS_PigeonHole
  <1> QED BY <1>1, <1>2, <1>3, Names

\* The equation that the walk of Nodes solves.
Walk(n, m, c, f) ==
    [i \in 1..n |-> IF i = 1 THEN m.head[c]
                    ELSE IF f[i - 1] \in Procs THEN m.next[f[i - 1]] ELSE None]

\* Two solutions of it are the same.
LEMMA WalkUnique ==
    ASSUME NEW n \in Nat, NEW m, NEW c, NEW f, NEW g,
           f = Walk(n, m, c, f), g = Walk(n, m, c, g)
    PROVE  f = g
  <1> DEFINE D == {i \in 1..n : f[i] # g[i]}
  <1>0. /\ f = [i \in 1..n |-> f[i]] /\ g = [i \in 1..n |-> g[i]]
        /\ \A h : \A i \in 1..n : Walk(n, m, c, h)[i] =
             IF i = 1 THEN m.head[c]
             ELSE IF h[i - 1] \in Procs THEN m.next[h[i - 1]] ELSE None
    BY DEF Walk
  <1>1. ASSUME D # {} PROVE FALSE
    <2>1. D \in SUBSET Nat
      OBVIOUS
    <2>2. PICK i \in D : \A j \in D : i <= j
      BY <1>1, <2>1, MinExists
    <2>3. i \in 1..n /\ f[i] # g[i]
      BY <2>2
    <2>4. i # 1
      BY <1>0, <2>3
    <2>5. i - 1 \in 1..n /\ ~(i <= i - 1)
      BY <2>3, <2>4
    <2>6. f[i - 1] = g[i - 1]
      BY <2>2, <2>5
    <2>7. f[i] = g[i]
      BY <1>0, <2>3, <2>4, <2>6
    <2> QED BY <2>3, <2>7
  <1>2. \A i \in 1..n : f[i] = g[i]
    BY <1>1
  <1> QED BY <1>0, <1>2

\* If the lists hold q, then q is what the walk meets.
LEMMA ChainIs ==
    ASSUME NEW m, NEW c, NEW q, ListOf(m, c, q)
    PROVE  Chain(m, c) = q
  <1> DEFINE n == Cardinality(Procs) + 1
             w == [i \in 1..n |-> IF i <= Len(q) THEN q[i] ELSE None]
  <1>1. /\ q \in Seq(Procs) /\ Len(q) \in Nat /\ Len(q) < n /\ n \in Nat
        /\ \A i \in 1..Len(q) : q[i] \in Procs
    <2>1. q \in Seq(Procs) /\ IsInjective(q)
      BY Names DEF ListOf
    <2> QED BY <2>1, Names, ShortEnough
  <1>2. w = Walk(n, m, c, w)
    <2> SUFFICES ASSUME NEW i \in 1..n
                 PROVE  w[i] = IF i = 1 THEN m.head[c]
                               ELSE IF w[i - 1] \in Procs THEN m.next[w[i - 1]]
                               ELSE None
      BY DEF Walk
    <2>1. CASE i = 1
      BY <1>1, <2>1 DEF ListOf
    <2>2. CASE i # 1 /\ i <= Len(q)
      <3>1. i - 1 \in 1..n /\ i - 1 \in 1..Len(q) /\ i - 1 # Len(q)
        BY <1>1, <2>2
      <3>2. w[i - 1] = q[i - 1] /\ m.next[q[i - 1]] = q[i]
        BY <1>1, <3>1 DEF ListOf
      <3> QED BY <1>1, <2>2, <3>1, <3>2
    <2>3. CASE i # 1 /\ i = Len(q) + 1
      <3>1. i - 1 \in 1..n /\ i - 1 \in 1..Len(q) /\ i - 1 = Len(q)
        BY <1>1, <2>3
      <3>2. w[i - 1] = q[i - 1] /\ m.next[q[i - 1]] = None
        BY <1>1, <3>1 DEF ListOf
      <3> QED BY <1>1, <2>3, <3>1, <3>2
    <2>4. CASE i # 1 /\ i > Len(q) + 1
      <3>1. i - 1 \in 1..n /\ ~(i - 1 <= Len(q)) /\ ~(i <= Len(q))
        BY <1>1, <2>4
      <3>2. w[i - 1] = None
        BY <3>1
      <3> QED BY <2>4, <3>1, <3>2, Names
    <2> QED BY <1>1, <2>1, <2>2, <2>3, <2>4
  <1>3. Nodes(m, c) = w
    <2> DEFINE x == CHOOSE f : f = Walk(n, m, c, f)
    <2>1. Nodes(m, c) = x
      BY DEF Nodes, Walk
    <2> HIDE DEF w
    <2>2. x = Walk(n, m, c, x)
      BY <1>2
    <2> HIDE DEF n, x
    <2> QED BY <1>1, <1>2, <2>1, <2>2, WalkUnique
  <1>4. {j \in DOMAIN w : w[j] # None} = 1..Len(q)
    BY <1>1, Names
  <1>5. Cardinality(1..Len(q)) = Len(q)
    <2>1. Len(q) \in Nat
      BY <1>1
    <2> QED BY <2>1, FS_Interval
  <1>6. Chain(m, c) = [i \in 1..Len(q) |-> w[i]]
    <2> HIDE DEF w
    <2> QED BY <1>3, <1>4, <1>5 DEF Chain
  <1>7. \A i \in 1..Len(q) : w[i] = q[i]
    BY <1>1
  <1> HIDE DEF w
  <1> QED BY <1>1, <1>6, <1>7

-----------------------------------------------------------------------------
(* What the routines do to the lists.                                      *)

\* Lists that hold the sequences of Q are read as Q.
LEMMA ReadAs ==
    ASSUME NEW m \in MemType, NEW Q, Q = [c \in Classes |-> Q[c]],
           \A c \in Classes : ListOf(m, c, Q[c])
    PROVE  /\ Lists(m)
           /\ Queues(m) = [queue |-> Q, curr |-> m.curr, bill |-> m.bill]
  <1>1. \A c \in Classes : Chain(m, c) = Q[c]
    BY ChainIs
  <1> QED BY <1>1 DEF Lists, Queues

\* hunter writes neither heads nor links, and finds the heads it expects.
LEMMA HunterListsOk ==
    ASSUME NEW m, Lists(m)
    PROVE  /\ Lists(HunterLists(m))
           /\ Queues(HunterLists(m)) = Hunter(Queues(m))
  <1> DEFINE j == HunterLists(m)
             Q == [c \in Classes |-> Chain(m, c)]
             k == Queues(m)
  <1>1. /\ m \in MemType /\ {"task", "server", "user"} = Classes
        /\ \A c \in Classes : ListOf(m, c, Q[c])
        /\ k.queue = Q /\ k.curr = m.curr /\ k.bill = m.bill
    BY DEF Lists, Queues, Classes
  <1>2. \A c \in Classes :
          /\ m.head[c] = None <=> Q[c] = <<>>
          /\ m.head[c] # None => m.head[c] = Head(Q[c])
    <2> SUFFICES ASSUME NEW c \in Classes
                 PROVE  /\ m.head[c] = None <=> Q[c] = <<>>
                        /\ m.head[c] # None => m.head[c] = Head(Q[c])
      BY Zenon
    <2>1. Q[c] \in Seq(Procs) /\ m.head[c] = IF Q[c] = <<>> THEN None ELSE Q[c][1]
      BY <1>1, Names DEF ListOf
    <2> HIDE DEF Q
    <2>2. Q[c] # <<>> => Head(Q[c]) = Q[c][1] /\ Q[c][1] \in Procs
      BY <2>1
    <2> QED BY <2>1, <2>2, Names
  <1>3. /\ j \in MemType /\ j.head = m.head /\ j.tail = m.tail /\ j.next = m.next
    BY <1>1, Names DEF HunterLists, MemType
  <1>4. \A c \in Classes : ListOf(j, c, Q[c])
    BY <1>1, <1>3 DEF ListOf
  <1>5. Lists(j) /\ Queues(j) = [queue |-> Q, curr |-> j.curr, bill |-> j.bill]
    BY <1>3, <1>4, ReadAs
  <1>6. Hunter(k) = [queue |-> Q, curr |-> j.curr, bill |-> j.bill]
    <2>1. k = [queue |-> Q, curr |-> m.curr, bill |-> m.bill]
      BY DEF Queues
    <2> HIDE DEF Q, k
    <2> QED BY <1>1, <1>2, <2>1 DEF Hunter, HunterLists, MemType
  <1> QED BY <1>5, <1>6

\* A list stays what it was if its head, its tail and the links of its own
\* nodes do.
LEMMA OtherList ==
    ASSUME NEW m, NEW j, NEW d, NEW q, ListOf(m, d, q),
           j.head[d] = m.head[d], j.tail[d] = m.tail[d],
           \A i \in 1..Len(q) : j.next[q[i]] = m.next[q[i]]
    PROVE  ListOf(j, d, q)
  BY DEF ListOf

\* The queues k after a routine that left r in class c.
Changed(k, c, r, curr, bill) ==
    [queue |-> [k.queue EXCEPT ![c] = r], curr |-> curr, bill |-> bill]

\* That is how the operators of Dispatch change them.
LEMMA ChangedIs ==
    ASSUME NEW m, NEW c \in Classes, NEW r, NEW x
    PROVE  /\ [Queues(m) EXCEPT !.queue[c] = r]
                = Changed(Queues(m), c, r, m.curr, m.bill)
           /\ [Queues(m) EXCEPT !.queue[c] = r, !.curr = x]
                = Changed(Queues(m), c, r, x, m.bill)
  <1> DEFINE Q == [d \in Classes |-> Chain(m, d)]
  <1>1. Queues(m) = [queue |-> Q, curr |-> m.curr, bill |-> m.bill]
    BY DEF Queues
  <1> DEFINE R == [Queues(m).queue EXCEPT ![c] = r]
             a == [Queues(m) EXCEPT !.queue[c] = r]
             b == [Queues(m) EXCEPT !.queue[c] = r, !.curr = x]
  <1>2. /\ a = [Queues(m) EXCEPT !.queue = R]
        /\ b = [a EXCEPT !.curr = x]
    OBVIOUS
  <1>3. /\ Changed(Queues(m), c, r, m.curr, m.bill)
             = [queue |-> R, curr |-> m.curr, bill |-> m.bill]
        /\ Changed(Queues(m), c, r, x, m.bill)
             = [queue |-> R, curr |-> x, bill |-> m.bill]
    BY DEF Changed
  <1> HIDE DEF Q, R, a, b
  <1>4. a = [queue |-> R, curr |-> m.curr, bill |-> m.bill]
    <2>1. a = [Queues(m) EXCEPT !.queue = R]
      BY <1>2
    <2> QED BY <1>1, <2>1
  <1>5. b = [queue |-> R, curr |-> x, bill |-> m.bill]
    <2>1. b = [a EXCEPT !.curr = x]
      BY <1>2
    <2> QED BY <1>4, <2>1
  <1>6. /\ a = Changed(Queues(m), c, r, m.curr, m.bill)
        /\ b = Changed(Queues(m), c, r, x, m.bill)
    BY <1>3, <1>4, <1>5
  <1> QED BY <1>6, Zenon DEF a, b

\* From m to j, nothing of the lists but that of class c is written.
OthersStay(m, j, c) ==
    /\ \A d \in Classes \ {c} : j.head[d] = m.head[d] /\ j.tail[d] = m.tail[d]
    /\ \A x \in Procs : Class(x) # c => j.next[x] = m.next[x]

\* Then they stay what they were.
LEMMA OtherLists ==
    ASSUME NEW m, Lists(m), NEW j \in MemType, NEW c \in Classes,
           NEW r, ListOf(j, c, r), OthersStay(m, j, c)
    PROVE  /\ Lists(j)
           /\ Queues(j) = Changed(Queues(m), c, r, j.curr, j.bill)
  <1> DEFINE Q == [Queues(m).queue EXCEPT ![c] = r]
  <1>1. \A d \in Classes : Queues(m).queue[d] = Chain(m, d) /\ ListOf(m, d, Chain(m, d))
    BY DEF Queues, Lists
  <1>2. Queues(m).queue = [d \in Classes |-> Chain(m, d)]
    BY DEF Queues
  <1>3. Q = [d \in Classes |-> IF d = c THEN r ELSE Chain(m, d)]
    BY <1>2
  <1>4. ASSUME NEW d \in Classes \ {c} PROVE ListOf(j, d, Chain(m, d))
    <2>1. ListOf(m, d, Chain(m, d))
      BY <1>1
    <2>2. ASSUME NEW i \in 1..Len(Chain(m, d))
          PROVE  Chain(m, d)[i] \in Procs /\ Class(Chain(m, d)[i]) = d
      BY <2>1, Names DEF ListOf
    <2> QED BY <2>1, <2>2, OtherList DEF OthersStay
  <1>5. \A d \in Classes : ListOf(j, d, Q[d])
    BY <1>3, <1>4
  <1>6. Q = [d \in Classes |-> Q[d]]
    BY <1>3
  <1> HIDE DEF Q
  <1>7. Lists(j) /\ Queues(j) = [queue |-> Q, curr |-> j.curr, bill |-> j.bill]
    BY <1>5, <1>6, ReadAs
  <1> QED BY <1>7 DEF Q, Changed

\* ready of a user: the new node is the head.
LEMMA PushedList ==
    ASSUME NEW m, NEW c, NEW q, ListOf(m, c, q), c = "user",
           NEW p \in Schedulable, Class(p) = c, p \notin ToSet(q),
           NEW j, j.head[c] = p, j.next[p] = m.head[c],
           \A x \in Procs \ {p} : j.next[x] = m.next[x]
    PROVE  ListOf(j, c, <<p>> \o q)
  <1> DEFINE r == <<p>> \o q
  <1>1. /\ q \in Seq(Schedulable) /\ IsInjective(q) /\ Len(q) \in Nat
        /\ \A i \in 1..Len(q) : q[i] \in Procs \ {p} /\ Class(q[i]) = c
    BY Names DEF ListOf, ToSet
  <1>2. r \in Seq(Schedulable) /\ IsInjective(r) /\ r # <<>>
    BY <1>1, PushInj
  <1>3. /\ Len(r) = Len(q) + 1 /\ r[1] = p
        /\ \A i \in 1..Len(r) : i # 1 => i - 1 \in 1..Len(q) /\ r[i] = q[i - 1]
        /\ \A i \in 1..Len(q) : r[i + 1] = q[i]
    BY <1>1
  <1> HIDE DEF r
  <1>4. \A i \in 1..Len(r) : Class(r[i]) = c
    BY <1>1, <1>3
  <1>5. ASSUME NEW i \in 1..Len(r)
        PROVE  j.next[r[i]] = IF i = Len(r) THEN None ELSE r[i + 1]
    <2>1. CASE i = 1 /\ q = <<>>
      <3>1. m.head[c] = None
        BY <2>1 DEF ListOf
      <3> QED BY <1>3, <2>1, <3>1
    <2>2. CASE i = 1 /\ q # <<>>
      <3>1. m.head[c] = q[1]
        BY <2>2 DEF ListOf
      <3>2. 1 \in 1..Len(q) /\ 1 # Len(r) /\ r[1 + 1] = q[1]
        BY <1>1, <1>3, <2>2
      <3> QED BY <1>3, <2>2, <3>1, <3>2
    <2>3. CASE i # 1
      <3>1. i - 1 \in 1..Len(q) /\ r[i] = q[i - 1]
        BY <1>3, <2>3
      <3>2. m.next[q[i - 1]] = IF i - 1 = Len(q) THEN None ELSE q[(i - 1) + 1]
        BY <3>1 DEF ListOf
      <3>3. j.next[r[i]] = m.next[q[i - 1]]
        BY <1>1, <3>1
      <3>4. CASE i = Len(r)
        BY <1>1, <1>3, <3>2, <3>3, <3>4
      <3>5. CASE i # Len(r)
        <4>1. i \in 1..Len(q) /\ i - 1 # Len(q) /\ (i - 1) + 1 = i
          BY <1>1, <1>3, <2>3, <3>5
        <4> QED BY <1>3, <3>2, <3>3, <3>5, <4>1
      <3> QED BY <3>4, <3>5
    <2> QED BY <2>1, <2>2, <2>3
  <1> QED BY <1>2, <1>3, <1>4, <1>5 DEF ListOf, r

\* ready of a task or a server: the new node is behind the tail, or alone.
LEMMA AppendedList ==
    ASSUME NEW m, NEW c, NEW q, ListOf(m, c, q),
           NEW p \in Schedulable, Class(p) = c, p \notin ToSet(q),
           NEW j, j.tail[c] = p, j.next[p] = None,
           j.head[c] = IF q = <<>> THEN p ELSE m.head[c],
           q # <<>> => j.next[q[Len(q)]] = p,
           \A i \in 1..Len(q) : i # Len(q) => j.next[q[i]] = m.next[q[i]]
    PROVE  ListOf(j, c, Append(q, p))
  <1> DEFINE r == Append(q, p)
  <1>1. /\ q \in Seq(Schedulable) /\ IsInjective(q) /\ Len(q) \in Nat
        /\ \A i \in 1..Len(q) : Class(q[i]) = c
    BY DEF ListOf
  <1>2. r \in Seq(Schedulable) /\ IsInjective(r) /\ r # <<>>
    BY <1>1, AppendInj
  <1>3. /\ Len(r) = Len(q) + 1 /\ r[Len(q) + 1] = p
        /\ \A i \in 1..Len(q) : r[i] = q[i]
    BY <1>1
  <1> HIDE DEF r
  <1>4. \A i \in 1..Len(r) : Class(r[i]) = c
    BY <1>1, <1>3
  <1>5. ASSUME NEW i \in 1..Len(r)
        PROVE  j.next[r[i]] = IF i = Len(r) THEN None ELSE r[i + 1]
    <2>1. CASE i = Len(r)
      BY <1>3, <2>1
    <2>2. CASE i # Len(r) /\ i = Len(q)
      <3>1. q # <<>> /\ r[i] = q[Len(q)] /\ r[i + 1] = p
        BY <1>1, <1>3, <2>2
      <3> QED BY <2>2, <3>1
    <2>3. CASE i # Len(r) /\ i # Len(q)
      <3>1. i \in 1..Len(q) /\ i + 1 \in 1..Len(q)
        BY <1>1, <1>3, <2>3
      <3>2. m.next[q[i]] = q[i + 1]
        BY <2>3, <3>1 DEF ListOf
      <3> QED BY <1>3, <2>3, <3>1, <3>2
    <2> QED BY <2>1, <2>2, <2>3
  <1>6. j.head[c] = r[1]
    <2>1. CASE q = <<>>
      BY <1>3, <2>1
    <2>2. CASE q # <<>>
      <3>1. m.head[c] = q[1] /\ 1 \in 1..Len(q)
        BY <1>1, <2>2 DEF ListOf
      <3> QED BY <1>3, <2>2, <3>1
    <2> QED BY <2>1, <2>2
  <1> QED BY <1>2, <1>3, <1>4, <1>5, <1>6 DEF ListOf, r

\* unready of the head: the list goes on behind it.  Nothing is written but
\* the head pointer.
LEMMA ShortenedList ==
    ASSUME NEW m, NEW c, NEW q, ListOf(m, c, q), q # <<>>,
           NEW j, j.head[c] = m.next[q[1]], j.tail[c] = m.tail[c],
           j.next = m.next
    PROVE  ListOf(j, c, Tail(q))
  <1> DEFINE t == Tail(q)
  <1>1. /\ q \in Seq(Schedulable) /\ IsInjective(q) /\ Len(q) \in Nat
        /\ Len(q) # 0
        /\ \A i \in 1..Len(q) : Class(q[i]) = c
    BY DEF ListOf
  <1>2. t \in Seq(Schedulable) /\ IsInjective(t)
    BY <1>1, TailInj
  <1>3. /\ Len(t) = Len(q) - 1
        /\ \A i \in 1..Len(t) : i + 1 \in 1..Len(q) /\ t[i] = q[i + 1]
    BY <1>1
  <1> HIDE DEF t
  <1>4. t = <<>> <=> Len(q) = 1
    <2>1. t = <<>> <=> Len(t) = 0
      BY <1>2
    <2> QED BY <1>1, <1>3, <2>1
  <1>5. \A i \in 1..Len(t) : Class(t[i]) = c
    BY <1>1, <1>3
  <1>6. ASSUME NEW i \in 1..Len(t)
        PROVE  j.next[t[i]] = IF i = Len(t) THEN None ELSE t[i + 1]
    <2>1. /\ i + 1 \in 1..Len(q) /\ t[i] = q[i + 1]
          /\ i + 1 = Len(q) <=> i = Len(t)
      BY <1>1, <1>3
    <2>2. m.next[q[i + 1]] = IF i + 1 = Len(q) THEN None ELSE q[(i + 1) + 1]
      BY <2>1 DEF ListOf
    <2>3. i # Len(t) => i + 1 \in 1..Len(t) /\ t[i + 1] = q[(i + 1) + 1]
      BY <1>1, <1>3
    <2> QED BY <2>1, <2>2, <2>3
  <1>7. j.head[c] = IF t = <<>> THEN None ELSE t[1]
    <2>1. 1 \in 1..Len(q)
      BY <1>1
    <2>2. m.next[q[1]] = IF 1 = Len(q) THEN None ELSE q[1 + 1]
      BY <2>1 DEF ListOf
    <2>3. t # <<>> => t[1] = q[1 + 1]
      BY <1>1, <1>3, <1>4
    <2> QED BY <1>4, <2>2, <2>3
  <1>8. c # "user" /\ t # <<>> => j.tail[c] = t[Len(t)]
    <2>1. t # <<>> => Len(t) \in 1..Len(t) /\ Len(t) + 1 = Len(q)
      BY <1>1, <1>3, <1>4
    <2>2. t # <<>> => t[Len(t)] = q[Len(q)]
      BY <1>3, <2>1
    <2>3. q # <<>> /\ (c # "user" => m.tail[c] = q[Len(q)])
      BY DEF ListOf
    <2> QED BY <2>2, <2>3
  <1> QED BY <1>2, <1>5, <1>6, <1>7, <1>8 DEF ListOf, t

-----------------------------------------------------------------------------
(* The routines on the lists are the routines on the queues.               *)

\* ready: a node before the first (users) or behind the last, then hunter.
LEMMA ReadyListsOk ==
    ASSUME NEW m, Lists(m), NEW p \in Schedulable,
           p \notin ToSet(Queues(m).queue[Class(p)])
    PROVE  /\ Lists(ReadyLists(m, p))
           /\ Queues(ReadyLists(m, p)) = Ready(Queues(m), p)
  <1> DEFINE c == Class(p)
             k == Queues(m)
             q == k.queue[c]
             j == ReadyLists(m, p)
  <1>1. /\ m \in MemType /\ p \in Procs /\ c \in Classes
        /\ ListOf(m, c, q) /\ p \notin ToSet(q)
        /\ k.curr = m.curr
    BY Names DEF Lists, Queues
  <1>2. /\ m.head[c] = IF q = <<>> THEN None ELSE q[1]
        /\ q # <<>> => /\ q[1] \in Procs /\ q[Len(q)] \in Procs
                       /\ Class(q[Len(q)]) = c
                       /\ c # "user" => m.tail[c] = q[Len(q)]
    <2>1. /\ q \in Seq(Procs) /\ m.head[c] = IF q = <<>> THEN None ELSE q[1]
          /\ q # <<>> /\ c # "user" => m.tail[c] = q[Len(q)]
          /\ \A i \in 1..Len(q) : Class(q[i]) = c
      BY <1>1, Names DEF ListOf
    <2> HIDE DEF q, c
    <2>2. q # <<>> => 1 \in 1..Len(q) /\ Len(q) \in 1..Len(q)
      BY <2>1
    <2> QED BY <2>1, <2>2
  <1> HIDE DEF q, k, c
  <1>3. CASE c = "user"
    <2> DEFINE l == IF m.head[c] # None THEN p ELSE m.tail[c]
    <2>1. j = [m EXCEPT !.tail[c] = l, !.next[p] = m.head[c], !.head[c] = p]
      BY <1>3 DEF ReadyLists, c
    <2>0. l \in Procs \cup {None} /\ m.head[c] \in Procs \cup {None}
      BY <1>1 DEF MemType
    <2> HIDE DEF l, j
    <2>2. /\ j \in MemType /\ j.head = [m.head EXCEPT ![c] = p]
          /\ j.next = [m.next EXCEPT ![p] = m.head[c]]
          /\ j.curr = m.curr /\ j.bill = m.bill
          /\ \A d \in Classes \ {c} : j.tail[d] = m.tail[d]
      BY <1>1, <2>0, <2>1 DEF MemType
    <2>3. /\ j.head[c] = p /\ j.next[p] = m.head[c]
          /\ \A x \in Procs \ {p} : j.next[x] = m.next[x]
          /\ \A d \in Classes \ {c} : j.head[d] = m.head[d]
      BY <1>1, <2>2 DEF MemType
    <2>4. ListOf(j, c, <<p>> \o q)
      BY <1>1, <1>3, <2>3, PushedList DEF c
    <2>5. \A x \in Procs : Class(x) # c => j.next[x] = m.next[x]
      BY <2>3 DEF c
    <2>6. Lists(j) /\ Queues(j) = Changed(k, c, <<p>> \o q, j.curr, j.bill)
      <3>1. OthersStay(m, j, c)
        BY <2>2, <2>3, <2>5 DEF OthersStay
      <3> QED BY <1>1, <2>2, <2>4, <3>1, OtherLists DEF k
    <2>7. Ready(k, p) = [k EXCEPT !.queue[c] = <<p>> \o q]
      BY <1>3 DEF Ready, c, q
    <2>8. Ready(k, p) = Changed(k, c, <<p>> \o q, m.curr, m.bill)
      BY <1>1, <2>7, ChangedIs DEF k
    <2> QED BY <2>2, <2>6, <2>8 DEF j, k
  <1>4. CASE c # "user"
    <2> DEFINE l == m.tail[c]
               next == IF q # <<>> THEN [[m.next EXCEPT ![l] = p] EXCEPT ![p] = None]
                       ELSE [m.next EXCEPT ![p] = None]
    <2>1. m.head[c] # None <=> q # <<>>
      BY <1>2, Names
    <2>2. j = [m EXCEPT !.next = next, !.tail[c] = p,
                        !.head[c] = IF q # <<>> THEN m.head[c] ELSE p,
                        !.curr = IF q # <<>> THEN m.curr ELSE p]
      <3>1. CASE q # <<>>
        <4>1. j = [m EXCEPT !.next = next, !.tail[c] = p]
          BY <1>4, <2>1, <3>1 DEF ReadyLists, c
        <4> HIDE DEF j, next
        <4> QED BY <1>1, <3>1, <4>1 DEF MemType
      <3>2. CASE q = <<>>
        BY <1>1, <1>4, <2>1, <3>2 DEF ReadyLists, c, MemType
      <3> QED BY <3>1, <3>2
    <2>3. /\ next \in [Procs -> Procs \cup {None}] /\ next[p] = None
          /\ \A x \in Procs \ {p} : next[x] = IF q # <<>> /\ x = l THEN p ELSE m.next[x]
      BY <1>1 DEF MemType
    <2> HIDE DEF next, j
    <2>4. /\ j \in MemType /\ j.next = next /\ j.tail = [m.tail EXCEPT ![c] = p]
          /\ j.head = [m.head EXCEPT ![c] = IF q # <<>> THEN m.head[c] ELSE p]
          /\ j.curr = (IF q # <<>> THEN m.curr ELSE p) /\ j.bill = m.bill
      BY <1>1, <2>2, <2>3 DEF MemType
    <2>5. /\ \A d \in Classes \ {c} : j.head[d] = m.head[d] /\ j.tail[d] = m.tail[d]
          /\ j.tail[c] = p /\ j.head[c] = IF q = <<>> THEN p ELSE m.head[c]
      BY <1>1, <2>4 DEF MemType
    <2>6. \A i \in 1..Len(q) : q[i] \in Procs \ {p} /\ (i # Len(q) => q[i] # l)
      <3>1. q \in Seq(Procs) /\ IsInjective(q)
        BY <1>1, Names DEF ListOf
      <3>2. \A i \in 1..Len(q) : q[i] \in Procs \ {p}
        BY <1>1, <3>1 DEF ToSet
      <3>3. \A i \in 1..Len(q) : i # Len(q) => q[i] # q[Len(q)] /\ q # <<>>
        BY <3>1 DEF IsInjective
      <3> QED BY <1>2, <1>4, <3>2, <3>3
    <2>7. ListOf(j, c, Append(q, p))
      <3>1. j.next[p] = None
        BY <2>3, <2>4
      <3>2. q # <<>> => j.next[q[Len(q)]] = p
        <4>1. q # <<>> => Len(q) \in 1..Len(q)
          BY <1>1 DEF ListOf
        <4> QED BY <1>2, <1>4, <2>3, <2>4, <2>6, <4>1
      <3>3. \A i \in 1..Len(q) : i # Len(q) => j.next[q[i]] = m.next[q[i]]
        BY <2>3, <2>4, <2>6
      <3> QED BY <1>1, <2>5, <3>1, <3>2, <3>3, AppendedList DEF c
    <2>8. \A x \in Procs : Class(x) # c => j.next[x] = m.next[x]
      <3>1. Class(p) = c /\ (q # <<>> => Class(l) = c)
        BY <1>2, <1>4 DEF c
      <3> QED BY <2>3, <2>4, <3>1
    <2>9. Lists(j) /\ Queues(j) = Changed(k, c, Append(q, p), j.curr, j.bill)
      <3>1. OthersStay(m, j, c)
        BY <2>5, <2>8 DEF OthersStay
      <3> QED BY <1>1, <2>4, <2>7, <3>1, OtherLists DEF k
    <2>10. Ready(k, p) = [k EXCEPT !.queue[c] = Append(q, p), !.curr = j.curr]
      <3>1. j.curr = IF q = <<>> THEN p ELSE k.curr
        BY <1>1, <2>4
      <3> QED BY <1>4, <3>1 DEF Ready, c, q
    <2>11. Ready(k, p) = Changed(k, c, Append(q, p), j.curr, j.bill)
      <3>1. [k EXCEPT !.queue[c] = Append(q, p), !.curr = j.curr]
              = Changed(k, c, Append(q, p), j.curr, m.bill)
        BY <1>1, ChangedIs, Zenon DEF k
      <3> QED BY <2>4, <2>10, <3>1
    <2> QED BY <2>9, <2>11 DEF j, k
  <1> QED BY <1>3, <1>4

\* unready of the head: the head moves on, hunter if it was running.
LEMMA UnreadyListsOk ==
    ASSUME NEW m, Lists(m), NEW p \in Schedulable,
           Queues(m).queue[Class(p)] # <<>>,
           Head(Queues(m).queue[Class(p)]) = p
    PROVE  /\ Lists(UnreadyLists(m, p))
           /\ Queues(UnreadyLists(m, p)) = Unready(Queues(m), p)
  <1> DEFINE c == Class(p)
             k == Queues(m)
             q == k.queue[c]
             s == [m EXCEPT !.head[c] = m.next[p]]
             t == [k EXCEPT !.queue[c] = Tail(q)]
  <1>1. /\ m \in MemType /\ p \in Procs /\ c \in Classes
        /\ ListOf(m, c, q) /\ q # <<>> /\ Head(q) = p
        /\ k.curr = m.curr
    BY Names DEF Lists, Queues
  <1>2. q[1] = p /\ m.head[c] = p /\ p # None
    BY <1>1, Names DEF ListOf
  <1>3. /\ s \in MemType /\ s.tail = m.tail /\ s.next = m.next
        /\ s.head = [m.head EXCEPT ![c] = m.next[p]]
        /\ s.curr = m.curr /\ s.bill = m.bill
    BY <1>1 DEF MemType
  <1>4. /\ UnreadyLists(m, p) = IF p = m.curr THEN HunterLists(s) ELSE s
        /\ Unready(k, p) = IF p = k.curr THEN Hunter(t) ELSE t
    BY <1>1, <1>2 DEF UnreadyLists, Unready
  <1> HIDE DEF q, k, c, s
  <1>5. /\ s.head[c] = m.next[p]
        /\ \A d \in Classes \ {c} : s.head[d] = m.head[d]
    BY <1>1, <1>3 DEF MemType
  <1>6. ListOf(s, c, Tail(q))
    BY <1>1, <1>2, <1>3, <1>5, ShortenedList
  <1>7. Lists(s) /\ Queues(s) = Changed(k, c, Tail(q), s.curr, s.bill)
    <2>1. OthersStay(m, s, c)
      BY <1>3, <1>5 DEF OthersStay
    <2> QED BY <1>1, <1>3, <1>6, <2>1, OtherLists DEF k
  <1>8. t = Changed(k, c, Tail(q), m.curr, m.bill)
    BY <1>1, ChangedIs DEF k
  <1>9. Queues(s) = t /\ k.curr = m.curr
    BY <1>1, <1>3, <1>7, <1>8
  <1> HIDE DEF t
  <1>10. Lists(HunterLists(s)) /\ Queues(HunterLists(s)) = Hunter(t)
    BY <1>7, <1>9, HunterListsOk
  <1> QED BY <1>4, <1>7, <1>9, <1>10 DEF k

-----------------------------------------------------------------------------
(* The invariant.                                                          *)

ListsInv == Lists(mem)

\* A prime on what is read off the lists is one on the lists.
LEMMA PrimedLists ==
    /\ Queues(mem)' = Queues(mem')
    /\ Lists(mem)' <=> Lists(mem')
  <1>1. Queues(mem)' = Queues(mem')
    BY DEF Queues, Chain, Nodes
  <1>2. Lists(mem)' <=> Lists(mem')
    BY DEF Lists, ListOf, Chain, Nodes
  <1> QED BY <1>1, <1>2

\* DispatchSpec has the operators of Dispatch under names of its own.
LEMMA SameOperators ==
    /\ Abstract!Procs = Procs /\ Abstract!Classes = Classes
    /\ Abstract!Schedulable = Schedulable
    /\ \A p : Abstract!Class(p) = Class(p)
    /\ \A s : Abstract!ToSet(s) = ToSet(s)
    /\ \A k : Abstract!Hunter(k) = Hunter(k)
    /\ \A k, p : Abstract!Ready(k, p) = Ready(k, p)
  BY DEF Abstract!Procs, Procs, Abstract!Classes, Classes,
         Abstract!Schedulable, Schedulable, Abstract!Class, Class,
         Abstract!ToSet, ToSet, Abstract!Hunter, Hunter, Abstract!Ready, Ready

\* The same for unready of a process at the head of its queue.
LEMMA SameUnready ==
    ASSUME NEW k, NEW p, k.queue[Class(p)] # <<>>, Head(k.queue[Class(p)]) = p
    PROVE  Abstract!Unready(k, p) = Unready(k, p)
  BY SameOperators DEF Abstract!Unready, Unready

\* The lists are empty at first, whatever the links hold.
LEMMA ListsInit == Init => ListsInv /\ Abstract!Init
  <1> SUFFICES ASSUME Init PROVE ListsInv /\ Abstract!Init
    OBVIOUS
  <1> DEFINE Q == [c \in Classes |-> <<>>]
  <1>1. /\ mem \in MemType /\ mem.curr = None /\ mem.bill = None
        /\ \A c \in Classes : mem.head[c] = None
    BY DEF Init, MemType
  <1>2. \A c \in Classes : ListOf(mem, c, Q[c])
    BY <1>1 DEF ListOf, IsInjective
  <1>3. Lists(mem) /\ Queues(mem) = [queue |-> Q, curr |-> None, bill |-> None]
    <2>1. Q = [c \in Classes |-> Q[c]]
      OBVIOUS
    <2> HIDE DEF Q
    <2> QED BY <1>1, <1>2, <2>1, ReadAs
  <1> QED BY <1>3, SameOperators DEF ListsInv, Abstract!Init

\* Every step keeps the lists and is one of DispatchSpec, on the queues that
\* are read off them.
LEMMA ListsNext ==
    ListsInv /\ [Next]_mem => ListsInv' /\ [Abstract!Next]_(Queues(mem))
  <1> SUFFICES ASSUME Lists(mem), [Next]_mem
               PROVE  Lists(mem') /\ (Abstract!Next \/ Queues(mem') = Queues(mem))
    BY PrimedLists DEF ListsInv
  <1>1. CASE UNCHANGED mem
    BY <1>1
  <1>2. CASE Choose
    <2>1. Lists(mem') /\ Queues(mem') = Hunter(Queues(mem))
      BY <1>2, HunterListsOk DEF Choose
    <2> QED BY <2>1, PrimedLists, SameOperators
            DEF Abstract!Next, Abstract!Choose
  <1>3. ASSUME NEW p \in Procs, MakeReady(p)
        PROVE  Lists(mem') /\ Abstract!Next
    <2>1. /\ p \in Schedulable /\ mem' = ReadyLists(mem, p)
          /\ p \notin ToSet(Queues(mem).queue[Class(p)])
      BY <1>3, SameOperators
         DEF MakeReady, Abstract!MayBecomeReady, Abstract!Queued
    <2>2. Lists(mem') /\ Queues(mem') = Ready(Queues(mem), p)
      BY <2>1, ReadyListsOk
    <2>3. Abstract!MakeReady(p)
      BY <1>3, <2>2, PrimedLists, SameOperators DEF MakeReady, Abstract!MakeReady
    <2> QED BY <2>2, <2>3, SameOperators DEF Abstract!Next
  <1>4. ASSUME NEW p \in Procs, Block(p)
        PROVE  Lists(mem') /\ Abstract!Next
    <2>1. /\ p \in Schedulable /\ mem' = UnreadyLists(mem, p)
          /\ p \in ToSet(Queues(mem).queue[Class(p)])
          /\ Head(Queues(mem).queue[Class(p)]) = p
      BY <1>4, SameOperators DEF Block, Abstract!MayBlock, Abstract!Queued
    <2>2. Queues(mem).queue[Class(p)] # <<>>
      BY <2>1 DEF ToSet
    <2>3. Lists(mem') /\ Queues(mem') = Unready(Queues(mem), p)
      BY <2>1, <2>2, UnreadyListsOk
    <2>4. Abstract!Block(p)
      BY <1>4, <2>1, <2>2, <2>3, PrimedLists, SameUnready DEF Block, Abstract!Block
    <2> QED BY <2>3, <2>4, SameOperators DEF Abstract!Next
  <1> QED BY <1>1, <1>2, <1>3, <1>4 DEF Next

\* The invariant holds for ever.
THEOREM ListsInvariance == Spec => []ListsInv
  BY ListsInit, ListsNext, PTL DEF Spec

\* The pointers of process.c do what DispatchSpec says of sequences: stale
\* tails and stale links lose and repeat nobody, for any number of processes.
THEOREM ListsImplementQueues == Spec => ImplementsDispatch
  <1>1. Init => Abstract!Init
    BY ListsInit
  <1>2. ListsInv /\ [Next]_mem => [Abstract!Next]_(Queues(mem))
    BY ListsNext
  <1> QED BY <1>1, <1>2, ListsInvariance, PTL
          DEF Spec, ImplementsDispatch, Abstract!Spec

\* ready always finds the last node of a queue of tasks or servers through
\* ready_tail, and no null pointer is ever followed.
THEOREM TailsAlwaysReach == Spec => []TailsReach
  <1>1. ListsInv => TailsReach
    <2> SUFFICES ASSUME Lists(mem) PROVE TailsReach
      BY DEF ListsInv
    <2>1. ASSUME NEW c \in {"task", "server"}, mem.head[c] # None
          PROVE  mem.tail[c] = Last(Chain(mem, c))
      <3> DEFINE q == Chain(mem, c)
      <3>1. ListOf(mem, c, q)
        BY DEF Lists, Classes
      <3> HIDE DEF q
      <3>2. q # <<>> /\ c # "user"
        BY <2>1, <3>1 DEF ListOf
      <3>3. mem.tail[c] = Last(q)
        BY <3>1, <3>2 DEF ListOf, Last
      <3> QED BY <3>3 DEF q
    <2> QED BY <2>1 DEF TailsReach, TypeOK, Lists
  <1> QED BY <1>1, ListsInvariance, PTL
=============================================================================
