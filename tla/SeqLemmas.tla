----------------------------- MODULE SeqLemmas -----------------------------
(* Sequences without repetition, which is what the kernel's queues and     *)
(* chains are: adding at either end, taking the head, removing in place;   *)
(* the first of a set of positions; and that a recursive function on the   *)
(* naturals is what its definition says, with the induction that goes with *)
(* it.                                                                     *)
EXTENDS Naturals, Sequences, SequencesExt, SequenceTheorems,
        WellFoundedInduction, TLAPS

\* A sequence stays injective when a new element is appended,
LEMMA AppendInj ==
    ASSUME NEW S, NEW q \in Seq(S), NEW e \in S, IsInjective(q), e \notin ToSet(q)
    PROVE  /\ Append(q, e) \in Seq(S)
           /\ IsInjective(Append(q, e))
           /\ ToSet(Append(q, e)) = ToSet(q) \cup {e}
           /\ Append(q, e) # <<>>
           /\ Head(Append(q, e)) = IF q = <<>> THEN e ELSE Head(q)
  <1> DEFINE a == Append(q, e)
  <1>1. /\ a \in Seq(S) /\ Len(a) = Len(q) + 1 /\ a[Len(q) + 1] = e
        /\ \A i \in 1..Len(q) : a[i] = q[i]
        /\ Len(q) \in Nat /\ DOMAIN q = 1..Len(q) /\ DOMAIN a = 1..(Len(q) + 1)
    OBVIOUS
  <1>2. IsInjective(a)
    BY <1>1 DEF IsInjective, ToSet
  <1>3. ToSet(a) = ToSet(q) \cup {e}
    BY <1>1 DEF ToSet
  <1>4. a # <<>> /\ Head(a) = IF q = <<>> THEN e ELSE Head(q)
    BY AppendProperties, HeadTailAppend
  <1> QED BY <1>1, <1>2, <1>3, <1>4

\* or put in front of it,
LEMMA PushInj ==
    ASSUME NEW S, NEW q \in Seq(S), NEW e \in S, IsInjective(q), e \notin ToSet(q)
    PROVE  /\ <<e>> \o q \in Seq(S)
           /\ IsInjective(<<e>> \o q)
           /\ ToSet(<<e>> \o q) = ToSet(q) \cup {e}
           /\ <<e>> \o q # <<>>
           /\ Head(<<e>> \o q) = e
  <1> DEFINE a == <<e>> \o q
  <1>1. /\ a \in Seq(S) /\ Len(a) = Len(q) + 1 /\ a[1] = e
        /\ \A i \in 1..Len(q) : a[i + 1] = q[i]
        /\ Len(q) \in Nat /\ DOMAIN q = 1..Len(q) /\ DOMAIN a = 1..(Len(q) + 1)
    OBVIOUS
  <1>2. \A i \in DOMAIN a : i = 1 \/ (i - 1 \in 1..Len(q) /\ a[i] = q[i - 1])
    BY <1>1
  <1>3. IsInjective(a)
    BY <1>1, <1>2 DEF IsInjective, ToSet
  <1>4. ToSet(a) = ToSet(q) \cup {e}
    <2>1. ToSet(a) \subseteq ToSet(q) \cup {e}
      BY <1>1, <1>2 DEF ToSet
    <2>2. ToSet(q) \subseteq ToSet(a)
      <3> SUFFICES ASSUME NEW i \in 1..Len(q) PROVE q[i] \in ToSet(a)
        BY <1>1 DEF ToSet
      <3> i + 1 \in DOMAIN a /\ a[i + 1] = q[i]
        BY <1>1
      <3> QED BY DEF ToSet
    <2>3. e \in ToSet(a)
      BY <1>1 DEF ToSet
    <2> QED BY <2>1, <2>2, <2>3
  <1>5. a # <<>> /\ Head(a) = e
    BY <1>1
  <1> QED BY <1>1, <1>3, <1>4, <1>5

\* or when it loses its first element,
LEMMA TailInj ==
    ASSUME NEW S, NEW q \in Seq(S), IsInjective(q), q # <<>>
    PROVE  /\ Tail(q) \in Seq(S)
           /\ IsInjective(Tail(q))
           /\ ToSet(Tail(q)) = ToSet(q) \ {Head(q)}
           /\ Head(q) \in ToSet(q)
  <1> DEFINE t == Tail(q)
  <1>1. /\ t \in Seq(S) /\ Len(t) = Len(q) - 1 /\ Head(q) = q[1]
        /\ \A i \in 1..Len(t) : t[i] = q[i + 1]
        /\ Len(q) \in Nat \ {0} /\ DOMAIN q = 1..Len(q) /\ DOMAIN t = 1..(Len(q) - 1)
    OBVIOUS
  <1>2. IsInjective(t)
    BY <1>1 DEF IsInjective
  <1>3. ToSet(t) = ToSet(q) \ {Head(q)}
    <2>1. ToSet(t) \subseteq ToSet(q) \ {Head(q)}
      <3> SUFFICES ASSUME NEW i \in DOMAIN t PROVE t[i] \in ToSet(q) \ {q[1]}
        BY <1>1 DEF ToSet
      <3> i + 1 \in DOMAIN q /\ t[i] = q[i + 1] /\ 1 \in DOMAIN q /\ i + 1 # 1
        BY <1>1
      <3> QED BY DEF ToSet, IsInjective
    <2>2. ASSUME NEW i \in DOMAIN q, q[i] # q[1] PROVE q[i] \in ToSet(t)
      <3> i - 1 \in DOMAIN t /\ t[i - 1] = q[i]
        BY <1>1, <2>2
      <3> QED BY DEF ToSet
    <2> QED BY <1>1, <2>1, <2>2 DEF ToSet
  <1>4. Head(q) \in ToSet(q)
    BY <1>1 DEF ToSet
  <1> QED BY <1>1, <1>2, <1>3, <1>4

\* or any other one.
LEMMA RemoveAtInj ==
    ASSUME NEW S, NEW q \in Seq(S), NEW n \in DOMAIN q, IsInjective(q)
    PROVE  /\ RemoveAt(q, n) \in Seq(S)
           /\ IsInjective(RemoveAt(q, n))
           /\ ToSet(RemoveAt(q, n)) = ToSet(q) \ {q[n]}
  <1> DEFINE a == SubSeq(q, 1, n - 1)
             b == SubSeq(q, n + 1, Len(q))
             r == RemoveAt(q, n)
  <1>1. n \in 1..Len(q) /\ Len(q) \in Nat /\ DOMAIN q = 1..Len(q)
    OBVIOUS
  <1>2. /\ a \in Seq(S) /\ Len(a) = n - 1 /\ \A i \in 1..(n - 1) : a[i] = q[i]
        /\ b \in Seq(S) /\ Len(b) = Len(q) - n
        /\ \A i \in 1..(Len(q) - n) : b[i] = q[i + n]
    BY <1>1
  <1>3. r = a \o b
    BY DEF RemoveAt
  <1>4. /\ r \in Seq(S) /\ DOMAIN r = 1..(Len(q) - 1)
        /\ \A i \in 1..(n - 1) : r[i] = q[i]
        /\ \A i \in n..(Len(q) - 1) : r[i] = q[i + 1]
    <2> HIDE DEF a, b, r
    <2>0. /\ r \in Seq(S) /\ Len(r) = Len(a) + Len(b)
          /\ \A i \in 1..Len(r) : r[i] = IF i <= Len(a) THEN a[i]
                                        ELSE b[i - Len(a)]
      <3>1. /\ a \o b \in Seq(S) /\ Len(a \o b) = Len(a) + Len(b)
            /\ \A i \in 1..Len(a) + Len(b) :
                 (a \o b)[i] = IF i <= Len(a) THEN a[i] ELSE b[i - Len(a)]
        BY <1>2, ConcatProperties
      <3> QED BY <3>1, <1>3
    <2>1. r \in Seq(S) /\ Len(r) = Len(q) - 1
      BY <2>0, <1>1, <1>2
    <2>2. \A i \in 1..(n - 1) : r[i] = q[i]
      BY <2>0, <1>1, <1>2
    <2>3. ASSUME NEW i \in n..(Len(q) - 1) PROVE r[i] = q[i + 1]
      <3>1. r[i] = b[i - (n - 1)]
        BY <2>0, <1>1, <1>2
      <3>2. i - (n - 1) \in 1..(Len(q) - n) /\ (i - (n - 1)) + n = i + 1
        BY <1>1
      <3> QED BY <3>1, <3>2, <1>2
    <2> QED BY <2>1, <2>2, <2>3, <1>1, <1>2
  <1> HIDE DEF r
  <1> DEFINE at(i) == IF i < n THEN i ELSE i + 1
  <1>0. \A i \in DOMAIN r : at(i) \in DOMAIN q \ {n} /\ r[i] = q[at(i)]
    BY <1>1, <1>4
  <1>5. IsInjective(r)
    <2> SUFFICES ASSUME NEW i \in DOMAIN r, NEW j \in DOMAIN r, r[i] = r[j]
                 PROVE  i = j
      BY DEF IsInjective
    <2>1. at(i) = at(j)
      BY <1>0 DEF IsInjective
    <2> QED BY <2>1, <1>1, <1>4
  <1>6. ToSet(r) \subseteq ToSet(q) \ {q[n]}
    BY <1>0 DEF ToSet, IsInjective
  <1>7. ToSet(q) \ {q[n]} \subseteq ToSet(r)
    <2> SUFFICES ASSUME NEW i \in DOMAIN q, i # n PROVE q[i] \in ToSet(r)
      BY DEF ToSet
    <2>1. CASE i < n
      BY <2>1, <1>1, <1>4 DEF ToSet
    <2>2. CASE i > n
      <3> i - 1 \in DOMAIN r /\ r[i - 1] = q[i]
        BY <2>2, <1>1, <1>4
      <3> QED BY DEF ToSet
    <2> QED BY <2>1, <2>2, <1>1
  <1> QED BY <1>4, <1>5, <1>6, <1>7 DEF r

\* A nonempty set of positions has a first one.
LEMMA MinExists ==
    ASSUME NEW S \in SUBSET Nat, S # {}
    PROVE  \E n \in S : \A x \in S : n <= x
  <1>1. IsWellFoundedOn(OpToRel(<, Nat), Nat)
    BY NatLessThanWellFounded
  <1>2. PICK n \in S : \A x \in S : <<x, n>> \notin OpToRel(<, Nat)
    BY <1>1, WFMin
  <1>3. \A x \in S : ~(x < n)
    BY <1>2 DEF OpToRel
  <1> QED BY <1>3

-----------------------------------------------------------------------------
(* Recursive functions on the naturals, and induction for what a set says. *)

\* f does up to n what the recursion from p by F asks for.
Follows(f, n, B, x, p, F) ==
    \A k \in 0..n : f[k] = IF k \in B THEN x[k] ELSE F[<<k, f[p[k]]>>]

FollowsAll(f, B, x, p, F) ==
    \A n \in Nat : f[n] = IF n \in B THEN x[n] ELSE F[<<n, f[p[n]]>>]

\* A function on the numbers below a bound may go back to smaller ones.
LEMMA RecursionTo ==
    ASSUME NEW A, NEW B \in SUBSET Nat, NEW x \in [Nat -> A],
           NEW p \in [Nat -> Nat], \A n \in Nat \ B : p[n] < n,
           NEW F, \A n \in Nat, a \in A : F[<<n, a>>] \in A
    PROVE  \A n \in Nat : \E f \in [0..n -> A] : Follows(f, n, B, x, p, F)
  <1> USE DEF Follows
  <1> DEFINE Solves(f, n) == Follows(f, n, B, x, p, F)
             S == {n \in Nat : ~ \E f \in [0..n -> A] : Solves(f, n)}
  <1>1. SUFFICES ASSUME S # {} PROVE FALSE
    BY Zenon
  <1>2. PICK n \in S : \A z \in S : n <= z
    <2>1. S \in SUBSET Nat
      BY Zenon
    <2> HIDE DEF S
    <2> QED
      BY Zenon, <1>1, <2>1, MinExists
  <1>3. n \in Nat /\ ~ \E f \in [0..n -> A] : Solves(f, n)
    BY Zenon
  <1>4. CASE n = 0
    <2>1. 0 \in B
      BY SMT, <1>3, <1>4
    <2> DEFINE f == [k \in 0..n |-> x[k]]
    <2>2. \A k \in 0..n : k = 0 /\ k \in Nat
      BY SMT, <1>4
    <2>3. f \in [0..n -> A]
      BY Zenon, <2>2
    <2>4. Solves(f, n)
      BY Zenon, <2>1, <2>2
    <2> QED
      BY Zenon, <1>3, <2>3, <2>4
  <1>5. CASE n # 0
    <2>1. n - 1 \in Nat /\ ~(n <= n - 1)
      BY SMT, <1>3, <1>5
    <2>2. n - 1 \notin S
      BY Zenon, <1>2, <2>1
    <2>3. PICK g \in [0..(n - 1) -> A] : Solves(g, n - 1)
      BY Zenon, <2>1, <2>2
    <2> DEFINE f == [k \in 0..n |->
                       IF k = n THEN IF n \in B THEN x[n] ELSE F[<<n, g[p[n]]>>]
                       ELSE g[k]]
    <2>4. \A k \in 0..n : /\ k \in Nat
                          /\ k = n \/ k \in 0..(n - 1)
                          /\ k \notin B => p[k] \in 0..(n - 1) /\ p[k] \in 0..n /\ p[k] # n
      BY SMT, <1>3
    <2>5. n \in 0..n
      BY SMT, <1>3
    <2>6. f \in [0..n -> A]
      <3>1. \A k \in 0..n : (IF k = n THEN IF n \in B THEN x[n] ELSE F[<<n, g[p[n]]>>]
                             ELSE g[k]) \in A
        BY Zenon, <1>3, <2>4, <2>5
      <3> QED
        BY Zenon, <3>1
    <2>7. \A k \in 0..n : k \notin B => f[p[k]] = g[p[k]]
      BY Zenon, <2>4
    <2>8. \A k \in 0..n : f[k] = IF k = n THEN IF n \in B THEN x[n] ELSE F[<<n, g[p[n]]>>]
                                 ELSE g[k]
      BY Zenon
    <2> HIDE DEF f
    <2>9. ASSUME NEW k \in 0..n
          PROVE  f[k] = IF k \in B THEN x[k] ELSE F[<<k, f[p[k]]>>]
      <3>1. CASE k = n
        BY Zenon, <2>4, <2>7, <2>8, <3>1
      <3>2. CASE k # n
        <4>1. g[k] = IF k \in B THEN x[k] ELSE F[<<k, g[p[k]]>>]
          BY Zenon, <2>3, <2>4, <3>2
        <4> QED
          BY Zenon, <2>4, <2>7, <2>8, <3>2, <4>1
      <3> QED
        BY Zenon, <3>1, <3>2
    <2>10. Solves(f, n)
      BY Zenon, <2>9
    <2> QED
      BY Zenon, <1>3, <2>6, <2>10
  <1> QED
    BY Zenon, <1>4, <1>5

\* and so may a function on all of them.
LEMMA Recursion ==
    ASSUME NEW A, NEW B \in SUBSET Nat, NEW x \in [Nat -> A],
           NEW p \in [Nat -> Nat], \A n \in Nat \ B : p[n] < n,
           NEW F, \A n \in Nat, a \in A : F[<<n, a>>] \in A
    PROVE  \E f \in [Nat -> A] : FollowsAll(f, B, x, p, F)
  <1> DEFINE Solves(f, n) == Follows(f, n, B, x, p, F)
             g(n) == CHOOSE f \in [0..n -> A] : Solves(f, n)
             h == [n \in Nat |-> g(n)[n]]
  <1>1. \A n \in Nat : g(n) \in [0..n -> A] /\ Solves(g(n), n)
    <2>1. \A n \in Nat : \E f \in [0..n -> A] : Solves(f, n)
      BY Zenon, RecursionTo
    <2> QED
      BY Zenon, <2>1
  <1> HIDE DEF g
  <1>2. ASSUME NEW m \in Nat, NEW n \in Nat, m <= n
        PROVE  g(m)[m] = g(n)[m]
    <2> DEFINE S == {k \in 0..m : g(m)[k] # g(n)[k]}
    <2>1. SUFFICES ASSUME S # {} PROVE FALSE
      BY SMT
    <2>2. PICK k \in S : \A z \in S : k <= z
      <3>1. S \in SUBSET Nat
        BY SMT
      <3> HIDE DEF S
      <3> QED
        BY Zenon, <2>1, <3>1, MinExists
    <2>3. k \in 0..m /\ k \in 0..n /\ k \in Nat /\ g(m)[k] # g(n)[k]
      BY SMT, <1>2
    <2>4. /\ g(m)[k] = IF k \in B THEN x[k] ELSE F[<<k, g(m)[p[k]]>>]
          /\ g(n)[k] = IF k \in B THEN x[k] ELSE F[<<k, g(n)[p[k]]>>]
      BY Zenon, <1>1, <1>2, <2>3 DEF Follows
    <2>5. k \notin B
      BY SMT, <2>3, <2>4
    <2>6. p[k] \in 0..m /\ p[k] < k
      BY SMT, <2>3, <2>5
    <2>7. p[k] \notin S
      BY SMT, <2>2, <2>3, <2>6
    <2>8. g(m)[p[k]] = g(n)[p[k]]
      BY Zenon, <2>6, <2>7
    <2> QED
      BY SMT, <2>3, <2>4, <2>8
  <1>3. h \in [Nat -> A]
    BY SMT, <1>1
  <1>4. \A n \in Nat : h[n] = IF n \in B THEN x[n] ELSE F[<<n, h[p[n]]>>]
    <2>1. SUFFICES ASSUME NEW n \in Nat
                   PROVE  h[n] = IF n \in B THEN x[n] ELSE F[<<n, h[p[n]]>>]
      BY Zenon
    <2>2. h[n] = g(n)[n]
      BY Zenon
    <2>3. n \in 0..n
      BY SMT
    <2>4. h[n] = IF n \in B THEN x[n] ELSE F[<<n, g(n)[p[n]]>>]
      BY Zenon, <1>1, <2>2, <2>3 DEF Follows
    <2>5. ASSUME n \notin B PROVE g(n)[p[n]] = h[p[n]]
      <3>1. p[n] \in Nat /\ p[n] <= n
        BY SMT, <2>5
      <3> QED
        BY Zenon, <1>2, <3>1
    <2> HIDE DEF h
    <2> QED
      BY Zenon, <2>4, <2>5
  <1> HIDE DEF h
  <1>5. FollowsAll(h, B, x, p, F)
    BY Zenon, <1>4 DEF FollowsAll
  <1> QED
    BY Zenon, <1>3, <1>5

\* Induction, for what can be said with a set.
LEMMA AllSmaller ==
    ASSUME NEW S, \A n \in Nat : (\A k \in Nat : k < n => k \in S) => n \in S
    PROVE  \A n \in Nat : n \in S
  <1> DEFINE T == {n \in Nat : n \notin S}
  <1>1. SUFFICES ASSUME T # {} PROVE FALSE
    BY Zenon
  <1>2. PICK n \in T : \A z \in T : n <= z
    <2>1. T \in SUBSET Nat
      BY Zenon
    <2> HIDE DEF T
    <2> QED
      BY Zenon, <1>1, <2>1, MinExists
  <1>3. \A k \in Nat : k < n => ~(n <= k)
    BY SMT
  <1> QED
    BY Zenon, <1>2, <1>3

\* The same from one to the next, up to a bound.
LEMMA OneByOne ==
    ASSUME NEW N \in Nat, NEW S, 0 \in S,
           \A n \in 1..N : n - 1 \in S => n \in S
    PROVE  \A n \in 0..N : n \in S
  <1> DEFINE T == {n \in Nat : n <= N => n \in S}
  <1>1. ASSUME NEW n \in Nat, \A k \in Nat : k < n => k \in T PROVE n \in T
    <2>1. SUFFICES ASSUME n <= N, n # 0 PROVE n \in S
      BY Zenon
    <2>2. n \in 1..N /\ n - 1 \in Nat /\ n - 1 < n /\ n - 1 <= N
      BY SMT, <2>1
    <2> QED
      BY Zenon, <1>1, <2>2
  <1>2. \A n \in Nat : n \in T
    <2> HIDE DEF T
    <2> QED
      BY Zenon, <1>1, AllSmaller
  <1>3. \A n \in 0..N : n \in Nat /\ n <= N
    BY SMT
  <1> QED
    BY Zenon, <1>2, <1>3

\* f is made step by step of N things.
StepBy(f, N, a, F) ==
    f = [n \in 0..N |-> IF n = 0 THEN a ELSE F[<<n, f[n - 1]>>]]

\* There is such a function, and so the one that CHOOSE takes is one.
LEMMA Steps ==
    ASSUME NEW A, NEW N \in Nat, NEW a \in A,
           NEW F, \A n \in Nat, b \in A : F[<<n, b>>] \in A
    PROVE  \E f \in [0..N -> A] : StepBy(f, N, a, F)
  <1> DEFINE x == [n \in Nat |-> a]
             p == [n \in Nat |-> IF n = 0 THEN 0 ELSE n - 1]
  <1>1. /\ x \in [Nat -> A] /\ {0} \in SUBSET Nat
        /\ p \in [Nat -> Nat] /\ \A n \in Nat \ {0} : p[n] < n
    BY SMT
  <1>2. \A n \in Nat : x[n] = a /\ (n # 0 => p[n] = n - 1)
    BY SMT
  <1> HIDE DEF x, p
  <1>3. PICK f \in [0..N -> A] : Follows(f, N, {0}, x, p, F)
    BY Zenon, <1>1, RecursionTo
  <1>4. \A n \in 0..N : n \in Nat
    BY SMT
  <1>5. \A n \in 0..N : f[n] = IF n = 0 THEN a ELSE F[<<n, f[n - 1]>>]
    BY Zenon, <1>2, <1>3, <1>4 DEF Follows
  <1>6. f = [n \in 0..N |-> f[n]]
    BY Zenon
  <1>7. f = [n \in 0..N |-> IF n = 0 THEN a ELSE F[<<n, f[n - 1]>>]]
    BY SMT, <1>5, <1>6
  <1> QED
    BY Zenon, <1>7 DEF StepBy
=============================================================================
