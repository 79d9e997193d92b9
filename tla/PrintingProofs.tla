--------------------------- MODULE PrintingProofs ---------------------------
(***************************************************************************)
(* Proofs about the console: every print goes on with its own text, what   *)
(* is on the screen before a print begins stays there until a line comes   *)
(* round, and an exception while printing is the end.  And about the       *)
(* formatters: no message is too long for the buffer, a field has the      *)
(* width that was asked for, the number that was printed can be read back, *)
(* and printk makes the text of vsprintf but for hexadecimal letters.      *)
(***************************************************************************)
EXTENDS Printing, SeqLemmas

-----------------------------------------------------------------------------
(* The inductive invariant.                                                *)

\* A division that cannot be made, now or later.
Stuck(a) ==
    /\ ~Ended(a)
    /\ a.buf[a.at] = Newline
    /\ Row(a.edi) > LastRow

\* A process prints first, the handler of the keyboard interrupts at most
\* one process, and an exception lies on a division that fails.
Stacked ==
    \A k \in DOMAIN active :
        /\ active[k].kind = "process" => k = 1
        /\ active[k].kind = "handler" =>
             k = 1 \/ (k = 2 /\ active[1].kind = "process")
        /\ active[k].kind = "exception" => k > 1 /\ Stuck(active[k - 1])

\* Whoever interrupts a print does not begin before it.
NoneBefore ==
    extent # ComeRound /\ active # <<>> =>
        display_position >= active[1].from

PrintInv == PrintsItsOwn /\ Stacked /\ NoneBefore /\ OldTextStays

-----------------------------------------------------------------------------
(* Lines.                                                                  *)

\* Quotient and remainder.
LEMMA Division ==
    ASSUME NEW n \in Nat, NEW m \in Nat \ {0}
    PROVE  /\ n \div m \in Nat /\ n % m \in 0..m - 1
           /\ n = m * (n \div m) + (n % m)
  <1>1. n \div m \in Int /\ n % m \in 0..m - 1 /\ n = m * (n \div m) + (n % m)
    OBVIOUS
  <1> DEFINE q == n \div m
             r == n % m
  <1>2. q \in Int /\ r \in 0..m - 1 /\ n = m * q + r
    BY <1>1
  <1> HIDE DEF q, r
  <1>3. q >= 0
    <2>1. CASE q <= -1
      <3>1. m * q <= -m
        BY <1>2, <2>1
      <3> QED
        BY <1>2, <3>1
    <2> QED
      BY <1>2, <2>1
  <1> QED
    BY <1>2, <1>3 DEF q, r

\* The sizes of the screen.
LEMMA Sizes ==
    /\ Cols \in Nat \ {0} /\ LastRow \in Nat /\ Block \in Nat \ {0}
    /\ Block > (LastRow + 1) * Cols /\ Cells \in Nat
    /\ Positions \subseteq Nat /\ 0..Cells \subseteq Positions
  <1>1. /\ Cols \in Nat \ {0} /\ LastRow \in Nat /\ Block \in Nat
        /\ Block > (LastRow + 1) * Cols /\ Cells \in Nat
    BY PrintingAssumption
  <1>2. (LastRow + 1) * Cols >= 0
    BY <1>1
  <1>3. Block \in Nat \ {0}
    <2>1. (LastRow + 1) * Cols \in Int
      BY <1>1
    <2> QED
      BY <1>1, <1>2, <2>1
  <1> DEFINE q == Cells \div Block
             r == Cells % Block
  <1>4. q \in Nat /\ r \in 0..Block - 1 /\ Cells = Block * q + r
    BY <1>1, <1>3, Division
  <1>5. Positions = 0..(q + 1) * Block - 1
    BY DEF Positions
  <1> HIDE DEF q, r
  <1>6. (q + 1) * Block = Block * q + Block
    BY <1>3, <1>4
  <1>7. Block * q \in Nat
    BY <1>3, <1>4
  <1>8. Cells <= (q + 1) * Block - 1 /\ (q + 1) * Block \in Int
    BY <1>1, <1>3, <1>4, <1>6, <1>7
  <1>9. Positions \subseteq Nat /\ 0..Cells \subseteq Positions
    <2> DEFINE top == (q + 1) * Block
    <2>1. top \in Int /\ Cells <= top - 1 /\ Positions = 0..top - 1
      BY <1>5, <1>8
    <2> HIDE DEF top
    <2> QED
      BY <1>1, <2>1
  <1> QED
    BY <1>1, <1>3, <1>9

\* The row of a cell in its block, and the cells before the next row.
LEMMA RowOfCell ==
    ASSUME NEW cell \in Nat
    PROVE  /\ Low(cell) \in 0..Block - 1 /\ Low(cell) <= cell
           /\ cell < Block => Low(cell) = cell
           /\ Row(cell) \in Nat
           /\ Row(cell) * Cols <= Low(cell)
           /\ Low(cell) < (Row(cell) + 1) * Cols
  <1> DEFINE l == cell % Block
             h == cell \div Block
             r == l \div Cols
             c == l % Cols
  <1>1. Block \in Nat \ {0} /\ Cols \in Nat \ {0}
    BY Sizes
  <1>2. h \in Nat /\ l \in 0..Block - 1 /\ cell = Block * h + l
    BY <1>1, Division
  <1>3. Low(cell) = l /\ Row(cell) = r
    BY DEF Low, Row
  <1> HIDE DEF l, h
  <1>4. l \in Nat
    BY <1>1, <1>2
  <1>5. r \in Nat /\ c \in 0..Cols - 1 /\ l = Cols * r + c
    BY <1>1, <1>4, Division
  <1> HIDE DEF r, c
  <1>6. Block * h \in Nat /\ (h # 0 => Block * h >= Block)
    BY <1>1, <1>2
  <1>7. l <= cell /\ (cell < Block => l = cell)
    <2>1. cell < Block => h = 0
      BY <1>1, <1>2, <1>6
    <2> QED
      BY <1>1, <1>2, <1>6, <2>1
  <1>8. Cols * r = r * Cols /\ (r + 1) * Cols = Cols * r + Cols
    BY <1>1, <1>5
  <1>9. r * Cols <= l /\ l < (r + 1) * Cols
    BY <1>1, <1>5, <1>8
  <1> QED
    BY <1>2, <1>3, <1>5, <1>7, <1>9

\* A line that is begun lies in the same block, behind the cell where the
\* one before ended unless that was the last one.
LEMMA RowBelow ==
    ASSUME NEW cell \in Positions
    PROVE  /\ NextRow(cell) \in Positions
           /\ Row(cell) < LastRow => NextRow(cell) > cell
  <1> DEFINE r == Row(cell)
             l == Low(cell)
             h == cell \div Block
             q == (r + 1) % (LastRow + 1)
             max == Cells \div Block
  <1>1. /\ Cols \in Nat \ {0} /\ LastRow \in Nat /\ Cells \in Nat
        /\ Block \in Nat \ {0} /\ Block > (LastRow + 1) * Cols
        /\ cell \in Nat
    BY Sizes
  <1>2. r \in Nat /\ l \in 0..Block - 1 /\ l < (r + 1) * Cols
    BY <1>1, RowOfCell
  <1>3. h \in Nat /\ cell = Block * h + l /\ max \in Nat
    BY <1>1, Division DEF Low
  <1>4. cell \in 0..(max + 1) * Block - 1
    BY DEF Positions
  <1>5. NextRow(cell) = cell - l + q * Cols
    BY DEF NextRow
  <1> HIDE DEF r, l, h, max
  <1>6. q \in 0..LastRow /\ (r < LastRow => q = r + 1)
    BY <1>1, <1>2
  <1> HIDE DEF q
  <1>7. q * Cols \in Nat /\ q * Cols <= (LastRow + 1) * Cols
        /\ (LastRow + 1) * Cols \in Nat
    BY <1>1, <1>6
  <1>8. h <= max
    <2>1. ASSUME h >= max + 1
          PROVE  FALSE
      <3>1. Block * h >= Block * (max + 1) /\ Block * (max + 1) = (max + 1) * Block
        BY <1>1, <1>3, <2>1
      <3>2. Block * h \in Nat /\ (max + 1) * Block \in Nat
        BY <1>1, <1>3
      <3> QED
        BY <1>1, <1>2, <1>3, <1>4, <3>1, <3>2
    <2> QED
      BY <1>3, <2>1
  <1>9. NextRow(cell) \in 0..(max + 1) * Block - 1
    <2>1. Block * h \in Nat /\ Block * max \in Nat /\ Block * h <= Block * max
          /\ (max + 1) * Block = Block * max + Block
      BY <1>1, <1>3, <1>8
    <2>2. NextRow(cell) = Block * h + q * Cols
      BY <1>1, <1>2, <1>3, <1>5, <1>7, <2>1
    <2> QED
      BY <1>1, <1>7, <2>1, <2>2
  <1>10. r < LastRow => NextRow(cell) > cell
    <2>1. r < LastRow => q * Cols > l
      BY <1>2, <1>6
    <2> QED
      BY <1>1, <1>2, <1>5, <1>7, <2>1
  <1> QED
    BY <1>9, <1>10 DEF Positions, r, max

-----------------------------------------------------------------------------
(* What is under way.                                                      *)

\* The print that runs has the types of an activation.
LEMMA TopTyped ==
    ASSUME PrintingTypeOK, active # <<>>
    PROVE  /\ Len(active) \in DOMAIN active /\ Top \in ActivationType
           /\ Top.edi \in Positions /\ Top.at \in Nat \ {0}
  <1>1. Len(active) \in DOMAIN active /\ Top \in ActivationType
    BY DEF PrintingTypeOK, Top
  <1> HIDE DEF Top
  <1>2. Top.edi \in Positions /\ Top.at \in Nat \ {0}
    BY <1>1 DEF ActivationType
  <1> QED
    BY <1>1, <1>2

\* The text a print belongs to.
OwnText(a) ==
    a.buf = IF a.kind = "exception" THEN ReportText ELSE Vsprintf(a.call).text

\* A further print that is begun: it has its own text and begins where the
\* last one that has ended left the position.
LEMMA PushKeeps ==
    ASSUME PrintInv, NEW a \in ActivationType, OwnText(a),
           active' = Append(active, a), Len(active) <= 2,
           a.edi = display_position, a.from = display_position,
           display_position' = display_position,
           derailed' = derailed, extent' = extent,
           a.kind = "process" => active = <<>>,
           a.kind = "handler" => \/ active = <<>>
                                 \/ Len(active) = 1 /\ active[1].kind = "process",
           a.kind = "exception" => active # <<>> /\ Stuck(Top)
    PROVE  PrintInv'
  <1> USE DEF PrintInv, PrintsItsOwn, PrintingTypeOK
  <1>1. /\ active \in Seq(ActivationType) /\ active' \in Seq(ActivationType)
        /\ Len(active') = Len(active) + 1
        /\ DOMAIN active' = DOMAIN active \cup {Len(active) + 1}
        /\ \A k \in DOMAIN active : active'[k] = active[k]
        /\ active'[Len(active) + 1] = a
    OBVIOUS
  <1>2. PrintingTypeOK'
    BY <1>1
  <1>3. \A k \in DOMAIN active : OwnText(active[k])
    BY DEF OwnText
  <1>4. \A k \in DOMAIN active' : OwnText(active'[k])
    BY <1>1, <1>3
  <1>5. PrintsItsOwn'
    BY <1>2, <1>4 DEF OwnText
  <1>6. Stacked'
    <2> SUFFICES ASSUME NEW k \in DOMAIN active'
                 PROVE  /\ active'[k].kind = "process" => k = 1
                        /\ active'[k].kind = "handler" =>
                             k = 1 \/ (k = 2 /\ active'[1].kind = "process")
                        /\ active'[k].kind = "exception" =>
                             k > 1 /\ Stuck(active'[k - 1])
      BY DEF Stacked, Stuck, Ended, Row, Low, Low
    <2>1. CASE k \in DOMAIN active
      <3>1. active'[k] = active[k] /\ active'[1] = active[1]
            /\ (k > 1 => active'[k - 1] = active[k - 1])
        BY <1>1, <2>1
      <3> QED
        BY <2>1, <3>1 DEF Stacked
    <2>2. CASE k = Len(active) + 1
      <3>1. active'[k] = a
        BY <1>1, <2>2
      <3>2. active # <<>> => /\ active'[k - 1] = Top /\ k > 1
                             /\ active'[1] = active[1]
        BY <1>1, <2>2 DEF Top
      <3>3. active = <<>> => k = 1
        BY <2>2
      <3>4. Len(active) = 1 => k = 2 /\ active # <<>>
        BY <1>1, <2>2
      <3> QED
        BY <3>1, <3>2, <3>3, <3>4
    <2> QED
      BY <1>1, <2>1, <2>2
  <1>7. /\ active = <<>> => active'[1] = a /\ DOMAIN active' = {1}
        /\ active # <<>> => active'[1] = active[1]
    BY <1>1
  <1>8. NoneBefore'
    <2>1. display_position \in Nat
      BY Sizes
    <2> QED
      BY <1>7, <2>1 DEF NoneBefore
  <1>9. OldTextStays'
    <2> SUFFICES ASSUME extent # ComeRound
                 PROVE  /\ active'[1].edi >= extent
                        /\ \A k \in DOMAIN active' :
                             active'[k].edi >= active'[1].from
      BY <1>1 DEF OldTextStays
    <2>1. display_position \in Nat
      BY Sizes
    <2>2. CASE active = <<>>
      BY <1>7, <2>1, <2>2 DEF OldTextStays
    <2>3. CASE active # <<>>
      <3>1. a.edi >= active[1].from
        BY <2>3 DEF NoneBefore
      <3> QED
        BY <1>1, <1>7, <2>3, <3>1 DEF OldTextStays
    <2> QED
      BY <2>2, <2>3
  <1> QED
    BY <1>5, <1>6, <1>8, <1>9

\* A step of the print that runs, which keeps its text and goes on behind
\* the extent.
LEMMA PutKeeps ==
    ASSUME PrintInv, active # <<>>, NEW a \in ActivationType,
           a.kind = Top.kind, a.call = Top.call, a.buf = Top.buf,
           a.from = Top.from,
           Put(a), display_position' = display_position,
           derailed' \in BOOLEAN, extent' \in Positions \cup {ComeRound},
           extent' # ComeRound =>
             /\ extent # ComeRound /\ a.edi >= Top.edi
             /\ IF Len(active) = 1 THEN a.edi >= extent' ELSE extent' = extent
    PROVE  PrintInv'
  <1> USE DEF PrintInv, PrintsItsOwn, PrintingTypeOK
  <1> DEFINE n == Len(active)
  <1>1. /\ active \in Seq(ActivationType) /\ active' \in Seq(ActivationType)
        /\ n \in DOMAIN active /\ Len(active') = n
        /\ DOMAIN active' = DOMAIN active
        /\ \A k \in DOMAIN active \ {n} : active'[k] = active[k]
        /\ active'[n] = a /\ active[n] = Top
    BY DEF Put, Top
  <1>2. PrintingTypeOK'
    BY <1>1
  <1>3. \A k \in DOMAIN active : OwnText(active[k])
    BY DEF OwnText
  <1>4. \A k \in DOMAIN active' : OwnText(active'[k])
    BY <1>1, <1>3 DEF OwnText
  <1>5. PrintsItsOwn'
    BY <1>2, <1>4 DEF OwnText
  <1>6. \A k \in DOMAIN active : active'[k].kind = active[k].kind
    BY <1>1
  <1>7. Stacked'
    <2> SUFFICES ASSUME NEW k \in DOMAIN active'
                 PROVE  /\ active'[k].kind = "process" => k = 1
                        /\ active'[k].kind = "handler" =>
                             k = 1 \/ (k = 2 /\ active'[1].kind = "process")
                        /\ active'[k].kind = "exception" =>
                             k > 1 /\ Stuck(active'[k - 1])
      BY DEF Stacked, Stuck, Ended, Row, Low, Low
    <2>1. active'[k].kind = active[k].kind /\ active'[1].kind = active[1].kind
      BY <1>1, <1>6
    <2>2. k > 1 => k - 1 \in DOMAIN active \ {n} /\ active'[k - 1] = active[k - 1]
      BY <1>1
    <2> QED
      BY <1>1, <2>1, <2>2 DEF Stacked
  <1>8. 1 \in DOMAIN active /\ active'[1].from = active[1].from
    BY <1>1
  <1>9. NoneBefore'
    BY <1>1, <1>8 DEF NoneBefore
  <1>10. OldTextStays'
    <2> SUFFICES ASSUME extent' # ComeRound
                 PROVE  /\ active' # <<>> /\ active'[1].edi >= extent'
                        /\ \A k \in DOMAIN active' :
                             active'[k].edi >= active'[1].from
      BY DEF OldTextStays
    <2>1. /\ active[1].edi >= extent
          /\ \A k \in DOMAIN active : active[k].edi >= active[1].from
      BY DEF OldTextStays
    <2>2. \A k \in DOMAIN active :
            /\ active[k].edi \in Nat /\ active[k].from \in Nat
            /\ active'[k].edi \in Nat
      <3>1. \A k \in DOMAIN active :
              active[k] \in ActivationType /\ active'[k] \in ActivationType
        BY <1>1
      <3>2. \A b \in ActivationType : b.edi \in Nat /\ b.from \in Nat
        BY Sizes DEF ActivationType
      <3> QED
        BY <3>1, <3>2
    <2>3. \A k \in DOMAIN active : active'[k].edi >= active[k].edi
      <3> HIDE DEF Top
      <3> QED
        BY <1>1, <2>2
    <2>4. active'[1].edi >= extent'
      <3>1. CASE n = 1
        BY <1>1, <3>1
      <3>2. CASE n # 1
        BY <1>1, <1>8, <2>1, <3>2
      <3> QED
        BY <3>1, <3>2
    <2> QED
      BY <1>1, <1>8, <2>1, <2>2, <2>3, <2>4
  <1> QED
    BY <1>5, <1>7, <1>9, <1>10

-----------------------------------------------------------------------------
(* The invariant holds at boot, and no step breaks it.                     *)

\* At boot nothing is under way.
LEMMA PrintInitInv ==
    ASSUME PrintingInit
    PROVE  PrintInv
  <1>1. Start \in Positions /\ Start \in Nat
    BY PrintingAssumption, Sizes
  <1>2. active = <<>> /\ DOMAIN active = {} /\ Len(active) = 0
    BY DEF PrintingInit
  <1>3. active \in Seq(ActivationType)
    BY <1>2
  <1>4. derailed \in BOOLEAN
    BY DEF PrintingInit
  <1>5. extent = Start /\ display_position = Start
    BY DEF PrintingInit
  <1>6. PrintsItsOwn
    BY <1>1, <1>2, <1>3, <1>4, <1>5 DEF PrintsItsOwn, PrintingTypeOK
  <1>7. Stacked /\ NoneBefore
    BY <1>2 DEF Stacked, NoneBefore
  <1>8. OldTextStays
    BY <1>1, <1>2, <1>5 DEF OldTextStays
  <1> QED
    BY <1>6, <1>7, <1>8 DEF PrintInv

\* What a process prints.
LEMMA ProcessStep ==
    ASSUME PrintInv, NEW call \in Calls, PrintProcess(call)
    PROVE  PrintInv'
  <1> DEFINE a == [kind |-> "process", call |-> call,
                   buf |-> Vsprintf(call).text, at |-> 1,
                   edi |-> display_position, from |-> display_position]
  <1>1. a \in ActivationType
    BY DEF ActivationType, Kinds, Texts, PrintInv, PrintsItsOwn,
           PrintingTypeOK
  <1>2. active = <<>> /\ active' = Append(active, a)
    BY DEF PrintProcess, Begin
  <1>3. OwnText(a) /\ a.kind = "process" /\ a.edi = display_position
        /\ a.from = display_position
    BY DEF OwnText
  <1>4. Len(active) <= 2 /\ extent' = extent
        /\ display_position' = display_position /\ derailed' = derailed
    BY <1>2 DEF PrintProcess
  <1> HIDE DEF a
  <1> QED
    BY <1>1, <1>2, <1>3, <1>4, PushKeeps

\* What the handler of the keyboard prints.
LEMMA KeyStep ==
    ASSUME PrintInv, NEW call \in KeyCalls, PrintKey(call)
    PROVE  PrintInv'
  <1> DEFINE a == [kind |-> "handler", call |-> call,
                   buf |-> Vsprintf(call).text, at |-> 1,
                   edi |-> display_position, from |-> display_position]
  <1>1. a \in ActivationType
    BY DEF ActivationType, Kinds, Texts, PrintInv, PrintsItsOwn,
           PrintingTypeOK
  <1>2. active' = Append(active, a)
    BY DEF PrintKey, Begin
  <1>3. OwnText(a) /\ a.kind = "handler" /\ a.edi = display_position
        /\ a.from = display_position
    BY DEF OwnText
  <1>4. /\ display_position' = display_position /\ derailed' = derailed
        /\ extent' = extent
    BY DEF PrintKey
  <1>5. \A k \in DOMAIN active : active[k].kind = "process" /\ k = 1
    BY DEF PrintKey, KeyMasked, PrintInv, Stacked
  <1>6. active \in Seq(ActivationType)
    BY DEF PrintInv, PrintsItsOwn, PrintingTypeOK
  <1>7. active = <<>> \/ (Len(active) = 1 /\ active[1].kind = "process")
    <2>1. CASE Len(active) = 0
      BY <1>6, <2>1
    <2>2. CASE Len(active) # 0
      <3>1. Len(active) \in DOMAIN active
        BY <1>6, <2>2
      <3> QED
        BY <1>5, <3>1
    <2> QED
      BY <2>1, <2>2
  <1>8. Len(active) <= 2
    BY <1>7
  <1> HIDE DEF a
  <1> QED
    BY <1>1, <1>2, <1>3, <1>4, <1>7, <1>8, PushKeeps

\* A character that is stored.
LEMMA PutCharStep ==
    ASSUME PrintInv, PutChar
    PROVE  PrintInv'
  <1> DEFINE a == [Top EXCEPT !.at = @ + 1, !.edi = @ + 1]
  <1>1. active # <<>> /\ Top.edi < Cells
    BY DEF PutChar, More, Busy
  <1>2. /\ Top \in ActivationType /\ Top.edi \in Nat
        /\ Top.at \in Nat \ {0} /\ Cells \in Nat
    BY <1>1, TopTyped, Sizes DEF PrintInv, PrintsItsOwn
  <1>3. Put(a) /\ extent' = Grown(Top.edi)
        /\ display_position' = display_position /\ derailed' = derailed
    BY DEF PutChar
  <1>4. a \in ActivationType /\ a.kind = Top.kind /\ a.call = Top.call
        /\ a.buf = Top.buf /\ a.from = Top.from /\ a.edi = Top.edi + 1
    <2>1. Top.at + 1 \in Nat \ {0} /\ Top.edi + 1 \in Positions
      BY <1>1, <1>2, Sizes
    <2> HIDE DEF Top
    <2> QED
      BY <1>2, <2>1 DEF ActivationType
  <1>5. extent \in Positions \cup {ComeRound} /\ derailed \in BOOLEAN
    BY DEF PrintInv, PrintsItsOwn, PrintingTypeOK
  <1>6. extent # ComeRound /\ Len(active) = 1 => extent <= Top.edi
    BY <1>1 DEF PrintInv, OldTextStays, Top
  <1>7. extent' \in Positions \cup {ComeRound}
    <2>1. Top.edi + 1 \in Positions
      BY <1>1, <1>2, Sizes
    <2> QED
      BY <1>3, <1>5, <2>1 DEF Grown
  <1>8. ASSUME extent' # ComeRound
        PROVE  /\ extent # ComeRound /\ a.edi >= Top.edi
               /\ IF Len(active) = 1 THEN a.edi >= extent' ELSE extent' = extent
    <2>1. Top.edi + 1 # ComeRound
      BY <1>2, PrintingAssumption
    <2>2. extent # ComeRound
      BY <1>3, <1>8, <2>1 DEF Grown
    <2>3. extent \in Nat
      BY <1>5, <2>2, Sizes
    <2> HIDE DEF Top, a
    <2> QED
      BY <1>2, <1>3, <1>4, <1>6, <2>2, <2>3 DEF Grown
  <1> HIDE DEF a
  <1> QED
    BY <1>1, <1>3, <1>4, <1>5, <1>7, <1>8, PutKeeps

\* A newline.
LEMMA BreakLineStep ==
    ASSUME PrintInv, BreakLine
    PROVE  PrintInv'
  <1> DEFINE a == [Top EXCEPT !.at = @ + 1, !.edi = NextRow(@)]
  <1>1. active # <<>> /\ Row(Top.edi) <= LastRow
    BY DEF BreakLine, More, Busy
  <1>2. /\ Top \in ActivationType /\ Top.edi \in Positions /\ Top.edi \in Nat
        /\ Top.at \in Nat \ {0} /\ LastRow \in Nat
    BY <1>1, TopTyped, Sizes DEF PrintInv, PrintsItsOwn
  <1>3. /\ Put(a) /\ display_position' = display_position
        /\ derailed' = derailed
        /\ extent' = IF Row(Top.edi) = LastRow THEN ComeRound ELSE extent
    BY DEF BreakLine
  <1>4. /\ NextRow(Top.edi) \in Positions /\ NextRow(Top.edi) \in Nat
        /\ Row(Top.edi) < LastRow => NextRow(Top.edi) > Top.edi
        /\ Row(Top.edi) \in Nat
    BY <1>2, RowBelow, RowOfCell, Sizes
  <1>5. a \in ActivationType /\ a.kind = Top.kind /\ a.call = Top.call
        /\ a.buf = Top.buf /\ a.from = Top.from /\ a.edi = NextRow(Top.edi)
    <2>1. Top.at + 1 \in Nat \ {0}
      BY <1>2
    <2> HIDE DEF Top
    <2> QED
      BY <1>2, <1>4, <2>1 DEF ActivationType
  <1>6. extent \in Positions \cup {ComeRound} /\ derailed \in BOOLEAN
    BY DEF PrintInv, PrintsItsOwn, PrintingTypeOK
  <1>7. extent # ComeRound /\ Len(active) = 1 => extent <= Top.edi
    BY <1>1 DEF PrintInv, OldTextStays, Top
  <1>8. extent' \in Positions \cup {ComeRound}
    BY <1>3, <1>6
  <1>9. ASSUME extent' # ComeRound
        PROVE  /\ extent # ComeRound /\ a.edi >= Top.edi
               /\ IF Len(active) = 1 THEN a.edi >= extent' ELSE extent' = extent
    <2>1. Row(Top.edi) < LastRow /\ extent' = extent
      BY <1>1, <1>2, <1>3, <1>4, <1>9
    <2>2. extent \in Nat
      BY <1>6, <1>9, <2>1, Sizes
    <2> HIDE DEF Top, a
    <2> QED
      BY <1>2, <1>4, <1>5, <1>7, <1>9, <2>1, <2>2
  <1> HIDE DEF a
  <1> QED
    BY <1>1, <1>3, <1>5, <1>6, <1>8, <1>9, PutKeeps

\* All but the last print, and that one.
LEMMA FrontAndTop ==
    ASSUME PrintingTypeOK, active # <<>>
    PROVE  /\ Front(active) \in Seq(ActivationType)
           /\ Len(Front(active)) = Len(active) - 1
           /\ \A k \in DOMAIN Front(active) :
                k \in DOMAIN active /\ Front(active)[k] = active[k]
           /\ Front(active) \o <<Top>> = active
  <1> DEFINE f == Front(active)
             n == Len(active)
  <1>1. active \in Seq(ActivationType) /\ n \in Nat \ {0}
    BY DEF PrintingTypeOK
  <1>2. /\ f \in Seq(ActivationType) /\ Len(f) = n - 1
        /\ \A k \in 1..n - 1 : f[k] = active[k]
    <2>1. f = SubSeq(active, 1, n - 1)
      BY DEF Front
    <2> HIDE DEF f
    <2>2. \A k \in 1..n - 1 : active[k] \in ActivationType
      BY <1>1
    <2>3. /\ f \in Seq(ActivationType)
          /\ Len(f) = IF 1 <= n - 1 THEN (n - 1) - 1 + 1 ELSE 0
          /\ \A k \in 1..(n - 1) - 1 + 1 : f[k] = active[1 + k - 1]
      BY <1>1, <2>1, <2>2, SubSeqProperties
    <2> HIDE DEF n
    <2>4. Len(f) = n - 1
      BY <1>1, <2>3
    <2>5. \A k \in 1..n - 1 : k \in 1..(n - 1) - 1 + 1 /\ 1 + k - 1 = k
      BY <1>1
    <2>6. \A k \in 1..n - 1 : f[k] = active[k]
      BY <2>3, <2>5
    <2> QED
      BY <2>3, <2>4, <2>6
  <1>3. \A k \in DOMAIN f : k \in DOMAIN active /\ f[k] = active[k]
    BY <1>1, <1>2
  <1>4. Top = active[n] /\ Top \in ActivationType
    BY <1>1 DEF Top
  <1> HIDE DEF f, Top
  <1>5. /\ f \o <<Top>> \in Seq(ActivationType) /\ Len(f \o <<Top>>) = n
        /\ \A k \in 1..n : (f \o <<Top>>)[k] = active[k]
    BY <1>1, <1>2, <1>4
  <1>6. f \o <<Top>> = active
    BY <1>1, <1>5
  <1> QED
    BY <1>2, <1>3, <1>6 DEF f

\* What an exception prints has no newline.
LEMMA NoExceptionDivides ==
    ASSUME PrintInv, active # <<>>, ~Ended(Top), Top.buf[Top.at] = Newline
    PROVE  Top.kind # "exception"
  <1>1. Len(active) \in DOMAIN active /\ Top.at \in Nat \ {0}
    BY TopTyped DEF PrintInv, PrintsItsOwn
  <1>2. SUFFICES ASSUME Top.kind = "exception"
                 PROVE  FALSE
    OBVIOUS
  <1>3. Top.buf = ReportText
    BY <1>1, <1>2 DEF PrintInv, PrintsItsOwn, Top
  <1>4. ReportText \in Seq(STRING) /\ Newline \notin ToSet(ReportText)
    BY PrintingAssumption
  <1>5. Top.at \in DOMAIN ReportText
    BY <1>1, <1>3, <1>4 DEF Ended
  <1> QED
    BY <1>3, <1>4, <1>5 DEF ToSet

\* A division that fails.
LEMMA DivideStep ==
    ASSUME PrintInv, DivideError
    PROVE  PrintInv'
  <1> DEFINE a == [kind |-> "exception", call |-> <<>>, buf |-> ReportText,
                   at |-> 1, edi |-> display_position,
                   from |-> display_position]
             b == Begin("exception", <<>>, ReportText)
  <1>1. active # <<>> /\ ~Ended(Top) /\ Stuck(Top) /\ Top.buf[Top.at] = Newline
    BY DEF DivideError, More, Busy, Stuck
  <1>2. PrintingTypeOK /\ active \in Seq(ActivationType)
    BY DEF PrintInv, PrintsItsOwn, PrintingTypeOK
  <1>3. a \in ActivationType
    BY <1>2 DEF ActivationType, Kinds, Texts, PrintingTypeOK
  <1>4. OwnText(a) /\ a.kind = "exception" /\ a.edi = display_position
        /\ a.from = display_position
    BY DEF OwnText
  <1>5. b = Append(active, a)
    BY DEF Begin
  <1> HIDE DEF a, b
  <1>6. Last(b) = a
    BY <1>2, <1>3, <1>5 DEF Last
  <1>7. active' = Append(Front(active) \o <<Top>>, Last(b))
    BY DEF DivideError, Faulted, b
  <1>8. active' = Append(active, a)
    BY <1>1, <1>2, <1>6, <1>7, FrontAndTop
  <1>9. Len(active) <= 2
    <2>1. Top.kind \in {"process", "handler"} /\ Len(active) \in DOMAIN active
      BY <1>1, <1>2, NoExceptionDivides, TopTyped DEF ActivationType, Kinds
    <2>2. Stacked /\ Top = active[Len(active)]
      BY DEF PrintInv, Top
    <2> HIDE DEF Top
    <2>3. ASSUME NEW n \in DOMAIN active
          PROVE  /\ active[n].kind = "process" => n = 1
                 /\ active[n].kind = "handler" => n = 1 \/ n = 2
      BY <2>2 DEF Stacked
    <2>4. /\ active[Len(active)].kind = "process" => Len(active) = 1
          /\ active[Len(active)].kind = "handler" =>
               Len(active) = 1 \/ Len(active) = 2
      BY <2>1, <2>3
    <2> QED
      BY <2>1, <2>2, <2>4
  <1>10. /\ extent' = extent /\ display_position' = display_position
         /\ derailed' = derailed
    BY DEF DivideError
  <1> QED
    BY <1>1, <1>3, <1>4, <1>8, <1>9, <1>10, PushKeeps

\* The end of a print.
LEMMA EndStep ==
    ASSUME PrintInv, PrintEnd
    PROVE  PrintInv'
  <1> DEFINE f == Front(active)
  <1>1. active # <<>> /\ PrintingTypeOK
    BY DEF PrintEnd, Busy, PrintInv, PrintsItsOwn
  <1>2. /\ active' = f /\ display_position' = Top.edi
        /\ derailed' = derailed /\ extent' = extent
    BY DEF PrintEnd
  <1>3. /\ f \in Seq(ActivationType) /\ Len(f) = Len(active) - 1
        /\ \A k \in DOMAIN f : k \in DOMAIN active /\ f[k] = active[k]
    BY <1>1, FrontAndTop
  <1>4. /\ Top.edi \in Positions /\ Len(active) \in Nat /\ Len(active) <= 3
        /\ Len(active) \in DOMAIN active /\ Top = active[Len(active)]
    BY <1>1, TopTyped DEF PrintingTypeOK, Top
  <1> HIDE DEF f
  <1>5. PrintingTypeOK'
    BY <1>1, <1>2, <1>3, <1>4 DEF PrintingTypeOK
  <1>6. \A k \in DOMAIN f : OwnText(f[k])
    BY <1>3 DEF PrintInv, PrintsItsOwn, OwnText
  <1>7. PrintsItsOwn'
    BY <1>2, <1>5, <1>6 DEF PrintsItsOwn, OwnText
  <1>8. Stacked'
    <2> SUFFICES ASSUME NEW k \in DOMAIN f
                 PROVE  /\ f[k].kind = "process" => k = 1
                        /\ f[k].kind = "handler" =>
                             k = 1 \/ (k = 2 /\ f[1].kind = "process")
                        /\ f[k].kind = "exception" => k > 1 /\ Stuck(f[k - 1])
      BY <1>2 DEF Stacked, Stuck, Ended, Row, Low, Low
    <2>1. 1 \in DOMAIN f /\ (k > 1 => k - 1 \in DOMAIN f)
      BY <1>3
    <2>2. k \in DOMAIN active /\ f[k] = active[k] /\ f[1] = active[1]
          /\ (k > 1 => f[k - 1] = active[k - 1])
      BY <1>3, <2>1
    <2> QED
      BY <2>2 DEF PrintInv, Stacked
  <1>9. f # <<>> => f[1] = active[1]
    BY <1>3
  <1>10. extent # ComeRound =>
           /\ active[1].edi >= extent
           /\ \A k \in DOMAIN active : active[k].edi >= active[1].from
    BY <1>1 DEF PrintInv, OldTextStays
  <1>11. NoneBefore'
    BY <1>2, <1>4, <1>9, <1>10 DEF NoneBefore
  <1>12. OldTextStays'
    <2>1. f = <<>> => Len(active) = 1
      BY <1>3, <1>4
    <2> QED
      BY <1>2, <1>3, <1>4, <1>9, <1>10, <2>1 DEF OldTextStays
  <1> QED
    BY <1>7, <1>8, <1>11, <1>12 DEF PrintInv

\* Every step.
LEMMA PrintNextInv ==
    ASSUME PrintInv, [PrintingNext]_printVars
    PROVE  PrintInv'
  <1>1. CASE PrintingNext
    <2>1. ASSUME NEW call \in Calls, PrintProcess(call)
          PROVE  PrintInv'
      BY <2>1, ProcessStep
    <2>2. ASSUME NEW call \in KeyCalls, PrintKey(call)
          PROVE  PrintInv'
      BY <2>2, KeyStep
    <2>3. CASE PutChar
      BY <2>3, PutCharStep
    <2>4. CASE BreakLine
      BY <2>4, BreakLineStep
    <2>5. CASE DivideError
      BY <2>5, DivideStep
    <2>6. CASE PrintEnd
      BY <2>6, EndStep
    <2>7. CASE StoreOnPageDir
      BY <2>7 DEF StoreOnPageDir, PrintInv, PrintsItsOwn, PrintingTypeOK,
                  Stacked, Stuck, Ended, Row, Low, NoneBefore, OldTextStays, Top
    <2> QED
      BY <1>1, <2>1, <2>2, <2>3, <2>4, <2>5, <2>6, <2>7
      DEF PrintingNext, LowPrint
  <1>2. CASE UNCHANGED printVars
    BY <1>2 DEF printVars, PrintInv, PrintsItsOwn, PrintingTypeOK, Stacked,
                Stuck, Ended, Row, Low, NoneBefore, OldTextStays, Top
  <1> QED
    BY <1>1, <1>2

\* Whatever processes and keys print.
THEOREM PrintInvariance == PrintingSpec => []PrintInv
  <1>1. PrintingInit => PrintInv
    BY PrintInitInv
  <1>2. PrintInv /\ [PrintingNext]_printVars => PrintInv'
    BY PrintNextInv
  <1> QED
    BY <1>1, <1>2, PTL DEF PrintingSpec

\* misc.c:31: whoever interrupts k_printf, the buffer of the one below is not
\* touched.
THEOREM BuffersAreOwn == PrintingSpec => []PrintsItsOwn
  <1>1. PrintInv => PrintsItsOwn
    BY DEF PrintInv
  <1> QED
    BY <1>1, PrintInvariance, PTL

\* kernel_386lib.asm:18-60: what is on the screen before a print begins stays
\* there, whoever interrupts the print, and the position is left behind it,
\* for every width of a line, every block and every size of the screen.
THEOREM TextStays == PrintingSpec => []OldTextStays
  <1>1. PrintInv => OldTextStays
    BY DEF PrintInv
  <1> QED
    BY <1>1, PrintInvariance, PTL

-----------------------------------------------------------------------------
(* An exception while printing is the end.                                 *)

\* Somebody divides in vain.
Down == \E k \in DOMAIN active : Stuck(active[k])

\* No step gets him on.
LEMMA DownStays ==
    ASSUME PrintInv, Down, [PrintingNext]_printVars
    PROVE  Down'
  <1> DEFINE n == Len(active)
  <1>1. PICK k \in DOMAIN active : Stuck(active[k])
    BY DEF Down
  <1>2. active # <<>> /\ PrintingTypeOK /\ active \in Seq(ActivationType)
    BY <1>1 DEF PrintInv, PrintsItsOwn, PrintingTypeOK
  <1>3. n \in DOMAIN active /\ Top = active[n] /\ DOMAIN active = 1..n
    BY <1>2 DEF Top
  <1>4. SUFFICES k \in DOMAIN active' /\ active'[k] = active[k]
    BY <1>1, <1>4 DEF Down, Stuck, Ended, Row, Low, Low
  <1>5. ASSUME NEW a, active' = Append(active, a)
        PROVE  k \in DOMAIN active' /\ active'[k] = active[k]
    BY <1>2, <1>5
  <1>6. ASSUME NEW a, Put(a), ~Stuck(Top)
        PROVE  k \in DOMAIN active' /\ active'[k] = active[k]
    BY <1>1, <1>2, <1>3, <1>6 DEF Put
  <1>7. CASE PrintingNext
    <2>1. ASSUME NEW call \in Calls, PrintProcess(call)
          PROVE  FALSE
      BY <1>2, <2>1 DEF PrintProcess
    <2>2. CASE \E call \in KeyCalls : PrintKey(call)
      BY <1>5, <2>2 DEF PrintKey, Begin
    <2>3. CASE PutChar
      BY <1>6, <2>3 DEF PutChar, Stuck
    <2>4. CASE BreakLine
      <3>1. Row(Top.edi) \in Nat /\ LastRow \in Nat
        BY <1>2, TopTyped, RowOfCell, Sizes
      <3>2. ~Stuck(Top)
        BY <2>4, <3>1 DEF BreakLine, Stuck
      <3> QED
        BY <1>6, <2>4, <3>2 DEF BreakLine
    <2>5. CASE DivideError
      <3>1. active' = Append(active, Last(Begin("exception", <<>>, ReportText)))
        BY <1>2, <2>5, FrontAndTop DEF DivideError, Faulted
      <3> QED
        BY <1>5, <3>1
    <2>6. CASE PrintEnd
      <3>1. k # n
        BY <1>1, <1>3, <2>6 DEF PrintEnd, Stuck
      <3>2. active' = Front(active)
        BY <2>6 DEF PrintEnd
      <3>3. /\ Front(active) \in Seq(ActivationType)
            /\ Len(Front(active)) = n - 1
            /\ \A j \in DOMAIN Front(active) : Front(active)[j] = active[j]
        BY <1>2, FrontAndTop
      <3>4. k \in DOMAIN Front(active)
        BY <1>2, <1>3, <3>1, <3>3
      <3> QED
        BY <3>2, <3>3, <3>4
    <2>7. CASE StoreOnPageDir
      BY <2>7 DEF StoreOnPageDir
    <2> QED
      BY <1>7, <2>1, <2>2, <2>3, <2>4, <2>5, <2>6, <2>7
      DEF PrintingNext, LowPrint
  <1>8. CASE UNCHANGED printVars
    BY <1>8 DEF printVars
  <1> QED
    BY <1>7, <1>8

\* exception.c:49: once an exception has reported that the system is down,
\* the print it lies on never comes to an end.
THEOREM ExceptionIsTheEnd == PrintingSpec => DownForGood
  <1>1. PrintInv => (Reporting => Down)
    BY DEF PrintInv, PrintsItsOwn, PrintingTypeOK, Stacked, Reporting, Down
  <1>2. PrintInv /\ Down /\ [PrintingNext]_printVars => Down'
    BY DownStays
  <1>3. Down => active # <<>>
    BY DEF Down
  <1> QED
    BY <1>1, <1>2, <1>3, PrintInvariance, PTL DEF PrintingSpec, DownForGood

-----------------------------------------------------------------------------
(* Numbers and their digits.                                               *)

\* The one before a number.
Before == [n \in Nat |-> IF n = 0 THEN 0 ELSE n - 1]

\* The powers of two.
LEMMA Powers ==
    /\ TwoTo[0] = 1
    /\ \A n \in Nat : TwoTo[n] \in Nat \ {0}
    /\ \A n \in Nat \ {0} : TwoTo[n] = 2 * TwoTo[n - 1]
  <1> DEFINE x == [n \in Nat |-> 1]
             p == Before
             F == [q \in Nat \X Nat |-> 2 * q[2]]
  <1>1. /\ x \in [Nat -> Nat] /\ {0} \in SUBSET Nat
        /\ p \in [Nat -> Nat] /\ \A n \in Nat \ {0} : p[n] < n
    BY SMT DEF Before
  <1>2. \A n \in Nat, b \in Nat : F[<<n, b>>] = 2 * b /\ F[<<n, b>>] \in Nat
    BY SMT
  <1>3. \A n \in Nat : x[n] = 1 /\ (n # 0 => p[n] = n - 1)
    BY SMT DEF Before
  <1> HIDE DEF x, p, F
  <1>4. PICK f \in [Nat -> Nat] : FollowsAll(f, {0}, x, p, F)
    <2>1. \A n \in Nat, b \in Nat : F[<<n, b>>] \in Nat
      BY Zenon, <1>2
    <2> QED
      BY Zenon, <1>1, <2>1, Recursion
  <1>5. \A n \in Nat : n # 0 => n - 1 \in Nat
    BY SMT
  <1>6. \A n \in Nat : f[n] = IF n = 0 THEN 1 ELSE 2 * f[n - 1]
    <2>1. \A n \in Nat : f[n] = IF n \in {0} THEN x[n] ELSE F[<<n, f[p[n]]>>]
      BY Zenon, <1>4 DEF FollowsAll
    <2>2. \A n \in Nat : n # 0 => F[<<n, f[n - 1]>>] = 2 * f[n - 1]
      BY Zenon, <1>2, <1>5
    <2> QED
      BY Zenon, <1>3, <2>1, <2>2
  <1>7. f = [n \in Nat |-> IF n = 0 THEN 1 ELSE 2 * f[n - 1]]
    <2>1. f = [n \in Nat |-> f[n]]
      BY Zenon
    <2> QED
      BY SMT, <1>6, <2>1
  <1>8. TwoTo = [n \in Nat |-> IF n = 0 THEN 1 ELSE 2 * TwoTo[n - 1]]
    <2>1. TwoTo = CHOOSE g : g = [n \in Nat |-> IF n = 0 THEN 1 ELSE 2 * g[n - 1]]
      BY Zenon DEF TwoTo
    <2> QED
      BY Zenon, <1>7, <2>1
  <1>9. \A n \in Nat : TwoTo[n] = IF n = 0 THEN 1 ELSE 2 * TwoTo[n - 1]
    BY Zenon, <1>8
  <1>10. \A n \in Nat : TwoTo[n] \in Nat \ {0}
    <2> DEFINE S == {n \in Nat : TwoTo[n] \in Nat \ {0}}
    <2>1. ASSUME NEW n \in Nat, \A k \in Nat : k < n => k \in S PROVE n \in S
      <3>1. CASE n = 0
        BY SMT, <1>9, <3>1
      <3>2. CASE n # 0
        <4>1. n - 1 \in Nat /\ n - 1 < n
          BY SMT, <3>2
        <4>2. TwoTo[n - 1] \in Nat \ {0}
          BY Zenon, <2>1, <4>1
        <4>3. TwoTo[n] = 2 * TwoTo[n - 1]
          BY Zenon, <1>9, <3>2
        <4> QED
          BY SMT, <4>2, <4>3
      <3> QED
        BY Zenon, <3>1, <3>2
    <2> HIDE DEF S
    <2>2. \A n \in Nat : n \in S
      BY Zenon, <2>1, AllSmaller
    <2> QED
      BY Zenon, <2>2 DEF S
  <1> QED
    BY Zenon, <1>9, <1>10

\* What a character of a text can be: those of strings, of which `c' takes
\* the first one, those of vsprintf itself and the digits of printk.
Chars ==
    STRING \cup {Head(<<>>)} \cup {x2c_tab[i] : i \in 1..16}
           \cup {X2C_tab[i] : i \in 1..16} \cup {"0", " ", "-", "%"}
           \cup {PrintkDigit(rest) : rest \in 10..15}

\* A table of digits.
Tabled(table, base) == \A i \in 1..base : table[i] \in Chars

\* Dividing by the base.
LEMMA QuotientIs ==
    ASSUME NEW base \in Nat, base > 1, NEW n \in Nat
    PROVE  /\ n \div base \in Nat
           /\ n % base \in 0..(base - 1) /\ (n % base) + 1 \in 1..base
           /\ n = base * (n \div base) + (n % base)
           /\ n < base => n + 1 \in 1..base
           /\ n >= base => n \div base < n /\ n \div base >= 1
  <1> DEFINE q == n \div base
             r == n % base
  <1>1. r \in 0..(base - 1) /\ n = base * q + r /\ q \in Int
    BY SMT
  <1> HIDE DEF q, r
  <1>2. q >= 0
    <2>1. CASE q < 0
      <3>1. base * q <= base * (-1)
        BY SMT, <2>1, <1>1
      <3> QED
        BY SMT, <1>1, <3>1
    <2> QED
      BY SMT, <1>1, <2>1
  <1>3. q >= 1 => q < n
    <2>1. CASE q >= 1
      <3>1. base * q >= 2 * q
        BY SMT, <2>1, <1>1
      <3> QED
        BY SMT, <1>1, <2>1, <3>1
    <2> QED
      BY SMT, <1>1, <2>1
  <1>4. n >= base => q # 0
    <2>1. SUFFICES ASSUME q = 0 PROVE n < base
      BY SMT
    <2>2. base * q = 0
      BY SMT, <2>1
    <2> QED
      BY SMT, <1>1, <2>2
  <1>5. n >= base => q < n /\ q >= 1
    BY SMT, <1>1, <1>2, <1>3, <1>4
  <1>6. q \in Nat
    BY SMT, <1>1, <1>2
  <1>7. r + 1 \in 1..base /\ (n < base => n + 1 \in 1..base)
    BY SMT, <1>1
  <1> QED
    BY Zenon, <1>1, <1>5, <1>6, <1>7 DEF q, r

\* int2ascii: the digits without the last one are those of the quotient.
LEMMA NumeralIs ==
    ASSUME NEW base \in Nat, base > 1, NEW table, Tabled(table, base)
    PROVE  \A u \in Nat :
             /\ Numeral(u, base, table) \in Seq(Chars)
             /\ Numeral(u, base, table)
                  = IF u < base THEN <<table[u + 1]>>
                    ELSE Numeral(u \div base, base, table) \o <<table[(u % base) + 1]>>
  <1> DEFINE A == Seq(Chars)
             B == 0..(base - 1)
             x == [n \in Nat |-> IF n < base THEN <<table[n + 1]>> ELSE <<>>]
             p == [n \in Nat |-> n \div base]
             F == [q \in Nat \X A |-> q[2] \o <<table[(q[1] % base) + 1]>>]
             Digits == CHOOSE g : g = [n \in Nat |->
                                        IF n < base THEN <<table[n + 1]>>
                                        ELSE g[n \div base] \o <<table[(n % base) + 1]>>]
  <1>1. \A n \in Nat : /\ n \in B <=> n < base
                       /\ n < base => n + 1 \in 1..base
                       /\ (n % base) + 1 \in 1..base
                       /\ n \div base \in Nat
                       /\ n >= base => n \div base < n
    <2>1. \A n \in Nat : n \in B <=> n < base
      BY SMT
    <2> HIDE DEF B
    <2> QED
      BY Zenon, <2>1, QuotientIs
  <1>2. \A n \in 1..base : <<table[n]>> \in A
    BY SMT DEF Tabled
  <1>3. x \in [Nat -> A] /\ B \in SUBSET Nat
    <2>1. <<>> \in A
      BY SMT
    <2>2. \A n \in Nat : (IF n < base THEN <<table[n + 1]>> ELSE <<>>) \in A
      <3> HIDE DEF A
      <3> QED
        BY Zenon, <1>1, <1>2, <2>1
    <2>3. B \in SUBSET Nat
      BY SMT
    <2> HIDE DEF A
    <2> QED
      BY Zenon, <2>2, <2>3
  <1>4. p \in [Nat -> Nat] /\ \A n \in Nat \ B : p[n] < n
    BY SMT, <1>1
  <1>5. \A n \in Nat, b \in A : F[<<n, b>>] = b \o <<table[(n % base) + 1]>> /\ F[<<n, b>>] \in A
    <2>1. SUFFICES ASSUME NEW n \in Nat, NEW b \in A
                   PROVE F[<<n, b>>] = b \o <<table[(n % base) + 1]>> /\ F[<<n, b>>] \in A
      BY Zenon
    <2>2. F[<<n, b>>] = b \o <<table[(n % base) + 1]>>
      <3> HIDE DEF A
      <3> QED
        BY SMT
    <2> DEFINE t == <<table[(n % base) + 1]>>
    <2>3. t \in A
      BY Zenon, <1>1, <1>2
    <2> HIDE DEF t, F
    <2>4. b \o t \in A
      BY SMT, <2>3
    <2> HIDE DEF A
    <2>5. F[<<n, b>>] = b \o t
      BY Zenon, <2>2 DEF t
    <2> QED
      BY Zenon, <2>2, <2>4, <2>5
  <1>6. \A n \in Nat : /\ n < base => x[n] = <<table[n + 1]>>
                       /\ p[n] = n \div base
    BY Zenon
  <1> HIDE DEF x, p, F, A, B
  <1>7. PICK f \in [Nat -> A] : FollowsAll(f, B, x, p, F)
    <2>1. \A n \in Nat, b \in A : F[<<n, b>>] \in A
      BY Zenon, <1>5
    <2> QED
      BY Zenon, <1>3, <1>4, <2>1, Recursion
  <1>8. \A n \in Nat : f[n] = IF n < base THEN <<table[n + 1]>>
                             ELSE f[n \div base] \o <<table[(n % base) + 1]>>
    <2>1. \A n \in Nat : f[n] = IF n \in B THEN x[n] ELSE F[<<n, f[p[n]]>>]
      BY Zenon, <1>7 DEF FollowsAll
    <2>2. \A n \in Nat : F[<<n, f[n \div base]>>] = f[n \div base] \o <<table[(n % base) + 1]>>
      BY Zenon, <1>1, <1>5
    <2> QED
      BY Zenon, <1>1, <1>6, <2>1, <2>2
  <1>9. f = [n \in Nat |-> IF n < base THEN <<table[n + 1]>>
                           ELSE f[n \div base] \o <<table[(n % base) + 1]>>]
    <2>1. f = [n \in Nat |-> f[n]]
      BY Zenon
    <2> DEFINE e(n) == IF n < base THEN <<table[n + 1]>>
                       ELSE f[n \div base] \o <<table[(n % base) + 1]>>
    <2>2. \A n \in Nat : f[n] = e(n)
      BY Zenon, <1>8
    <2> HIDE DEF e
    <2>3. f = [n \in Nat |-> e(n)]
      BY SMT, <2>1, <2>2
    <2> QED
      BY Zenon, <2>3 DEF e
  <1>10. Digits = [n \in Nat |-> IF n < base THEN <<table[n + 1]>>
                               ELSE Digits[n \div base] \o <<table[(n % base) + 1]>>]
    BY Zenon, <1>9
  <1>11. \A u \in Nat : Numeral(u, base, table) = Digits[u]
    BY Zenon DEF Numeral
  <1> HIDE DEF Digits
  <1>12. \A n \in Nat : Digits[n] = IF n < base THEN <<table[n + 1]>>
                                    ELSE Digits[n \div base] \o <<table[(n % base) + 1]>>
    BY Zenon, <1>10
  <1>13. \A n \in Nat : Digits[n] \in A
    <2> DEFINE S == {n \in Nat : Digits[n] \in A}
    <2>1. ASSUME NEW n \in Nat, \A k \in Nat : k < n => k \in S PROVE n \in S
      <3>1. CASE n < base
        <4>1. n + 1 \in 1..base /\ Digits[n] = <<table[n + 1]>>
          BY Zenon, <1>1, <1>12, <3>1
        <4>2. Digits[n] \in A
          BY Zenon, <1>2, <4>1
        <4> QED
          BY Zenon, <4>2
      <3>2. CASE ~(n < base)
        <4>1. n \div base \in Nat /\ n \div base < n
          BY SMT, <1>1, <3>2
        <4>2. Digits[n \div base] \in A
          BY Zenon, <2>1, <4>1
        <4>3. Digits[n] = Digits[n \div base] \o <<table[(n % base) + 1]>>
          BY Zenon, <1>12, <3>2
        <4>4. Digits[n] = F[<<n, Digits[n \div base]>>]
          BY Zenon, <1>5, <4>2, <4>3
        <4> QED
          BY Zenon, <1>5, <4>2, <4>4
      <3> QED
        BY Zenon, <3>1, <3>2
    <2> HIDE DEF S
    <2>2. \A n \in Nat : n \in S
      BY Zenon, <2>1, AllSmaller
    <2> QED
      BY Zenon, <2>2 DEF S
  <1>14. \A u \in Nat : u \div base \in Nat
    BY Zenon, <1>1
  <1> QED
    BY Zenon, <1>11, <1>12, <1>13, <1>14 DEF A

-----------------------------------------------------------------------------
(* What a turn of a formatter makes.                                       *)

\* The loop of vsprintf makes one turn for every directive.
LEMMA TurnsAre ==
    ASSUME NEW call, Len(call.fmt) \in Nat
    PROVE  /\ Turns(call)[0] = [text |-> <<>>, len |-> 0, args |-> call.args]
           /\ \A n \in 1..Len(call.fmt) :
                Turns(call)[n] = Turn(Turns(call)[n - 1], call.fmt[n])
  <1> DEFINE N == Len(call.fmt)
             none == [text |-> <<>>, len |-> 0, args |-> call.args]
             next(f, k) == IF k = 0 THEN none ELSE Turn(f[k - 1], call.fmt[k])
             Makes(f, n) == f = [k \in 0..n |-> next(f, k)]
             S == {n \in 0..N : \E f : Makes(f, n)}
             all == CHOOSE f : Makes(f, N)
  <1> HIDE DEF none
  <1>1. 0 \in S
    <2> DEFINE f == [k \in 0..0 |-> none]
    <2>1. \A k \in 0..0 : k = 0
      BY SMT
    <2>2. \A k \in 0..0 : f[k] = next(f, k)
      BY Zenon, <2>1
    <2>3. f = [k \in 0..0 |-> f[k]]
      BY Zenon
    <2>4. 0 \in 0..N
      BY SMT
    <2> HIDE DEF f, next
    <2>5. Makes(f, 0)
      BY SMT, <2>2, <2>3
    <2> QED
      BY Zenon, <2>4, <2>5
  <1>2. ASSUME NEW n \in 1..N, n - 1 \in S PROVE n \in S
    <2>1. PICK g : Makes(g, n - 1)
      BY Zenon, <1>2
    <2> DEFINE f == [k \in 0..n |-> IF k = n THEN Turn(g[n - 1], call.fmt[n]) ELSE g[k]]
    <2>2. n # 0 /\ n \in 0..N /\ n - 1 \in 0..n /\ n - 1 # n
      BY SMT
    <2>3. \A k \in 0..n : k # n => k \in 0..(n - 1)
      BY SMT
    <2>4. \A k \in 0..n : k # 0 => k - 1 \in 0..n /\ k - 1 # n
      BY SMT
    <2>5. \A k \in 0..(n - 1) : g[k] = next(g, k)
      BY Zenon, <2>1
    <2>6. \A k \in 0..n : f[k] = next(f, k)
      <3>1. SUFFICES ASSUME NEW k \in 0..n PROVE f[k] = next(f, k)
        BY Zenon
      <3>2. CASE k = n
        BY Zenon, <2>2, <3>2
      <3>3. CASE k # n
        <4>1. f[k] = g[k] /\ g[k] = next(g, k)
          BY Zenon, <2>3, <2>5, <3>3
        <4>2. k # 0 => f[k - 1] = g[k - 1]
          BY Zenon, <2>4
        <4> HIDE DEF f
        <4> QED
          BY Zenon, <4>1, <4>2
      <3> QED
        BY Zenon, <3>2, <3>3
    <2>7. f = [k \in 0..n |-> f[k]]
      BY Zenon
    <2> HIDE DEF f, next
    <2>8. Makes(f, n)
      BY SMT, <2>6, <2>7
    <2> QED
      BY Zenon, <2>2, <2>8
  <1>3. N \in S
    <2>1. N \in 0..N
      BY SMT
    <2> HIDE DEF S, N
    <2> QED
      BY Zenon, <1>1, <1>2, <2>1, OneByOne DEF N
  <1>4. Makes(all, N)
    BY Zenon, <1>3
  <1>5. Turns(call) = all
    BY Zenon DEF Turns, none
  <1> HIDE DEF all
  <1>6. 0 \in 0..N /\ \A n \in 1..N : n \in 0..N /\ n # 0
    BY SMT
  <1>7. all[0] = none /\ \A n \in 1..N : all[n] = Turn(all[n - 1], call.fmt[n])
    BY Zenon, <1>4, <1>6
  <1> QED
    BY Zenon, <1>5, <1>7 DEF none

\* and so does the one of printk.
LEMMA PrintkTurnsAre ==
    ASSUME NEW call, Len(call.fmt) \in Nat
    PROVE  /\ PrintkTurns(call)[0] = [text |-> <<>>, args |-> call.args]
           /\ \A n \in 1..Len(call.fmt) :
                PrintkTurns(call)[n] = PrintkTurn(PrintkTurns(call)[n - 1], call.fmt[n])
  <1> DEFINE N == Len(call.fmt)
             none == [text |-> <<>>, args |-> call.args]
             next(f, k) == IF k = 0 THEN none ELSE PrintkTurn(f[k - 1], call.fmt[k])
             Makes(f, n) == f = [k \in 0..n |-> next(f, k)]
             S == {n \in 0..N : \E f : Makes(f, n)}
             all == CHOOSE f : Makes(f, N)
  <1> HIDE DEF none
  <1>1. 0 \in S
    <2> DEFINE f == [k \in 0..0 |-> none]
    <2>1. \A k \in 0..0 : k = 0
      BY SMT
    <2>2. \A k \in 0..0 : f[k] = next(f, k)
      BY Zenon, <2>1
    <2>3. f = [k \in 0..0 |-> f[k]]
      BY Zenon
    <2>4. 0 \in 0..N
      BY SMT
    <2> HIDE DEF f, next
    <2>5. Makes(f, 0)
      BY SMT, <2>2, <2>3
    <2> QED
      BY Zenon, <2>4, <2>5
  <1>2. ASSUME NEW n \in 1..N, n - 1 \in S PROVE n \in S
    <2>1. PICK g : Makes(g, n - 1)
      BY Zenon, <1>2
    <2> DEFINE f == [k \in 0..n |-> IF k = n THEN PrintkTurn(g[n - 1], call.fmt[n]) ELSE g[k]]
    <2>2. n # 0 /\ n \in 0..N /\ n - 1 \in 0..n /\ n - 1 # n
      BY SMT
    <2>3. \A k \in 0..n : k # n => k \in 0..(n - 1)
      BY SMT
    <2>4. \A k \in 0..n : k # 0 => k - 1 \in 0..n /\ k - 1 # n
      BY SMT
    <2>5. \A k \in 0..(n - 1) : g[k] = next(g, k)
      BY Zenon, <2>1
    <2>6. \A k \in 0..n : f[k] = next(f, k)
      <3>1. SUFFICES ASSUME NEW k \in 0..n PROVE f[k] = next(f, k)
        BY Zenon
      <3>2. CASE k = n
        BY Zenon, <2>2, <3>2
      <3>3. CASE k # n
        <4>1. f[k] = g[k] /\ g[k] = next(g, k)
          BY Zenon, <2>3, <2>5, <3>3
        <4>2. k # 0 => f[k - 1] = g[k - 1]
          BY Zenon, <2>4
        <4> HIDE DEF f
        <4> QED
          BY Zenon, <4>1, <4>2
      <3> QED
        BY Zenon, <3>2, <3>3
    <2>7. f = [k \in 0..n |-> f[k]]
      BY Zenon
    <2> HIDE DEF f, next
    <2>8. Makes(f, n)
      BY SMT, <2>6, <2>7
    <2> QED
      BY Zenon, <2>2, <2>8
  <1>3. N \in S
    <2>1. N \in 0..N
      BY SMT
    <2> HIDE DEF S, N
    <2> QED
      BY Zenon, <1>1, <1>2, <2>1, OneByOne DEF N
  <1>4. Makes(all, N)
    BY Zenon, <1>3
  <1>5. PrintkTurns(call) = all
    BY Zenon DEF PrintkTurns, none
  <1> HIDE DEF all
  <1>6. 0 \in 0..N /\ \A n \in 1..N : n \in 0..N /\ n # 0
    BY SMT
  <1>7. all[0] = none /\ \A n \in 1..N : all[n] = PrintkTurn(all[n - 1], call.fmt[n])
    BY Zenon, <1>4, <1>6
  <1> QED
    BY Zenon, <1>5, <1>7 DEF none

\* What is on the stack.
Arguments == [num : -INT_MAX - 1..INT_MAX, str : Seq(STRING)]

\* The greatest int.
LEMMA Ints ==
    /\ INT_MAX \in Nat /\ Star \notin Nat
    /\ TwoTo[Word] \in Nat /\ TwoTo[Word] = 2 * (INT_MAX + 1)
  <1>1. Word \in Nat \ {0} /\ Word - 1 \in Nat
    BY SMT, WordAssumption
  <1>2. /\ TwoTo[Word - 1] \in Nat \ {0} /\ TwoTo[Word] \in Nat \ {0}
        /\ TwoTo[Word] = 2 * TwoTo[Word - 1]
    BY Zenon, <1>1, Powers
  <1> QED
    BY SMT, <1>2 DEF INT_MAX, Star

\* A sequence of some things is one of more things.
LEMMA SeqOfMore ==
    ASSUME NEW S, NEW T, S \subseteq T, NEW s \in Seq(S)
    PROVE  s \in Seq(T)
  BY SMT

\* Fill characters.
LEMMA CopiesAre ==
    ASSUME NEW char \in Chars, NEW n \in Int
    PROVE  /\ Copies(char, n) \in Seq(Chars)
           /\ Len(Copies(char, n)) = AtLeast0(n)
           /\ AtLeast0(n) \in Nat
           /\ \A i \in 1..AtLeast0(n) : Copies(char, n)[i] = char
  <1>1. AtLeast0(n) \in Nat
    BY SMT DEF AtLeast0
  <1> QED
    BY SMT, <1>1 DEF Copies

\* Both tables have a digit for every remainder.
LEMMA TablesAre ==
    ASSUME NEW key
    PROVE  /\ Base(key) \in {8, 10, 16}
           /\ Tabled(DigitTable(key), Base(key))
  <1> DEFINE b == Base(key)
  <1>1. b \in {8, 10, 16}
    BY Zenon DEF Base
  <1> HIDE DEF b
  <1>2. \A i \in 1..b : i \in 1..16
    BY SMT, <1>1
  <1>3. DigitTable(key) \in {x2c_tab, X2C_tab}
    BY Zenon DEF DigitTable
  <1>4. \A i \in 1..16 : x2c_tab[i] \in Chars /\ X2C_tab[i] \in Chars
    BY Zenon DEF Chars
  <1> QED
    BY Zenon, <1>1, <1>2, <1>3, <1>4 DEF Tabled, b

\* What a directive converts its argument to,
LEMMA ConvertedIs ==
    ASSUME NEW d \in Directive, d.key \in Known, NEW arg, arg.num \in Int, arg.str \in Seq(STRING)
    PROVE  /\ Converted(d, arg) \in Seq(Chars)
           /\ Unsigned(d.key, arg.num) \in Nat
           /\ d.key \in {"c", "%"} => Len(Converted(d, arg)) = 1
  <1>1. "%" \in Chars
    BY Zenon DEF Chars
  <1>2. Unsigned(d.key, arg.num) \in Nat
    BY SMT, Ints DEF Unsigned
  <1>3. \A s \in Seq(STRING) : s \in Seq(Chars)
    <2>1. STRING \subseteq Chars
      BY Zenon DEF Chars
    <2> QED
      BY Zenon, <2>1, SeqOfMore
  <1>4. CASE d.key \in NumberKeys
    <2> DEFINE b == Base(d.key)
    <2>0. b \in {8, 10, 16}
      BY Zenon, TablesAre
    <2> HIDE DEF b
    <2>1. b \in Nat /\ b > 1
      BY SMT, <2>0
    <2> USE DEF b
    <2>2. Tabled(DigitTable(d.key), Base(d.key))
      BY Zenon, TablesAre
    <2>3. Numeral(Unsigned(d.key, arg.num), Base(d.key), DigitTable(d.key)) \in Seq(Chars)
      BY Zenon, <1>2, <2>1, <2>2, NumeralIs
    <2>4. d.key # "c" /\ d.key # "%" /\ d.key # "s"
      BY Zenon, <1>4 DEF NumberKeys
    <2>5. Converted(d, arg) = Numeral(Unsigned(d.key, arg.num), Base(d.key), DigitTable(d.key))
      BY Zenon, <1>4, <2>4 DEF Converted
    <2> QED
      BY Zenon, <1>2, <2>3, <2>4, <2>5
  <1>5. CASE d.key = "c"
    <2>1. Converted(d, arg) = <<Head(arg.str)>>
      BY Zenon, <1>5 DEF Converted, NumberKeys
    <2>2. Head(arg.str) \in Chars
      <3>1. CASE arg.str = <<>>
        BY Zenon, <3>1 DEF Chars
      <3>2. CASE arg.str # <<>>
        <4>1. Head(arg.str) \in STRING
          BY SMT, <3>2
        <4> QED
          BY Zenon, <4>1 DEF Chars
      <3> QED
        BY Zenon, <3>1, <3>2
    <2> QED
      BY SMT, <1>2, <2>1, <2>2
  <1>6. CASE d.key = "%"
    <2>1. Converted(d, arg) = <<"%">>
      BY Zenon, <1>6 DEF Converted, NumberKeys
    <2> QED
      BY SMT, <1>1, <1>2, <2>1
  <1>7. CASE d.key = "s"
    <2>1. Converted(d, arg) = arg.str
      BY Zenon, <1>7 DEF Converted, NumberKeys
    <2> QED
      BY Zenon, <1>2, <1>3, <1>7, <2>1
  <1> QED
    BY Zenon, <1>4, <1>5, <1>6, <1>7 DEF Known

\* and how much of it is printed.
LEMMA LengthIs ==
    ASSUME NEW d \in Directive, NEW body \in Seq(Chars), NEW max \in Int,
           d.key \in {"c", "%"} => Len(body) = 1
    PROVE  Length(d, body, max) \in 0..Len(body)
  <1> DEFINE n == Len(body)
  <1>1. n \in Nat
    BY SMT
  <1> HIDE DEF n
  <1>2. Length(d, body, max) = IF d.key \in {"c", "%"} THEN 1
                               ELSE IF n < max THEN n ELSE AtLeast0(max)
    BY Zenon DEF Length, n
  <1>3. d.key \in {"c", "%"} => n = 1
    BY Zenon DEF n
  <1>4. Length(d, body, max) \in 0..n
    BY SMT, <1>1, <1>2, <1>3 DEF AtLeast0
  <1> QED
    BY Zenon, <1>4 DEF n

\* A field and its sign.
LEMMA FieldIs ==
    ASSUME NEW d \in Directive, d.key \in Known, NEW arg, arg.num \in Int, arg.str \in Seq(STRING),
           NEW width \in Int, NEW max \in Int
    PROVE  LET out  == StringPrint(d, arg, width, max)
               need == Length(d, Converted(d, arg), max)
                         + (IF Negative(d, arg) THEN 1 ELSE 0)
           IN  /\ out.text \in Seq(Chars)
               /\ need \in Nat
               /\ Len(out.text) = IF width > need THEN width ELSE need
               /\ Len(out.text) - out.len = IF Negative(d, arg) /\ ~d.zero THEN 1 ELSE 0
               /\ Negative(d, arg) => "-" \in ToSet(out.text)
  <1> DEFINE body == Converted(d, arg)
             len  == Length(d, body, max)
             pad  == Padding(d, arg, width, len)
             sign == IF Negative(d, arg) THEN <<"-">> ELSE <<>>
             number == SubSeq(body, 1, len)
             text == CASE d.zero /\ d.left   -> sign \o number \o pad
                       [] d.zero /\ ~d.left  -> sign \o pad \o number
                       [] ~d.zero /\ d.left  -> sign \o number \o pad
                       [] ~d.zero /\ ~d.left -> pad \o sign \o number
             minus == IF Negative(d, arg) THEN 1 ELSE 0
  <1>1. /\ StringPrint(d, arg, width, max).text = text
        /\ StringPrint(d, arg, width, max).len = Len(text) - (IF d.zero THEN 0 ELSE Len(sign))
    <2>1. StringPrint(d, arg, width, max) =
            [text |-> text,
             len |-> Len(text) - (IF d.zero THEN 0 ELSE Len(sign))]
      BY Zenon DEF StringPrint
    <2> HIDE DEF text, sign
    <2> QED
      BY SMT, <2>1
  <1>2. body \in Seq(Chars) /\ len \in 0..Len(body)
    BY Zenon, ConvertedIs, LengthIs
  <1> HIDE DEF body
  <1>3. number \in Seq(Chars) /\ Len(number) = len
    <2>1. len \in Int /\ len >= 0 /\ len <= Len(body) /\ Len(body) \in Nat
      BY SMT, <1>2
    <2> HIDE DEF len
    <2> QED
      BY SMT, <1>2, <2>1
  <1>4. minus \in 0..1 /\ len \in Nat
    BY SMT, <1>2
  <1>5. pad \in Seq(Chars) /\ Len(pad) = AtLeast0(width - len - minus)
    <2>1. "0" \in Chars /\ " " \in Chars
      BY Zenon DEF Chars
    <2>2. width - len - minus \in Int
      BY SMT, <1>4
    <2> DEFINE fill == IF d.zero THEN "0" ELSE " "
               k == width - len - minus
    <2>3. pad = Copies(fill, k)
      BY Zenon DEF Padding
    <2>4. fill \in Chars
      BY Zenon, <2>1
    <2> HIDE DEF fill, k, pad
    <2>5. k \in Int
      BY Zenon, <2>2 DEF k
    <2>6. pad \in Seq(Chars) /\ Len(pad) = AtLeast0(k)
      BY Zenon, <2>3, <2>4, <2>5, CopiesAre
    <2> QED
      BY Zenon, <2>6 DEF k
  <1>6. sign \in Seq(Chars) /\ Len(sign) = minus /\ (Negative(d, arg) => sign = <<"-">>)
    <2>1. <<"-">> \in Seq(Chars) /\ Len(<<"-">>) = 1 /\ <<>> \in Seq(Chars) /\ Len(<<>>) = 0
      <3>1. "-" \in Chars
        BY Zenon DEF Chars
      <3> QED
        BY SMT, <3>1
    <2>2. CASE Negative(d, arg)
      <3>1. sign = <<"-">> /\ minus = 1
        BY Zenon, <2>2
      <3> HIDE DEF sign, minus
      <3> QED
        BY Zenon, <2>1, <3>1
    <2>3. CASE ~Negative(d, arg)
      <3>1. sign = <<>> /\ minus = 0
        BY Zenon, <2>3
      <3> HIDE DEF sign, minus
      <3> QED
        BY Zenon, <2>1, <2>3, <3>1
    <2> QED
      BY Zenon, <2>2, <2>3
  <1>7. text \in {sign \o number \o pad, sign \o pad \o number, pad \o sign \o number}
    <2> HIDE DEF sign, number, pad
    <2>1. d.zero \in BOOLEAN /\ d.left \in BOOLEAN
      BY SMT DEF Directive
    <2> QED
      BY Zenon, <2>1
  <1> HIDE DEF len, pad, sign, number, text, minus
  <1>8. text \in Seq(Chars) /\ Len(text) = Len(pad) + Len(sign) + Len(number)
    <2>1. pad \in Seq(Chars) /\ sign \in Seq(Chars) /\ number \in Seq(Chars)
      BY Zenon, <1>3, <1>5, <1>6
    <2>2. CASE text = sign \o number \o pad
      BY SMT, <2>1, <2>2
    <2>3. CASE text = sign \o pad \o number
      BY SMT, <2>1, <2>3
    <2>4. CASE text = pad \o sign \o number
      BY SMT, <2>1, <2>4
    <2> QED
      BY Zenon, <1>7, <2>2, <2>3, <2>4
  <1>9. Len(text) = IF width > len + minus THEN width ELSE len + minus
    BY SMT, <1>3, <1>4, <1>5, <1>6, <1>8 DEF AtLeast0
  <1>10. ASSUME Negative(d, arg) PROVE "-" \in ToSet(text)
    <2>1. sign = <<"-">>
      BY Zenon, <1>6, <1>10
    <2>2. \E i \in 1..Len(text) : text[i] = "-"
      <3>1. CASE text = sign \o number \o pad
        <4>1. 1 \in 1..Len(text) /\ text[1] = "-"
          BY SMT, <1>3, <1>5, <1>8, <2>1, <3>1
        <4> QED
          BY Zenon, <4>1
      <3>2. CASE text = sign \o pad \o number
        <4>1. 1 \in 1..Len(text) /\ text[1] = "-"
          BY SMT, <1>3, <1>5, <1>8, <2>1, <3>2
        <4> QED
          BY Zenon, <4>1
      <3>3. CASE text = pad \o sign \o number
        <4>1. Len(pad) + 1 \in 1..Len(text) /\ text[Len(pad) + 1] = "-"
          BY SMT, <1>3, <1>5, <1>8, <2>1, <3>3
        <4> QED
          BY Zenon, <4>1
      <3> QED
        BY Zenon, <1>7, <3>1, <3>2, <3>3
    <2>3. DOMAIN text = 1..Len(text)
      BY SMT, <1>8
    <2> QED
      BY SMT, <2>2, <2>3 DEF ToSet
  <1>11. Len(text) - (Len(text) - (IF d.zero THEN 0 ELSE Len(sign)))
           = IF Negative(d, arg) /\ ~d.zero THEN 1 ELSE 0
    <2>1. Len(text) \in Nat
      BY SMT, <1>8
    <2>2. Len(sign) = minus /\ minus = IF Negative(d, arg) THEN 1 ELSE 0
      BY Zenon, <1>6 DEF minus
    <2> HIDE DEF minus
    <2> QED
      BY SMT, <1>4, <2>1, <2>2
  <1>12. len + minus \in Nat
    BY SMT, <1>4
  <1> QED
    BY Zenon, <1>1, <1>8, <1>9, <1>10, <1>11, <1>12 DEF len, body, minus

-----------------------------------------------------------------------------
(* How long the messages of the kernel are.                                *)

\* A field that needs no more than w characters.
Narrow(f, w) == f.width \in 0..w /\ f.longest \in 0..w

\* Every field adds what it needs.
LEMMA LongestIs ==
    ASSUME NEW message, message.plain \in Nat, Len(message.fields) \in Nat, NEW w \in Nat,
           \A i \in 1..Len(message.fields) : Narrow(message.fields[i], w)
    PROVE  /\ Longest(message) \in Nat
           /\ Longest(message) <= message.plain + Len(message.fields) * w
  <1> DEFINE N == Len(message.fields)
             plain == message.plain
             add(i) == IF message.fields[i].width > message.fields[i].longest
                       THEN message.fields[i].width ELSE message.fields[i].longest
             F == [q \in Nat \X Nat |-> IF q[1] \in 1..N THEN q[2] + add(q[1]) ELSE 0]
             all == CHOOSE f : f = [n \in 0..N |-> IF n = 0 THEN plain ELSE f[n - 1] + add(n)]
  <1>1. \A i \in 1..N : add(i) \in 0..w
    <2>1. SUFFICES ASSUME NEW i \in 1..N PROVE add(i) \in 0..w
      BY Zenon
    <2> DEFINE a == message.fields[i].width
               b == message.fields[i].longest
    <2>2. a \in 0..w /\ b \in 0..w
      BY Zenon DEF Narrow
    <2> HIDE DEF a, b
    <2>3. (IF a > b THEN a ELSE b) \in 0..w
      BY SMT, <2>2
    <2> QED
      BY Zenon, <2>3 DEF a, b
  <1>2. N \in Nat /\ plain \in Nat
    BY Zenon
  <1>3. Longest(message) = all[N]
    BY Zenon DEF Longest
  <1> HIDE DEF N, plain, add
  <1>4. \A n \in Nat, b \in Nat : /\ F[<<n, b>>] \in Nat
                                  /\ n \in 1..N => F[<<n, b>>] = b + add(n)
    BY SMT, <1>1
  <1> HIDE DEF F
  <1>5. PICK f \in [0..N -> Nat] : StepBy(f, N, plain, F)
    <2>1. \A n \in Nat, b \in Nat : F[<<n, b>>] \in Nat
      BY Zenon, <1>4
    <2> QED
      BY Zenon, <1>2, <2>1, Steps
  <1>6. \A n \in 0..N : n # 0 => n \in 1..N /\ n \in Nat /\ n - 1 \in 0..N
    BY SMT, <1>2
  <1>7. \A n \in 0..N : f[n] = IF n = 0 THEN plain ELSE f[n - 1] + add(n)
    <2>1. \A n \in 0..N : f[n] = IF n = 0 THEN plain ELSE F[<<n, f[n - 1]>>]
      BY Zenon, <1>5 DEF StepBy
    <2>2. \A n \in 0..N : n # 0 => f[n - 1] \in Nat
      BY Zenon, <1>6
    <2> QED
      BY Zenon, <1>4, <1>6, <2>1, <2>2
  <1>8. f = [n \in 0..N |-> IF n = 0 THEN plain ELSE f[n - 1] + add(n)]
    <2>1. f = [n \in 0..N |-> f[n]]
      BY Zenon
    <2> DEFINE e(n) == IF n = 0 THEN plain ELSE f[n - 1] + add(n)
    <2>2. \A n \in 0..N : f[n] = e(n)
      BY Zenon, <1>7
    <2> HIDE DEF e
    <2>3. f = [n \in 0..N |-> e(n)]
      BY SMT, <2>1, <2>2
    <2> QED
      BY Zenon, <2>3 DEF e
  <1>9. all = [n \in 0..N |-> IF n = 0 THEN plain ELSE all[n - 1] + add(n)]
    BY Zenon, <1>8
  <1> HIDE DEF all
  <1>10. \A n \in 0..N : all[n] = IF n = 0 THEN plain ELSE all[n - 1] + add(n)
    BY Zenon, <1>9
  <1> DEFINE S == {n \in 0..N : all[n] \in Nat /\ all[n] <= plain + n * w}
  <1>11. 0 \in S
    <2>1. 0 \in 0..N
      BY SMT, <1>2
    <2>2. all[0] = plain
      BY Zenon, <1>10, <2>1
    <2> QED
      BY SMT, <1>2, <2>1, <2>2
  <1>12. ASSUME NEW n \in 1..N, n - 1 \in S PROVE n \in S
    <2>1. n \in 0..N /\ n # 0 /\ n \in Nat
      BY SMT, <1>2
    <2>2. all[n] = all[n - 1] + add(n)
      BY Zenon, <1>10, <2>1
    <2>3. all[n - 1] \in Nat /\ all[n - 1] <= plain + (n - 1) * w
      BY Zenon, <1>12
    <2>4. add(n) \in 0..w
      BY Zenon, <1>1
    <2>5. (n - 1) * w + w = n * w /\ n * w \in Nat /\ (n - 1) * w \in Nat
      BY SMT, <2>1
    <2> DEFINE x == (n - 1) * w
               y == n * w
               z == all[n - 1]
               a == add(n)
    <2> HIDE DEF x, y, z, a
    <2>6. z \in Nat /\ z <= plain + x /\ a \in 0..w /\ x + w = y /\ y \in Nat /\ x \in Nat
      BY Zenon, <2>3, <2>4, <2>5 DEF x, y, z, a
    <2>7. z + a \in Nat /\ z + a <= plain + y
      BY SMT, <1>2, <2>6
    <2>8. all[n] \in Nat /\ all[n] <= plain + n * w
      BY Zenon, <2>2, <2>7 DEF y, z, a
    <2> QED
      BY Zenon, <2>1, <2>8
  <1>13. N \in S
    <2>1. N \in 0..N
      BY SMT, <1>2
    <2> HIDE DEF S
    <2> QED
      BY Zenon, <1>2, <1>11, <1>12, <2>1, OneByOne
  <1> QED
    BY Zenon, <1>3, <1>13 DEF N, plain

\* The fields of the kernel's own messages.
LEMMA FieldsAreNarrow ==
    /\ \A key \in {"d", "u", "x", "c"}, width \in 0..12 : Narrow(Fixed(key, width), 12)
    /\ \A width \in 0..12, longest \in 0..32 : Narrow(Field("s", width, longest), 32)
  <1>1. ASSUME NEW key \in {"d", "u", "x", "c"}, NEW width \in 0..12
        PROVE  Narrow(Fixed(key, width), 12)
    <2>1. Fixed(key, width).width = width /\ Fixed(key, width).longest \in {11, 10, 8, 1}
      BY SMT DEF Fixed, Field
    <2> DEFINE f == Fixed(key, width)
    <2> HIDE DEF f
    <2>2. f.width \in 0..12 /\ f.longest \in 0..12
      BY SMT, <2>1 DEF f
    <2> QED
      BY Zenon, <2>2 DEF Narrow, f
  <1>2. ASSUME NEW width \in 0..12, NEW longest \in 0..32
        PROVE  Narrow(Field("s", width, longest), 32)
    BY SMT DEF Narrow, Field
  <1> QED
    BY Zenon, <1>1, <1>2

\* n fields of w characters each, and the rest of a message, fit in a buffer.
Roomy(plain, n, w) ==
    plain \in Nat /\ n \in Nat /\ w \in Nat /\ plain + n * w < Buf

\* A message of at most so many fields.
LEMMA Short ==
    ASSUME NEW plain, NEW fields, NEW n, NEW w, Roomy(plain, n, w),
           Len(fields) = n, \A i \in 1..n : Narrow(fields[i], w)
    PROVE  Longest(Message(plain, fields)) + 1 <= Buf
  <1>1. /\ Message(plain, fields).plain = plain
        /\ Message(plain, fields).fields = fields
    BY Zenon DEF Message
  <1>2. /\ Longest(Message(plain, fields)) \in Nat
        /\ Longest(Message(plain, fields)) <= plain + n * w
    BY Zenon, <1>1, LongestIs DEF Roomy
  <1>3. n * w \in Nat
    BY SMT DEF Roomy
  <1> QED
    BY SMT, <1>2, <1>3 DEF Buf, Roomy

\* misc.c:33: nothing that the kernel prints is too long.
LEMMA BuffersDo == BuffersSuffice
  <1> DEFINE D(width) == Fixed("d", width)
             U(width) == Fixed("u", width)
             X(width) == Fixed("x", width)
             C == Fixed("c", 0)
             T(width, longest) == Field("s", width, longest)
             Fits(message) == Longest(message) + 1 <= Buf
  <1>1. ASSUME NEW width \in 0..12
        PROVE  Narrow(D(width), 12) /\ Narrow(U(width), 12) /\ Narrow(X(width), 12)
    BY Zenon, FieldsAreNarrow
  <1>2. Narrow(C, 12)
    <2>1. 0 \in 0..12
      BY SMT
    <2> QED
      BY Zenon, <2>1, FieldsAreNarrow
  <1>3. \A width \in 0..12, longest \in 0..32 : Narrow(T(width, longest), 32)
    BY Zenon, FieldsAreNarrow
  <1>4. \A f : Narrow(f, 12) => Narrow(f, 32)
    BY SMT DEF Narrow
  <1> HIDE DEF D, U, X, C, T
  <1>5. \A plain \in 0..150 : Fits(Message(plain, <<>>))
    <2>1. SUFFICES ASSUME NEW plain \in 0..150 PROVE Fits(Message(plain, <<>>))
      BY Zenon
    <2>2. Roomy(plain, 0, 0)
      BY SMT DEF Roomy, Buf
    <2>3. Len(<<>>) = 0 /\ \A i \in 1..0 : Narrow(<<>>[i], 0)
      BY SMT
    <2> QED
      BY Zenon, <2>2, <2>3, Short
  <1>6. \A f : \A plain \in 0..100 : Narrow(f, 32) => Fits(Message(plain, <<f>>))
    <2>1. SUFFICES ASSUME NEW plain \in 0..100, NEW f, Narrow(f, 32)
                   PROVE  Fits(Message(plain, <<f>>))
      BY Zenon
    <2>2. Roomy(plain, 1, 32)
      BY SMT DEF Roomy, Buf
    <2>3. Len(<<f>>) = 1 /\ \A i \in 1..1 : Narrow(<<f>>[i], 32)
      BY SMT, <2>1
    <2> QED
      BY Zenon, <2>2, <2>3, Short
  <1>7. Fits(Message(42, <<T(0, 20), D(0), T(0, 32)>>))
    <2> DEFINE fields == <<T(0, 20), D(0), T(0, 32)>>
    <2>1. Narrow(T(0, 20), 32) /\ Narrow(D(0), 32) /\ Narrow(T(0, 32), 32)
      BY SMT, <1>1, <1>3, <1>4
    <2>2. Len(fields) = 3 /\ \A i \in 1..3 : Narrow(fields[i], 32)
      BY SMT, <2>1
    <2>3. Roomy(42, 3, 32)
      BY SMT DEF Roomy, Buf
    <2> HIDE DEF fields
    <2>4. Fits(Message(42, fields))
      BY Zenon, <2>2, <2>3, Short
    <2> QED
      BY Zenon, <2>4 DEF fields
  <1>8. Fits(Message(24, [field \in 1..6 |-> D(0)]))
    <2> DEFINE fields == [field \in 1..6 |-> D(0)]
    <2>1. Narrow(D(0), 12)
      BY SMT, <1>1
    <2>2. Len(fields) = 6 /\ \A i \in 1..6 : Narrow(fields[i], 12)
      BY SMT, <2>1
    <2>3. Roomy(24, 6, 12)
      BY SMT DEF Roomy, Buf
    <2> HIDE DEF fields
    <2>4. Fits(Message(24, fields))
      BY Zenon, <2>2, <2>3, Short
    <2> QED
      BY Zenon, <2>4 DEF fields
  <1>9. Fits(Message(12, <<X(5), X(6), X(2), U(6), U(6), U(5), U(5)>>))
    <2> DEFINE fields == <<X(5), X(6), X(2), U(6), U(6), U(5), U(5)>>
    <2>1. /\ Narrow(X(5), 12) /\ Narrow(X(6), 12) /\ Narrow(X(2), 12)
          /\ Narrow(U(6), 12) /\ Narrow(U(5), 12)
      BY SMT, <1>1
    <2>2. Len(fields) = 7 /\ \A i \in 1..7 : Narrow(fields[i], 12)
      BY SMT, <2>1
    <2>3. Roomy(12, 7, 12)
      BY SMT DEF Roomy, Buf
    <2> HIDE DEF fields
    <2>4. Fits(Message(12, fields))
      BY Zenon, <2>2, <2>3, Short
    <2> QED
      BY Zenon, <2>4 DEF fields
  <1>10. Fits(Message(8, <<D(3), T(0, NAME), X(12), U(5)>>))
    <2> DEFINE fields == <<D(3), T(0, NAME), X(12), U(5)>>
    <2>1. Narrow(D(3), 32) /\ Narrow(T(0, NAME), 32) /\ Narrow(X(12), 32) /\ Narrow(U(5), 32)
      BY SMT, <1>1, <1>3, <1>4 DEF NAME
    <2>2. Len(fields) = 4 /\ \A i \in 1..4 : Narrow(fields[i], 32)
      BY SMT, <2>1
    <2>3. Roomy(8, 4, 32)
      BY SMT DEF Roomy, Buf
    <2> HIDE DEF fields
    <2>4. Fits(Message(8, fields))
      BY Zenon, <2>2, <2>3, Short
    <2> QED
      BY Zenon, <2>4 DEF fields
  <1>11. \A width \in 0..12 : /\ Narrow(D(width), 32) /\ Narrow(X(width), 32)
                              /\ Narrow(C, 32)
    BY Zenon, <1>1, <1>2, <1>4
  <1> HIDE DEF Fits
  <1>12. \A message \in AssertionMessages : Fits(message)
    <2>1. Fits(Message(82, <<>>)) /\ Fits(Message(81, <<>>))
      BY SMT, <1>5
    <2> QED
      BY Zenon, <1>7, <2>1 DEF AssertionMessages, T, D
  <1>13. \A message \in PanicMessages : Fits(message)
    <2>1. /\ 37 \in 0..100 /\ Narrow(T(0, 24), 32)
          /\ 34 \in 0..100 /\ Narrow(X(0), 32)
      BY SMT, <1>3, <1>11
    <2> QED
      BY Zenon, <1>6, <2>1 DEF PanicMessages, T, X
  <1>14. \A message \in ClockMessages : Fits(message)
    <2>1. 33 \in 0..100 /\ Narrow(D(0), 32)
      BY SMT, <1>11
    <2> QED
      BY Zenon, <1>6, <1>8, <2>1 DEF ClockMessages, D
  <1>15. \A message \in ProcDump : Fits(message)
    <2>1. /\ Fits(Message(69, <<>>))
          /\ 3 \in 0..100 /\ Narrow(D(3), 32)
          /\ 2 \in 0..100 /\ Narrow(T(5, 5), 32)
          /\ 1 \in 0..100 /\ Narrow(T(0, NAME), 32)
      BY SMT, <1>3, <1>5, <1>11 DEF NAME
    <2> QED
      BY Zenon, <1>6, <1>9, <2>1 DEF ProcDump, D, X, U, T
  <1>16. \A message \in MapDump : Fits(message)
    <2>1. Fits(Message(38, <<>>))
      BY SMT, <1>5
    <2> QED
      BY Zenon, <1>10, <2>1 DEF MapDump, D, X, U, T
  <1>17. Fits(ExceptionMessage) /\ Fits(DefaultMessage) /\ Fits(KeyMessage)
    <2>1. /\ 29 \in 0..100 /\ Narrow(X(0), 32)
          /\ 9 \in 0..100 /\ Narrow(D(0), 32)
          /\ 1 \in 0..100 /\ Narrow(C, 32)
      BY SMT, <1>11
    <2> QED
      BY Zenon, <1>6, <2>1 DEF ExceptionMessage, DefaultMessage, KeyMessage, D, X, C
  <1> QED
    BY Zenon, <1>12, <1>13, <1>14, <1>15, <1>16, <1>17 DEF BuffersSuffice, Fits

-----------------------------------------------------------------------------
(* What a field takes off the stack and how wide it becomes.               *)

\* What a turn takes off the stack.
WidthTaken(d, args) == IF d.width = Star THEN Head(args).num ELSE d.width

AfterWidth(d, args) == IF d.width = Star THEN Tail(args) ELSE args

MaxTaken(d, args) ==
    IF d.max = Star THEN Head(AfterWidth(d, args)).num ELSE d.max

AfterMax(d, args) ==
    IF d.max = Star THEN Tail(AfterWidth(d, args)) ELSE AfterWidth(d, args)

ArgTaken(d, args) ==
    IF d.key = "%" THEN Argument(0, <<>>) ELSE Head(AfterMax(d, args))

\* It is there, as wide and as long as numbers and strings are.
LEMMA TakenIs ==
    ASSUME NEW d \in Directive, d.key \in Known, NEW args \in Seq(Arguments),
           Len(args) >= Takes(d)
    PROVE  /\ WidthTaken(d, args) \in Int /\ MaxTaken(d, args) \in Int
           /\ AfterMax(d, args) \in Seq(Arguments)
           /\ d.key # "%" => AfterMax(d, args) # <<>> /\ ArgTaken(d, args) \in Arguments
           /\ ArgTaken(d, args).num \in Int /\ ArgTaken(d, args).str \in Seq(STRING)
  <1> DEFINE w == IF d.width = Star THEN 1 ELSE 0
             m == IF d.max = Star THEN 1 ELSE 0
             k == IF d.key \in Known \ {"%"} THEN 1 ELSE 0
  <1>1. Len(args) >= w + m + k
    BY Zenon DEF Takes
  <1>2. /\ \A a \in Arguments : a.num \in Int /\ a.str \in Seq(STRING)
        /\ INT_MAX \in Nat
    <2>1. INT_MAX \in Nat
      BY Zenon, Ints
    <2> QED
      BY SMT, <2>1 DEF Arguments
  <1>3. \A s \in Seq(Arguments) :
          s # <<>> => /\ Head(s) \in Arguments /\ Tail(s) \in Seq(Arguments)
                      /\ Len(Tail(s)) = Len(s) - 1
    BY SMT
  <1>4. /\ d.width = Star \/ d.width \in Nat
        /\ d.max = Star \/ d.max \in Nat
    BY SMT DEF Directive
  <1>5. Len(args) \in Nat /\ w \in 0..1 /\ m \in 0..1 /\ k \in 0..1
    BY SMT
  <1>6. \A s \in Seq(Arguments) : Len(s) \in Nat /\ (Len(s) >= 1 => s # <<>>)
    BY SMT
  <1>7. /\ AfterWidth(d, args) \in Seq(Arguments) /\ WidthTaken(d, args) \in Int
        /\ Len(AfterWidth(d, args)) >= m + k
    <2>1. CASE d.width = Star
      <3>1. w = 1
        BY Zenon, <2>1
      <3> HIDE DEF w
      <3>2. Len(args) >= 1
        BY SMT, <1>1, <1>5, <3>1
      <3>3. /\ Tail(args) \in Seq(Arguments) /\ Len(Tail(args)) = Len(args) - 1
            /\ Head(args).num \in Int
        BY Zenon, <1>2, <1>3, <1>6, <3>2
      <3>4. AfterWidth(d, args) = Tail(args) /\ WidthTaken(d, args) = Head(args).num
        BY Zenon, <2>1 DEF AfterWidth, WidthTaken
      <3> DEFINE n == Len(args)
                 t == Len(Tail(args))
      <3> HIDE DEF m, k, n, t
      <3>5. t = n - 1 /\ n \in Nat /\ n >= w + m + k
        BY Zenon, <1>1, <1>5, <3>3 DEF n, t
      <3>6. t >= m + k
        BY SMT, <1>5, <3>1, <3>5
      <3> QED
        BY Zenon, <3>3, <3>4, <3>6 DEF t
    <2>2. CASE d.width # Star
      <3>1. w = 0
        BY Zenon, <2>2
      <3>2. AfterWidth(d, args) = args /\ WidthTaken(d, args) = d.width
        BY Zenon, <2>2 DEF AfterWidth, WidthTaken
      <3>3. d.width \in Int
        BY SMT, <1>4, <2>2
      <3> HIDE DEF w, m, k
      <3>4. Len(args) >= m + k
        BY SMT, <1>1, <1>5, <3>1
      <3> QED
        BY Zenon, <3>2, <3>3, <3>4
    <2> QED
      BY Zenon, <2>1, <2>2
  <1> HIDE DEF w
  <1>8. /\ AfterMax(d, args) \in Seq(Arguments) /\ MaxTaken(d, args) \in Int
        /\ Len(AfterMax(d, args)) >= k
    <2> DEFINE as == AfterWidth(d, args)
    <2>0. AfterMax(d, args) = (IF d.max = Star THEN Tail(as) ELSE as)
          /\ MaxTaken(d, args) = (IF d.max = Star THEN Head(as).num ELSE d.max)
      BY Zenon DEF AfterMax, MaxTaken
    <2>1. as \in Seq(Arguments) /\ Len(as) >= m + k
      BY Zenon, <1>7
    <2> HIDE DEF as
    <2>2. Len(as) \in Nat
      BY Zenon, <1>6, <2>1
    <2>3. CASE d.max = Star
      <3>1. m = 1
        BY Zenon, <2>3
      <3> HIDE DEF m, k
      <3>2. Len(as) >= 1
        <4> DEFINE n == Len(as)
        <4>1. n >= m + k /\ n \in Nat
          BY Zenon, <2>1, <2>2
        <4> HIDE DEF n
        <4>2. n >= 1
          BY SMT, <1>5, <3>1, <4>1
        <4> QED
          BY Zenon, <4>2 DEF n
      <3>3. /\ Tail(as) \in Seq(Arguments) /\ Len(Tail(as)) = Len(as) - 1
            /\ Head(as).num \in Int
        BY Zenon, <1>2, <1>3, <1>6, <2>1, <3>2
      <3> DEFINE n == Len(as)
                 t == Len(Tail(as))
      <3>4. t = n - 1 /\ n \in Nat /\ n >= m + k
        BY Zenon, <2>1, <2>2, <3>3
      <3> HIDE DEF n, t
      <3>5. t >= k
        BY SMT, <1>5, <3>1, <3>4
      <3> QED
        BY Zenon, <2>0, <2>3, <3>3, <3>5 DEF t
    <2>4. CASE d.max # Star
      <3>1. m = 0
        BY Zenon, <2>4
      <3>3. d.max \in Int
        BY SMT, <1>4, <2>4
      <3> HIDE DEF m, k
      <3>4. Len(as) >= k
        <4> DEFINE n == Len(as)
        <4>1. n >= m + k /\ n \in Nat
          BY Zenon, <2>1, <2>2
        <4> HIDE DEF n
        <4>2. n >= k
          BY SMT, <1>5, <3>1, <4>1
        <4> QED
          BY Zenon, <4>2 DEF n
      <3> QED
        BY Zenon, <2>0, <2>1, <2>4, <3>3, <3>4
    <2> QED
      BY Zenon, <2>3, <2>4
  <1>9. ASSUME d.key # "%" PROVE AfterMax(d, args) # <<>> /\ ArgTaken(d, args) \in Arguments
    <2>1. k = 1
      BY Zenon, <1>9
    <2> HIDE DEF k
    <2>2. Len(AfterMax(d, args)) >= 1
      BY Zenon, <1>8, <2>1
    <2> QED
      BY Zenon, <1>3, <1>6, <1>8, <1>9, <2>2 DEF ArgTaken
  <1>10. ArgTaken(d, args).num \in Int /\ ArgTaken(d, args).str \in Seq(STRING)
    <2>1. CASE d.key = "%"
      <3>1. ArgTaken(d, args) = [num |-> 0, str |-> <<>>]
        BY Zenon, <2>1 DEF ArgTaken, Argument
      <3> QED
        BY SMT, <3>1
    <2>2. CASE d.key # "%"
      BY Zenon, <1>2, <1>9, <2>2
    <2> QED
      BY Zenon, <2>1, <2>2
  <1> QED
    BY Zenon, <1>7, <1>8, <1>9, <1>10

\* A turn for a directive that converts.
LEMMA TurnIs ==
    ASSUME NEW d \in Directive, d.key \in Known, NEW out
    PROVE  LET done == StringPrint(d, ArgTaken(d, out.args), WidthTaken(d, out.args),
                                   MaxTaken(d, out.args))
           IN  /\ Turn(out, d).text = out.text \o done.text
               /\ Turn(out, d).len = out.len + done.len
               /\ Turn(out, d).args = IF d.key = "%" THEN AfterMax(d, out.args)
                                      ELSE Tail(AfterMax(d, out.args))
  <1> DEFINE done == StringPrint(d, ArgTaken(d, out.args), WidthTaken(d, out.args),
                                 MaxTaken(d, out.args))
             rest == IF d.key = "%" THEN AfterMax(d, out.args) ELSE Tail(AfterMax(d, out.args))
             t == [text |-> out.text \o done.text, len |-> out.len + done.len, args |-> rest]
  <1>1. d.key # "char"
    BY Zenon DEF Known, NumberKeys
  <1>2. Turn(out, d) = t
    BY Zenon, <1>1 DEF Turn, ArgTaken, WidthTaken, MaxTaken, AfterMax, AfterWidth
  <1> HIDE DEF done, rest
  <1>3. t.text = out.text \o done.text /\ t.len = out.len + done.len /\ t.args = rest
    BY Zenon
  <1> QED
    BY Zenon, <1>2, <1>3 DEF done, rest

\* A format of one directive.
LEMMA OneTurn ==
    ASSUME NEW call, Len(call.fmt) = 1
    PROVE  /\ Vsprintf(call) = Turn([text |-> <<>>, len |-> 0, args |-> call.args], call.fmt[1])
           /\ Turns(call)[0].args = call.args
  <1>1. Len(call.fmt) \in Nat /\ 1 \in 1..Len(call.fmt) /\ 1 - 1 = 0
    BY SMT
  <1>2. /\ Turns(call)[0] = [text |-> <<>>, len |-> 0, args |-> call.args]
        /\ Turns(call)[1] = Turn(Turns(call)[1 - 1], call.fmt[1])
    BY Zenon, <1>1, TurnsAre
  <1>3. Vsprintf(call) = Turns(call)[1]
    BY Zenon DEF Vsprintf
  <1>4. Turns(call)[1 - 1] = Turns(call)[0]
    BY Zenon, <1>1
  <1>5. Turns(call)[0].args = call.args
    <2> DEFINE none == [text |-> <<>>, len |-> 0, args |-> call.args]
    <2>1. none.args = call.args
      BY Zenon
    <2>2. Turns(call)[0] = none
      BY Zenon, <1>2
    <2> HIDE DEF none
    <2> QED
      BY Zenon, <2>1, <2>2
  <1> QED
    BY Zenon, <1>2, <1>3, <1>4, <1>5

\* What a format of one directive makes.
LEMMA OneField ==
    ASSUME NEW call, Len(call.fmt) = 1, NEW d \in Directive, call.fmt[1] = d,
           d.key \in Known, call.args \in Seq(Arguments), Len(call.args) >= Takes(d)
    PROVE  LET arg == ArgTaken(d, call.args)
               max == MaxTaken(d, call.args)
               width == WidthTaken(d, call.args)
               out == Vsprintf(call)
               need == Length(d, Converted(d, arg), max)
                         + (IF Negative(d, arg) THEN 1 ELSE 0)
           IN  /\ out.text = StringPrint(d, arg, width, max).text
               /\ out.text \in Seq(Chars) /\ out.len \in Int
               /\ need \in Nat /\ width \in Int
               /\ Len(out.text) = IF width > need THEN width ELSE need
               /\ Len(out.text) - out.len = IF Negative(d, arg) /\ ~d.zero THEN 1 ELSE 0
               /\ Negative(d, arg) => "-" \in ToSet(out.text)
  <1> DEFINE args == call.args
             arg == ArgTaken(d, args)
             max == MaxTaken(d, args)
             width == WidthTaken(d, args)
             done == StringPrint(d, arg, width, max)
             none == [text |-> <<>>, len |-> 0, args |-> args]
  <1>1. Vsprintf(call) = Turn(none, d)
    BY Zenon, OneTurn
  <1>2. none.text = <<>> /\ none.len = 0 /\ none.args = args
    BY Zenon
  <1>3. arg.num \in Int /\ arg.str \in Seq(STRING) /\ width \in Int /\ max \in Int
    BY Zenon, TakenIs
  <1> HIDE DEF none
  <1>4. Vsprintf(call).text = <<>> \o done.text /\ Vsprintf(call).len = 0 + done.len
    <2> DEFINE made == StringPrint(d, ArgTaken(d, none.args), WidthTaken(d, none.args),
                                   MaxTaken(d, none.args))
    <2>1. made = done
      BY Zenon, <1>2
    <2>2. Turn(none, d).text = none.text \o made.text /\ Turn(none, d).len = none.len + made.len
      BY Zenon, TurnIs
    <2> HIDE DEF made, done
    <2> QED
      BY Zenon, <1>1, <1>2, <2>1, <2>2
  <1> DEFINE need == Length(d, Converted(d, arg), max) + (IF Negative(d, arg) THEN 1 ELSE 0)
  <1>5. /\ done.text \in Seq(Chars)
        /\ need \in Nat
        /\ Len(done.text) = IF width > need THEN width ELSE need
        /\ Len(done.text) - done.len = IF Negative(d, arg) /\ ~d.zero THEN 1 ELSE 0
        /\ Negative(d, arg) => "-" \in ToSet(done.text)
    <2> HIDE DEF args, arg, max, width
    <2> QED
      BY Zenon, <1>3, FieldIs
  <1>6. Vsprintf(call).text = done.text
    <2> HIDE DEF done
    <2> QED
      BY SMT, <1>4, <1>5
  <1>7. done.len \in Int /\ Vsprintf(call).len = done.len
    <2>1. done.len = Len(done.text)
                       - (IF d.zero THEN 0 ELSE Len(IF Negative(d, arg) THEN <<"-">> ELSE <<>>))
      BY Zenon DEF StringPrint
    <2>2. Len(IF Negative(d, arg) THEN <<"-">> ELSE <<>>) \in Nat
      BY SMT
    <2>3. Len(done.text) \in Nat
      <3> HIDE DEF done
      <3> QED
        BY SMT, <1>5
    <2>4. done.len \in Int
      <3> DEFINE a == Len(done.text)
                 b == Len(IF Negative(d, arg) THEN <<"-">> ELSE <<>>)
                 c == done.len
      <3>1. a \in Nat /\ b \in Nat /\ c = a - (IF d.zero THEN 0 ELSE b)
        BY Zenon, <2>1, <2>2, <2>3
      <3> HIDE DEF a, b, c
      <3>2. c \in Int
        BY SMT, <3>1
      <3> QED
        BY Zenon, <3>2 DEF c
    <2> HIDE DEF done
    <2> QED
      BY SMT, <1>4, <2>4
  <1> QED
    BY Zenon, <1>3, <1>5, <1>6, <1>7

\* The calls of a state are those that are made.
LEMMA CallsUnderWay ==
    ASSUME PrintingTypeOK, NEW call \in {active[k].call : k \in DOMAIN active}, call # <<>>
    PROVE  call \in Calls \cup KeyCalls
  <1>1. PICK k \in DOMAIN active : call = active[k].call
    BY Zenon
  <1>2. active[k] \in ActivationType
    BY SMT DEF PrintingTypeOK
  <1>3. active[k].call \in Calls \cup KeyCalls \cup {<<>>}
    BY Zenon, <1>2 DEF ActivationType
  <1> QED
    BY Zenon, <1>1, <1>3

\* A field is filled as it should be.
LEMMA FieldFilled ==
    ASSUME NEW call \in Calls \cup KeyCalls, Len(call.fmt) = 1, call.fmt[1].key \in Known
    PROVE  LET d    == call.fmt[1]
               out  == Vsprintf(call)
               bare == Vsprintf([fmt  |-> <<[d EXCEPT !.width = 0]>>,
                                 args |-> IF d.width = Star THEN Tail(call.args)
                                          ELSE call.args])
               size == Len(bare.text)
           IN  /\ Len(out.text) = IF WidthOf(call) > size THEN WidthOf(call)
                                  ELSE size
               /\ Len(out.text) - out.len \in {0, 1}
               /\ Len(out.text) # out.len => "-" \in ToSet(out.text) /\ ~d.zero
  <1> DEFINE d == call.fmt[1]
             args == call.args
             d0 == [d EXCEPT !.width = 0]
             args0 == AfterWidth(d, args)
             call0 == [fmt |-> <<d0>>, args |-> args0]
             arg == ArgTaken(d, args)
             max == MaxTaken(d, args)
             width == WidthTaken(d, args)
             minus == IF Negative(d, arg) THEN 1 ELSE 0
             need == Length(d, Converted(d, arg), max) + minus
             out == Vsprintf(call)
             bare == Vsprintf(call0)
  <1>1. d \in Directive /\ args \in Seq(Arguments) /\ Len(args) >= Takes(d)
    <2>1. /\ call.fmt \in Seq(Directive) /\ args \in Seq(Arguments)
          /\ \A n \in DOMAIN call.fmt : Len(Turns(call)[n - 1].args) >= Takes(call.fmt[n])
      BY Zenon, CallsAssumption DEF Arguments
    <2>2. 1 \in DOMAIN call.fmt /\ call.fmt[1] \in Directive /\ 1 - 1 = 0
      BY SMT, <2>1
    <2>3. Len(Turns(call)[0].args) >= Takes(d)
      BY Zenon, <2>1, <2>2
    <2> QED
      BY Zenon, <2>1, <2>2, <2>3, OneTurn
  <1>2. /\ d0 \in Directive /\ d0.key = d.key /\ d0.max = d.max
        /\ d0.width = 0 /\ d0.zero = d.zero
    <2> HIDE DEF d
    <2> QED
      BY SMT, <1>1 DEF Directive
  <1>3. d0.width # Star
    BY SMT, <1>2 DEF Star
  <1>4. args0 \in Seq(Arguments) /\ Len(args0) >= Takes(d0)
    <2> DEFINE w == IF d.width = Star THEN 1 ELSE 0
               m == IF d.max = Star THEN 1 ELSE 0
               k == IF d.key \in Known \ {"%"} THEN 1 ELSE 0
    <2>1. Takes(d) = w + m + k
      BY Zenon DEF Takes
    <2>2. Takes(d0) = 0 + m + k
      BY Zenon, <1>2, <1>3 DEF Takes
    <2>3. w \in 0..1 /\ m \in 0..1 /\ k \in 0..1
      BY SMT
    <2>4. d.width = Star <=> w = 1
      BY SMT
    <2>5. args0 = IF d.width = Star THEN Tail(args) ELSE args
      BY Zenon DEF AfterWidth
    <2> HIDE DEF w, m, k, args, args0, d0, d
    <2>6. Len(args) \in Nat /\ Len(args) >= w + m + k
      BY SMT, <1>1, <2>1
    <2>7. CASE d.width = Star
      <3>1. args0 = Tail(args) /\ w = 1
        BY Zenon, <2>4, <2>5, <2>7
      <3> DEFINE n == Len(args)
      <3>2. n \in Nat /\ n >= w + m + k
        BY Zenon, <2>6
      <3> HIDE DEF n
      <3>3. n >= 1 /\ n - 1 >= 0 + m + k
        BY SMT, <2>3, <3>1, <3>2
      <3>4. args # <<>>
        BY SMT, <1>1, <3>3 DEF n
      <3>5. Tail(args) \in Seq(Arguments) /\ Len(Tail(args)) = n - 1
        BY SMT, <1>1, <3>4 DEF n
      <3> QED
        BY Zenon, <2>2, <3>1, <3>3, <3>5
    <2>8. CASE d.width # Star
      <3>1. args0 = args /\ w \in 0..1 /\ w # 1
        BY Zenon, <2>3, <2>4, <2>5, <2>8
      <3> DEFINE n == Len(args)
      <3>2. n \in Nat /\ n >= w + m + k
        BY Zenon, <2>6
      <3> HIDE DEF n
      <3>3. n >= 0 + m + k
        BY SMT, <2>3, <3>1, <3>2
      <3> QED
        BY Zenon, <1>1, <2>2, <3>1, <3>3 DEF n
    <2> QED
      BY Zenon, <2>7, <2>8
  <1>5. /\ WidthTaken(d0, args0) = 0 /\ MaxTaken(d0, args0) = max
        /\ ArgTaken(d0, args0) = arg
    <2>1. AfterWidth(d0, args0) = args0
      BY Zenon, <1>3 DEF AfterWidth
    <2> HIDE DEF d, d0, args0
    <2>2. WidthTaken(d0, args0) = 0
      BY Zenon, <1>2, <1>3 DEF WidthTaken
    <2>3. MaxTaken(d0, args0) = MaxTaken(d, args) /\ AfterMax(d0, args0) = AfterMax(d, args)
      BY Zenon, <1>2, <2>1 DEF MaxTaken, AfterMax, args0
    <2> QED
      BY Zenon, <1>2, <2>2, <2>3 DEF ArgTaken
  <1>6. /\ Converted(d0, arg) = Converted(d, arg)
        /\ Negative(d0, arg) <=> Negative(d, arg)
        /\ \A body : Length(d0, body, max) = Length(d, body, max)
    <2> HIDE DEF d0, d, arg, max
    <2>1. Converted(d0, arg) = Converted(d, arg)
      BY Zenon, <1>2 DEF Converted
    <2>2. Negative(d0, arg) <=> Negative(d, arg)
      BY Zenon, <1>2 DEF Negative
    <2>3. \A body : Length(d0, body, max) = Length(d, body, max)
      BY Zenon, <1>2 DEF Length
    <2> QED
      BY Zenon, <2>1, <2>2, <2>3
  <1>7. /\ need \in Nat /\ width \in Int
        /\ Len(out.text) = IF width > need THEN width ELSE need
        /\ Len(out.text) - out.len = IF Negative(d, arg) /\ ~d.zero THEN 1 ELSE 0
        /\ Negative(d, arg) => "-" \in ToSet(out.text)
        /\ out.text \in Seq(Chars) /\ out.len \in Int
    BY Zenon, <1>1, OneField
  <1>8. Len(bare.text) = IF 0 > need THEN 0 ELSE need
    <2> DEFINE need0 == Length(d0, Converted(d0, ArgTaken(d0, args0)), MaxTaken(d0, args0))
                          + (IF Negative(d0, ArgTaken(d0, args0)) THEN 1 ELSE 0)
    <2> HIDE DEF d0, args0
    <2>1. call0.fmt[1] = d0 /\ Len(call0.fmt) = 1 /\ call0.args = args0
      BY SMT
    <2>2. d0.key \in Known
      BY Zenon, <1>2
    <2> HIDE DEF call0
    <2>3. Len(bare.text) = IF WidthTaken(d0, args0) > need0 THEN WidthTaken(d0, args0) ELSE need0
      BY Zenon, <1>2, <1>4, <2>1, <2>2, OneField
    <2>4. need0 = need
      BY Zenon, <1>5, <1>6
    <2> HIDE DEF need0, need
    <2> QED
      BY Zenon, <1>5, <2>3, <2>4
  <1>9. WidthOf(call) = width
    <2>1. d.width = Star => Head(args) = args[1]
      BY SMT
    <2> QED
      BY Zenon, <2>1 DEF WidthOf, WidthTaken
  <1>10. call0 = [fmt |-> <<[d EXCEPT !.width = 0]>>,
                  args |-> IF d.width = Star THEN Tail(call.args) ELSE call.args]
    BY Zenon DEF AfterWidth
  <1> HIDE DEF need, width, out, bare
  <1>11. Len(bare.text) = need
    BY SMT, <1>7, <1>8
  <1>12. /\ Len(out.text) = IF WidthOf(call) > Len(bare.text) THEN WidthOf(call) ELSE Len(bare.text)
         /\ Len(out.text) - out.len \in {0, 1}
    <2>1. Len(out.text) - out.len \in {0, 1}
      BY Zenon, <1>7
    <2> QED
      BY Zenon, <1>7, <1>9, <1>11, <2>1
  <1>13. ASSUME Len(out.text) # out.len
         PROVE  "-" \in ToSet(out.text) /\ ~d.zero
    <2>1. Negative(d, arg) /\ ~d.zero
      <3>1. SUFFICES ASSUME ~(Negative(d, arg) /\ ~d.zero) PROVE FALSE
        BY Zenon
      <3>2. Len(out.text) - out.len = 0
        BY Zenon, <1>7, <3>1
      <3>3. Len(out.text) = out.len
        BY SMT, <1>7, <3>2
      <3> QED
        BY Zenon, <1>13, <3>3
    <2> QED
      BY Zenon, <1>7, <2>1
  <1> QED
    BY Zenon, <1>10, <1>12, <1>13 DEF out, bare

-----------------------------------------------------------------------------
(* Both formatters make the same text, which ends in the same place.       *)

\* Equal digits make equal numerals,
LEMMA NumeralSame ==
    ASSUME NEW base \in Nat, base > 1, NEW table, Tabled(table, base),
           NEW other, \A i \in 1..base : other[i] = table[i]
    PROVE  \A u \in Nat : Numeral(u, base, other) = Numeral(u, base, table)
  <1> DEFINE S == {u \in Nat : Numeral(u, base, other) = Numeral(u, base, table)}
  <1>1. Tabled(other, base)
    BY Zenon DEF Tabled
  <1>2. ASSUME NEW u \in Nat, \A k \in Nat : k < u => k \in S PROVE u \in S
    <2> DEFINE q == u \div base
               r == (u % base) + 1
    <2>1. /\ r \in 1..base /\ q \in Nat
          /\ u < base => u + 1 \in 1..base
          /\ u >= base => q < u
      BY Zenon, QuotientIs
    <2>2. /\ Numeral(u, base, table) = IF u < base THEN <<table[u + 1]>>
                                       ELSE Numeral(q, base, table) \o <<table[r]>>
          /\ Numeral(u, base, other) = IF u < base THEN <<other[u + 1]>>
                                       ELSE Numeral(q, base, other) \o <<other[r]>>
      BY Zenon, <1>1, NumeralIs
    <2>3. ~(u < base) => u >= base
      BY SMT
    <2> HIDE DEF q, r
    <2>4. ~(u < base) => Numeral(q, base, other) = Numeral(q, base, table)
      BY Zenon, <1>2, <2>1, <2>3
    <2>5. Numeral(u, base, other) = Numeral(u, base, table)
      BY Zenon, <2>1, <2>2, <2>4
    <2> QED
      BY Zenon, <2>5
  <1> HIDE DEF S
  <1>3. \A u \in Nat : u \in S
    BY Zenon, <1>2, AllSmaller
  <1> QED
    BY Zenon, <1>3 DEF S

\* and every quotient adds one.
LEMMA NumeralLength ==
    ASSUME NEW base \in Nat, base > 1, NEW table, Tabled(table, base), NEW u \in Nat
    PROVE  /\ Len(Numeral(u, base, table)) \in Nat
           /\ u < base => Len(Numeral(u, base, table)) = 1
           /\ u >= base => Len(Numeral(u, base, table))
                             = Len(Numeral(u \div base, base, table)) + 1
  <1> DEFINE q == u \div base
             r == (u % base) + 1
             n == Numeral(u, base, table)
             m == Numeral(q, base, table)
  <1>1. q \in Nat
    BY Zenon, QuotientIs
  <1>2. /\ n \in Seq(Chars) /\ m \in Seq(Chars)
        /\ n = IF u < base THEN <<table[u + 1]>> ELSE m \o <<table[r]>>
    BY Zenon, <1>1, NumeralIs
  <1>3. r \in 1..base
    BY Zenon, QuotientIs
  <1>4. \A a : Len(<<a>>) = 1
    BY SMT
  <1>5. table[r] \in Chars
    BY Zenon, <1>3 DEF Tabled
  <1>6. Len(m \o <<table[r]>>) = Len(m) + 1
    <2> DEFINE c == table[r]
    <2>1. c \in Chars
      BY Zenon, <1>5
    <2> HIDE DEF c, m
    <2>2. Len(m \o <<c>>) = Len(m) + 1
      BY SMT, <1>2, <2>1
    <2> QED
      BY Zenon, <2>2 DEF c
  <1>7. u >= base => ~(u < base)
    BY SMT
  <1> HIDE DEF n, m, q, r
  <1>8. Len(n) \in Nat
    BY SMT, <1>2
  <1> QED
    BY Zenon, <1>2, <1>4, <1>6, <1>7, <1>8 DEF n, m, q

\* A number is not longer than it is large.
LEMMA NumeralShort ==
    ASSUME NEW base \in Nat, base > 1, NEW table, Tabled(table, base)
    PROVE  \A u \in Nat : u >= 1 => Len(Numeral(u, base, table)) <= u
  <1> DEFINE S == {u \in Nat : u >= 1 => Len(Numeral(u, base, table)) <= u}
  <1>1. ASSUME NEW u \in Nat, \A k \in Nat : k < u => k \in S PROVE u \in S
    <2> DEFINE q == u \div base
               len(k) == Len(Numeral(k, base, table))
    <2>1. /\ q \in Nat
          /\ u >= base => q < u /\ q >= 1
      BY Zenon, QuotientIs
    <2>2. /\ len(u) \in Nat /\ len(q) \in Nat
          /\ u < base => len(u) = 1
          /\ u >= base => len(u) = len(q) + 1
      BY Zenon, <2>1, NumeralLength
    <2>3. u >= base => len(q) <= q
      BY Zenon, <1>1, <2>1
    <2> HIDE DEF q, len
    <2>4. u >= 1 => len(u) <= u
      BY SMT, <2>1, <2>2, <2>3
    <2> QED
      BY Zenon, <2>4 DEF len
  <1> HIDE DEF S
  <1>2. \A u \in Nat : u \in S
    BY Zenon, <1>1, AllSmaller
  <1> QED
    BY Zenon, <1>2 DEF S

\* A field without flags, width and sign is its text.
LEMMA BareField ==
    ASSUME NEW d, ~d.zero, ~d.left, NEW arg, ~Negative(d, arg), NEW max,
           Converted(d, arg) \in Seq(Chars),
           Length(d, Converted(d, arg), max) = Len(Converted(d, arg))
    PROVE  StringPrint(d, arg, 0, max).text = Converted(d, arg)
  <1> DEFINE body == Converted(d, arg)
             len == Length(d, body, max)
             pad == Padding(d, arg, 0, len)
             sign == IF Negative(d, arg) THEN <<"-">> ELSE <<>>
             number == SubSeq(body, 1, len)
             text == CASE d.zero /\ d.left   -> sign \o number \o pad
                       [] d.zero /\ ~d.left  -> sign \o pad \o number
                       [] ~d.zero /\ d.left  -> sign \o number \o pad
                       [] ~d.zero /\ ~d.left -> pad \o sign \o number
  <1>1. StringPrint(d, arg, 0, max).text = text
    <2>1. StringPrint(d, arg, 0, max) =
            [text |-> text,
             len |-> Len(text) - (IF d.zero THEN 0 ELSE Len(sign))]
      BY Zenon DEF StringPrint
    <2> HIDE DEF text, sign
    <2> QED
      BY SMT, <2>1
  <1>2. sign = <<>>
    BY Zenon
  <1>3. body \in Seq(Chars) /\ len = Len(body) /\ Len(body) \in Nat
    <2>1. body \in Seq(Chars) /\ len = Len(body)
      BY Zenon
    <2> HIDE DEF body
    <2> QED
      BY SMT, <2>1
  <1>4. pad = <<>>
    <2> DEFINE k == 0 - len - 0
    <2>1. \E char : pad = Copies(char, k)
      BY Zenon DEF Padding
    <2> HIDE DEF len, pad
    <2>2. AtLeast0(k) = 0
      BY SMT, <1>3 DEF AtLeast0
    <2> HIDE DEF k
    <2>3. \A char : Copies(char, k) = <<>>
      BY SMT, <2>2 DEF Copies
    <2> QED
      BY Zenon, <2>1, <2>3
  <1>5. number = body
    <2> HIDE DEF body
    <2> QED
      BY SMT, <1>3
  <1> HIDE DEF pad, sign, number
  <1>6. text = pad \o sign \o number
    BY Zenon
  <1>7. pad \o sign \o number = body
    <2> HIDE DEF body
    <2> QED
      BY SMT, <1>2, <1>3, <1>4, <1>5
  <1> QED
    BY Zenon, <1>1, <1>6, <1>7

\* The digits of both formatters.
LEMMA Spelling ==
    /\ \A rest \in 0..15 :
         /\ rest + 1 \in 1..16 /\ PrintkDigit(rest) \in Chars
         /\ rest < 10 => PrintkDigit(rest) = x2c_tab[rest + 1]
         /\ ~(rest < 10) => /\ rest \in 10..15
                            /\ PrintkDigit(rest) # x2c_tab[rest + 1]
    /\ \A rest \in 10..15 : rest \in 0..15 /\ ~(rest < 10)
  <1> DEFINE letters == <<"B", "C", "D", "E", "F", "G">>
  <1>1. \A rest \in 0..15 : rest + 1 \in 1..16 /\ (~(rest < 10) => rest \in 10..15)
    BY SMT
  <1>2. \A rest \in 10..15 : rest \in 0..15 /\ ~(rest < 10) /\ rest - 9 \in 1..6
    BY SMT
  <1>3. \A rest \in 10..15 : letters[rest - 9] # x2c_tab[rest + 1]
    <2>1. \A rest \in 10..15 : letters[rest - 9] \in {"B", "C", "D", "E", "F", "G"}
      BY SMT
    <2>2. \A rest \in 10..15 : x2c_tab[rest + 1] \in {"a", "b", "c", "d", "e", "f"}
      BY SMT DEF x2c_tab
    <2>3. \A a \in {"B", "C", "D", "E", "F", "G"} :
            a \notin {"a", "b", "c", "d", "e", "f"}
      BY Zenon
    <2> QED
      BY Zenon, <2>1, <2>2, <2>3
  <1> HIDE DEF letters
  <1>5. \A rest \in 0..15 : PrintkDigit(rest) =
            IF rest < 10 THEN x2c_tab[rest + 1] ELSE letters[rest - 9]
    BY Zenon DEF PrintkDigit, letters
  <1>6. \A rest \in 0..15 : PrintkDigit(rest) \in Chars
    BY Zenon, <1>1, <1>5 DEF Chars
  <1> QED
    BY Zenon, <1>1, <1>2, <1>3, <1>5, <1>6

\* Two texts that are written digit by digit from both tables,
Paired(other, text) ==
    /\ other \in Seq(Chars) /\ text \in Seq(Chars) /\ Len(other) = Len(text)
    /\ \A i \in 1..Len(text) : \E rest \in 0..15 :
         other[i] = PrintkDigit(rest) /\ text[i] = x2c_tab[rest + 1]

\* and two that differ in letters at most.
Alike(other, text) ==
    /\ other \in Seq(Chars) /\ text \in Seq(Chars) /\ Len(other) = Len(text)
    /\ \A i \in 1..Len(text) : Respelt(other[i], text[i])

\* A digit from ten on.
Lettered(text) == \E rest \in 10..15 : x2c_tab[rest + 1] \in ToSet(text)

\* A hexadecimal number in both tables.
LEMMA NumeralPaired ==
    ASSUME NEW table, \A i \in 1..16 : table[i] = PrintkDigit(i - 1)
    PROVE  \A u \in Nat : Paired(Numeral(u, 16, table), Numeral(u, 16, x2c_tab))
  <1> DEFINE S == {u \in Nat : Paired(Numeral(u, 16, table), Numeral(u, 16, x2c_tab))}
  <1>1. 16 \in Nat /\ 16 > 1 /\ \A i \in 1..16 : i - 1 \in 0..15 /\ (i - 1) + 1 = i
    BY SMT
  <1>2. Tabled(table, 16) /\ Tabled(x2c_tab, 16)
    BY Zenon, <1>1, Spelling DEF Tabled, Chars
  <1>3. ASSUME NEW u \in Nat, \A k \in Nat : k < u => k \in S PROVE u \in S
    <2> DEFINE q == u \div 16
               r == (u % 16) + 1
               a == Numeral(q, 16, table)
               b == Numeral(q, 16, x2c_tab)
    <2>1. /\ r \in 1..16 /\ q \in Nat
          /\ u < 16 => u + 1 \in 1..16
          /\ u >= 16 => q < u
      BY Zenon, <1>1, QuotientIs
    <2>2. /\ Numeral(u, 16, table) = IF u < 16 THEN <<table[u + 1]>> ELSE a \o <<table[r]>>
          /\ Numeral(u, 16, x2c_tab) = IF u < 16 THEN <<x2c_tab[u + 1]>>
                                       ELSE b \o <<x2c_tab[r]>>
      BY Zenon, <1>1, <1>2, NumeralIs
    <2>3. ~(u < 16) => u >= 16
      BY SMT
    <2>4. ~(u < 16) => Paired(a, b)
      BY Zenon, <1>3, <2>1, <2>3
    <2> HIDE DEF q, r, a, b
    <2>5. ASSUME NEW i \in 1..16
          PROVE  /\ table[i] \in Chars /\ x2c_tab[i] \in Chars
                 /\ \E rest \in 0..15 : /\ table[i] = PrintkDigit(rest)
                                         /\ x2c_tab[i] = x2c_tab[rest + 1]
      BY Zenon, <1>1, <1>2 DEF Tabled
    <2>6. ASSUME NEW c \in Chars, NEW d \in Chars,
                 \E rest \in 0..15 : c = PrintkDigit(rest) /\ d = x2c_tab[rest + 1]
          PROVE  Paired(<<c>>, <<d>>) /\ (Paired(a, b) => Paired(a \o <<c>>, b \o <<d>>))
      <3>1. Paired(<<c>>, <<d>>)
        <4>1. /\ <<c>> \in Seq(Chars) /\ <<d>> \in Seq(Chars)
              /\ Len(<<c>>) = Len(<<d>>)
              /\ \A i \in 1..Len(<<d>>) : <<c>>[i] = c /\ <<d>>[i] = d
          BY SMT
        <4> QED
          BY Zenon, <2>6, <4>1 DEF Paired
      <3>2. ASSUME Paired(a, b) PROVE Paired(a \o <<c>>, b \o <<d>>)
        <4> DEFINE x == a \o <<c>>
                   y == b \o <<d>>
        <4>1. a \in Seq(Chars) /\ b \in Seq(Chars) /\ Len(a) = Len(b)
          BY Zenon, <3>2 DEF Paired
        <4>2. /\ x \in Seq(Chars) /\ y \in Seq(Chars) /\ Len(x) = Len(y)
              /\ \A i \in 1..Len(y) :
                   IF i \in 1..Len(b) THEN x[i] = a[i] /\ y[i] = b[i]
                   ELSE x[i] = c /\ y[i] = d
          BY SMT, <4>1
        <4> HIDE DEF x, y
        <4>3. \A i \in 1..Len(b) : \E rest \in 0..15 :
                a[i] = PrintkDigit(rest) /\ b[i] = x2c_tab[rest + 1]
          BY Zenon, <3>2 DEF Paired
        <4>4. Paired(x, y)
          BY Zenon, <2>6, <4>2, <4>3 DEF Paired
        <4> QED
          BY Zenon, <4>4 DEF x, y
      <3> QED
        BY Zenon, <3>1, <3>2
    <2>7. CASE u < 16
      BY Zenon, <2>1, <2>2, <2>5, <2>6, <2>7
    <2>8. CASE ~(u < 16)
      BY Zenon, <2>1, <2>2, <2>4, <2>5, <2>6, <2>8
    <2> QED
      BY Zenon, <2>7, <2>8
  <1> HIDE DEF S
  <1>4. \A u \in Nat : u \in S
    BY Zenon, <1>3, AllSmaller
  <1> QED
    BY Zenon, <1>4 DEF S

\* They are equal unless there is a letter, in which they differ.
LEMMA PairedAlike ==
    ASSUME NEW other, NEW text, Paired(other, text)
    PROVE  Alike(other, text) /\ (other = text <=> ~Lettered(text))
  <1>1. /\ other \in Seq(Chars) /\ text \in Seq(Chars) /\ Len(other) = Len(text)
        /\ \A i \in 1..Len(text) : \E rest \in 0..15 :
             other[i] = PrintkDigit(rest) /\ text[i] = x2c_tab[rest + 1]
    BY Zenon DEF Paired
  <1>2. \A i \in 1..Len(text) : Respelt(other[i], text[i])
    BY Zenon, <1>1, Spelling DEF Respelt
  <1>3. /\ other = text <=> \A i \in 1..Len(text) : other[i] = text[i]
        /\ DOMAIN text = 1..Len(text)
    BY SMT, <1>1
  <1>4. \A i, j \in 1..16 : x2c_tab[i] = x2c_tab[j] => i = j
    BY SMT DEF x2c_tab
  <1>5. \A rest, more \in 0..15 : x2c_tab[rest + 1] = x2c_tab[more + 1] => rest = more
    <2>1. \A rest, more \in 0..15 : /\ rest + 1 \in 1..16 /\ more + 1 \in 1..16
                                    /\ rest + 1 = more + 1 => rest = more
      BY SMT
    <2> QED
      BY Zenon, <1>4, <2>1
  <1>6. ASSUME NEW i \in 1..Len(text)
        PROVE  other[i] = text[i] <=>
                 ~ \E rest \in 10..15 : x2c_tab[rest + 1] = text[i]
    <2>1. PICK rest \in 0..15 : other[i] = PrintkDigit(rest) /\ text[i] = x2c_tab[rest + 1]
      BY Zenon, <1>1
    <2>2. CASE rest < 10
      <3>1. other[i] = text[i]
        BY Zenon, <2>1, <2>2, Spelling
      <3>2. ASSUME NEW more \in 10..15, x2c_tab[more + 1] = text[i] PROVE FALSE
        BY Zenon, <1>5, <2>1, <2>2, <3>2, Spelling
      <3> QED
        BY Zenon, <3>1, <3>2
    <2>3. CASE ~(rest < 10)
      BY Zenon, <2>1, <2>3, Spelling
    <2> QED
      BY Zenon, <2>2, <2>3
  <1>7. Lettered(text) <=>
          \E i \in 1..Len(text) : \E rest \in 10..15 : x2c_tab[rest + 1] = text[i]
    BY Zenon, <1>3 DEF Lettered, ToSet
  <1> QED
    BY Zenon, <1>1, <1>2, <1>3, <1>6, <1>7 DEF Alike

\* What is in a text made of two.
LEMMA Joined ==
    ASSUME NEW p \in Seq(Chars), NEW q \in Seq(Chars)
    PROVE  /\ p \o q \in Seq(Chars) /\ Len(p \o q) = Len(p) + Len(q)
           /\ \A i \in 1..Len(p) : (p \o q)[i] = p[i]
           /\ \A i \in 1..Len(q) : (p \o q)[Len(p) + i] = q[i]
  <1>1. p \o q \in Seq(Chars) /\ Len(p \o q) = Len(p) + Len(q)
    BY SMT
  <1>2. \A i \in 1..Len(p) : (p \o q)[i] = p[i]
    BY SMT
  <1>3. \A i \in 1..Len(q) : (p \o q)[Len(p) + i] = q[i]
    BY SMT
  <1> QED
    BY Zenon, <1>1, <1>2, <1>3

\* Texts behind one another.
LEMMA AlikeJoin ==
    ASSUME NEW a, NEW b, NEW c, NEW d, Alike(b, a), Alike(d, c)
    PROVE  Alike(b \o d, a \o c) /\ (b \o d = a \o c <=> b = a /\ d = c)
  <1>1. /\ a \in Seq(Chars) /\ b \in Seq(Chars) /\ Len(a) = Len(b)
        /\ c \in Seq(Chars) /\ d \in Seq(Chars) /\ Len(c) = Len(d)
    BY Zenon DEF Alike
  <1> DEFINE x == b \o d
             y == a \o c
             m == Len(a)
  <1>2. /\ m \in Nat /\ Len(c) \in Nat /\ m = Len(b) /\ Len(c) = Len(d)
        /\ x \in Seq(Chars) /\ Len(x) = m + Len(c)
        /\ y \in Seq(Chars) /\ Len(y) = m + Len(c)
    <2>1. m \in Nat /\ Len(c) \in Nat
      BY SMT, <1>1
    <2> QED
      BY ZenonT(30), <1>1, <2>1, Joined
  <1>3. /\ \A i \in 1..m : x[i] = b[i] /\ y[i] = a[i]
        /\ \A i \in 1..Len(c) : x[m + i] = d[i] /\ y[m + i] = c[i]
    <2>1. /\ \A i \in 1..Len(b) : x[i] = b[i]
          /\ \A i \in 1..Len(d) : x[Len(b) + i] = d[i]
          /\ \A i \in 1..Len(a) : y[i] = a[i]
          /\ \A i \in 1..Len(c) : y[Len(a) + i] = c[i]
      BY Zenon, <1>1, Joined
    <2> QED
      BY Zenon, <1>1, <2>1
  <1> HIDE DEF x, y, m
  <1>4. \A i \in 1..Len(y) : i \in 1..m \/ \E j \in 1..Len(c) : i = m + j
    <2>1. \A i \in 1..Len(y) : i \in 1..m \/ (i - m \in 1..Len(c) /\ i = m + (i - m))
      BY SMT, <1>2
    <2> QED
      BY Zenon, <2>1
  <1>5. b = a <=> \A i \in 1..m : b[i] = a[i]
    BY SMT, <1>1 DEF m
  <1>6. d = c <=> \A i \in 1..Len(c) : d[i] = c[i]
    BY SMT, <1>1
  <1>7. \A i \in 1..Len(y) : Respelt(x[i], y[i])
    <2>1. /\ \A i \in 1..m : Respelt(b[i], a[i])
          /\ \A i \in 1..Len(c) : Respelt(d[i], c[i])
      BY Zenon DEF Alike, m
    <2> QED
      BY Zenon, <1>3, <1>4, <2>1
  <1>8. Alike(x, y)
    BY Zenon, <1>2, <1>7 DEF Alike
  <1>9. x = y => b = a /\ d = c
    BY Zenon, <1>3, <1>5, <1>6
  <1>10. b = a /\ d = c => x = y
    BY Zenon DEF x, y
  <1> QED
    BY Zenon, <1>8, <1>9, <1>10 DEF x, y

\* A text is like itself.
LEMMA AlikeSame ==
    ASSUME NEW text \in Seq(Chars)
    PROVE  Alike(text, text)
  BY Zenon DEF Alike, Respelt

\* What both formatters take.
PlainDirective(d) ==
    /\ d.key \in {"char", "c", "d", "s", "x"}
    /\ ~d.left /\ ~d.zero /\ d.width = 0 /\ d.max = INT_MAX

PlainArguments(args) ==
    /\ args \in Seq(Arguments)
    /\ \A k \in DOMAIN args : args[k].num > 0 /\ Len(args[k].str) <= INT_MAX

\* A decimal number of printk is the numeral of vsprintf, a hexadecimal one
\* has its own digits.
LEMMA PrintNumIs ==
    ASSUME NEW num \in Int, num > 0
    PROVE  /\ PrintNum(num, 10) = Numeral(num, 10, x2c_tab)
           /\ Paired(PrintNum(num, 16), Numeral(num, 16, x2c_tab))
  <1> DEFINE other == [i \in 1..10 |-> PrintkDigit(i - 1)]
             table == [i \in 1..16 |-> PrintkDigit(i - 1)]
  <1>1. \A i \in 1..10 : i - 1 < 10 /\ (i - 1) + 1 = i /\ i \in 1..16
    BY SMT
  <1>2. \A i \in 1..10 : PrintkDigit(i - 1) = x2c_tab[i]
    BY Zenon, <1>1 DEF PrintkDigit
  <1>3. \A i \in 1..10 : other[i] = x2c_tab[i]
    BY Zenon, <1>2
  <1>4. Tabled(x2c_tab, 10)
    BY Zenon, <1>1 DEF Tabled, Chars
  <1>5. \A i \in 1..16 : table[i] = PrintkDigit(i - 1)
    BY Zenon
  <1> HIDE DEF other, table
  <1>6. num \in Nat /\ 10 \in Nat /\ 10 > 1
    BY SMT
  <1>7. Numeral(num, 10, other) = Numeral(num, 10, x2c_tab)
    BY Zenon, <1>3, <1>4, <1>6, NumeralSame
  <1>8. Paired(Numeral(num, 16, table), Numeral(num, 16, x2c_tab))
    BY Zenon, <1>5, <1>6, NumeralPaired
  <1> QED
    BY Zenon, <1>7, <1>8 DEF PrintNum, other, table

\* The number of an argument of a plain call.
LEMMA PlainNumber ==
    ASSUME NEW num \in Int, num > 0, num <= INT_MAX, NEW key \in {"d", "x"}
    PROVE  /\ Unsigned(key, num) = num /\ DigitTable(key) = x2c_tab
           /\ Len(Numeral(num, Base(key), x2c_tab)) \in Nat
           /\ Len(Numeral(num, Base(key), x2c_tab)) <= INT_MAX
  <1> DEFINE t == TwoTo[Word]
             base == Base(key)
  <1>1. INT_MAX \in Nat /\ t \in Nat /\ t = 2 * (INT_MAX + 1)
    BY Zenon, Ints
  <1> HIDE DEF t
  <1>2. num % t = num /\ ~(num < 0) /\ num \in Nat /\ num >= 1
    BY SMT, <1>1
  <1>3. Unsigned(key, num) = num
    BY Zenon, <1>2 DEF Unsigned, t
  <1>4. DigitTable(key) = x2c_tab
    BY Zenon DEF DigitTable
  <1>5. Tabled(x2c_tab, base) /\ base \in {8, 10, 16}
    BY Zenon, <1>4, TablesAre
  <1> HIDE DEF base
  <1>6. base \in Nat /\ base > 1
    BY SMT, <1>5
  <1> DEFINE n == Len(Numeral(num, base, x2c_tab))
  <1>7. n \in Nat /\ n <= num
    BY Zenon, <1>2, <1>5, <1>6, NumeralLength, NumeralShort
  <1> HIDE DEF n
  <1>8. n <= INT_MAX
    BY SMT, <1>1, <1>7
  <1> QED
    BY Zenon, <1>3, <1>4, <1>7, <1>8 DEF n, base

\* A hexadecimal number with a digit from ten on is next.
Letters(d, args) ==
    d.key = "x" /\ Lettered(Numeral(Head(args).num, 16, x2c_tab))

\* A turn of vsprintf and one of printk.
LEMMA SameTurn ==
    ASSUME NEW d \in Directive, PlainDirective(d), NEW a, NEW b,
           Alike(b.text, a.text),
           PlainArguments(a.args), b.args = a.args, Len(a.args) >= Takes(d)
    PROVE  /\ Alike(PrintkTurn(b, d).text, Turn(a, d).text)
           /\ PrintkTurn(b, d).text = Turn(a, d).text <=>
                b.text = a.text /\ ~Letters(d, a.args)
           /\ PlainArguments(Turn(a, d).args)
           /\ PrintkTurn(b, d).args = Turn(a, d).args
  <1>1. CASE d.key = "char"
    <2>1. d.self \in Chars
      <3>1. d.self \in STRING
        BY SMT DEF Directive
      <3> QED
        BY Zenon, <3>1 DEF Chars
    <2>2. Turn(a, d).text = Append(a.text, d.self) /\ Turn(a, d).args = a.args
      <3> DEFINE t == Append(a.text, d.self)
                 n == a.len + 1
      <3>1. Turn(a, d) = [text |-> t, len |-> n, args |-> a.args]
        BY Zenon, <1>1 DEF Turn, Known, NumberKeys
      <3> HIDE DEF t, n
      <3>2. Turn(a, d).text = t /\ Turn(a, d).args = a.args
        BY SMT, <3>1
      <3> QED
        BY Zenon, <3>2 DEF t
    <2>3. PrintkTurn(b, d).text = b.text \o <<d.self>> /\ PrintkTurn(b, d).args = b.args
      <3> DEFINE t == b.text \o <<d.self>>
      <3>1. PrintkTurn(b, d) = [text |-> t, args |-> b.args]
        BY Zenon, <1>1 DEF PrintkTurn, NextArg
      <3> HIDE DEF t
      <3>2. PrintkTurn(b, d).text = t /\ PrintkTurn(b, d).args = b.args
        BY SMT, <3>1
      <3> QED
        BY Zenon, <3>2 DEF t
    <2>4. Append(a.text, d.self) = a.text \o <<d.self>> /\ <<d.self>> \in Seq(Chars)
      <3> DEFINE t == a.text
                 c == d.self
      <3>1. t \in Seq(Chars) /\ c \in Chars
        BY Zenon, <2>1 DEF Alike
      <3> HIDE DEF t, c
      <3>2. Append(t, c) = t \o <<c>> /\ <<c>> \in Seq(Chars)
        BY SMT, <3>1
      <3> QED
        BY Zenon, <3>2 DEF t, c
    <2>5. /\ Alike(b.text \o <<d.self>>, a.text \o <<d.self>>)
          /\ b.text \o <<d.self>> = a.text \o <<d.self>> <=> b.text = a.text
      <3> DEFINE x == b.text
                 y == a.text
                 z == <<d.self>>
      <3>1. Alike(z, z) /\ Alike(x, y)
        BY Zenon, <2>4, AlikeSame
      <3> HIDE DEF x, y, z
      <3>2. Alike(x \o z, y \o z) /\ (x \o z = y \o z <=> x = y /\ z = z)
        BY Zenon, <3>1, AlikeJoin
      <3> QED
        BY Zenon, <3>2 DEF x, y, z
    <2>6. ~Letters(d, a.args)
      BY Zenon, <1>1 DEF Letters
    <2> QED
      BY Zenon, <2>2, <2>3, <2>4, <2>5, <2>6
  <1>2. CASE d.key # "char"
    <2> DEFINE args == a.args
               arg == Head(args)
               body == Converted(d, arg)
               done == StringPrint(d, arg, 0, INT_MAX)
    <2>1. d.key \in {"c", "d", "s", "x"} /\ d.key \in Known /\ d.key # "%"
      BY Zenon, <1>2 DEF PlainDirective, Known, NumberKeys
    <2>2. INT_MAX \in Nat /\ INT_MAX # Star /\ 0 # Star
      BY SMT, Ints DEF Star
    <2>3. args \in Seq(Arguments)
      BY Zenon DEF PlainArguments
    <2>4. /\ WidthTaken(d, args) = 0 /\ MaxTaken(d, args) = INT_MAX
          /\ AfterMax(d, args) = args /\ ArgTaken(d, args) = arg
      BY Zenon, <2>1, <2>2
      DEF PlainDirective, WidthTaken, MaxTaken, AfterMax, AfterWidth, ArgTaken
    <2>5. args # <<>> /\ arg \in Arguments /\ arg.num \in Int /\ arg.str \in Seq(STRING)
      BY Zenon, <2>1, <2>3, <2>4, TakenIs
    <2>6. arg.num > 0 /\ Len(arg.str) <= INT_MAX /\ arg.num <= INT_MAX
      <3>1. 1 \in DOMAIN args /\ arg = args[1]
        <4> HIDE DEF args
        <4> QED
          BY SMT, <2>3, <2>5
      <3>2. arg.num > 0 /\ Len(arg.str) <= INT_MAX
        BY Zenon, <3>1 DEF PlainArguments
      <3>3. arg.num <= INT_MAX
        <4> HIDE DEF arg
        <4> QED
          BY SMT, <2>2, <2>5 DEF Arguments
      <3> QED
        BY Zenon, <3>2, <3>3
    <2> HIDE DEF args, arg
    <2>7. ~Negative(d, arg)
      <3>1. ~(arg.num < 0)
        BY SMT, <2>5, <2>6
      <3> QED
        BY Zenon, <3>1 DEF Negative
    <2>8. body \in Seq(Chars)
      BY Zenon, <2>1, <2>5, ConvertedIs
    <2>12. d.key \in {"d", "x"} => body = Numeral(arg.num, Base(d.key), x2c_tab)
      <3>1. SUFFICES ASSUME d.key \in {"d", "x"}
                     PROVE  body = Numeral(arg.num, Base(d.key), x2c_tab)
        BY Zenon
      <3>2. Unsigned(d.key, arg.num) = arg.num /\ DigitTable(d.key) = x2c_tab
        BY Zenon, <2>5, <2>6, <3>1, PlainNumber
      <3>3. body = Numeral(Unsigned(d.key, arg.num), Base(d.key), DigitTable(d.key))
        BY Zenon, <3>1 DEF Converted, NumberKeys
      <3> QED
        BY Zenon, <3>2, <3>3
    <2>9. Length(d, body, INT_MAX) = Len(body)
      <3>1. CASE d.key = "c"
        BY Zenon, <2>1, <2>5, <3>1, ConvertedIs DEF Length
      <3>2. CASE d.key \in {"d", "x"}
        <4>1. body = Numeral(arg.num, Base(d.key), x2c_tab)
          BY Zenon, <2>12, <3>2
        <4>2. Len(body) \in Nat /\ Len(body) <= INT_MAX
          BY Zenon, <2>5, <2>6, <3>2, <4>1, PlainNumber
        <4> DEFINE n == Len(body)
        <4>3. Length(d, body, INT_MAX) = IF n < INT_MAX THEN n ELSE AtLeast0(INT_MAX)
          BY Zenon, <3>2 DEF Length
        <4> HIDE DEF body, n
        <4>4. n \in Nat /\ n <= INT_MAX
          BY Zenon, <4>2 DEF n
        <4>5. (IF n < INT_MAX THEN n ELSE AtLeast0(INT_MAX)) = n
          BY SMT, <2>2, <4>4 DEF AtLeast0
        <4> QED
          BY Zenon, <4>3, <4>5 DEF n
      <3>3. CASE d.key = "s"
        <4>1. body = arg.str
          BY Zenon, <3>3 DEF Converted, NumberKeys
        <4> DEFINE n == Len(body)
        <4>3. Length(d, body, INT_MAX) = IF n < INT_MAX THEN n ELSE AtLeast0(INT_MAX)
          BY Zenon, <3>3 DEF Length
        <4>2. n \in Nat /\ n <= INT_MAX
          <5>1. n <= INT_MAX
            BY Zenon, <2>6, <4>1
          <5> HIDE DEF body
          <5> QED
            BY SMT, <2>8, <5>1
        <4> HIDE DEF body, n
        <4>5. (IF n < INT_MAX THEN n ELSE AtLeast0(INT_MAX)) = n
          BY SMT, <2>2, <4>2 DEF AtLeast0
        <4> QED
          BY Zenon, <4>3, <4>5 DEF n
      <3> QED
        BY Zenon, <2>1, <3>1, <3>2, <3>3
    <2>10. done.text = body
      BY Zenon, <2>7, <2>8, <2>9, BareField DEF PlainDirective
    <2>11. Turn(a, d).text = a.text \o body /\ Turn(a, d).args = Tail(args)
      <3> DEFINE made == StringPrint(d, ArgTaken(d, a.args), WidthTaken(d, a.args),
                                     MaxTaken(d, a.args))
      <3>1. made = done
        BY Zenon, <2>4 DEF args
      <3>2. Turn(a, d).text = a.text \o made.text /\ Turn(a, d).args = Tail(AfterMax(d, a.args))
        BY Zenon, <2>1, TurnIs
      <3> HIDE DEF made, done
      <3> QED
        BY Zenon, <2>4, <2>10, <3>1, <3>2 DEF args
    <2>13. \E t : /\ PrintkTurn(b, d).text = b.text \o t
                 /\ PrintkTurn(b, d).args = Tail(args)
                 /\ Alike(t, body) /\ (t = body <=> ~Letters(d, a.args))
      <3> DEFINE t == CASE d.key = "char" -> <<d.self>>
                        [] d.key = "c" -> <<Head(Head(b.args).str)>>
                        [] d.key = "d" -> PrintNum(Head(b.args).num, 10)
                        [] d.key = "x" -> PrintNum(Head(b.args).num, 16)
                        [] d.key = "s" -> Head(b.args).str
                        [] d.key \notin {"char", "c", "d", "x", "s"} -> <<>>
      <3>1. PrintkTurn(b, d).text = b.text \o t /\ PrintkTurn(b, d).args = NextArg(d, b.args)
        <4>1. PrintkTurn(b, d) = [text |-> b.text \o t, args |-> NextArg(d, b.args)]
          BY Zenon DEF PrintkTurn
        <4> HIDE DEF t
        <4> QED
          BY SMT, <4>1
      <3>2. NextArg(d, b.args) = Tail(args)
        BY Zenon, <1>2 DEF NextArg, args
      <3>3. Head(b.args) = arg
        BY Zenon DEF arg, args
      <3>4. Alike(t, body) /\ (t = body <=> ~Letters(d, a.args))
        <4>1. CASE d.key = "c"
          <5>1. t = <<Head(arg.str)>>
            BY Zenon, <3>3, <4>1
          <5>2. body = <<Head(arg.str)>>
            BY Zenon, <4>1 DEF Converted, NumberKeys
          <5>3. ~Letters(d, a.args)
            BY Zenon, <4>1 DEF Letters
          <5> QED
            BY Zenon, <2>8, <5>1, <5>2, <5>3, AlikeSame
        <4>2. CASE d.key = "d"
          <5>1. t = PrintNum(arg.num, 10)
            BY Zenon, <3>3, <4>2
          <5>2. PrintNum(arg.num, 10) = Numeral(arg.num, 10, x2c_tab)
            BY Zenon, <2>5, <2>6, PrintNumIs
          <5>3. body = Numeral(arg.num, 10, x2c_tab)
            BY Zenon, <2>12, <4>2 DEF Base
          <5>4. ~Letters(d, a.args)
            BY Zenon, <4>2 DEF Letters
          <5> QED
            BY Zenon, <2>8, <5>1, <5>2, <5>3, <5>4, AlikeSame
        <4>3. CASE d.key = "x"
          <5>1. t = PrintNum(arg.num, 16)
            BY Zenon, <3>3, <4>3
          <5>2. Paired(PrintNum(arg.num, 16), Numeral(arg.num, 16, x2c_tab))
            BY Zenon, <2>5, <2>6, PrintNumIs
          <5>3. body = Numeral(arg.num, 16, x2c_tab)
            BY Zenon, <2>12, <4>3 DEF Base
          <5>4. Letters(d, a.args) <=> Lettered(body)
            BY Zenon, <4>3, <5>3 DEF Letters, arg, args
          <5>5. Paired(t, body)
            BY Zenon, <5>1, <5>2, <5>3
          <5> HIDE DEF t, body
          <5> QED
            BY Zenon, <5>4, <5>5, PairedAlike
        <4>4. CASE d.key = "s"
          <5>1. t = arg.str
            BY Zenon, <3>3, <4>4
          <5>2. body = arg.str
            BY Zenon, <4>4 DEF Converted, NumberKeys
          <5>3. ~Letters(d, a.args)
            BY Zenon, <4>4 DEF Letters
          <5> QED
            BY Zenon, <2>8, <5>1, <5>2, <5>3, AlikeSame
        <4> QED
          BY Zenon, <2>1, <4>1, <4>2, <4>3, <4>4
      <3> HIDE DEF t, body
      <3> QED
        BY Zenon, <3>1, <3>2, <3>4
    <2>14. PlainArguments(Tail(args))
      <3>1. \A k \in DOMAIN args : args[k].num > 0 /\ Len(args[k].str) <= INT_MAX
        BY Zenon DEF PlainArguments, args
      <3>2. /\ Tail(args) \in Seq(Arguments)
            /\ \A k \in DOMAIN Tail(args) : k + 1 \in DOMAIN args /\ Tail(args)[k] = args[k + 1]
        BY SMT, <2>3, <2>5
      <3> QED
        BY Zenon, <3>1, <3>2 DEF PlainArguments
    <2>15. PICK t : /\ PrintkTurn(b, d).text = b.text \o t
                    /\ PrintkTurn(b, d).args = Tail(args)
                    /\ Alike(t, body) /\ (t = body <=> ~Letters(d, a.args))
      BY Zenon, <2>13
    <2>16. /\ Alike(b.text \o t, a.text \o body)
           /\ b.text \o t = a.text \o body <=> b.text = a.text /\ t = body
      <3> DEFINE x == b.text
                 y == a.text
      <3>1. Alike(x, y)
        BY Zenon
      <3> HIDE DEF x, y, body
      <3>2. Alike(x \o t, y \o body) /\ (x \o t = y \o body <=> x = y /\ t = body)
        BY Zenon, <2>15, <3>1, AlikeJoin
      <3> QED
        BY Zenon, <3>2 DEF x, y
    <2> HIDE DEF body
    <2> QED
      BY Zenon, <2>11, <2>14, <2>15, <2>16
  <1> QED
    BY Zenon, <1>1, <1>2

\* printk makes the text of vsprintf, but for letters.
LEMMA SameText ==
    ASSUME NEW call \in Calls \cup KeyCalls, Plain(call)
    PROVE  /\ Alike(Printk(call), Vsprintf(call).text)
           /\ Printk(call) = Vsprintf(call).text <=> ~HasLetter(call)
  <1> DEFINE N == Len(call.fmt)
             a(n) == Turns(call)[n]
             b(n) == PrintkTurns(call)[n]
             Same(n) == /\ Alike(b(n).text, a(n).text)
                        /\ b(n).text = a(n).text <=>
                             \A k \in 1..n : ~Letters(call.fmt[k], a(k - 1).args)
                        /\ PlainArguments(a(n).args) /\ b(n).args = a(n).args
             S == {n \in 0..N : Same(n)}
  <1>1. /\ call.fmt \in Seq(Directive) /\ call.args \in Seq(Arguments)
        /\ \A k \in DOMAIN call.args : Len(call.args[k].str) <= INT_MAX
        /\ \A n \in DOMAIN call.fmt : Len(a(n - 1).args) >= Takes(call.fmt[n])
    BY Zenon, CallsAssumption DEF Arguments
  <1>2. N \in Nat /\ DOMAIN call.fmt = 1..N
    BY SMT, <1>1
  <1>3. /\ a(0) = [text |-> <<>>, len |-> 0, args |-> call.args]
        /\ b(0) = [text |-> <<>>, args |-> call.args]
    BY Zenon, <1>2, TurnsAre, PrintkTurnsAre
  <1>4. \A n \in 1..N : /\ a(n) = Turn(a(n - 1), call.fmt[n])
                        /\ b(n) = PrintkTurn(b(n - 1), call.fmt[n])
    BY Zenon, <1>2, TurnsAre, PrintkTurnsAre
  <1>5. PlainArguments(call.args) /\ \A n \in 1..N : PlainDirective(call.fmt[n])
    BY Zenon, <1>1, <1>2 DEF Plain, PlainArguments, PlainDirective
  <1>6. Printk(call) = b(N).text /\ Vsprintf(call) = a(N)
    BY Zenon DEF Printk, Vsprintf
  <1>7. HasLetter(call) <=> \E n \in 1..N : Letters(call.fmt[n], a(n - 1).args)
    BY Zenon, <1>2 DEF HasLetter, Letters, Lettered
  <1> HIDE DEF a, b, N
  <1>8. 0 \in S
    <2>1. 0 \in 0..N /\ \A k \in 1..0 : FALSE
      BY SMT, <1>2
    <2>2. a(0).text = <<>> /\ a(0).args = call.args /\ b(0).text = <<>> /\ b(0).args = call.args
      BY SMT, <1>3
    <2>3. <<>> \in Seq(Chars)
      BY SMT
    <2> QED
      BY Zenon, <1>5, <2>1, <2>2, <2>3, AlikeSame
  <1>9. ASSUME NEW n \in 1..N, n - 1 \in S PROVE n \in S
    <2>1. n \in 0..N /\ n \in 1..n /\ \A k \in 1..n : k \in 1..(n - 1) \/ k = n
      BY SMT, <1>2
    <2>2. \A k \in 1..(n - 1) : k \in 1..n
      BY SMT, <1>2
    <2>3. call.fmt[n] \in Directive
      BY SMT, <1>1, <1>2
    <2>4. /\ Same(n - 1) /\ PlainDirective(call.fmt[n])
          /\ Len(a(n - 1).args) >= Takes(call.fmt[n])
      BY Zenon, <1>1, <1>2, <1>5, <1>9
    <2>5. LET t == PrintkTurn(b(n - 1), call.fmt[n])
              u == Turn(a(n - 1), call.fmt[n])
          IN  /\ Alike(t.text, u.text)
              /\ t.text = u.text <=> /\ b(n - 1).text = a(n - 1).text
                                     /\ ~Letters(call.fmt[n], a(n - 1).args)
              /\ PlainArguments(u.args) /\ t.args = u.args
      BY Zenon, <2>3, <2>4, SameTurn
    <2>6. /\ Alike(b(n).text, a(n).text)
          /\ b(n).text = a(n).text <=> /\ b(n - 1).text = a(n - 1).text
                                       /\ ~Letters(call.fmt[n], a(n - 1).args)
          /\ PlainArguments(a(n).args) /\ b(n).args = a(n).args
      BY Zenon, <1>4, <2>5
    <2>7. Same(n)
      BY Zenon, <2>1, <2>2, <2>4, <2>6
    <2> QED
      BY Zenon, <2>1, <2>7
  <1>10. N \in S
    <2>1. N \in 0..N
      BY SMT, <1>2
    <2> HIDE DEF S
    <2> QED
      BY Zenon, <1>2, <1>8, <1>9, <2>1, OneByOne
  <1> QED
    BY Zenon, <1>6, <1>7, <1>10

\* The cell of a row and a column.
LEMMA RowAndColumn ==
    ASSUME NEW row \in Nat, NEW col \in Nat, col < Cols
    PROVE  (row * Cols + col) \div Cols = row
  <1> DEFINE c == row * Cols + col
             q == c \div Cols
             r == c % Cols
  <1>1. Cols \in Nat \ {0}
    BY SMT, PrintingAssumption
  <1>2. c \in Nat
    BY SMT, <1>1
  <1>3. c = Cols * q + r /\ r \in 0..Cols - 1 /\ q \in Int
    BY SMT, <1>1, <1>2
  <1> HIDE DEF q, r
  <1>4. c = Cols * row + col
    BY SMT, <1>1
  <1>5. ~(q > row)
    <2>1. SUFFICES ASSUME q >= row + 1 PROVE FALSE
      BY SMT, <1>3
    <2>2. Cols * q >= Cols * (row + 1)
      BY SMT, <1>1, <1>3, <2>1
    <2>3. Cols * (row + 1) = Cols * row + Cols
      BY SMT, <1>1
    <2> DEFINE x == Cols * q
               y == Cols * row
               z == Cols * (row + 1)
    <2>4. x \in Int /\ y \in Int /\ z \in Int
      BY SMT, <1>1, <1>3
    <2>5. c = x + r /\ c = y + col /\ x >= z /\ z = y + Cols
      BY Zenon, <1>3, <1>4, <2>2, <2>3
    <2> HIDE DEF x, y, z, c
    <2> QED
      BY SMT, <1>1, <1>3, <2>4, <2>5
  <1>6. ~(q < row)
    <2>1. SUFFICES ASSUME q + 1 <= row PROVE FALSE
      BY SMT, <1>3
    <2>2. Cols * (q + 1) <= Cols * row
      BY SMT, <1>1, <1>3, <2>1
    <2>3. Cols * (q + 1) = Cols * q + Cols
      BY SMT, <1>1, <1>3
    <2> DEFINE x == Cols * q
               y == Cols * row
               z == Cols * (q + 1)
    <2>4. x \in Int /\ y \in Int /\ z \in Int
      BY SMT, <1>1, <1>3
    <2>5. c = x + r /\ c = y + col /\ z <= y /\ z = x + Cols
      BY Zenon, <1>3, <1>4, <2>2, <2>3
    <2> HIDE DEF x, y, z, c
    <2> QED
      BY SMT, <1>1, <1>3, <2>4, <2>5
  <1>7. q = row
    BY SMT, <1>3, <1>5, <1>6
  <1> QED
    BY Zenon, <1>7 DEF q

\* A line that is begun before the last one.
LEMMA NextLine ==
    ASSUME NEW row \in Nat, NEW col \in Nat, col < Cols, row < LastRow
    PROVE  NextRow(row * Cols + col) = (row + 1) * Cols + 0
  <1> DEFINE c == row * Cols + col
  <1>1. /\ LastRow \in Nat /\ Cols \in Nat /\ Block \in Nat
        /\ Block > (LastRow + 1) * Cols
    BY SMT, PrintingAssumption
  <1>2. (row + 1) % (LastRow + 1) = row + 1
    BY SMT, <1>1
  <1>3. c \div Cols = row
    BY Zenon, RowAndColumn
  <1>4. c \in Nat /\ c < Block
    <2> DEFINE x == row * Cols
               y == (LastRow + 1) * Cols
               z == (row + 1) * Cols
    <2>1. x \in Nat /\ y \in Nat /\ z = x + Cols /\ z <= y /\ z \in Nat
      BY SMT, <1>1
    <2>2. y < Block
      BY Zenon, <1>1
    <2> HIDE DEF x, y, z
    <2>3. x + col \in Nat /\ x + col < Block
      BY SMT, <1>1, <2>1, <2>2
    <2> QED
      BY Zenon, <2>3 DEF x
  <1> HIDE DEF c
  <1>5. Low(c) = c /\ Row(c) = row
    BY Zenon, <1>3, <1>4, RowOfCell DEF Row
  <1>6. c - c + (row + 1) * Cols = (row + 1) * Cols + 0
    BY SMT, <1>1, <1>4
  <1> QED
    BY Zenon, <1>2, <1>5, <1>6 DEF NextRow, c

\* Where the cursor of printk goes,
LEMMA PlacesAre ==
    ASSUME NEW text, Len(text) \in Nat
    PROVE  \E place \in [0..Len(text) -> [row : Nat, col : Nat]] :
             /\ PrintcPlace(text) = place[Len(text)]
             /\ place[0] = [row |-> 0, col |-> 0]
             /\ \A n \in 1..Len(text) : place[n] = PrintcNext(place[n - 1], text[n])
  <1> DEFINE N == Len(text)
             A == [row : Nat, col : Nat]
             zero == [row |-> 0, col |-> 0]
             F == [q \in Nat \X A |-> PrintcNext(q[2], text[q[1]])]
             all == CHOOSE f : f = [n \in 0..N |-> IF n = 0 THEN zero
                                                   ELSE PrintcNext(f[n - 1], text[n])]
  <1>1. N \in Nat
    BY Zenon
  <1>2. PrintcPlace(text) = all[N]
    BY Zenon DEF PrintcPlace
  <1> HIDE DEF N
  <1>3. zero \in A
    BY SMT
  <1>4. \A p \in A : \A char : PrintcNext(p, char) \in A
    BY SMT DEF PrintcNext
  <1> HIDE DEF A, zero
  <1>5. \A n \in Nat, b \in A : F[<<n, b>>] = PrintcNext(b, text[n])
    BY SMT
  <1>6. \A n \in Nat, b \in A : F[<<n, b>>] \in A
    BY Zenon, <1>4, <1>5
  <1> HIDE DEF F
  <1>7. PICK f \in [0..N -> A] : StepBy(f, N, zero, F)
    BY Zenon, <1>1, <1>3, <1>6, Steps
  <1>8. \A n \in 0..N : n # 0 => n \in Nat /\ n - 1 \in 0..N
    BY SMT, <1>1
  <1>9. \A n \in 0..N : f[n] = IF n = 0 THEN zero ELSE PrintcNext(f[n - 1], text[n])
    <2>1. \A n \in 0..N : f[n] = IF n = 0 THEN zero ELSE F[<<n, f[n - 1]>>]
      BY Zenon, <1>7 DEF StepBy
    <2>2. \A n \in 0..N : n # 0 => f[n - 1] \in A
      BY Zenon, <1>8
    <2> QED
      BY Zenon, <1>5, <1>8, <2>1, <2>2
  <1>10. f = [n \in 0..N |-> IF n = 0 THEN zero ELSE PrintcNext(f[n - 1], text[n])]
    <2>1. f = [n \in 0..N |-> f[n]]
      BY Zenon
    <2> DEFINE e(n) == IF n = 0 THEN zero ELSE PrintcNext(f[n - 1], text[n])
    <2>2. \A n \in 0..N : f[n] = e(n)
      BY Zenon, <1>9
    <2> HIDE DEF e
    <2>3. f = [n \in 0..N |-> e(n)]
      BY SMT, <2>1, <2>2
    <2> QED
      BY Zenon, <2>3 DEF e
  <1>11. all = [n \in 0..N |-> IF n = 0 THEN zero ELSE PrintcNext(all[n - 1], text[n])]
    BY Zenon, <1>10
  <1> HIDE DEF all
  <1>12. \A n \in 0..N : all[n] = IF n = 0 THEN zero ELSE PrintcNext(all[n - 1], text[n])
    BY Zenon, <1>11
  <1> DEFINE S == {n \in 0..N : all[n] \in A}
  <1>13. 0 \in 0..N /\ N \in 0..N /\ \A n \in 1..N : n \in 0..N /\ n # 0
    BY SMT, <1>1
  <1>14. 0 \in S
    BY Zenon, <1>3, <1>12, <1>13
  <1>15. ASSUME NEW n \in 1..N, n - 1 \in S PROVE n \in S
    BY Zenon, <1>4, <1>12, <1>13, <1>15
  <1>16. \A n \in 0..N : n \in S
    <2> HIDE DEF S
    <2> QED
      BY Zenon, <1>1, <1>14, <1>15, OneByOne
  <1>17. all \in [0..N -> A]
    <2>1. all = [n \in 0..N |-> all[n]]
      <3> DEFINE e(n) == IF n = 0 THEN zero ELSE PrintcNext(all[n - 1], text[n])
      <3>1. all = [n \in 0..N |-> e(n)] /\ \A n \in 0..N : all[n] = e(n)
        BY Zenon, <1>11, <1>12
      <3> HIDE DEF e
      <3> QED
        BY SMT, <3>1
    <2>2. \A n \in 0..N : all[n] \in A
      BY Zenon, <1>16
    <2> QED
      BY SMT, <2>1, <2>2
  <1> QED
    BY Zenon, <1>2, <1>12, <1>13, <1>17 DEF N, A, zero

\* and where low_print does.
LEMMA CellsAre ==
    ASSUME NEW text, Len(text) \in Nat
    PROVE  \E cell :
             /\ CellBehind(text) = cell[Len(text)]
             /\ cell[0] = 0
             /\ \A n \in 1..Len(text) :
                  cell[n] = IF text[n] = Newline THEN NextRow(cell[n - 1])
                            ELSE cell[n - 1] + 1
  <1> DEFINE N == Len(text)
             next(c, n) == IF text[n] = Newline THEN NextRow(c) ELSE c + 1
             F == [q \in Nat \X Nat |-> next(q[2], q[1])]
             all == CHOOSE f : f = [n \in 0..N |-> IF n = 0 THEN 0 ELSE next(f[n - 1], n)]
  <1>1. N \in Nat
    BY Zenon
  <1>2. CellBehind(text) = all[N]
    BY Zenon DEF CellBehind
  <1> HIDE DEF N
  <1>3. \A c \in Nat : \A n : next(c, n) \in Nat
    <2>1. \A c \in Nat : NextRow(c) \in Nat /\ c + 1 \in Nat
      <3>1. SUFFICES ASSUME NEW c \in Nat PROVE NextRow(c) \in Nat
        BY SMT
      <3> DEFINE q == (Row(c) + 1) % (LastRow + 1)
                 l == Low(c)
      <3>2. Row(c) \in Nat /\ l \in 0..Block - 1 /\ l <= c
        BY Zenon, RowOfCell
      <3>3. q \in Nat /\ Cols \in Nat /\ Block \in Nat
        <4>1. Cols \in Nat /\ Block \in Nat /\ LastRow \in Nat
          BY SMT, Sizes
        <4> DEFINE r == Row(c)
        <4>2. r \in Nat
          BY Zenon, <3>2
        <4> HIDE DEF r
        <4>3. (r + 1) % (LastRow + 1) \in Nat
          BY SMT, <4>1, <4>2
        <4> QED
          BY Zenon, <4>1, <4>3 DEF r
      <3> HIDE DEF q, l
      <3>4. q * Cols \in Nat
        BY SMT, <3>3
      <3> DEFINE x == q * Cols
      <3> HIDE DEF x
      <3>5. c - l + x \in Nat
        <4>1. x \in Nat
          BY Zenon, <3>4 DEF x
        <4> QED
          BY SMT, <3>2, <3>3, <4>1
      <3> QED
        BY Zenon, <3>5 DEF NextRow, q, l, x
    <2> QED
      BY Zenon, <2>1
  <1> HIDE DEF next
  <1>5. \A n \in Nat, b \in Nat : F[<<n, b>>] = next(b, n)
    BY SMT
  <1>6. \A n \in Nat, b \in Nat : F[<<n, b>>] \in Nat
    BY Zenon, <1>3, <1>5
  <1> HIDE DEF F
  <1>7. PICK f \in [0..N -> Nat] : StepBy(f, N, 0, F)
    <2>1. 0 \in Nat
      BY SMT
    <2> QED
      BY Zenon, <1>1, <1>6, <2>1, Steps
  <1>8. \A n \in 0..N : n # 0 => n \in Nat /\ n - 1 \in 0..N
    BY SMT, <1>1
  <1>9. \A n \in 0..N : f[n] = IF n = 0 THEN 0 ELSE next(f[n - 1], n)
    <2>1. \A n \in 0..N : f[n] = IF n = 0 THEN 0 ELSE F[<<n, f[n - 1]>>]
      BY Zenon, <1>7 DEF StepBy
    <2>2. \A n \in 0..N : n # 0 => f[n - 1] \in Nat
      BY Zenon, <1>8
    <2> QED
      BY Zenon, <1>5, <1>8, <2>1, <2>2
  <1>10. f = [n \in 0..N |-> IF n = 0 THEN 0 ELSE next(f[n - 1], n)]
    <2>1. f = [n \in 0..N |-> f[n]]
      BY Zenon
    <2> DEFINE e(n) == IF n = 0 THEN 0 ELSE next(f[n - 1], n)
    <2>2. \A n \in 0..N : f[n] = e(n)
      BY Zenon, <1>9
    <2> HIDE DEF e
    <2>3. f = [n \in 0..N |-> e(n)]
      BY SMT, <2>1, <2>2
    <2> QED
      BY Zenon, <2>3 DEF e
  <1>11. all = [n \in 0..N |-> IF n = 0 THEN 0 ELSE next(all[n - 1], n)]
    BY Zenon, <1>10
  <1> HIDE DEF all
  <1>12. 0 \in 0..N /\ \A n \in 1..N : n \in 0..N /\ n # 0
    BY SMT, <1>1
  <1>13. all[0] = 0 /\ \A n \in 1..N : all[n] = next(all[n - 1], n)
    BY Zenon, <1>11, <1>12
  <1> QED
    BY Zenon, <1>2, <1>13 DEF N, next

\* Two texts no longer than a line that differ in letters at most leave both
\* cursors at one place.
LEMMA SameCursor ==
    ASSUME NEW text, NEW other, Alike(other, text), Len(text) <= Cols
    PROVE  PrintcPlace(other).row * Cols + PrintcPlace(other).col = CellBehind(text)
  <1> DEFINE N == Len(text)
  <1>1. Len(text) \in Nat /\ Len(other) = Len(text)
    <2>1. text \in Seq(Chars) /\ Len(other) = Len(text)
      BY Zenon DEF Alike
    <2> QED
      BY SMT, <2>1
  <1>2. PICK place \in [0..Len(other) -> [row : Nat, col : Nat]] :
          /\ PrintcPlace(other) = place[Len(other)]
          /\ place[0] = [row |-> 0, col |-> 0]
          /\ \A n \in 1..Len(other) : place[n] = PrintcNext(place[n - 1], other[n])
    <2>1. Len(other) \in Nat
      BY Zenon, <1>1
    <2> QED
      BY Zenon, <2>1, PlacesAre
  <1>3. /\ place \in [0..N -> [row : Nat, col : Nat]]
        /\ PrintcPlace(other) = place[N]
        /\ place[0] = [row |-> 0, col |-> 0]
        /\ \A n \in 1..N : place[n] = PrintcNext(place[n - 1], other[n])
    BY Zenon, <1>1, <1>2
  <1>4. \A n \in 1..N : other[n] = Newline <=> text[n] = Newline
    <2>1. \A rest \in 10..15 : Newline # x2c_tab[rest + 1] /\ Newline # PrintkDigit(rest)
      BY Zenon, PrintingAssumption, Spelling
    <2> QED
      BY Zenon, <2>1 DEF Alike, Respelt
  <1>5. PICK cell :
          /\ CellBehind(text) = cell[N]
          /\ cell[0] = 0
          /\ \A n \in 1..N : cell[n] = IF text[n] = Newline THEN NextRow(cell[n - 1])
                                       ELSE cell[n - 1] + 1
    BY Zenon, <1>1, CellsAre
  <1>6. N \in Nat /\ N <= Cols
    BY Zenon, <1>1
  <1> HIDE DEF N
  <1>7. Cols \in Nat /\ LastRow \in Nat /\ Cols <= LastRow
    BY SMT, PrintingAssumption
  <1> DEFINE row(n) == place[n].row
             col(n) == place[n].col
             S == {n \in 0..N : /\ row(n) \in Nat /\ col(n) \in Nat /\ row(n) + col(n) <= n
                                /\ cell[n] = row(n) * Cols + col(n)}
  <1>8. 0 \in S
    <2>1. 0 \in 0..N
      BY SMT, <1>6
    <2>2. row(0) = 0 /\ col(0) = 0
      BY SMT, <1>3
    <2> HIDE DEF row, col
    <2>3. 0 * Cols + 0 = 0 /\ 0 + 0 <= 0 /\ 0 \in Nat
      BY SMT, <1>7
    <2>4. cell[0] = 0
      BY Zenon, <1>5
    <2>5. cell[0] = row(0) * Cols + col(0) /\ row(0) + col(0) <= 0
      BY Zenon, <2>2, <2>3, <2>4
    <2> QED
      BY Zenon, <2>1, <2>2, <2>3, <2>5
  <1>9. ASSUME NEW n \in 1..N, n - 1 \in S PROVE n \in S
    <2> DEFINE r == row(n - 1)
               c == col(n - 1)
    <2>1. r \in Nat /\ c \in Nat /\ r + c <= n - 1 /\ cell[n - 1] = r * Cols + c
      BY Zenon, <1>9
    <2>2. n - 1 \in 0..N /\ n \in 0..N
      BY SMT, <1>6
    <2>3. place[n - 1] \in [row : Nat, col : Nat] /\ place[n] = PrintcNext(place[n - 1], other[n])
      BY Zenon, <1>3, <2>2
    <2> HIDE DEF S
    <2>4. CASE text[n] = Newline
      <3>1. row(n) = r + 1 /\ col(n) = 0
        <4>1. place[n] = [row |-> r + 1, col |-> 0]
          BY Zenon, <1>4, <2>3, <2>4 DEF PrintcNext
        <4> HIDE DEF r
        <4> QED
          BY SMT, <4>1
      <3> HIDE DEF r, c, row, col
      <3>2. c < Cols /\ r < LastRow /\ r + 1 \in Nat /\ (r + 1) + 0 <= n /\ 0 \in Nat
        BY SMT, <1>6, <1>7, <2>1
      <3>3. cell[n] = (r + 1) * Cols + 0
        BY Zenon, <1>5, <2>1, <2>4, <3>2, NextLine
      <3> QED
        BY Zenon, <2>2, <3>1, <3>2, <3>3 DEF S
    <2>5. CASE text[n] # Newline
      <3>1. row(n) = r /\ col(n) = c + 1
        <4>1. place[n] = [place[n - 1] EXCEPT !.col = @ + 1]
          BY Zenon, <1>4, <2>3, <2>5 DEF PrintcNext
        <4> DEFINE p == place[n - 1]
        <4>2. p \in [row : Nat, col : Nat] /\ place[n] = [p EXCEPT !.col = @ + 1]
          BY Zenon, <2>3, <4>1
        <4> HIDE DEF p
        <4>3. place[n].row = p.row /\ place[n].col = p.col + 1
          BY SMT, <4>2
        <4> QED
          BY Zenon, <4>3 DEF p
      <3> HIDE DEF r, c, row, col
      <3> DEFINE x == r * Cols
      <3>2. x \in Nat /\ cell[n - 1] = x + c
        BY SMT, <1>7, <2>1
      <3> HIDE DEF x
      <3>3. c + 1 \in Nat /\ r + (c + 1) <= n /\ (x + c) + 1 = x + (c + 1)
        BY SMT, <2>1, <3>2
      <3>4. cell[n] = r * Cols + (c + 1)
        BY Zenon, <1>5, <2>5, <3>2, <3>3 DEF x
      <3> QED
        BY Zenon, <2>1, <2>2, <3>1, <3>3, <3>4 DEF S
    <2> QED
      BY Zenon, <2>4, <2>5
  <1>10. N \in S
    <2>1. N \in 0..N
      BY SMT, <1>6
    <2> HIDE DEF S
    <2> QED
      BY Zenon, <1>6, <1>8, <1>9, <2>1, OneByOne
  <1> QED
    BY Zenon, <1>3, <1>5, <1>10

-----------------------------------------------------------------------------
(* How many digits a number has.                                           *)

\* A greater exponent.
LEMMA PowersGrow == \A m \in Nat : \A n \in 0..m : TwoTo[n] <= TwoTo[m]
  <1> DEFINE S == {m \in Nat : \A n \in 0..m : TwoTo[n] <= TwoTo[m]}
  <1>1. ASSUME NEW m \in Nat, \A k \in Nat : k < m => k \in S PROVE m \in S
    <2>1. SUFFICES ASSUME NEW n \in 0..m PROVE TwoTo[n] <= TwoTo[m]
      BY Zenon
    <2>2. TwoTo[n] \in Nat /\ TwoTo[m] \in Nat
      <3>1. n \in Nat
        BY SMT
      <3> QED
        BY SMT, <3>1, Powers
    <2>3. CASE n = m
      BY SMT, <2>2, <2>3
    <2>4. CASE n # m
      <3>1. m - 1 \in Nat /\ m - 1 < m /\ n \in 0..(m - 1) /\ m \in Nat \ {0}
        BY SMT, <2>4
      <3>2. TwoTo[n] <= TwoTo[m - 1]
        BY Zenon, <1>1, <3>1
      <3>3. TwoTo[m] = 2 * TwoTo[m - 1] /\ TwoTo[m - 1] \in Nat
        BY SMT, <3>1, Powers
      <3> QED
        BY SMT, <2>2, <3>2, <3>3
    <2> QED
      BY Zenon, <2>3, <2>4
  <1> HIDE DEF S
  <1>2. \A m \in Nat : m \in S
    BY Zenon, <1>1, AllSmaller
  <1> QED
    BY Zenon, <1>2 DEF S

\* A digit to a base of eight or more stands for three bits at least.
LEMMA NumeralBits ==
    ASSUME NEW base \in Nat, base >= 8, NEW table, Tabled(table, base)
    PROVE  \A u \in Nat : \A k \in Nat :
             u < TwoTo[3 * (k + 1)] => Len(Numeral(u, base, table)) <= k + 1
  <1> DEFINE len(u) == Len(Numeral(u, base, table))
             S == {u \in Nat : \A k \in Nat : u < TwoTo[3 * (k + 1)] => len(u) <= k + 1}
  <1>0. base > 1
    BY SMT
  <1>1. ASSUME NEW u \in Nat, \A z \in Nat : z < u => z \in S PROVE u \in S
    <2>1. SUFFICES ASSUME NEW k \in Nat, u < TwoTo[3 * (k + 1)] PROVE len(u) <= k + 1
      BY Zenon
    <2> DEFINE q == u \div base
               r == u % base
               t == TwoTo[3 * k]
    <2>2. /\ q \in Nat /\ r \in 0..(base - 1)
          /\ u = base * q + r
          /\ u >= base => q < u /\ q >= 1
      BY Zenon, <1>0, QuotientIs
    <2>3. /\ len(u) \in Nat /\ len(q) \in Nat
          /\ u < base => len(u) = 1
          /\ u >= base => len(u) = len(q) + 1
      BY Zenon, <1>0, <2>2, NumeralLength
    <2>4. t \in Nat /\ TwoTo[3 * (k + 1)] = 8 * t
      <3> DEFINE n == 3 * k
      <3>1. n \in Nat /\ 3 * (k + 1) = ((n + 1) + 1) + 1
        BY SMT
      <3> HIDE DEF n
      <3>2. /\ n + 1 \in Nat \ {0} /\ (n + 1) - 1 = n
            /\ (n + 1) + 1 \in Nat \ {0} /\ ((n + 1) + 1) - 1 = n + 1
            /\ ((n + 1) + 1) + 1 \in Nat \ {0} /\ (((n + 1) + 1) + 1) - 1 = (n + 1) + 1
        BY SMT, <3>1
      <3>3. /\ TwoTo[n + 1] = 2 * TwoTo[n] /\ TwoTo[(n + 1) + 1] = 2 * TwoTo[n + 1]
            /\ TwoTo[((n + 1) + 1) + 1] = 2 * TwoTo[(n + 1) + 1]
            /\ TwoTo[n] \in Nat
        BY Zenon, <3>1, <3>2, Powers
      <3> DEFINE a == TwoTo[n]
      <3>4. /\ a \in Nat /\ TwoTo[((n + 1) + 1) + 1] = 2 * (2 * (2 * a))
        BY Zenon, <3>3
      <3> HIDE DEF a
      <3>5. TwoTo[((n + 1) + 1) + 1] = 8 * a
        BY SMT, <3>4
      <3> QED
        BY Zenon, <3>1, <3>4, <3>5 DEF a, n
    <2>5. CASE u < base
      <3>1. len(u) = 1
        BY Zenon, <2>3, <2>5
      <3> HIDE DEF len
      <3> QED
        BY SMT, <3>1
    <2>6. CASE ~(u < base)
      <3>1. u >= base
        BY SMT, <2>6
      <3>2. len(u) = len(q) + 1 /\ q < u /\ q >= 1
        BY Zenon, <2>2, <2>3, <3>1
      <3>3. q < t
        <4>1. SUFFICES ASSUME q >= t PROVE FALSE
          <5> HIDE DEF q, t
          <5> QED
            BY SMT, <2>2, <2>4
        <4> DEFINE x == base * q
        <4>2. x >= 8 * q /\ x \in Nat
          <5> HIDE DEF q
          <5> QED
            BY SMT, <2>2
        <4>3. u = x + r /\ u < 8 * t
          BY Zenon, <2>1, <2>2, <2>4
        <4> HIDE DEF x, q, r, t
        <4> QED
          BY SMT, <2>2, <2>4, <4>1, <4>2, <4>3
      <3>4. k # 0
        <4>1. SUFFICES ASSUME k = 0 PROVE FALSE
          BY Zenon
        <4>2. 3 * k = 0
          BY SMT, <4>1
        <4>3. t = 1
          BY Zenon, <4>2, Powers
        <4> HIDE DEF q, t
        <4> QED
          BY SMT, <2>2, <3>2, <3>3, <4>3
      <3>5. k - 1 \in Nat /\ 3 * ((k - 1) + 1) = 3 * k
        BY SMT, <3>4
      <3>6. q < TwoTo[3 * ((k - 1) + 1)]
        BY Zenon, <3>3, <3>5
      <3>7. len(q) <= (k - 1) + 1
        BY Zenon, <1>1, <2>2, <3>2, <3>5, <3>6
      <3> HIDE DEF len, q
      <3> QED
        BY SMT, <2>3, <3>2, <3>7
    <2> QED
      BY Zenon, <2>5, <2>6
  <1> HIDE DEF S
  <1>2. \A u \in Nat : u \in S
    BY Zenon, <1>1, AllSmaller
  <1> QED
    BY Zenon, <1>2 DEF S

\* The digits of a word fit in temp, and are no more than its bits.
LEMMA DigitsFit ==
    ASSUME NEW key, NEW num \in Int
    PROVE  LET n == Len(Numeral(Unsigned(key, num), Base(key), DigitTable(key)))
           IN  n \in Nat /\ n + 1 <= TempSize /\ n <= Word
  <1> DEFINE u == Unsigned(key, num)
             b == Base(key)
             k == Word \div 3
             n == Len(Numeral(u, b, DigitTable(key)))
             t == TwoTo[Word]
  <1>1. b \in {8, 10, 16} /\ Tabled(DigitTable(key), b)
    BY Zenon, TablesAre
  <1>2. t \in Nat /\ t > 0
    BY SMT, Ints
  <1>3. u \in Nat /\ u < t
    <2>1. \A x \in Int : x % t \in Nat /\ x % t < t
      <3> HIDE DEF t
      <3> QED
        BY SMT, <1>2
    <2>2. (IF key = "d" /\ num < 0 THEN -num ELSE num) \in Int
      BY SMT
    <2> QED
      BY Zenon, <2>1, <2>2 DEF Unsigned
  <1> HIDE DEF u, b, t
  <1>4. b \in Nat /\ b >= 8 /\ b > 1
    BY SMT, <1>1
  <1>5. Word \in Nat /\ Word >= 1 /\ k \in Nat /\ Word \in 0..(3 * (k + 1)) /\ k + 1 <= Word
        /\ 3 * (k + 1) \in Nat
    BY SMT, WordAssumption
  <1>6. t <= TwoTo[3 * (k + 1)]
    BY Zenon, <1>5, PowersGrow DEF t
  <1>7. TwoTo[3 * (k + 1)] \in Nat
    BY Zenon, <1>5, Powers
  <1>8. u < TwoTo[3 * (k + 1)]
    <2> DEFINE x == TwoTo[3 * (k + 1)]
    <2>1. x \in Nat /\ t <= x
      BY Zenon, <1>6, <1>7
    <2> HIDE DEF x
    <2>2. u < x
      BY SMT, <1>2, <1>3, <2>1
    <2> QED
      BY Zenon, <2>2 DEF x
  <1>9. n <= k + 1 /\ n \in Nat
    BY Zenon, <1>1, <1>3, <1>4, <1>5, <1>8, NumeralBits, NumeralLength
  <1>10. TempSize = k + 2
    BY Zenon DEF TempSize
  <1> HIDE DEF k, n
  <1>11. n + 1 <= TempSize /\ n <= Word
    BY SMT, <1>5, <1>9, <1>10
  <1> QED
    BY Zenon, <1>9, <1>11 DEF n, u, b

-----------------------------------------------------------------------------
(* Reading a number.                                                       *)

\* The number that a character stands for.
DigitOf(char, table) == (CHOOSE i \in DOMAIN table : table[i] = char) - 1

\* No two digits look the same, and none like a sign or a blank.
Legible(table) ==
    /\ DOMAIN table = 1..16
    /\ \A i, j \in 1..16 : table[i] = table[j] => i = j
    /\ \A i \in 1..16 : table[i] # " " /\ table[i] # "-"
    /\ table[1] = "0"

\* That is so of both tables.
LEMMA TablesLegible == Legible(x2c_tab) /\ Legible(X2C_tab)
  <1>1. /\ DOMAIN x2c_tab = 1..16
        /\ \A i \in 1..16 : x2c_tab[i] # " " /\ x2c_tab[i] # "-"
        /\ x2c_tab[1] = "0"
    BY SMT DEF x2c_tab
  <1>2. \A i, j \in 1..16 : x2c_tab[i] = x2c_tab[j] => i = j
    BY SMT DEF x2c_tab
  <1>3. \A i \in 1..16 : X2C_tab[i] = IF i <= 10 THEN x2c_tab[i]
                                      ELSE <<"A", "B", "C", "D", "E", "F">>[i - 10]
    BY Zenon, <1>1 DEF X2C_tab
  <1>4. \A i \in 1..6 : /\ <<"A", "B", "C", "D", "E", "F">>[i] # " "
                        /\ <<"A", "B", "C", "D", "E", "F">>[i] # "-"
                        /\ \A j \in 1..10 : <<"A", "B", "C", "D", "E", "F">>[i] # x2c_tab[j]
    <2>1. \A i \in 1..6 : <<"A", "B", "C", "D", "E", "F">>[i] \in {"A", "B", "C", "D", "E", "F"}
      BY SMT
    <2>2. \A j \in 1..10 : x2c_tab[j] \in {"0", "1", "2", "3", "4", "5", "6", "7", "8", "9"}
      BY SMT DEF x2c_tab
    <2>3. \A a \in {"A", "B", "C", "D", "E", "F"} :
            a \notin {"0", "1", "2", "3", "4", "5", "6", "7", "8", "9", " ", "-"}
      BY Zenon
    <2> QED
      BY Zenon, <2>1, <2>2, <2>3
  <1>5. \A i, j \in 1..6 : <<"A", "B", "C", "D", "E", "F">>[i] = <<"A", "B", "C", "D", "E", "F">>[j]
                             => i = j
    BY SMT
  <1>6. DOMAIN X2C_tab = 1..16
    BY Zenon, <1>1 DEF X2C_tab
  <1> DEFINE more == <<"A", "B", "C", "D", "E", "F">>
  <1> HIDE DEF more
  <1>7. /\ \A i \in 1..16 : X2C_tab[i] = IF i <= 10 THEN x2c_tab[i] ELSE more[i - 10]
        /\ \A i \in 1..6 : /\ more[i] # " " /\ more[i] # "-"
                           /\ \A j \in 1..10 : more[i] # x2c_tab[j]
        /\ \A i, j \in 1..6 : more[i] = more[j] => i = j
    BY Zenon, <1>3, <1>4, <1>5 DEF more
  <1>8. \A i, j \in 1..16 : X2C_tab[i] = X2C_tab[j] => i = j
    <2>1. SUFFICES ASSUME NEW i \in 1..16, NEW j \in 1..16, X2C_tab[i] = X2C_tab[j]
                   PROVE  i = j
      BY Zenon
    <2>2. /\ i <= 10 => i \in 1..10
          /\ ~(i <= 10) => i - 10 \in 1..6
          /\ j <= 10 => j \in 1..10
          /\ ~(j <= 10) => j - 10 \in 1..6
          /\ i - 10 = j - 10 => i = j
      BY SMT
    <2> QED
      BY ZenonT(30), <1>2, <1>7, <2>1, <2>2
  <1>9. \A i \in 1..16 : X2C_tab[i] # " " /\ X2C_tab[i] # "-"
    <2>1. \A i \in 1..16 : ~(i <= 10) => i - 10 \in 1..6
      BY SMT
    <2> QED
      BY Zenon, <1>1, <1>7, <2>1
  <1>10. X2C_tab[1] = "0"
    <2>1. 1 \in 1..16 /\ 1 <= 10
      BY SMT
    <2> QED
      BY Zenon, <1>1, <1>7, <2>1
  <1> QED
    BY Zenon, <1>1, <1>2, <1>6, <1>8, <1>9, <1>10 DEF Legible

\* A digit stands for its place in the table.
LEMMA DigitIs ==
    ASSUME NEW table, Legible(table), NEW i \in 1..16
    PROVE  DigitOf(table[i], table) = i - 1
  <1>1. i \in DOMAIN table /\ \A j \in DOMAIN table : table[j] = table[i] => j = i
    BY Zenon DEF Legible
  <1>2. (CHOOSE j \in DOMAIN table : table[j] = table[i]) = i
    BY Zenon, <1>1
  <1> QED
    BY Zenon, <1>2 DEF DigitOf

\* What a text can hold that shows a number.
Numeric(char, table) ==
    char \in {" ", "-"} \/ \E i \in 1..16 : char = table[i]

\* What the first characters of a text show.
Reading(val, text, base, table) ==
    /\ val[0] = 0
    /\ \A n \in 1..Len(text) :
         /\ val[n - 1] \in Nat
         /\ val[n] = IF text[n] \in {" ", "-"} THEN val[n - 1]
                     ELSE val[n - 1] * base + DigitOf(text[n], table)

\* A text of digits, signs and blanks can be read from its start to its end.
LEMMA ShownIs ==
    ASSUME NEW text, Len(text) \in Nat, NEW base \in Nat, NEW table, Legible(table),
           \A n \in 1..Len(text) : Numeric(text[n], table)
    PROVE  \E val : Reading(val, text, base, table) /\ Shown(text, base, table) = val[Len(text)]
  <1> DEFINE N == Len(text)
             next(v, n) == IF text[n] \in {" ", "-"} THEN v
                           ELSE v * base + DigitOf(text[n], table)
             F == [q \in Nat \X Nat |-> IF q[1] \in 1..N THEN next(q[2], q[1]) ELSE 0]
             all == CHOOSE f : f = [n \in 0..N |-> IF n = 0 THEN 0 ELSE next(f[n - 1], n)]
  <1>1. N \in Nat
    BY Zenon
  <1>2. Shown(text, base, table) = all[N]
    BY Zenon DEF Shown, DigitOf
  <1>3. \A v \in Nat, n \in 1..N : next(v, n) \in Nat
    <2>1. SUFFICES ASSUME NEW v \in Nat, NEW n \in 1..N PROVE next(v, n) \in Nat
      BY Zenon
    <2>2. CASE text[n] \in {" ", "-"}
      BY Zenon, <2>2
    <2>3. CASE text[n] \notin {" ", "-"}
      <3>1. PICK i \in 1..16 : text[n] = table[i]
        BY Zenon, <2>3 DEF Numeric
      <3>2. DigitOf(text[n], table) = i - 1
        BY Zenon, <3>1, DigitIs
      <3>3. v * base + (i - 1) \in Nat
        <4>1. v * base \in Nat /\ i - 1 \in Nat
          BY SMT
        <4> DEFINE x == v * base
        <4> HIDE DEF x
        <4>2. x + (i - 1) \in Nat
          BY SMT, <4>1 DEF x
        <4> QED
          BY Zenon, <4>2 DEF x
      <3> QED
        BY Zenon, <2>3, <3>2, <3>3
    <2> QED
      BY Zenon, <2>2, <2>3
  <1> HIDE DEF N, next
  <1>5. \A n \in Nat, b \in Nat : /\ n \in 1..N => F[<<n, b>>] = next(b, n)
                                  /\ F[<<n, b>>] \in Nat
    BY SMT, <1>3
  <1> HIDE DEF F
  <1>7. PICK f \in [0..N -> Nat] : StepBy(f, N, 0, F)
    <2>1. 0 \in Nat
      BY SMT
    <2> QED
      BY Zenon, <1>1, <1>5, <2>1, Steps
  <1>8. \A n \in 0..N : n # 0 => n \in Nat /\ n \in 1..N /\ n - 1 \in 0..N
    BY SMT, <1>1
  <1>9. \A n \in 0..N : f[n] = IF n = 0 THEN 0 ELSE next(f[n - 1], n)
    <2>1. \A n \in 0..N : f[n] = IF n = 0 THEN 0 ELSE F[<<n, f[n - 1]>>]
      BY Zenon, <1>7 DEF StepBy
    <2>2. \A n \in 0..N : n # 0 => f[n - 1] \in Nat
      BY Zenon, <1>8
    <2> QED
      BY Zenon, <1>5, <1>8, <2>1, <2>2
  <1>10. f = [n \in 0..N |-> IF n = 0 THEN 0 ELSE next(f[n - 1], n)]
    <2>1. f = [n \in 0..N |-> f[n]]
      BY Zenon
    <2> DEFINE e(n) == IF n = 0 THEN 0 ELSE next(f[n - 1], n)
    <2>2. \A n \in 0..N : f[n] = e(n)
      BY Zenon, <1>9
    <2> HIDE DEF e
    <2>3. f = [n \in 0..N |-> e(n)]
      BY SMT, <2>1, <2>2
    <2> QED
      BY Zenon, <2>3 DEF e
  <1>11. all = [n \in 0..N |-> IF n = 0 THEN 0 ELSE next(all[n - 1], n)]
    BY Zenon, <1>10
  <1> HIDE DEF all
  <1>12. 0 \in 0..N /\ \A n \in 1..N : n \in 0..N /\ n # 0 /\ n - 1 \in 0..N
    BY SMT, <1>1
  <1>13. all[0] = 0 /\ \A n \in 1..N : all[n] = next(all[n - 1], n)
    BY Zenon, <1>11, <1>12
  <1> DEFINE S == {n \in 0..N : all[n] \in Nat}
  <1>14. 0 \in S
    <2>1. 0 \in Nat
      BY SMT
    <2> QED
      BY Zenon, <1>12, <1>13, <2>1
  <1>15. ASSUME NEW n \in 1..N, n - 1 \in S PROVE n \in S
    BY Zenon, <1>3, <1>12, <1>13, <1>15
  <1>16. \A n \in 0..N : n \in S
    <2> HIDE DEF S
    <2> QED
      BY Zenon, <1>1, <1>14, <1>15, OneByOne
  <1>17. \A n \in 1..N : all[n - 1] \in Nat
    BY Zenon, <1>12, <1>16
  <1> QED
    BY Zenon, <1>2, <1>13, <1>17 DEF N, next, Reading

\* A numeral lies in a text behind o characters.
Lies(numeral, text, o) ==
    /\ o \in Nat /\ o + Len(numeral) <= Len(text)
    /\ \A i \in 1..Len(numeral) : text[o + i] = numeral[i]

\* Reading a numeral behind nothing gives the number.
LEMMA NumeralRead ==
    ASSUME NEW base \in Nat, base > 1, base <= 16, NEW table, Tabled(table, base), Legible(table),
           NEW text, Len(text) \in Nat, NEW val, Reading(val, text, base, table)
    PROVE  \A u \in Nat : \A o \in Nat :
             /\ Lies(Numeral(u, base, table), text, o) /\ val[o] = 0
             => val[o + Len(Numeral(u, base, table))] = u
  <1> DEFINE num(u) == Numeral(u, base, table)
             S == {u \in Nat : \A o \in Nat :
                     Lies(num(u), text, o) /\ val[o] = 0 => val[o + Len(num(u))] = u}
  <1>1. \A i \in 1..base : /\ i \in 1..16 /\ table[i] \notin {" ", "-"}
                           /\ DigitOf(table[i], table) = i - 1
    <2>1. \A i \in 1..base : i \in 1..16
      BY SMT
    <2> QED
      BY Zenon, <2>1, DigitIs DEF Legible
  <1>2. ASSUME NEW u \in Nat, \A z \in Nat : z < u => z \in S PROVE u \in S
    <2>1. SUFFICES ASSUME NEW o \in Nat, Lies(num(u), text, o), val[o] = 0
                   PROVE  val[o + Len(num(u))] = u
      BY Zenon
    <2> DEFINE q == u \div base
               r == u % base
    <2>2. /\ q \in Nat /\ r \in 0..(base - 1) /\ r + 1 \in 1..base
          /\ u = base * q + r
          /\ u < base => u + 1 \in 1..base
          /\ u >= base => q < u
      BY Zenon, QuotientIs
    <2>3. /\ num(u) \in Seq(Chars) /\ num(q) \in Seq(Chars)
          /\ num(u) = IF u < base THEN <<table[u + 1]>> ELSE num(q) \o <<table[r + 1]>>
      BY Zenon, <2>2, NumeralIs
    <2>4. /\ o + Len(num(u)) <= Len(text)
          /\ \A i \in 1..Len(num(u)) : text[o + i] = num(u)[i]
      BY Zenon, <2>1 DEF Lies
    <2>5. \A n \in 1..Len(text), i \in 1..base :
            text[n] = table[i] => val[n] = val[n - 1] * base + (i - 1)
      BY Zenon, <1>1 DEF Reading
    <2> HIDE DEF num, q, r
    <2>6. CASE u < base
      <3> DEFINE c == table[u + 1]
      <3>1. num(u) = <<c>>
        BY Zenon, <2>3, <2>6
      <3> HIDE DEF c
      <3>2. Len(num(u)) = 1 /\ num(u)[1] = c /\ 1 \in 1..1
        BY SMT, <3>1
      <3>3. text[o + 1] = c /\ o + 1 <= Len(text)
        BY Zenon, <2>4, <3>2
      <3>4. o + 1 \in 1..Len(text) /\ (o + 1) - 1 = o /\ (u + 1) - 1 = u
        BY SMT, <3>3
      <3>5. val[o + 1] = val[(o + 1) - 1] * base + ((u + 1) - 1)
        BY Zenon, <2>2, <2>5, <2>6, <3>3, <3>4 DEF c
      <3>6. val[o + 1] = 0 * base + u
        BY Zenon, <2>1, <3>4, <3>5
      <3>7. 0 * base + u = u
        BY SMT
      <3> QED
        BY Zenon, <3>2, <3>6, <3>7
    <2>7. CASE ~(u < base)
      <3> DEFINE c == table[r + 1]
                 m == Len(num(q))
      <3>1. num(u) = num(q) \o <<c>> /\ u >= base
        <4>1. u >= base
          BY SMT, <2>7
        <4> QED
          BY Zenon, <2>3, <2>7, <4>1
      <3>2. c \in Chars
        BY Zenon, <2>2 DEF Tabled
      <3> HIDE DEF c
      <3>3. /\ Len(num(u)) = m + 1 /\ m \in Nat /\ num(u)[m + 1] = c
            /\ \A i \in 1..m : num(u)[i] = num(q)[i] /\ i \in 1..(m + 1)
            /\ m + 1 \in 1..(m + 1)
        BY SMT, <2>3, <3>1, <3>2
      <3>4. m \in Nat
        BY Zenon, <3>3
      <3> HIDE DEF m
      <3>5. o + (m + 1) <= Len(text) /\ text[o + (m + 1)] = c
        BY Zenon, <2>4, <3>3
      <3>6. o + m <= Len(text)
        BY SMT, <3>4, <3>5
      <3>7. Lies(num(q), text, o)
        BY Zenon, <2>4, <3>3, <3>6 DEF Lies, m
      <3>8. val[o + m] = q
        BY Zenon, <1>2, <2>1, <2>2, <3>1, <3>7 DEF m
      <3>9. /\ o + (m + 1) \in 1..Len(text) /\ (o + (m + 1)) - 1 = o + m
            /\ (r + 1) - 1 = r
        BY SMT, <2>2, <3>4, <3>5
      <3>10. val[o + (m + 1)] = val[(o + (m + 1)) - 1] * base + ((r + 1) - 1)
        BY Zenon, <2>2, <2>5, <3>5, <3>9 DEF c
      <3>11. val[o + (m + 1)] = q * base + r
        BY Zenon, <3>8, <3>9, <3>10
      <3>12. q * base + r = u
        <4>1. q * base = base * q
          BY SMT, <2>2
        <4> QED
          BY Zenon, <2>2, <4>1
      <3> QED
        BY Zenon, <3>3, <3>11, <3>12
    <2> QED
      BY Zenon, <2>6, <2>7
  <1> HIDE DEF S
  <1>3. \A u \in Nat : u \in S
    BY Zenon, <1>2, AllSmaller
  <1> QED
    BY Zenon, <1>3 DEF S

\* The first o characters of a text show nothing,
Leading(text, o) ==
    /\ o \in Nat /\ o <= Len(text)
    /\ \A i \in 1..o : text[i] \in {" ", "-", "0"}

\* and nor do those behind them.
Trailing(text, o) ==
    /\ o \in Nat /\ o <= Len(text)
    /\ \A i \in (o + 1)..Len(text) : text[i] = " "

\* Blanks, signs and zeros before it do not change it.
LEMMA PrefixRead ==
    ASSUME NEW base \in Nat, NEW table, Legible(table), NEW text, Len(text) \in Nat,
           NEW val, Reading(val, text, base, table), NEW o \in Nat, Leading(text, o)
    PROVE  val[o] = 0
  <1> DEFINE S == {n \in 0..o : val[n] = 0}
             N == Len(text)
  <1>0. o <= N /\ N \in Nat
    BY Zenon DEF Leading
  <1> HIDE DEF N
  <1>1. 0 \in 0..o /\ o \in 0..o /\ \A n \in 1..o : n \in 0..o /\ n \in 1..N
    BY SMT, <1>0
  <1>2. 0 \in S
    BY Zenon, <1>1 DEF Reading
  <1>3. DigitOf("0", table) = 0
    <2>1. 1 \in 1..16 /\ 1 - 1 = 0
      BY SMT
    <2> QED
      BY Zenon, <2>1, DigitIs DEF Legible
  <1>4. ASSUME NEW n \in 1..o, n - 1 \in S PROVE n \in S
    <2>1. /\ val[n - 1] = 0
          /\ val[n] = IF text[n] \in {" ", "-"} THEN val[n - 1]
                      ELSE val[n - 1] * base + DigitOf(text[n], table)
      BY Zenon, <1>1, <1>4 DEF Reading, N
    <2>2. 0 * base + 0 = 0
      BY SMT
    <2>3. text[n] \notin {" ", "-"} => text[n] = "0"
      BY Zenon DEF Leading
    <2>4. val[n] = 0
      BY Zenon, <1>3, <2>1, <2>2, <2>3
    <2> QED
      BY Zenon, <1>1, <2>4
  <1>5. \A n \in 0..o : n \in S
    <2> HIDE DEF S
    <2> QED
      BY Zenon, <1>1, <1>2, <1>4, OneByOne
  <1> QED
    BY Zenon, <1>1, <1>5

\* Nor do blanks behind it.
LEMMA SuffixRead ==
    ASSUME NEW base \in Nat, NEW table, NEW text, Len(text) \in Nat,
           NEW val, Reading(val, text, base, table), NEW o \in Nat, Trailing(text, o),
           NEW u, val[o] = u
    PROVE  val[Len(text)] = u
  <1> DEFINE N == Len(text)
             m == N - o
             S == {n \in 0..m : val[o + n] = val[o]}
  <1>0. o <= N /\ N \in Nat
    BY Zenon DEF Trailing
  <1> HIDE DEF N
  <1>1. /\ m \in Nat /\ o + 0 = o /\ 0 \in 0..m /\ m \in 0..m /\ o + m = N
        /\ \A n \in 1..m : /\ n \in 0..m /\ o + n \in 1..N
                           /\ o + n \in (o + 1)..N
                           /\ (o + n) - 1 = o + (n - 1)
    BY SMT, <1>0
  <1> HIDE DEF m
  <1>2. 0 \in S
    BY Zenon, <1>1
  <1>3. ASSUME NEW n \in 1..m, n - 1 \in S PROVE n \in S
    <2>1. text[o + n] \in {" ", "-"}
      BY Zenon, <1>1 DEF Trailing, N
    <2>2. val[o + n] = val[(o + n) - 1]
      BY Zenon, <1>1, <2>1 DEF Reading, N
    <2>3. val[o + n] = val[o]
      BY Zenon, <1>1, <1>3, <2>2
    <2> QED
      BY Zenon, <1>1, <2>3
  <1>4. \A n \in 0..m : n \in S
    <2> HIDE DEF S
    <2> QED
      BY Zenon, <1>1, <1>2, <1>3, OneByOne
  <1>5. val[o + m] = val[o]
    BY Zenon, <1>1, <1>4
  <1> HIDE DEF S
  <1> QED
    BY Zenon, <1>1, <1>5 DEF N

\* Nothing but digits of a table.
Digits(numeral, table) ==
    \A i \in 1..Len(numeral) : \E j \in 1..16 : numeral[i] = table[j]

\* A numeral is made of nothing else.
LEMMA NumeralDigits ==
    ASSUME NEW base \in Nat, base > 1, base <= 16, NEW table, Tabled(table, base)
    PROVE  \A u \in Nat : Digits(Numeral(u, base, table), table)
  <1> DEFINE num(u) == Numeral(u, base, table)
             S == {u \in Nat : Digits(num(u), table)}
  <1>1. \A i \in 1..base : i \in 1..16
    BY SMT
  <1>2. ASSUME NEW u \in Nat, \A z \in Nat : z < u => z \in S PROVE u \in S
    <2>1. SUFFICES ASSUME NEW i \in 1..Len(num(u)) PROVE \E j \in 1..16 : num(u)[i] = table[j]
      BY Zenon DEF Digits
    <2> DEFINE q == u \div base
               r == u % base
    <2>2. /\ q \in Nat /\ r + 1 \in 1..base
          /\ u < base => u + 1 \in 1..base
          /\ u >= base => q < u
      BY Zenon, QuotientIs
    <2>3. /\ num(u) \in Seq(Chars) /\ num(q) \in Seq(Chars)
          /\ num(u) = IF u < base THEN <<table[u + 1]>> ELSE num(q) \o <<table[r + 1]>>
      BY Zenon, <2>2, NumeralIs
    <2> HIDE DEF num, q, r
    <2>4. CASE u < base
      <3> DEFINE c == table[u + 1]
      <3>1. num(u) = <<c>>
        BY Zenon, <2>3, <2>4
      <3> HIDE DEF c
      <3>2. num(u)[i] = c
        BY SMT, <3>1
      <3> QED
        BY Zenon, <1>1, <2>2, <2>4, <3>2 DEF c
    <2>5. CASE ~(u < base)
      <3> DEFINE c == table[r + 1]
                 m == Len(num(q))
      <3>0. u >= base
        BY SMT, <2>5
      <3>1. num(u) = num(q) \o <<c>>
        BY Zenon, <2>3, <2>5
      <3>2. c \in Chars
        BY Zenon, <2>2 DEF Tabled
      <3> HIDE DEF c
      <3>3. IF i \in 1..m THEN num(u)[i] = num(q)[i] ELSE num(u)[i] = c
        BY SMT, <2>3, <3>1, <3>2
      <3>4. q \in S
        BY Zenon, <1>2, <2>2, <3>0
      <3> QED
        BY Zenon, <1>1, <2>2, <3>3, <3>4 DEF c, Digits
    <2> QED
      BY Zenon, <2>4, <2>5
  <1> HIDE DEF S
  <1>3. \A u \in Nat : u \in S
    BY Zenon, <1>2, AllSmaller
  <1> QED
    BY Zenon, <1>3 DEF S

\* What a text shows that holds a numeral and nothing else.
LEMMA NumberShown ==
    ASSUME NEW base \in Nat, base > 1, base <= 16, NEW table, Tabled(table, base), Legible(table),
           NEW u \in Nat, NEW text, Len(text) \in Nat, NEW o \in Nat,
           Leading(text, o), Lies(Numeral(u, base, table), text, o),
           Trailing(text, o + Len(Numeral(u, base, table)))
    PROVE  Shown(text, base, table) = u
  <1> DEFINE num == Numeral(u, base, table)
             m == Len(num)
             N == Len(text)
  <1>1. \A i \in 1..m : \E j \in 1..16 : num[i] = table[j]
    <2>1. Digits(num, table)
      BY Zenon, NumeralDigits
    <2> HIDE DEF num
    <2> QED
      BY Zenon, <2>1 DEF Digits
  <1>2. m \in Nat
    BY Zenon, NumeralLength
  <1>3. /\ \A i \in 1..o : text[i] \in {" ", "-", "0"}
        /\ \A i \in 1..m : text[o + i] = num[i]
        /\ \A i \in (o + m + 1)..N : text[i] = " "
    BY Zenon DEF Leading, Lies, Trailing
  <1>4. N \in Nat
    BY Zenon
  <1> HIDE DEF num, m, N
  <1>5. \A i \in 1..N : \/ i \in 1..o \/ i \in (o + m + 1)..N
                        \/ i - o \in 1..m /\ o + (i - o) = i
    BY SMT, <1>2, <1>4
  <1>6. 1 \in 1..16 /\ o + m \in Nat
    BY SMT, <1>2
  <1>7. \A i \in 1..N : Numeric(text[i], table)
    <2>1. SUFFICES ASSUME NEW i \in 1..N PROVE Numeric(text[i], table)
      BY Zenon
    <2>2. CASE i \in 1..o
      <3>1. text[i] \in {" ", "-"} \/ text[i] = table[1]
        BY Zenon, <1>3, <2>2 DEF Legible
      <3> QED
        BY Zenon, <1>6, <3>1 DEF Numeric
    <2>3. CASE i \in (o + m + 1)..N
      BY Zenon, <1>3, <2>3 DEF Numeric
    <2>4. CASE i - o \in 1..m /\ o + (i - o) = i
      <3>1. text[o + (i - o)] = num[i - o]
        BY Zenon, <1>3, <2>4
      <3>2. text[i] = num[i - o]
        BY Zenon, <2>4, <3>1
      <3> QED
        BY Zenon, <1>1, <2>4, <3>2 DEF Numeric
    <2> QED
      BY Zenon, <1>5, <2>2, <2>3, <2>4
  <1>8. PICK val : Reading(val, text, base, table) /\ Shown(text, base, table) = val[N]
    BY Zenon, <1>7, ShownIs DEF N
  <1>9. val[o] = 0
    BY Zenon, <1>8, PrefixRead
  <1>10. val[o + m] = u
    BY Zenon, <1>8, <1>9, NumeralRead DEF m, num
  <1>11. val[N] = u
    <2> DEFINE p == o + m
    <2>1. Trailing(text, p) /\ p \in Nat
      BY Zenon, <1>6 DEF m, num
    <2>2. Reading(val, text, base, table) /\ val[p] = u
      BY Zenon, <1>8, <1>10
    <2> HIDE DEF p
    <2> QED
      BY SMT, <2>1, <2>2, SuffixRead DEF N
  <1> QED
    BY Zenon, <1>8, <1>11

\* Where the parts of a field lie, the number and the sign before it.
Placed(text, number, o, minus) ==
    /\ Leading(text, o)
    /\ Lies(number, text, o)
    /\ Trailing(text, o + Len(number))
    /\ \A i \in 1..o : text[i] = "-" => \A j \in 1..(i - 1) : text[j] = " "
    /\ minus <=> \E i \in 1..o : text[i] = "-"

\* Three texts behind each other.
Parts(text, x, y, z) ==
    /\ Len(x) \in Nat /\ Len(y) \in Nat /\ Len(z) \in Nat
    /\ Len(text) = Len(x) + Len(y) + Len(z)
    /\ \A i \in 1..Len(x) : text[i] = x[i]
    /\ \A i \in 1..Len(y) : text[Len(x) + i] = y[i]
    /\ \A i \in 1..Len(z) : text[Len(x) + Len(y) + i] = z[i]

\* That is what a concatenation is.
LEMMA ThreeParts ==
    ASSUME NEW x \in Seq(Chars), NEW y \in Seq(Chars), NEW z \in Seq(Chars)
    PROVE  Parts(x \o y \o z, x, y, z)
  BY SMT DEF Parts

\* The sign of a number.
Sign(minus) == IF minus THEN <<"-">> ELSE <<>>

\* It is one character or none.
LEMMA SignIs ==
    ASSUME NEW minus \in BOOLEAN
    PROVE  /\ Sign(minus) \in Seq(Chars)
           /\ Len(Sign(minus)) \in 0..1
           /\ minus <=> Len(Sign(minus)) = 1
           /\ \A i \in 1..Len(Sign(minus)) : Sign(minus)[i] = "-" /\ i = 1
  <1>1. <<"-">> \in Seq(Chars) /\ Len(<<"-">>) = 1 /\ <<>> \in Seq(Chars) /\ Len(<<>>) = 0
    <2>1. "-" \in Chars
      BY Zenon DEF Chars
    <2> QED
      BY SMT, <2>1
  <1>2. /\ \A i \in 1..1 : <<"-">>[i] = "-" /\ i = 1
        /\ 0 \in 0..1 /\ 1 \in 0..1 /\ 0 # 1 /\ \A i \in 1..0 : FALSE
    BY SMT
  <1>3. CASE minus
    <2>1. Sign(minus) = <<"-">>
      BY Zenon, <1>3 DEF Sign
    <2> QED
      BY Zenon, <1>1, <1>2, <1>3, <2>1
  <1>4. CASE ~minus
    <2>1. Sign(minus) = <<>>
      BY Zenon, <1>4 DEF Sign
    <2> QED
      BY Zenon, <1>1, <1>2, <1>4, <2>1
  <1> QED
    BY Zenon, <1>3, <1>4

\* A text that is filled with one character.
Filled(pad, char) == pad \in Seq(Chars) /\ \A i \in 1..Len(pad) : pad[i] = char

\* What a field is filled with.
Blank == " "

\* Zeros between the sign and the number.
LEMMA ZerosBetween ==
    ASSUME NEW minus \in BOOLEAN, NEW pad, Filled(pad, "0"), NEW number \in Seq(Chars)
    PROVE  Placed(Sign(minus) \o pad \o number, number, Len(Sign(minus)) + Len(pad), minus)
  <1> DEFINE sign == Sign(minus)
             text == sign \o pad \o number
             a == Len(sign)
             b == Len(pad)
             c == Len(number)
  <1>1. /\ sign \in Seq(Chars) /\ a \in 0..1 /\ (minus <=> a = 1)
        /\ \A i \in 1..a : sign[i] = "-" /\ i = 1
    BY Zenon, SignIs
  <1>2. pad \in Seq(Chars) /\ \A i \in 1..b : pad[i] = "0"
    BY Zenon DEF Filled
  <1> HIDE DEF sign
  <1>20. Parts(text, sign, pad, number)
    BY Zenon, <1>1, <1>2, ThreeParts
  <1> DEFINE n == Len(text)
  <1> HIDE DEF text
  <1>3. /\ a \in Nat /\ b \in Nat /\ c \in Nat /\ n = a + b + c
    BY Zenon, <1>20 DEF Parts
  <1>30. /\ \A i \in 1..a : text[i] = sign[i]
         /\ \A i \in 1..b : text[a + i] = pad[i]
         /\ \A i \in 1..c : text[a + b + i] = number[i]
    BY Zenon, <1>20 DEF Parts
  <1> HIDE DEF n
  <1>4. Lies(number, text, a + b)
    <2>1. a + b \in Nat /\ a + b + c <= n
      <3> HIDE DEF a, b, c
      <3> QED
        BY SMT, <1>3
    <2> QED
      BY Zenon, <1>3, <1>30, <2>1 DEF Lies, n
  <1>5. Trailing(text, (a + b) + c)
    <2> HIDE DEF a, b, c
    <2>1. (a + b) + c \in Nat /\ (a + b) + c <= n
          /\ \A i \in ((a + b) + c + 1)..n : FALSE
      BY SMT, <1>3
    <2> QED
      BY Zenon, <2>1 DEF Trailing, n
  <1> HIDE DEF a, b, c
  <1>6. \A i \in 1..(a + b) : i \in 1..a \/ (i - a \in 1..b /\ a + (i - a) = i)
    BY SMT, <1>3
  <1>7. \A i \in 1..(a + b) : \/ text[i] = "-" /\ i \in 1..a /\ i = 1
                              \/ text[i] = "0"
    <2>1. \A i \in 1..a : text[i] = "-" /\ i = 1
      BY Zenon, <1>1, <1>3, <1>30
    <2>2. \A i \in 1..(a + b) : i - a \in 1..b /\ a + (i - a) = i => text[i] = "0"
      BY Zenon, <1>2, <1>3, <1>30
    <2> QED
      BY Zenon, <1>6, <2>1, <2>2
  <1>8. a + b \in Nat /\ a + b <= n
    BY SMT, <1>3
  <1>9. Leading(text, a + b)
    BY Zenon, <1>7, <1>8 DEF Leading, n
  <1>10. \A i \in 1..(a + b) : text[i] = "-" => \A j \in 1..(i - 1) : text[j] = " "
    <2>1. \A i \in {1} : \A j \in 1..(i - 1) : FALSE
      BY SMT
    <2>2. "0" # "-"
      BY Zenon
    <2> QED
      BY Zenon, <1>7, <2>1, <2>2
  <1>11. minus <=> \E i \in 1..(a + b) : text[i] = "-"
    <2>1. ASSUME minus PROVE \E i \in 1..(a + b) : text[i] = "-"
      <3>1. a = 1
        BY Zenon, <1>1, <2>1
      <3>2. 1 \in 1..a /\ 1 \in 1..(a + b)
        BY SMT, <1>3, <3>1
      <3> QED
        BY Zenon, <1>1, <1>3, <1>30, <3>2
    <2>2. ASSUME NEW i \in 1..(a + b), text[i] = "-" PROVE minus
      <3>1. i \in 1..a
        BY Zenon, <1>7, <2>2
      <3>2. a = 1
        BY SMT, <1>1, <3>1
      <3> QED
        BY Zenon, <1>1, <3>2
    <2> QED
      BY Zenon, <2>1, <2>2
  <1> QED
    BY Zenon, <1>4, <1>5, <1>9, <1>10, <1>11 DEF Placed, text, a, b, c, sign

\* Blanks behind it.
LEMMA BlanksBehind ==
    ASSUME NEW minus \in BOOLEAN, NEW pad, Filled(pad, Blank), NEW number \in Seq(Chars)
    PROVE  Placed(Sign(minus) \o number \o pad, number, Len(Sign(minus)), minus)
  <1> DEFINE sign == Sign(minus)
             text == sign \o number \o pad
             a == Len(sign)
             b == Len(pad)
             c == Len(number)
  <1>1. /\ sign \in Seq(Chars) /\ a \in 0..1 /\ (minus <=> a = 1)
        /\ \A i \in 1..a : sign[i] = "-" /\ i = 1
    BY Zenon, SignIs
  <1>2. pad \in Seq(Chars) /\ \A i \in 1..b : pad[i] = " "
    BY Zenon DEF Filled, Blank
  <1> HIDE DEF sign
  <1>20. Parts(text, sign, number, pad)
    BY Zenon, <1>1, <1>2, ThreeParts
  <1> DEFINE n == Len(text)
  <1> HIDE DEF text
  <1>3. /\ a \in Nat /\ b \in Nat /\ c \in Nat /\ n = a + c + b
    BY Zenon, <1>20 DEF Parts
  <1>30. /\ \A i \in 1..a : text[i] = sign[i]
         /\ \A i \in 1..c : text[a + i] = number[i]
         /\ \A i \in 1..b : text[a + c + i] = pad[i]
    BY Zenon, <1>20 DEF Parts
  <1> HIDE DEF n
  <1>4. Lies(number, text, a)
    <2>1. a + c <= n
      <3> HIDE DEF a, b, c
      <3> QED
        BY SMT, <1>3
    <2> QED
      BY Zenon, <1>3, <1>30, <2>1 DEF Lies, n
  <1>5. Trailing(text, a + c)
    <2> HIDE DEF a, b, c
    <2>1. /\ a + c \in Nat /\ a + c <= n
          /\ \A i \in (a + c + 1)..n : i - (a + c) \in 1..b /\ a + c + (i - (a + c)) = i
      BY SMT, <1>3
    <2>2. \A i \in (a + c + 1)..n : text[i] = " "
      BY Zenon, <1>2, <1>3, <1>30, <2>1 DEF b
    <2> QED
      BY Zenon, <2>1, <2>2 DEF Trailing, n
  <1> HIDE DEF a, b, c
  <1>6. \A i \in 1..a : text[i] = "-" /\ i = 1
    BY Zenon, <1>1, <1>3, <1>30
  <1>7. a <= n
    BY SMT, <1>3
  <1>8. Leading(text, a)
    BY Zenon, <1>3, <1>30, <1>6, <1>7 DEF Leading, n
  <1>9. \A i \in 1..a : text[i] = "-" => \A j \in 1..(i - 1) : text[j] = " "
    <2>1. \A i \in {1} : \A j \in 1..(i - 1) : FALSE
      BY SMT
    <2> QED
      BY Zenon, <1>6, <2>1
  <1>10. minus <=> \E i \in 1..a : text[i] = "-"
    <2>1. a = 1 <=> \E i \in 1..a : TRUE
      BY SMT, <1>1
    <2> QED
      BY Zenon, <1>1, <1>6, <2>1
  <1> QED
    BY Zenon, <1>4, <1>5, <1>8, <1>9, <1>10 DEF Placed, text, a, b, c, sign

\* Blanks before the sign.
LEMMA BlanksBefore ==
    ASSUME NEW minus \in BOOLEAN, NEW pad, Filled(pad, Blank), NEW number \in Seq(Chars)
    PROVE  Placed(pad \o Sign(minus) \o number, number, Len(pad) + Len(Sign(minus)), minus)
  <1> DEFINE sign == Sign(minus)
             text == pad \o sign \o number
             a == Len(sign)
             b == Len(pad)
             c == Len(number)
  <1>1. /\ sign \in Seq(Chars) /\ a \in 0..1 /\ (minus <=> a = 1)
        /\ \A i \in 1..a : sign[i] = "-" /\ i = 1
    BY Zenon, SignIs
  <1>2. pad \in Seq(Chars) /\ \A i \in 1..b : pad[i] = " "
    BY Zenon DEF Filled, Blank
  <1> HIDE DEF sign
  <1>20. Parts(text, pad, sign, number)
    BY Zenon, <1>1, <1>2, ThreeParts
  <1> DEFINE n == Len(text)
  <1> HIDE DEF text
  <1>3. /\ a \in Nat /\ b \in Nat /\ c \in Nat /\ n = b + a + c
    BY Zenon, <1>20 DEF Parts
  <1>30. /\ \A i \in 1..b : text[i] = pad[i]
         /\ \A i \in 1..a : text[b + i] = sign[i]
         /\ \A i \in 1..c : text[b + a + i] = number[i]
    BY Zenon, <1>20 DEF Parts
  <1> HIDE DEF n
  <1>4. Lies(number, text, b + a)
    <2>1. b + a \in Nat /\ b + a + c <= n
      <3> HIDE DEF a, b, c
      <3> QED
        BY SMT, <1>3
    <2> QED
      BY Zenon, <1>3, <1>30, <2>1 DEF Lies, n
  <1>5. Trailing(text, (b + a) + c)
    <2> HIDE DEF a, b, c
    <2>1. (b + a) + c \in Nat /\ (b + a) + c <= n
          /\ \A i \in ((b + a) + c + 1)..n : FALSE
      BY SMT, <1>3
    <2> QED
      BY Zenon, <2>1 DEF Trailing, n
  <1> HIDE DEF a, b, c
  <1>6. \A i \in 1..(b + a) : i \in 1..b \/ (i - b \in 1..a /\ b + (i - b) = i)
    BY SMT, <1>3
  <1>7. \A i \in 1..(b + a) : IF i \in 1..b THEN text[i] = " "
                              ELSE text[i] = "-" /\ i - b = 1
    <2>1. \A i \in 1..a : text[b + i] = "-" /\ i = 1
      BY Zenon, <1>1, <1>3, <1>30
    <2>2. \A i \in 1..b : text[i] = " "
      BY Zenon, <1>2, <1>3, <1>30
    <2> QED
      BY Zenon, <1>6, <2>1, <2>2
  <1>8. b + a \in Nat /\ b + a <= n
    BY SMT, <1>3
  <1>9. Leading(text, b + a)
    BY Zenon, <1>7, <1>8 DEF Leading, n
  <1>10. \A i \in 1..(b + a) : text[i] = "-" => \A j \in 1..(i - 1) : text[j] = " "
    <2>1. \A i \in 1..(b + a) : i - b = 1 => \A j \in 1..(i - 1) : j \in 1..b /\ j \in 1..(b + a)
      BY SMT, <1>3
    <2>2. "-" # " "
      BY Zenon
    <2> QED
      BY Zenon, <1>7, <2>1, <2>2
  <1>11. minus <=> \E i \in 1..(b + a) : text[i] = "-"
    <2>1. ASSUME minus PROVE \E i \in 1..(b + a) : text[i] = "-"
      <3>1. a = 1
        BY Zenon, <1>1, <2>1
      <3>2. 1 \in 1..a /\ b + 1 \in 1..(b + a)
        BY SMT, <1>3, <3>1
      <3> QED
        BY Zenon, <1>1, <1>3, <1>30, <3>2
    <2>2. ASSUME NEW i \in 1..(b + a), text[i] = "-" PROVE minus
      <3>1. i \notin 1..b
        BY Zenon, <1>7, <2>2
      <3>2. a = 1
        BY SMT, <1>1, <1>3, <3>1
      <3> QED
        BY Zenon, <1>1, <3>2
    <2> QED
      BY Zenon, <2>1, <2>2
  <1> QED
    BY Zenon, <1>4, <1>5, <1>9, <1>10, <1>11 DEF Placed, text, a, b, c, sign

-----------------------------------------------------------------------------
(* What the text of a number shows.                                        *)

\* What a number is printed as, and where in its field.
LEMMA NumberPrinted ==
    ASSUME NEW d \in Directive, d.key \in NumberKeys, ~(d.zero /\ d.left),
           NEW arg, arg.num \in Int, arg.str \in Seq(STRING), NEW width \in Int,
           NEW max \in Int, max >= Word
    PROVE  \E o \in Nat : Placed(StringPrint(d, arg, width, max).text, Converted(d, arg), o,
                                 Negative(d, arg))
  <1> DEFINE body == Converted(d, arg)
             len == Length(d, body, max)
             pad == Padding(d, arg, width, len)
             minus == Negative(d, arg)
             sign == IF minus THEN <<"-">> ELSE <<>>
             number == SubSeq(body, 1, len)
             text == CASE d.zero /\ d.left   -> sign \o number \o pad
                       [] d.zero /\ ~d.left  -> sign \o pad \o number
                       [] ~d.zero /\ d.left  -> sign \o number \o pad
                       [] ~d.zero /\ ~d.left -> pad \o sign \o number
  <1>1. StringPrint(d, arg, width, max).text = text
    <2>1. StringPrint(d, arg, width, max) =
            [text |-> text,
             len |-> Len(text) - (IF d.zero THEN 0 ELSE Len(sign))]
      BY Zenon DEF StringPrint
    <2> HIDE DEF text, sign
    <2> QED
      BY SMT, <2>1
  <1>2. d.key \in Known /\ d.key \notin {"c", "%"}
    BY Zenon DEF Known, NumberKeys
  <1>3. body \in Seq(Chars)
    BY Zenon, <1>2, ConvertedIs
  <1>4. Len(body) \in Nat /\ Len(body) <= Word
    <2>1. body = Numeral(Unsigned(d.key, arg.num), Base(d.key), DigitTable(d.key))
      BY Zenon DEF Converted, NumberKeys
    <2> QED
      BY Zenon, <2>1, DigitsFit
  <1>5. len = Len(body)
    <2> DEFINE n == Len(body)
    <2>1. len = IF n < max THEN n ELSE AtLeast0(max)
      BY Zenon, <1>2 DEF Length
    <2>2. n \in Nat /\ n <= Word
      BY Zenon, <1>4
    <2> HIDE DEF n, len
    <2>3. len = n
      BY SMT, <2>1, <2>2, WordAssumption DEF AtLeast0
    <2> QED
      BY Zenon, <2>3 DEF n
  <1> HIDE DEF body
  <1>6. number = body
    <2>1. SubSeq(body, 1, Len(body)) = body
      BY SMT, <1>3
    <2> QED
      BY Zenon, <1>5, <2>1
  <1>7. minus \in BOOLEAN
    BY Zenon DEF Negative
  <1>8. sign = Sign(minus)
    BY Zenon DEF Sign
  <1>9. Filled(pad, IF d.zero THEN "0" ELSE Blank)
    <2> DEFINE fill == IF d.zero THEN "0" ELSE Blank
               one == IF minus THEN 1 ELSE 0
               k == width - len - one
    <2>1. "0" \in Chars /\ Blank \in Chars
      BY Zenon DEF Chars, Blank
    <2>2. pad = Copies(fill, k)
      BY Zenon DEF Padding, Blank
    <2>3. fill \in Chars
      BY Zenon, <2>1
    <2>4. one \in Int
      BY SMT
    <2>5. len \in Int
      BY SMT, <1>4, <1>5
    <2> HIDE DEF fill, one, len
    <2>6. k \in Int
      BY SMT, <2>4, <2>5
    <2> HIDE DEF k, pad
    <2>7. /\ Copies(fill, k) \in Seq(Chars) /\ Len(Copies(fill, k)) = AtLeast0(k)
          /\ \A i \in 1..AtLeast0(k) : Copies(fill, k)[i] = fill
      BY Zenon, <2>3, <2>6, CopiesAre
    <2> QED
      BY Zenon, <2>2, <2>7 DEF Filled, fill
  <1>10. d.zero \in BOOLEAN /\ d.left \in BOOLEAN
    BY SMT DEF Directive
  <1> DEFINE sgn == Sign(minus)
  <1>11. /\ d.zero => text = sgn \o pad \o body
         /\ ~d.zero /\ d.left => text = sgn \o body \o pad
         /\ ~d.zero /\ ~d.left => text = pad \o sgn \o body
    <2> HIDE DEF sign, number, pad, minus
    <2>1. /\ d.zero => text = sign \o pad \o number
          /\ ~d.zero /\ d.left => text = sign \o number \o pad
          /\ ~d.zero /\ ~d.left => text = pad \o sign \o number
      BY Zenon, <1>10
    <2> HIDE DEF text
    <2> QED
      BY Zenon, <1>6, <1>8, <2>1
  <1>12. Len(sgn) \in Nat /\ (Filled(pad, "0") \/ Filled(pad, Blank) => Len(pad) \in Nat)
    <2>1. Len(sgn) \in 0..1
      BY Zenon, <1>7, SignIs
    <2> HIDE DEF sgn
    <2>2. Len(sgn) \in Nat
      BY SMT, <2>1
    <2>3. \A s \in Seq(Chars) : Len(s) \in Nat
      BY SMT
    <2> QED
      BY Zenon, <2>2, <2>3 DEF Filled
  <1> HIDE DEF text, pad, minus, sign, number
  <1>13. \A a \in Nat, b \in Nat : a + b \in Nat
    BY SMT
  <1>14. CASE d.zero
    <2>1. Filled(pad, "0") /\ text = sgn \o pad \o body
      BY Zenon, <1>9, <1>11, <1>14
    <2>2. Placed(text, body, Len(sgn) + Len(pad), minus)
      BY Zenon, <1>3, <1>7, <2>1, ZerosBetween
    <2> QED
      BY Zenon, <1>1, <1>12, <1>13, <2>1, <2>2 DEF body, minus
  <1>15. CASE ~d.zero /\ d.left
    <2>1. Filled(pad, Blank) /\ text = sgn \o body \o pad
      BY Zenon, <1>9, <1>11, <1>15
    <2>2. Placed(text, body, Len(sgn), minus)
      BY Zenon, <1>3, <1>7, <2>1, BlanksBehind
    <2> QED
      BY Zenon, <1>1, <1>12, <2>2 DEF body, minus
  <1>16. CASE ~d.zero /\ ~d.left
    <2>1. Filled(pad, Blank) /\ text = pad \o sgn \o body
      BY Zenon, <1>9, <1>11, <1>16
    <2>2. Placed(text, body, Len(pad) + Len(sgn), minus)
      BY Zenon, <1>3, <1>7, <2>1, BlanksBefore
    <2> QED
      BY Zenon, <1>1, <1>12, <1>13, <2>1, <2>2 DEF body, minus
  <1> QED
    BY Zenon, <1>14, <1>15, <1>16

\* The sign is where it should be, and nowhere else.
LEMMA SignRead ==
    ASSUME NEW text, Len(text) \in Nat, DOMAIN text = 1..Len(text), NEW table, Legible(table),
           NEW number, Len(number) \in Nat, Digits(number, table), NEW o \in Nat, NEW minus,
           Placed(text, number, o, minus)
    PROVE  /\ "-" \in ToSet(text) <=> minus
           /\ \A i \in DOMAIN text : text[i] = "-" => \A j \in 1..(i - 1) : text[j] = " "
  <1> DEFINE N == Len(text)
             m == Len(number)
  <1>1. N \in Nat /\ m \in Nat
    BY Zenon
  <1>2. /\ o <= N
        /\ \A i \in 1..m : text[o + i] = number[i]
        /\ \A i \in (o + m + 1)..N : text[i] = " "
        /\ \A i \in 1..o : text[i] = "-" => \A j \in 1..(i - 1) : text[j] = " "
        /\ minus <=> \E i \in 1..o : text[i] = "-"
    BY Zenon DEF Placed, Leading, Lies, Trailing
  <1> HIDE DEF N, m
  <1>3. \A i \in 1..N : \/ i \in 1..o \/ i \in (o + m + 1)..N
                        \/ i - o \in 1..m /\ o + (i - o) = i
    BY SMT, <1>1
  <1>4. \A i \in 1..m : number[i] # "-"
    BY Zenon DEF Legible, Digits, m
  <1>5. " " # "-"
    BY Zenon
  <1>6. \A i \in 1..N : text[i] = "-" => i \in 1..o
    <2>1. \A i \in 1..N : i - o \in 1..m /\ o + (i - o) = i => text[i] # "-"
      BY Zenon, <1>2, <1>4
    <2> QED
      BY Zenon, <1>2, <1>3, <1>5, <2>1
  <1>7. \A i \in 1..o : i \in 1..N
    <2>1. o <= N
      BY Zenon, <1>2
    <2> QED
      BY SMT, <1>1, <2>1
  <1>8. DOMAIN text = 1..N
    BY Zenon DEF N
  <1>9. "-" \in ToSet(text) <=> \E i \in 1..N : text[i] = "-"
    BY Zenon, <1>8 DEF ToSet
  <1> QED
    BY Zenon, <1>2, <1>6, <1>7, <1>8, <1>9

\* What is printed of a number, its sign apart.
LEMMA SignedIs ==
    ASSUME NEW key, NEW num \in -INT_MAX - 1..INT_MAX
    PROVE  LET u == Unsigned(key, num)
           IN  (IF key = "d" /\ num < 0 THEN -u ELSE u)
                 = (IF key = "d" THEN num ELSE num % TwoTo[Word])
  <1> DEFINE t == TwoTo[Word]
  <1>1. INT_MAX \in Nat /\ t \in Nat /\ t = 2 * (INT_MAX + 1)
    BY Zenon, Ints
  <1>2. Unsigned(key, num) = (IF key = "d" /\ num < 0 THEN -num ELSE num) % t
    BY Zenon DEF Unsigned
  <1> HIDE DEF t
  <1>3. num \in Int
    BY SMT, <1>1
  <1>4. num < 0 => (-num) % t = -num /\ -(-num) = num
    BY SMT, <1>1
  <1>5. ~(num < 0) => num % t = num
    BY SMT, <1>1
  <1> QED
    BY Zenon, <1>2, <1>4, <1>5 DEF t

\* The number of a call, and its maximum.
LEMMA OperandIs ==
    ASSUME NEW d, d.key \in NumberKeys, NEW args \in Seq(Arguments), Len(args) >= Takes(d)
    PROVE  /\ ArgTaken(d, args) = args[Takes(d)]
           /\ MaxTaken(d, args) = IF d.max = Star THEN args[Takes(d) - 1].num ELSE d.max
  <1> DEFINE n == Len(args)
  <1>1. n \in Nat
    BY SMT
  <1>2. d.key \in Known \ {"%"} /\ d.key # "%"
    BY Zenon DEF Known, NumberKeys
  <1>3. Takes(d) = (IF d.width = Star THEN 1 ELSE 0) + (IF d.max = Star THEN 1 ELSE 0) + 1
    BY Zenon, <1>2 DEF Takes
  <1>4. \A s \in Seq(Arguments) :
          s # <<>> => /\ Head(s) = s[1] /\ Tail(s) \in Seq(Arguments) /\ Len(Tail(s)) = Len(s) - 1
                      /\ \A i \in 1..(Len(s) - 1) : Tail(s)[i] = s[i + 1]
    BY SMT
  <1>5. \A s \in Seq(Arguments) : Len(s) >= 1 => s # <<>>
    BY SMT
  <1>6. ArgTaken(d, args) = Head(AfterMax(d, args))
    BY Zenon, <1>2 DEF ArgTaken
  <1>7. CASE d.width = Star /\ d.max = Star
    <2>1. Takes(d) = (1 + 1) + 1
      BY Zenon, <1>3, <1>7
    <2>2. AfterMax(d, args) = Tail(Tail(args)) /\ MaxTaken(d, args) = Head(Tail(args)).num
      BY Zenon, <1>7 DEF AfterMax, AfterWidth, MaxTaken
    <2>3. (1 + 1) + 1 = 3 /\ ((1 + 1) + 1) - 1 = 2
      BY SMT
    <2>4. n >= 3
      BY Zenon, <2>1, <2>3
    <2> HIDE DEF n
    <2>5. /\ n >= 1 /\ n - 1 >= 1 /\ n - 1 - 1 >= 1
          /\ 1 \in 1..(n - 1) /\ 2 \in 1..(n - 1) /\ 1 \in 1..(n - 1 - 1)
          /\ 1 + 1 = 2 /\ 2 + 1 = 3
      BY SMT, <1>1, <2>4
    <2> USE DEF n
    <2>6. /\ Tail(args) \in Seq(Arguments) /\ Len(Tail(args)) = n - 1 /\ Tail(args) # <<>>
          /\ Tail(args)[1] = args[2] /\ Tail(args)[2] = args[3]
      BY Zenon, <1>4, <1>5, <2>5
    <2>7. /\ Head(Tail(args)) = args[2]
          /\ Tail(Tail(args)) \in Seq(Arguments) /\ Tail(Tail(args)) # <<>>
          /\ Tail(Tail(args))[1] = Tail(args)[1 + 1]
      BY Zenon, <1>4, <1>5, <2>5, <2>6
    <2>8. Head(Tail(Tail(args))) = args[3]
      BY Zenon, <1>4, <2>5, <2>6, <2>7
    <2> QED
      BY Zenon, <1>6, <1>7, <2>1, <2>2, <2>3, <2>7, <2>8
  <1>8. CASE ~(d.width = Star /\ d.max = Star) /\ (d.width = Star \/ d.max = Star)
    <2>0. 1 + 0 + 1 = 2 /\ 0 + 1 + 1 = 2
      BY SMT
    <2>1. Takes(d) = 2
      BY Zenon, <1>3, <1>8, <2>0
    <2>2. /\ AfterMax(d, args) = Tail(args)
          /\ MaxTaken(d, args) = IF d.max = Star THEN Head(args).num ELSE d.max
      BY Zenon, <1>8 DEF AfterMax, AfterWidth, MaxTaken
    <2>4. n >= 2
      BY Zenon, <2>1
    <2> HIDE DEF n
    <2>5. n >= 1 /\ n - 1 >= 1 /\ 1 \in 1..(n - 1) /\ 1 + 1 = 2 /\ 2 - 1 = 1
      BY SMT, <1>1, <2>4
    <2> USE DEF n
    <2>6. /\ Tail(args) \in Seq(Arguments) /\ Tail(args) # <<>>
          /\ Tail(args)[1] = args[2] /\ Head(args) = args[1]
      BY Zenon, <1>4, <1>5, <2>5
    <2>7. Head(Tail(args)) = args[2]
      BY Zenon, <1>4, <2>6
    <2> QED
      BY Zenon, <1>6, <2>1, <2>2, <2>5, <2>6, <2>7
  <1>9. CASE d.width # Star /\ d.max # Star
    <2>0. 0 + 0 + 1 = 1
      BY SMT
    <2>1. Takes(d) = 1
      BY Zenon, <1>3, <1>9, <2>0
    <2>2. AfterMax(d, args) = args /\ MaxTaken(d, args) = d.max
      BY Zenon, <1>9 DEF AfterMax, AfterWidth, MaxTaken
    <2>3. Head(args) = args[1]
      BY Zenon, <1>4, <1>5, <2>1
    <2> QED
      BY Zenon, <1>6, <1>9, <2>1, <2>2, <2>3
  <1> QED
    BY Zenon, <1>7, <1>8, <1>9

\* A number can be read back.
LEMMA ReadBack ==
    ASSUME NEW call \in Calls \cup KeyCalls, Len(call.fmt) = 1, call.fmt[1].key \in NumberKeys
    PROVE  LET d     == call.fmt[1]
               num   == OperandOf(call).num
               text  == Vsprintf(call).text
               shown == Shown(text, Base(d.key), DigitTable(d.key))
           IN  /\ Len(Converted(d, OperandOf(call))) + 1 <= TempSize
               /\ ~(d.zero /\ d.left) /\ MaxOf(call) >= Word =>
                 /\ (IF "-" \in ToSet(text) THEN -shown ELSE shown) =
                      (IF d.key = "d" THEN num ELSE num % TwoTo[Word])
                 /\ \A i \in DOMAIN text :
                      text[i] = "-" => \A j \in 1..i - 1 : text[j] = " "
  <1> DEFINE d == call.fmt[1]
             args == call.args
             arg == ArgTaken(d, args)
             max == MaxTaken(d, args)
             width == WidthTaken(d, args)
             text == Vsprintf(call).text
             body == Converted(d, arg)
             u == Unsigned(d.key, arg.num)
             base == Base(d.key)
             table == DigitTable(d.key)
             shown == Shown(text, base, table)
  <1>1. d \in Directive /\ args \in Seq(Arguments) /\ Len(args) >= Takes(d)
    <2>1. /\ call.fmt \in Seq(Directive) /\ args \in Seq(Arguments)
          /\ \A n \in DOMAIN call.fmt : Len(Turns(call)[n - 1].args) >= Takes(call.fmt[n])
      BY Zenon, CallsAssumption DEF Arguments
    <2>2. 1 \in DOMAIN call.fmt /\ call.fmt[1] \in Directive /\ 1 - 1 = 0
      BY SMT, <2>1
    <2>3. Len(Turns(call)[0].args) >= Takes(d)
      BY Zenon, <2>1, <2>2
    <2> QED
      BY Zenon, <2>1, <2>2, <2>3, OneTurn
  <1>2. d.key \in Known /\ d.key # "%"
    BY Zenon DEF Known, NumberKeys
  <1>3. /\ width \in Int /\ max \in Int /\ arg \in Arguments
        /\ arg.num \in Int /\ arg.str \in Seq(STRING)
    BY Zenon, <1>1, <1>2, TakenIs
  <1>4. arg = OperandOf(call) /\ max = MaxOf(call)
    BY Zenon, <1>1, OperandIs DEF OperandOf, MaxOf
  <1>5. arg.num \in -INT_MAX - 1..INT_MAX
    <2> HIDE DEF arg
    <2> QED
      BY SMT, <1>3 DEF Arguments
  <1>6. body = Numeral(u, base, table)
    BY Zenon DEF Converted, NumberKeys
  <1>7. Len(body) + 1 <= TempSize /\ Len(body) \in Nat
    BY Zenon, <1>3, <1>6, DigitsFit
  <1>8. u \in Nat
    BY Zenon, <1>1, <1>2, <1>3, ConvertedIs
  <1>9. base \in Nat /\ base > 1 /\ base <= 16
    <2>1. base \in {8, 10, 16}
      BY Zenon, TablesAre
    <2> HIDE DEF base
    <2> QED
      BY SMT, <2>1
  <1>10. Tabled(table, base) /\ Legible(table)
    <2>1. table \in {x2c_tab, X2C_tab}
      BY Zenon DEF DigitTable
    <2> QED
      BY Zenon, <2>1, TablesAre, TablesLegible
  <1>11. text = StringPrint(d, arg, width, max).text /\ text \in Seq(Chars)
    BY Zenon, <1>1, <1>2, OneField
  <1>12. ASSUME ~(d.zero /\ d.left), max >= Word
         PROVE  /\ shown = u
                /\ "-" \in ToSet(text) <=> Negative(d, arg)
                /\ \A i \in DOMAIN text : text[i] = "-" => \A j \in 1..(i - 1) : text[j] = " "
    <2>1. PICK o \in Nat : Placed(text, body, o, Negative(d, arg))
      BY Zenon, <1>1, <1>3, <1>11, <1>12, NumberPrinted
    <2> HIDE DEF text, base, table, u
    <2>2. Len(text) \in Nat /\ DOMAIN text = 1..Len(text)
      BY SMT, <1>11
    <2>3. Digits(body, table)
      BY Zenon, <1>6, <1>8, <1>9, <1>10, NumeralDigits
    <2>4. /\ Leading(text, o) /\ Lies(Numeral(u, base, table), text, o)
          /\ Trailing(text, o + Len(Numeral(u, base, table)))
      BY Zenon, <1>6, <2>1 DEF Placed
    <2>5. shown = u
      BY Zenon, <1>8, <1>9, <1>10, <2>2, <2>4, NumberShown
    <2> HIDE DEF body
    <2>6. /\ "-" \in ToSet(text) <=> Negative(d, arg)
          /\ \A i \in DOMAIN text : text[i] = "-" => \A j \in 1..(i - 1) : text[j] = " "
      BY Zenon, <1>7, <1>10, <2>1, <2>2, <2>3, SignRead
    <2> QED
      BY Zenon, <2>5, <2>6
  <1>13. (IF d.key = "d" /\ arg.num < 0 THEN -u ELSE u)
           = (IF d.key = "d" THEN arg.num ELSE arg.num % TwoTo[Word])
    BY Zenon, <1>5, SignedIs
  <1>14. ASSUME ~(d.zero /\ d.left), max >= Word
         PROVE  (IF "-" \in ToSet(text) THEN -shown ELSE shown) =
                  (IF d.key = "d" THEN arg.num ELSE arg.num % TwoTo[Word])
    <2>1. shown = u /\ ("-" \in ToSet(text) <=> d.key = "d" /\ arg.num < 0)
      BY Zenon, <1>12, <1>14 DEF Negative
    <2> HIDE DEF shown, u, text
    <2> QED
      BY Zenon, <1>13, <2>1
  <1> HIDE DEF text, shown, body, arg, max, u, base, table
  <1>15. ~(d.zero /\ d.left) /\ MaxOf(call) >= Word =>
           /\ (IF "-" \in ToSet(text) THEN -shown ELSE shown) =
                (IF d.key = "d" THEN OperandOf(call).num ELSE OperandOf(call).num % TwoTo[Word])
           /\ \A i \in DOMAIN text : text[i] = "-" => \A j \in 1..i - 1 : text[j] = " "
    BY Zenon, <1>4, <1>12, <1>14
  <1>16. Len(Converted(d, OperandOf(call))) + 1 <= TempSize
    BY Zenon, <1>4, <1>7 DEF body
  <1> QED
    BY Zenon, <1>15, <1>16 DEF text, shown, base, table

-----------------------------------------------------------------------------
(* What the formatters make of every call.                                 *)

\* vsprintf.c:158-186: every field has the width that was asked for and is
\* not wider than its text needs, and no message is too long for the buffer,
\* whatever is printed by whom and for every width of a word.
THEOREM FieldsAreFilled == PrintingSpec => []FieldsFilled
  <1>1. PrintingTypeOK => FieldsFilled
    <2>1. SUFFICES ASSUME PrintingTypeOK PROVE FieldsFilled
      BY Zenon
    <2>2. ASSUME NEW call \in Single, call.fmt[1].key \in Known
          PROVE  call \in Calls \cup KeyCalls /\ Len(call.fmt) = 1
      BY Zenon, <2>1, CallsUnderWay DEF Single
    <2> QED
      BY Zenon, <2>2, BuffersDo, FieldFilled DEF FieldsFilled
  <1>2. PrintInv => PrintingTypeOK
    BY DEF PrintInv, PrintsItsOwn
  <1> QED
    BY <1>1, <1>2, PrintInvariance, PTL

\* printk.c:89-153: for characters, strings and positive numbers printk makes
\* the text of k_printf but for hexadecimal letters, with which it never makes
\* it, and leaves the cursor where low_print leaves it, for every width of a
\* word and of a line.
THEOREM PrintkDoesAgree == PrintingSpec => []PrintkAgrees
  <1>1. PrintingTypeOK => PrintkAgrees
    <2>1. SUFFICES ASSUME PrintingTypeOK PROVE PrintkAgrees
      BY Zenon
    <2>2. ASSUME NEW call \in {c \in {active[k].call : k \in DOMAIN active} : c # <<>>},
                 Plain(call)
          PROVE  LET text  == Vsprintf(call).text
                     other == Printk(call)
                     place == PrintcPlace(other)
                 IN  /\ other = text <=> ~HasLetter(call)
                     /\ Len(other) = Len(text)
                     /\ \A i \in DOMAIN text : Respelt(other[i], text[i])
                     /\ Len(text) <= Cols =>
                          place.row * Cols + place.col = CellBehind(text)
      <3> DEFINE text == Vsprintf(call).text
                 other == Printk(call)
      <3>1. call \in Calls \cup KeyCalls
        BY Zenon, <2>1, CallsUnderWay
      <3>2. Alike(other, text) /\ (other = text <=> ~HasLetter(call))
        BY Zenon, <2>2, <3>1, SameText
      <3> HIDE DEF text, other
      <3>3. DOMAIN text = 1..Len(text)
        <4>1. text \in Seq(Chars)
          BY Zenon, <3>2 DEF Alike
        <4> QED
          BY SMT, <4>1
      <3>4. Len(text) <= Cols =>
              PrintcPlace(other).row * Cols + PrintcPlace(other).col = CellBehind(text)
        BY Zenon, <3>2, SameCursor
      <3> QED
        BY Zenon, <3>2, <3>3, <3>4 DEF text, other, Alike
    <2> QED
      BY Zenon, <2>2 DEF PrintkAgrees
  <1>2. PrintInv => PrintingTypeOK
    BY DEF PrintInv, PrintsItsOwn
  <1> QED
    BY <1>1, <1>2, PrintInvariance, PTL

\* vsprintf.c:107-186
THEOREM NumbersAreReadBack == PrintingSpec => []NumbersReadBack
  <1>1. PrintingTypeOK => NumbersReadBack
    <2>1. SUFFICES ASSUME PrintingTypeOK PROVE NumbersReadBack
      BY Zenon
    <2>2. ASSUME NEW call \in Single, call.fmt[1].key \in NumberKeys
          PROVE  call \in Calls \cup KeyCalls /\ Len(call.fmt) = 1
      BY Zenon, <2>1, CallsUnderWay DEF Single
    <2> QED
      BY Zenon, <2>2, ReadBack DEF NumbersReadBack
  <1>2. PrintInv => PrintingTypeOK
    BY DEF PrintInv, PrintsItsOwn
  <1> QED
    BY <1>1, <1>2, PrintInvariance, PTL
=============================================================================
