--------------------------- MODULE KeyboardProofs ---------------------------
(***************************************************************************)
(* Theorems about Keyboard: what TLC checks with four codes waiting, for   *)
(* any number of them, and for all keys that no hazard is known of: not    *)
(* both shift keys, and no lock keys (Simple).                             *)
(*                                                                         *)
(* The codes that wait are a schedule of what the handler will come to     *)
(* know.  DownAt says what it will know of a modifier once it has taken    *)
(* the first n of them: what the last code about that modifier says, or    *)
(* what it knows already if there is none.  After all of them it knows the *)
(* keys that are down, and before each character it knows what was down    *)
(* when that was typed.                                                    *)
(***************************************************************************)
EXTENDS Keyboard, SequenceTheorems, TLAPS

Simple == Keys \cap Locks = {} /\ ~({"LShift", "RShift"} \subseteq Keys)

Sides == {"left", "right"}

SideOf(key) == Side(key \in {"RCtrl", "RAlt"})

\* The i-th code that waits comes behind the prefix.
Ext(i) == IF i = 1 THEN kb.esc ELSE line[i - 1].code = "EXTKEY"

SideAt(i) == IF line[i].code = "SHIFT" THEN "left" ELSE Side(Ext(i))

About(i, pair, side) == line[i].code = pair /\ SideAt(i) = side

DownAt(n, pair, side) ==
    \/ \E i \in 1..n : /\ About(i, pair, side) /\ line[i].make
                       /\ \A j \in i + 1..n : ~About(j, pair, side)
    \/ /\ \A j \in 1..n : ~About(j, pair, side)
       /\ side \in kb.side[pair]

\* The flag of a pair that does not tell the sides apart.
PairAt(n, pair) == DownAt(n, pair, "left") \/ DownAt(n, pair, "right")

ColumnAt(n) == Column(PairAt(n, "SHIFT"), PairAt(n, "CTRL"), PairAt(n, "ALT"),
                      DownAt(n, "ALT", "right"))

\* No lock is ever touched, and the flags of a pair agree.
Plain ==
    /\ kb.locks = {"Num"} /\ toggled = {"Num"}
    /\ \A pair \in Pairs : kb.down[pair] = (kb.side[pair] # {})
    /\ \A i \in 1..Len(line) : line[i].code \in Pairs \cup {"EXTKEY"} \cup Printing

\* A prefix is always followed by the code it belongs to.
Prefixed ==
    /\ kb.esc => line # <<>> /\ line[1].code # "EXTKEY"
    /\ \A i \in 1..Len(line) : line[i].code = "EXTKEY" =>
         i < Len(line) /\ line[i + 1].code # "EXTKEY"

\* After the last of the codes that wait.
Tracked ==
    \A n \in {Len(line)}, pair \in Pairs, side \in Sides :
        DownAt(n, pair, side)
          <=> \E key \in held : Code(key) = pair /\ SideOf(key) = side

Typed ==
    \A i \in 1..Len(line) :
        line[i].code \in Printing /\ line[i].make => line[i].want = ColumnAt(i - 1)

KeyInv == KeyboardTypeOK /\ Plain /\ Prefixed /\ Tracked /\ Typed

-----------------------------------------------------------------------------
(* The handler.                                                            *)

\* The handler takes one code: without lock keys nothing else is lost.
LEMMA HandleTakes ==
    ASSUME KeyInv, Handle
    PROVE  /\ Len(line) \in Nat \ {0} /\ Len(line') = Len(line) - 1
           /\ line' \in Seq(CodeType) /\ line[1] \in CodeType
           /\ \A i \in 1..Len(line) - 1 : line'[i] = line[i + 1]
           /\ kb' = MakeBreak(line[1])
           /\ UNCHANGED <<held, toggled>>
  <1>1. line \in Seq(CodeType) /\ line # <<>> /\ Head(line) = line[1]
    BY DEF KeyInv, KeyboardTypeOK, Handle
  <1>2. Len(line) \in Nat \ {0}
    BY <1>1
  <1>3. ~SetsLed(Head(line))
    BY <1>1, <1>2 DEF KeyInv, Plain, SetsLed, Pairs, Printing
  <1>4. line' = SubSeq(line, 2, Len(line))
    BY <1>2, <1>3 DEF Handle
  <1>5. /\ line' \in Seq(CodeType) /\ Len(line') = Len(line) - 1
        /\ \A i \in 1..Len(line) - 1 : line'[i] = line[i + 1]
    <2>1. line' = Tail(line)
      BY <1>1, <1>4, TailIsSubSeq
    <2>2. /\ Tail(line) \in Seq(CodeType) /\ Len(Tail(line)) = Len(line) - 1
          /\ \A i \in 1..Len(Tail(line)) : Tail(line)[i] = line[i + 1]
      BY <1>1, HeadTailProperties
    <2> QED BY <2>1, <2>2
  <1> QED BY <1>1, <1>2, <1>5 DEF Handle

\* What the handler makes of a code, field by field.
LEMMA TakenCode ==
    ASSUME KeyInv, Handle
    PROVE  /\ kb' \in KbType /\ kb'.locks = {"Num"}
           /\ kb'.esc <=> line[1].code = "EXTKEY"
           /\ \A pair \in Pairs :
                /\ kb'.down[pair] = (kb'.side[pair] # {})
                /\ \A side \in Sides :
                     side \in kb'.side[pair] <=>
                       IF About(1, pair, side) THEN line[1].make
                       ELSE side \in kb.side[pair]
  <1> DEFINE c == line[1]
  <1>1. c \in CodeType /\ kb' = MakeBreak(c) /\ Len(line) \in Nat \ {0}
    BY HandleTakes
  <1>2. /\ kb \in KbType /\ kb.locks = {"Num"}
        /\ \A pair \in Pairs : kb.down[pair] = (kb.side[pair] # {})
        /\ c.code \in Pairs \cup {"EXTKEY"} \cup Printing
    BY <1>1 DEF KeyInv, KeyboardTypeOK, Plain
  <1>3. CASE c.code \in Pairs
    <2> DEFINE side == SideNoted(c.code)
               sides == IF c.make THEN kb.side[c.code] \cup {side}
                                  ELSE kb.side[c.code] \ {side}
    <2>1. kb' = NoteModifier(c.code, c.make)
      BY <1>1, <1>3 DEF MakeBreak, Pairs
    <2>2. kb' = [kb EXCEPT !.esc = FALSE, !.side[c.code] = sides,
                           !.down[c.code] = (sides # {})]
      BY <2>1 DEF NoteModifier
    <2>3. side \in Sides /\ side = SideAt(1)
      BY DEF SideNoted, Side, Sides, SideAt, Ext
    <2>4. sides \in SUBSET Sides
      BY <1>2, <1>3, <2>3 DEF KbType, Sides
    <2>5. \A s \in Sides : s \in sides <=> IF s = side THEN c.make
                                           ELSE s \in kb.side[c.code]
      BY <2>3
    <2> HIDE DEF sides, side
    <2>6. /\ kb'.locks = kb.locks /\ kb'.esc = FALSE
          /\ kb'.side = [kb.side EXCEPT ![c.code] = sides]
          /\ kb'.down = [kb.down EXCEPT ![c.code] = (sides # {})]
      BY <1>2, <2>2 DEF KbType
    <2>7. kb' \in KbType
      <3>1. (sides # {}) \in BOOLEAN
        OBVIOUS
      <3>2. [kb.side EXCEPT ![c.code] = sides] \in [Pairs -> SUBSET {"left", "right"}]
        BY <1>2, <2>4 DEF KbType, Sides
      <3>3. [kb.down EXCEPT ![c.code] = (sides # {})] \in [Pairs -> BOOLEAN]
        BY <1>2, <3>1 DEF KbType
      <3> QED BY <1>2, <2>2, <3>2, <3>3 DEF KbType
    <2>8. ASSUME NEW pair \in Pairs
          PROVE  /\ kb'.down[pair] = (kb'.side[pair] # {})
                 /\ \A s \in Sides :
                     s \in kb'.side[pair] <=>
                       IF About(1, pair, s) THEN c.make ELSE s \in kb.side[pair]
      <3>1. CASE pair = c.code
        <4>1. kb'.side[pair] = sides /\ kb'.down[pair] = (sides # {})
          BY <1>2, <2>6, <3>1 DEF KbType
        <4> QED BY <2>3, <2>5, <3>1, <4>1 DEF About
      <3>2. CASE pair # c.code
        <4>1. kb'.side[pair] = kb.side[pair] /\ kb'.down[pair] = kb.down[pair]
          BY <1>2, <2>6, <3>2 DEF KbType
        <4> QED BY <1>2, <3>2, <4>1 DEF About
      <3> QED BY <3>1, <3>2
    <2>9. c.code # "EXTKEY"
      BY <1>3 DEF Pairs
    <2> QED BY <1>2, <2>6, <2>7, <2>8, <2>9
  <1>4. CASE c.code \notin Pairs
    <2>1. kb' = [kb EXCEPT !.esc = (c.code = "EXTKEY")]
      BY <1>1, <1>2, <1>4 DEF MakeBreak, Pairs, Printing
    <2>2. (c.code = "EXTKEY") \in BOOLEAN
      OBVIOUS
    <2>3. kb' \in KbType /\ kb'.esc = (c.code = "EXTKEY")
      BY <1>2, <2>1, <2>2 DEF KbType
    <2>4. kb'.locks = kb.locks /\ kb'.side = kb.side /\ kb'.down = kb.down
      BY <1>2, <2>1 DEF KbType
    <2>5. \A pair \in Pairs, s \in Sides : ~About(1, pair, s)
      BY <1>4 DEF About
    <2> QED BY <1>2, <2>3, <2>4, <2>5
  <1> QED BY <1>3, <1>4

\* The schedule moves on by one.
LEMMA HandleShifts ==
    ASSUME KeyInv, Handle
    PROVE  \A n \in 0..Len(line) - 1, pair \in Pairs, side \in Sides :
             DownAt(n, pair, side)' <=> DownAt(n + 1, pair, side)
  <1>1. /\ Len(line) \in Nat \ {0} /\ Len(line') = Len(line) - 1
        /\ \A i \in 1..Len(line) - 1 : line'[i] = line[i + 1]
    BY HandleTakes
  <1>2. \A i \in 1..Len(line) - 1 : Ext(i)' <=> Ext(i + 1)
    <2> TAKE i \in 1..Len(line) - 1
    <2>1. CASE i = 1
      BY <1>1, <2>1, TakenCode DEF Ext
    <2>2. CASE i # 1
      <3>1. i - 1 \in 1..Len(line) - 1 /\ i - 1 + 1 = i /\ i + 1 - 1 = i /\ i + 1 # 1
        BY <1>1, <2>2
      <3> QED BY <1>1, <2>2, <3>1 DEF Ext
    <2> QED BY <2>1, <2>2
  <1>3. ASSUME NEW i \in 1..Len(line) - 1, NEW pair \in Pairs, NEW side \in Sides
        PROVE  /\ About(i, pair, side)' <=> About(i + 1, pair, side)
               /\ line'[i].make = line[i + 1].make
    BY <1>1, <1>2 DEF About, SideAt, Side
  <1> SUFFICES ASSUME NEW n \in 0..Len(line) - 1, NEW pair \in Pairs, NEW side \in Sides
               PROVE  DownAt(n, pair, side)' <=> DownAt(n + 1, pair, side)
    OBVIOUS
  <1> DEFINE Before(j) == About(j, pair, side)
             After(j)  == About(j, pair, side)'
  <1>4. /\ n \in Nat /\ \A i \in 1..n : i \in 1..Len(line) - 1
        /\ \A i \in 1..n : After(i) <=> Before(i + 1)
        /\ \A i \in 1..n : line'[i].make = line[i + 1].make
    BY <1>1, <1>3
  <1>5. side \in kb'.side[pair] <=> IF Before(1) THEN line[1].make
                                    ELSE side \in kb.side[pair]
    BY TakenCode
  <1> DEFINE Old == \/ \E i \in 1..n + 1 : /\ Before(i) /\ line[i].make
                                            /\ \A j \in i + 1..n + 1 : ~Before(j)
                    \/ /\ \A j \in 1..n + 1 : ~Before(j)
                       /\ side \in kb.side[pair]
             New == \/ \E i \in 1..n : /\ After(i) /\ line'[i].make
                                       /\ \A j \in i + 1..n : ~After(j)
                    \/ /\ \A j \in 1..n : ~After(j)
                       /\ side \in kb'.side[pair]
  <1>6. (DownAt(n + 1, pair, side) <=> Old) /\ (DownAt(n, pair, side)' <=> New)
    BY DEF DownAt
  <1> HIDE DEF Before, After
  <1>7. ASSUME Old PROVE New
    <2>1. CASE \E i \in 1..n + 1 : /\ Before(i) /\ line[i].make
                                   /\ \A j \in i + 1..n + 1 : ~Before(j)
      <3>1. PICK i \in 1..n + 1 : /\ Before(i) /\ line[i].make
                                  /\ \A j \in i + 1..n + 1 : ~Before(j)
        BY <2>1
      <3>2. CASE i = 1
        <4>1. \A j \in 1..n : ~After(j)
          BY <1>4, <3>1, <3>2
        <4> QED BY <1>5, <3>1, <3>2, <4>1
      <3>3. CASE i # 1
        <4>1. i - 1 \in 1..n /\ i - 1 + 1 = i
          BY <1>4, <3>3
        <4>2. \A j \in i - 1 + 1..n : ~After(j)
          BY <1>4, <3>1, <4>1
        <4> QED BY <1>4, <3>1, <4>1, <4>2
      <3> QED BY <3>2, <3>3
    <2>2. CASE (\A j \in 1..n + 1 : ~Before(j)) /\ side \in kb.side[pair]
      <3>1. \A j \in 1..n : ~After(j)
        BY <1>4, <2>2
      <3> QED BY <1>4, <1>5, <2>2, <3>1
    <2> QED BY <1>7, <2>1, <2>2
  <1>8. ASSUME New PROVE Old
    <2>1. CASE \E i \in 1..n : /\ After(i) /\ line'[i].make
                               /\ \A j \in i + 1..n : ~After(j)
      <3>1. PICK i \in 1..n : /\ After(i) /\ line'[i].make
                              /\ \A j \in i + 1..n : ~After(j)
        BY <2>1
      <3>2. i + 1 \in 1..n + 1 /\ Before(i + 1) /\ line[i + 1].make
        BY <1>4, <3>1
      <3>3. ASSUME NEW j \in i + 1 + 1..n + 1 PROVE ~Before(j)
        <4>1. j - 1 \in i + 1..n /\ j - 1 \in 1..n /\ j - 1 + 1 = j
          BY <1>4
        <4> QED BY <1>4, <3>1, <4>1
      <3> QED BY <3>2, <3>3
    <2>2. CASE (\A j \in 1..n : ~After(j)) /\ side \in kb'.side[pair]
      <3>1. ASSUME NEW j \in 1..n + 1, j # 1 PROVE ~Before(j)
        <4>1. j - 1 \in 1..n /\ j - 1 + 1 = j
          BY <1>4, <3>1
        <4> QED BY <1>4, <2>2, <4>1
      <3>2. CASE Before(1)
        <4>1. 1 \in 1..n + 1 /\ \A j \in 1 + 1..n + 1 : ~Before(j)
          BY <1>4, <3>1
        <4> QED BY <1>5, <2>2, <3>2, <4>1
      <3>3. CASE ~Before(1)
        <4>1. \A j \in 1..n + 1 : ~Before(j)
          BY <3>1, <3>3
        <4> QED BY <1>5, <2>2, <3>3, <4>1
      <3> QED BY <3>2, <3>3
    <2> QED BY <1>8, <2>1, <2>2
  <1> QED BY <1>6, <1>7, <1>8

\* What the handler will come to know stays what it was.
LEMMA HandleKeeps ==
    ASSUME KeyInv, Handle
    PROVE  KeyInv'
  <1>1. /\ Len(line) \in Nat \ {0} /\ Len(line') = Len(line) - 1
        /\ line' \in Seq(CodeType) /\ line[1] \in CodeType
        /\ \A i \in 1..Len(line) - 1 : line'[i] = line[i + 1]
        /\ UNCHANGED <<held, toggled>>
    BY HandleTakes
  <1>2. KeyboardTypeOK'
    BY <1>1, TakenCode DEF KeyInv, KeyboardTypeOK
  <1>3. Plain'
    BY <1>1, TakenCode DEF KeyInv, Plain
  <1>4. Prefixed'
    <2>1. kb'.esc => line' # <<>> /\ line'[1].code # "EXTKEY"
      <3> SUFFICES ASSUME kb'.esc PROVE line' # <<>> /\ line'[1].code # "EXTKEY"
        OBVIOUS
      <3>1. 1 < Len(line) /\ line[1 + 1].code # "EXTKEY"
        BY <1>1, TakenCode DEF KeyInv, Prefixed
      <3>2. 1 \in 1..Len(line) - 1 /\ Len(line') # 0
        BY <1>1, <3>1
      <3> QED BY <1>1, <3>1, <3>2
    <2>2. ASSUME NEW i \in 1..Len(line'), line'[i].code = "EXTKEY"
          PROVE  i < Len(line') /\ line'[i + 1].code # "EXTKEY"
      <3>1. i \in 1..Len(line) - 1 /\ i + 1 \in 1..Len(line)
        BY <1>1
      <3>2. i + 1 < Len(line) /\ line[i + 1 + 1].code # "EXTKEY"
        BY <1>1, <2>2, <3>1 DEF KeyInv, Prefixed
      <3>3. i + 1 \in 1..Len(line) - 1
        BY <1>1, <3>2
      <3> QED BY <1>1, <3>2, <3>3
    <2> QED BY <2>1, <2>2 DEF Prefixed
  <1>5. Tracked'
    <2> SUFFICES ASSUME NEW n \in {Len(line')}, NEW pair \in Pairs, NEW side \in Sides
                 PROVE  DownAt(n, pair, side)' <=>
                          \E key \in held' : Code(key) = pair /\ SideOf(key) = side
      BY DEF Tracked
    <2>1. n \in 0..Len(line) - 1 /\ n + 1 \in {Len(line)}
      BY <1>1
    <2>2. DownAt(n, pair, side)' <=> DownAt(n + 1, pair, side)
      BY <2>1, HandleShifts
    <2> QED BY <1>1, <2>1, <2>2 DEF KeyInv, Tracked
  <1>6. Typed'
    <2> SUFFICES ASSUME NEW i \in 1..Len(line'),
                        line'[i].code \in Printing, line'[i].make
                 PROVE  line'[i].want = ColumnAt(i - 1)'
      BY DEF Typed
    <2>1. /\ i - 1 \in 0..Len(line) - 1 /\ i - 1 + 1 = i /\ i + 1 - 1 = i
          /\ i \in 1..Len(line) - 1 /\ i + 1 \in 1..Len(line)
      BY <1>1
    <2>2. line'[i].want = ColumnAt(i)
      BY <1>1, <2>1 DEF KeyInv, Typed
    <2>3. \A pair \in Pairs, side \in Sides :
            DownAt(i - 1, pair, side)' <=> DownAt(i, pair, side)
      BY <2>1, HandleShifts
    <2>4. "SHIFT" \in Pairs /\ "CTRL" \in Pairs /\ "ALT" \in Pairs
          /\ "left" \in Sides /\ "right" \in Sides
      BY DEF Pairs, Sides
    <2>5. ColumnAt(i - 1)' = ColumnAt(i)
      BY <2>3, <2>4 DEF ColumnAt, Column, PairAt
    <2> QED BY <2>2, <2>5
  <1> QED BY <1>2, <1>3, <1>4, <1>5, <1>6 DEF KeyInv

-----------------------------------------------------------------------------
(* The keyboard.                                                           *)

\* A column is one of the six of the map.
LEMMA WantedColumn == \A key \in Keys : Wanted(key) \in 0..5
  BY DEF Wanted

\* A key appends its code, behind the prefix if it has one.
LEMMA SendAppends ==
    ASSUME KeyInv, NEW key \in Keys, NEW make \in BOOLEAN,
           Send(key, make), UNCHANGED kb
    PROVE  LET m == Len(line')
           IN  /\ Len(line) \in Nat /\ m \in Nat /\ Len(line) < m
               /\ line' \in Seq(CodeType)
               /\ \A i \in 1..Len(line) : line'[i] = line[i]
               /\ \A i \in Len(line) + 1..m - 1 :
                    line'[i].code = "EXTKEY" /\ i + 1 = m
               /\ line'[m].code = Code(key) /\ line'[m].make = make
               /\ key \in Printing =>
                    m = Len(line) + 1 /\ line'[m].want = Wanted(key)
               /\ m # 1 => (line'[m - 1].code = "EXTKEY" <=> key \in {"RCtrl", "RAlt"})
               /\ m = 1 => ~kb.esc /\ key \notin {"RCtrl", "RAlt"}
  <1> DEFINE want == IF key \in Printing THEN Wanted(key) ELSE 0
             code == [code |-> Code(key), make |-> make, want |-> want]
             ext  == [code |-> "EXTKEY", make |-> FALSE, want |-> 0]
             tail == IF key \in {"RCtrl", "RAlt"} THEN <<ext, code>> ELSE <<code>>
  <1>1. key \in Modifiers \cup Locks \cup Printing
    BY KeyboardAssumption
  <1>2. code \in CodeType /\ ext \in CodeType
    <2>1. Code(key) \in Pairs \cup {"EXTKEY"} \cup Locks \cup Printing
      BY <1>1 DEF Code, Pairs, Modifiers, Locks, Printing
    <2>2. want \in 0..5
      BY WantedColumn
    <2> QED BY <2>1, <2>2 DEF CodeType
  <1>3. line' = line \o tail /\ line \in Seq(CodeType)
    BY DEF Send, KeyInv, KeyboardTypeOK
  <1>4. tail \in Seq(CodeType)
    BY <1>2
  <1>5. /\ Len(line) \in Nat /\ line' \in Seq(CodeType)
        /\ Len(line') = Len(line) + Len(tail)
        /\ \A i \in 1..Len(line) + Len(tail) :
             line'[i] = IF i <= Len(line) THEN line[i] ELSE tail[i - Len(line)]
    BY <1>3, <1>4, ConcatProperties
  <1>6. \A i \in 1..Len(line) : line'[i] = line[i]
    BY <1>4, <1>5
  <1>7. /\ Len(line) > 0 => line[Len(line)].code # "EXTKEY"
        /\ Len(line) = 0 => ~kb.esc
    BY <1>5 DEF KeyInv, Prefixed
  <1>8. CASE key \in {"RCtrl", "RAlt"}
    <2>1. tail = <<ext, code>> /\ Len(tail) = 2
      BY <1>8
    <2> HIDE DEF tail
    <2>2. Len(line') = Len(line) + 2 /\ line'[Len(line) + 1] = tail[1]
          /\ line'[Len(line) + 2] = tail[2]
      <3>1. /\ Len(line) + 1 \in 1..Len(line) + Len(tail) /\ ~(Len(line) + 1 <= Len(line))
            /\ Len(line) + 1 - Len(line) = 1 /\ Len(line) + 2 - Len(line) = 2
            /\ Len(line) + 2 \in 1..Len(line) + Len(tail) /\ ~(Len(line) + 2 <= Len(line))
        BY <1>5, <2>1
      <3>2. Len(line') = Len(line) + 2
        BY <1>5, <2>1
      <3>3. line'[Len(line) + 1] = tail[1] /\ line'[Len(line) + 2] = tail[2]
        BY <1>5, <3>1
      <3> QED BY <3>2, <3>3
    <2>3. line'[Len(line) + 1] = ext /\ line'[Len(line) + 2] = code
      BY <2>1, <2>2
    <2>4. key \notin Printing
      BY <1>8 DEF Printing
    <2> QED BY <1>5, <1>6, <1>8, <2>2, <2>3, <2>4
  <1>9. CASE key \notin {"RCtrl", "RAlt"}
    <2>1. tail = <<code>> /\ Len(tail) = 1
      BY <1>9
    <2> HIDE DEF tail
    <2>2. Len(line') = Len(line) + 1 /\ line'[Len(line) + 1] = code
      <3>1. /\ Len(line) + 1 \in 1..Len(line) + Len(tail) /\ ~(Len(line) + 1 <= Len(line))
            /\ Len(line) + 1 - Len(line) = 1
        BY <1>5, <2>1
      <3> QED BY <1>5, <2>1, <3>1
    <2>3. Len(line) # 0 => line'[Len(line)].code # "EXTKEY"
      BY <1>5, <1>6, <1>7
    <2> QED BY <1>5, <1>6, <1>7, <1>9, <2>2, <2>3
  <1> QED BY <1>8, <1>9

\* The schedule of the codes before the new one stays as it is.
LEMMA SendLeaves ==
    ASSUME KeyInv, NEW key \in Keys, NEW make \in BOOLEAN,
           Send(key, make), UNCHANGED kb
    PROVE  \A n \in 0..Len(line), pair \in Pairs, side \in Sides :
             DownAt(n, pair, side)' <=> DownAt(n, pair, side)
  <1>1. Len(line) \in Nat /\ \A i \in 1..Len(line) : line'[i] = line[i]
    BY SendAppends
  <1>2. ASSUME NEW i \in 1..Len(line) PROVE Ext(i)' <=> Ext(i)
    <2>1. CASE i = 1
      BY <2>1 DEF Ext
    <2>2. CASE i # 1
      <3>1. i - 1 \in 1..Len(line)
        BY <1>1, <2>2
      <3> QED BY <1>1, <2>2, <3>1 DEF Ext
    <2> QED BY <2>1, <2>2
  <1>3. ASSUME NEW i \in 1..Len(line), NEW pair \in Pairs, NEW side \in Sides
        PROVE  About(i, pair, side)' <=> About(i, pair, side)
    BY <1>1, <1>2 DEF About, SideAt, Side
  <1> SUFFICES ASSUME NEW n \in 0..Len(line), NEW pair \in Pairs, NEW side \in Sides
               PROVE  DownAt(n, pair, side)' <=> DownAt(n, pair, side)
    OBVIOUS
  <1>4. /\ \A i \in 1..n : i \in 1..Len(line)
        /\ \A i \in 1..n : \A j \in i + 1..n : j \in 1..n
    BY <1>1
  <1>5. /\ \A i \in 1..n : About(i, pair, side)' <=> About(i, pair, side)
        /\ \A i \in 1..n : line'[i].make = line[i].make
    BY <1>1, <1>3, <1>4
  <1> QED BY <1>4, <1>5 DEF DownAt

\* The new code decides what is known of its key, and of no other.
LEMMA SendDecides ==
    ASSUME KeyInv, NEW key \in Keys, NEW make \in BOOLEAN,
           Send(key, make), UNCHANGED kb
    PROVE  \A m \in {Len(line')}, n \in {Len(line)}, pair \in Pairs, side \in Sides :
             DownAt(m, pair, side)' <=> IF Code(key) = pair /\ SideOf(key) = side
                                        THEN make ELSE DownAt(n, pair, side)
  <1> SUFFICES ASSUME NEW m \in {Len(line')}, NEW n \in {Len(line)},
                      NEW pair \in Pairs, NEW side \in Sides
               PROVE  DownAt(m, pair, side)' <=>
                        IF Code(key) = pair /\ SideOf(key) = side
                        THEN make ELSE DownAt(n, pair, side)
    OBVIOUS
  <1>1. /\ m \in Nat /\ n \in Nat /\ n < m /\ n \in 0..Len(line)
        /\ \A i \in n + 1..m - 1 : line'[i].code = "EXTKEY"
        /\ line'[m].code = Code(key) /\ line'[m].make = make
    BY SendAppends
  <1>2. Ext(m)' <=> key \in {"RCtrl", "RAlt"}
    BY SendAppends DEF Ext
  <1> DEFINE After(i) == About(i, pair, side)'
  <1>3. After(m) <=> Code(key) = pair /\ SideOf(key) = side
    <2>1. Code(key) = "SHIFT" => SideOf(key) = "left"
      BY DEF Code, SideOf, Side
    <2> QED BY <1>1, <1>2, <2>1 DEF About, SideAt, SideOf, Side
  <1>4. \A i \in n + 1..m - 1 : ~After(i)
    BY <1>1 DEF About, Pairs
  <1>5. DownAt(n, pair, side)' <=> DownAt(n, pair, side)
    BY <1>1, SendLeaves
  <1> DEFINE Down(l) == \/ \E i \in 1..l : /\ After(i) /\ line'[i].make
                                            /\ \A j \in i + 1..l : ~After(j)
                        \/ /\ \A j \in 1..l : ~After(j)
                           /\ side \in kb'.side[pair]
  <1>6. (DownAt(m, pair, side)' <=> Down(m)) /\ (DownAt(n, pair, side)' <=> Down(n))
    BY DEF DownAt
  <1> HIDE DEF After
  <1>7. CASE After(m)
    <2>1. Down(m) => make
      <3>1. ASSUME NEW i \in 1..m, \A j \in i + 1..m : ~After(j) PROVE i = m
        BY <1>1, <1>7, <3>1
      <3>2. ~\A j \in 1..m : ~After(j)
        BY <1>1, <1>7
      <3> QED BY <1>1, <3>1, <3>2
    <2>2. make => Down(m)
      <3>1. m \in 1..m /\ \A j \in m + 1..m : ~After(j)
        BY <1>1
      <3> QED BY <1>1, <1>7, <3>1
    <2> QED BY <1>3, <1>6, <1>7, <2>1, <2>2
  <1>8. CASE ~After(m)
    <2>1. ASSUME NEW j \in n + 1..m PROVE ~After(j)
      <3>1. j = m \/ j \in n + 1..m - 1
        BY <1>1
      <3> QED BY <1>4, <1>8, <3>1
    <2>2. Down(m) => Down(n)
      <3>1. \A i \in 1..m : After(i) => i \in 1..n
        BY <1>1, <2>1
      <3>2. \A i \in 1..n : i \in 1..m /\ \A j \in i + 1..n : j \in i + 1..m
        BY <1>1
      <3> QED BY <3>1, <3>2
    <2>3. Down(n) => Down(m)
      <3>1. \A i \in 1..n : i \in 1..m
        BY <1>1
      <3>2. \A i \in 0..n : \A j \in i + 1..m : j \in i + 1..n \/ j \in n + 1..m
        BY <1>1
      <3>3. \A j \in 1..m : j \in 1..n \/ j \in n + 1..m
        BY <1>1
      <3>4. \A i \in 1..n : i \in 0..n
        BY <1>1
      <3> QED BY <2>1, <3>1, <3>2, <3>3, <3>4
    <2> QED BY <1>3, <1>5, <1>6, <1>8, <2>2, <2>3
  <1> QED BY <1>7, <1>8

\* The columns that the schedule gives are those the keys down ask for.
LEMMA ColumnTyped ==
    ASSUME KeyInv, NEW key \in Printing
    PROVE  \A n \in {Len(line)} : ColumnAt(n) = Wanted(key)
  <1> SUFFICES ASSUME NEW n \in {Len(line)} PROVE ColumnAt(n) = Wanted(key)
    OBVIOUS
  <1> DEFINE down(pair) == held \cap PairKeys(pair) # {}
  <1>1. \A pair \in Pairs, side \in Sides :
          DownAt(n, pair, side) <=> \E k \in held : Code(k) = pair /\ SideOf(k) = side
    BY DEF KeyInv, Tracked
  <1>2. held \subseteq Modifiers \cup Locks \cup Printing
    BY KeyboardAssumption DEF KeyInv, KeyboardTypeOK
  <1>3. \A k \in held : Code(k) \in Pairs => k \in Modifiers
    BY <1>2 DEF Code, Pairs, Locks, Printing, Modifiers
  <1>4. \A k : SideOf(k) \in Sides
    BY DEF SideOf, Side, Sides
  <1>5. ASSUME NEW pair \in Pairs PROVE PairAt(n, pair) <=> down(pair)
    <2>1. PairAt(n, pair) <=> \E side \in Sides : DownAt(n, pair, side)
      BY DEF PairAt, Sides
    <2>2. PairAt(n, pair) <=> \E k \in held : Code(k) = pair
      BY <1>1, <1>4, <2>1
    <2> QED BY <1>3, <2>2 DEF PairKeys
  <1>6. DownAt(n, "ALT", "right") <=> "RAlt" \in held
    <2>1. \A k \in Modifiers : Code(k) = "ALT" /\ SideOf(k) = "right" <=> k = "RAlt"
      BY DEF Modifiers, Code, SideOf, Side
    <2>2. "ALT" \in Pairs /\ "right" \in Sides /\ "RAlt" \in Modifiers
      BY DEF Pairs, Sides, Modifiers
    <2> QED BY <1>1, <1>3, <2>1, <2>2
  <1>7. "SHIFT" \in Pairs /\ "CTRL" \in Pairs /\ "ALT" \in Pairs
    BY DEF Pairs
  <1>8. ColumnAt(n) = Column(down("SHIFT"), down("CTRL"), down("ALT"), "RAlt" \in held)
    <2> HIDE DEF down
    <2> QED BY <1>5, <1>6, <1>7 DEF ColumnAt, Column
  <1>9. "Caps" \notin toggled
    BY DEF KeyInv, Plain
  <1>10. Wanted(key) = Column(down("SHIFT"), down("CTRL"), down("ALT"), "RAlt" \in held)
    BY <1>9 DEF Wanted, Column
  <1> QED BY <1>8, <1>10

\* A new code disturbs no part of the invariant but Tracked.
LEMMA SendKeeps ==
    ASSUME KeyInv, Simple, NEW key \in Keys, NEW make \in BOOLEAN,
           Send(key, make), UNCHANGED <<kb, toggled>>
    PROVE  line' \in Seq(CodeType) /\ Plain' /\ Prefixed' /\ Typed'
  <1> DEFINE l == Len(line)
             m == Len(line')
  <1>1. /\ l \in Nat /\ m \in Nat /\ l < m /\ line' \in Seq(CodeType)
        /\ \A i \in 1..l : line'[i] = line[i]
        /\ \A i \in l + 1..m - 1 : line'[i].code = "EXTKEY" /\ i + 1 = m
        /\ line'[m].code = Code(key)
        /\ key \in Printing => m = l + 1 /\ line'[m].want = Wanted(key)
    BY SendAppends
  <1>2. \A i \in 1..m : i \in 1..l \/ i \in l + 1..m - 1 \/ i = m
    BY <1>1
  <1>3. Code(key) \in Pairs \cup Printing /\ (Code(key) \in Printing => key \in Printing)
    BY KeyboardAssumption DEF Simple, Code, Pairs, Modifiers, Printing, Locks
  <1>4. Plain'
    BY <1>1, <1>2, <1>3 DEF KeyInv, Plain
  <1>5. Prefixed'
    <2>1. m # 0 /\ line' # <<>>
      BY <1>1
    <2>2. kb.esc => line'[1].code # "EXTKEY"
      <3>1. kb.esc => 1 \in 1..l /\ line[1].code # "EXTKEY"
        BY <1>1 DEF KeyInv, Prefixed, KeyboardTypeOK
      <3> QED BY <1>1, <3>1
    <2>3. ASSUME NEW i \in 1..m, line'[i].code = "EXTKEY"
          PROVE  i < m /\ line'[i + 1].code # "EXTKEY"
      <3>1. Code(key) # "EXTKEY"
        BY <1>3 DEF Pairs, Printing
      <3>2. CASE i \in 1..l
        <4>1. i < l /\ line[i + 1].code # "EXTKEY"
          BY <1>1, <2>3, <3>2 DEF KeyInv, Prefixed
        <4>2. i + 1 \in 1..l /\ i < m
          BY <1>1, <3>2, <4>1
        <4> QED BY <1>1, <4>1, <4>2
      <3>3. CASE i \in l + 1..m - 1
        BY <1>1, <3>1, <3>3
      <3>4. CASE i = m
        BY <1>1, <2>3, <3>1, <3>4
      <3> QED BY <1>2, <3>2, <3>3, <3>4
    <2> QED BY <2>1, <2>2, <2>3 DEF Prefixed
  <1>6. Typed'
    <2>0. "SHIFT" \in Pairs /\ "CTRL" \in Pairs /\ "ALT" \in Pairs
          /\ "left" \in Sides /\ "right" \in Sides
      BY DEF Pairs, Sides
    <2>1. ASSUME NEW n \in 0..l PROVE ColumnAt(n)' = ColumnAt(n)
      <3>1. \A pair \in Pairs, side \in Sides :
              DownAt(n, pair, side)' <=> DownAt(n, pair, side)
        BY SendLeaves
      <3> QED BY <2>0, <3>1 DEF ColumnAt, Column, PairAt
    <2> SUFFICES ASSUME NEW i \in 1..Len(line'),
                        line'[i].code \in Printing, line'[i].make
                 PROVE  line'[i].want = ColumnAt(i - 1)'
      BY DEF Typed
    <2>2. CASE i \in 1..l
      <3>1. i - 1 \in 0..l
        BY <1>1, <2>2
      <3>2. ColumnAt(i - 1)' = ColumnAt(i - 1)
        BY <2>1, <3>1
      <3> QED BY <1>1, <2>2, <3>2 DEF KeyInv, Typed
    <2>3. CASE i \in l + 1..m - 1
      BY <1>1, <2>3 DEF Printing
    <2>4. CASE i = m
      <3>1. key \in Printing /\ i - 1 \in {Len(line)} /\ i - 1 \in 0..l
        BY <1>1, <1>3, <2>4
      <3>2. ColumnAt(i - 1)' = ColumnAt(i - 1)
        BY <2>1, <3>1
      <3>3. ColumnAt(i - 1) = Wanted(key)
        BY <3>1, ColumnTyped
      <3> QED BY <1>1, <2>4, <3>1, <3>2, <3>3
    <2> QED BY <1>2, <2>2, <2>3, <2>4
  <1> QED BY <1>1, <1>4, <1>5, <1>6

\* No two keys in use send the same code.
LEMMA OneKeyPerCode ==
    ASSUME Simple
    PROVE  \A key, other \in Keys :
             Code(key) \in Pairs /\ Code(key) = Code(other) /\ SideOf(key) = SideOf(other)
               => key = other
  BY KeyboardAssumption
  DEF Simple, Code, SideOf, Side, Pairs, Modifiers, Locks, Printing

\* A key that goes down is known to be down once its code is taken.
LEMMA PressKeeps ==
    ASSUME KeyInv, Simple, NEW key \in Keys, Press(key) \/ Repeat(key)
    PROVE  KeyInv'
  <1>1. Send(key, TRUE) /\ UNCHANGED <<kb, toggled>> /\ held' = held \cup {key}
    BY DEF Press, Repeat, Simple
  <1>2. line' \in Seq(CodeType) /\ Plain' /\ Prefixed' /\ Typed'
    BY <1>1, SendKeeps
  <1>3. KeyboardTypeOK'
    BY <1>1, <1>2 DEF KeyInv, KeyboardTypeOK
  <1>4. Tracked'
    <2> SUFFICES ASSUME NEW m \in {Len(line')}, NEW pair \in Pairs, NEW side \in Sides
                 PROVE  DownAt(m, pair, side)' <=>
                          \E k \in held' : Code(k) = pair /\ SideOf(k) = side
      BY DEF Tracked
    <2>1. DownAt(m, pair, side)' <=> \/ Code(key) = pair /\ SideOf(key) = side
                                     \/ \E n \in {Len(line)} : DownAt(n, pair, side)
      BY <1>1, SendDecides
    <2>2. (\E n \in {Len(line)} : DownAt(n, pair, side)) <=>
            \E k \in held : Code(k) = pair /\ SideOf(k) = side
      BY DEF KeyInv, Tracked
    <2> QED BY <1>1, <2>1, <2>2
  <1> QED BY <1>2, <1>3, <1>4 DEF KeyInv

\* A key that goes up is known to be up, and no other key with it.
LEMMA ReleaseKeeps ==
    ASSUME KeyInv, Simple, NEW key \in Keys, Release(key)
    PROVE  KeyInv'
  <1>1. /\ Send(key, FALSE) /\ UNCHANGED <<kb, toggled>>
        /\ held' = held \ {key} /\ held \subseteq Keys
    BY DEF Release, KeyInv, KeyboardTypeOK
  <1>2. line' \in Seq(CodeType) /\ Plain' /\ Prefixed' /\ Typed'
    BY <1>1, SendKeeps
  <1>3. KeyboardTypeOK'
    BY <1>1, <1>2 DEF KeyInv, KeyboardTypeOK
  <1>4. Tracked'
    <2> SUFFICES ASSUME NEW m \in {Len(line')}, NEW pair \in Pairs, NEW side \in Sides
                 PROVE  DownAt(m, pair, side)' <=>
                          \E k \in held' : Code(k) = pair /\ SideOf(k) = side
      BY DEF Tracked
    <2>1. DownAt(m, pair, side)' <=> /\ ~(Code(key) = pair /\ SideOf(key) = side)
                                     /\ \E n \in {Len(line)} : DownAt(n, pair, side)
      BY <1>1, SendDecides
    <2>2. (\E n \in {Len(line)} : DownAt(n, pair, side)) <=>
            \E k \in held : Code(k) = pair /\ SideOf(k) = side
      BY DEF KeyInv, Tracked
    <2>3. \A k \in held : Code(k) = pair /\ SideOf(k) = side /\ k = key
                            => Code(key) = pair /\ SideOf(key) = side
      OBVIOUS
    <2>4. Code(key) = pair /\ SideOf(key) = side =>
            \A k \in held : Code(k) = pair /\ SideOf(k) = side => k = key
      BY <1>1, OneKeyPerCode
    <2> QED BY <1>1, <2>1, <2>2, <2>3, <2>4
  <1> QED BY <1>2, <1>3, <1>4 DEF KeyInv

-----------------------------------------------------------------------------
(* The invariant.                                                          *)

\* Before any of the codes that wait, the schedule is what the handler knows.
LEMMA Taken ==
    ASSUME KeyInv
    PROVE  \A pair \in Pairs, side \in Sides :
             DownAt(0, pair, side) <=> side \in kb.side[pair]
  BY DEF DownAt

\* At the start nothing is down and nothing waits.
LEMMA InitKeyInv == KeyboardInit => KeyInv
  <1> SUFFICES ASSUME KeyboardInit PROVE KeyInv
    OBVIOUS
  <1>1. /\ line = <<>> /\ Len(line) = 0 /\ line \in Seq(CodeType)
        /\ held = {} /\ toggled = {"Num"} /\ ~kb.esc /\ kb.locks = {"Num"}
        /\ \A pair \in Pairs : kb.down[pair] = FALSE /\ kb.side[pair] = {}
    BY DEF KeyboardInit
  <1>2. KeyboardTypeOK
    BY <1>1 DEF KeyboardInit, KeyboardTypeOK, KbType, Locks
  <1>3. Plain /\ Prefixed /\ Typed
    <2>1. 1..Len(line) = {}
      BY <1>1
    <2>2. \A pair \in Pairs : kb.down[pair] = (kb.side[pair] # {})
      BY <1>1
    <2>3. Plain
      BY <1>1, <2>1, <2>2 DEF Plain
    <2> QED BY <1>1, <2>1, <2>3 DEF Prefixed, Typed
  <1>4. Tracked
    BY <1>1 DEF Tracked, DownAt
  <1> QED BY <1>2, <1>3, <1>4 DEF KeyInv

\* Every step of the keys and of the handler keeps the invariant.
LEMMA NextKeyInv ==
    ASSUME Simple, KeyInv, [KeyboardNext]_keyboardVars
    PROVE  KeyInv'
  <1>1. ASSUME NEW key \in Keys, Press(key) \/ Repeat(key) PROVE KeyInv'
    BY <1>1, PressKeeps
  <1>2. ASSUME NEW key \in Keys, Release(key) PROVE KeyInv'
    BY <1>2, ReleaseKeeps
  <1>3. CASE Handle
    BY <1>3, HandleKeeps
  <1>4. CASE UNCHANGED keyboardVars
    <2>1. UNCHANGED <<kb, line, held, toggled>>
      BY <1>4 DEF keyboardVars
    <2>2. (KeyboardTypeOK /\ Plain /\ Prefixed)'
      BY <2>1 DEF KeyInv, KeyboardTypeOK, Plain, Prefixed
    <2>3. \A n, pair, side : DownAt(n, pair, side)' <=> DownAt(n, pair, side)
      BY <2>1 DEF DownAt, About, SideAt, Ext
    <2>4. \A n : ColumnAt(n)' = ColumnAt(n)
      BY <2>3 DEF ColumnAt, PairAt, Column
    <2> QED BY <2>1, <2>2, <2>3, <2>4 DEF KeyInv, Tracked, Typed
  <1> QED BY <1>1, <1>2, <1>3, <1>4 DEF KeyboardNext

\* The schedule of what the handler will know is right at any time.
THEOREM KeyboardInvariant ==
    ASSUME Simple
    PROVE  KeyboardSpec => []KeyInv
  <1>1. KeyboardInit => KeyInv
    BY InitKeyInv
  <1>2. KeyInv /\ [KeyboardNext]_keyboardVars => KeyInv'
    BY NextKeyInv
  <1> QED BY <1>1, <1>2, PTL DEF KeyboardSpec

-----------------------------------------------------------------------------
(* The properties of the run.                                              *)

\* With no code waiting, what the handler knows is what is down.
LEMMA CaughtUp ==
    ASSUME KeyInv
    PROVE  ModifiersTracked
  <1>1. KeyboardTypeOK
    BY DEF KeyInv
  <1> SUFFICES ASSUME line = <<>>, NEW pair \in {"CTRL", "ALT"}
               PROVE  kb.side[pair] = {Side(key \in {"RCtrl", "RAlt"}) :
                                         key \in held \cap PairKeys(pair)}
    BY <1>1 DEF ModifiersTracked
  <1>2. pair \in Pairs /\ kb.side[pair] \subseteq Sides
    BY <1>1 DEF KeyboardTypeOK, KbType, Pairs, Sides
  <1>3. \A side \in Sides :
          side \in kb.side[pair] <=> \E key \in held : Code(key) = pair /\ SideOf(key) = side
    BY <1>2, Taken DEF KeyInv, Tracked
  <1>4. \A key \in held : Code(key) = pair <=> key \in PairKeys(pair)
    BY <1>1, KeyboardAssumption
    DEF KeyboardTypeOK, PairKeys, Code, Modifiers, Locks, Printing
  <1>5. \A key : SideOf(key) \in Sides
    BY DEF SideOf, Side, Sides
  <1>6. kb.side[pair] = {SideOf(key) : key \in held \cap PairKeys(pair)}
    BY <1>2, <1>3, <1>4, <1>5
  <1> QED BY <1>6 DEF SideOf

\* The column looked up for a character is the one its code was sent for.
LEMMA TakenAsTyped ==
    ASSUME KeyInv, Handle, Head(line).code \in Printing, Head(line).make
    PROVE  MapColumn(Head(line).code) = Head(line).want
  <1>1. Head(line) = line[1] /\ 1 \in 1..Len(line) /\ 1 - 1 = 0
    BY HandleTakes DEF Handle, KeyInv, KeyboardTypeOK
  <1>2. line[1].want = ColumnAt(0)
    BY <1>1 DEF KeyInv, Typed
  <1>3. /\ "SHIFT" \in Pairs /\ "CTRL" \in Pairs /\ "ALT" \in Pairs
        /\ "left" \in Sides /\ "right" \in Sides
    BY DEF Pairs, Sides
  <1>4. \A pair \in Pairs : kb.down[pair] <=> PairAt(0, pair)
    <2> TAKE pair \in Pairs
    <2>1. kb.down[pair] = (kb.side[pair] # {}) /\ kb.side[pair] \subseteq Sides
      BY DEF KeyInv, Plain, KeyboardTypeOK, KbType, Sides
    <2>2. PairAt(0, pair) <=> \E side \in Sides : side \in kb.side[pair]
      BY <1>3, Taken DEF PairAt, Sides
    <2> QED BY <2>1, <2>2
  <1>5. DownAt(0, "ALT", "right") <=> "right" \in kb.side["ALT"]
    BY <1>3, Taken
  <1>6. Shifted(kb.down["SHIFT"], kb.locks, line[1].code) = kb.down["SHIFT"]
    BY DEF KeyInv, Plain, Shifted
  <1>7. MapColumn(line[1].code) = ColumnAt(0)
    BY <1>3, <1>4, <1>5, <1>6 DEF MapColumn, ColumnAt, Column
  <1> QED BY <1>1, <1>2, <1>7

\* Once it has taken every code, the handler knows which control and alt
\* keys are down and on which side, after any number of codes.
THEOREM ModifiersRight ==
    ASSUME Simple
    PROVE  KeyboardSpec => []ModifiersTracked
  <1>1. KeyInv => ModifiersTracked
    BY CaughtUp
  <1> QED BY <1>1, KeyboardInvariant, PTL

\* However many codes wait, a character is taken from the column that the
\* keys asked for when it was typed.
THEOREM CharactersRight ==
    ASSUME Simple
    PROVE  KeyboardSpec => PrintsWhatWasTyped
  <1>1. KeyInv /\ [KeyboardNext]_keyboardVars =>
          [Handle /\ Head(line).code \in Printing /\ Head(line).make =>
             MapColumn(Head(line).code) = Head(line).want]_keyboardVars
    BY TakenAsTyped
  <1> QED BY <1>1, KeyboardInvariant, PTL DEF KeyboardSpec, PrintsWhatWasTyped
=============================================================================
