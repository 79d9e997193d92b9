------------------------------ MODULE Keyboard ------------------------------
(***************************************************************************)
(* The keyboard driver (src/kernel/keyboard.c): the interrupt handler that *)
(* turns scan codes into characters, and the keyboard it listens to.       *)
(*                                                                         *)
(* Keys go down and up in any order and send their codes at once; the      *)
(* handler takes them one by one and later, so what it knows of the shift, *)
(* control and alt keys comes from the codes, never from the keys.  A code *)
(* carries, for the properties only, the column of the key map that its    *)
(* key was pressed for.                                                    *)
(***************************************************************************)
EXTENDS Naturals, Sequences, SequencesExt

CONSTANTS
    Keys,        \* the keys in use
    MaxPending   \* bound: the codes that wait for the handler

Modifiers == {"LCtrl", "RCtrl", "LShift", "RShift", "LAlt", "RAlt"}
Locks     == {"Caps", "Num", "Scroll"}
Printing  == {"Letter", "Digit"}

ASSUME KeyboardAssumption ==
    Keys \subseteq Modifiers \cup Locks \cup Printing /\ MaxPending \in Nat

VARIABLES
    kb,        \* the variables of the driver, a record of KbType
    line,      \* the codes sent and not yet taken, in order
    held,      \* the keys that are down
    toggled    \* the lock keys pressed an odd number of times

keyboardVars == <<kb, line, held, toggled>>

Pairs == {"CTRL", "SHIFT", "ALT"}

\* down[p] is the flag without a side (ctrl, shift, alt); side[p] holds the
\* sides whose own flag is set (ctrl_left, ctrl_right and so on).
KbType ==
    [esc   : BOOLEAN,
     down  : [Pairs -> BOOLEAN],
     side  : [Pairs -> SUBSET {"left", "right"}],
     locks : SUBSET Locks]

\* What the row of the key map holds for the scan code of a key; a printing
\* key, whose row holds characters, stands for its row.
Code(key) ==
    CASE key \in {"LCtrl", "RCtrl"}   -> "CTRL"
      [] key \in {"LShift", "RShift"} -> "SHIFT"
      [] key \in {"LAlt", "RAlt"}     -> "ALT"
      [] OTHER -> key

CodeType == [code : Pairs \cup {"EXTKEY"} \cup Locks \cup Printing,
             make : BOOLEAN,
             want : 0..5]

-----------------------------------------------------------------------------
(* The key map.                                                            *)

\* Slip: the control key is tested before the alt key.
ColumnCtrlFirst(shift, ctrl, alt, rightAlt) ==
    IF ctrl THEN 5
    ELSE IF alt THEN IF shift THEN 4 ELSE IF rightAlt THEN 3 ELSE 2
    ELSE IF shift THEN 1 ELSE 0

\* map_key, where of the tests that hold the last one wins.
Column(shift, ctrl, alt, rightAlt) ==
    IF alt THEN IF shift THEN 4 ELSE IF ctrl \/ rightAlt THEN 3 ELSE 2
           ELSE IF ctrl THEN 5 ELSE IF shift THEN 1 ELSE 0

\* Only the rows of letters have HASCAPS.
Shifted(shift, locks, code) ==
    IF "Caps" \in locks /\ code = "Letter" THEN ~shift ELSE shift

MapColumn(code) ==
    Column(Shifted(kb.down["SHIFT"], kb.locks, code), kb.down["CTRL"],
           kb.down["ALT"], "right" \in kb.side["ALT"])

-----------------------------------------------------------------------------
(* The keyboard.                                                           *)

PairKeys(pair) == {key \in Modifiers : Code(key) = pair}

\* The column that the keys down and the locks ask for, by the titles of
\* the key map: plain, Shift, Alt, Ctrl+Alt (or right Alt), Alt+Shift, Ctrl.
Wanted(key) ==
    LET down(pair) == held \cap PairKeys(pair) # {}
        caps  == "Caps" \in toggled /\ key = "Letter"
        shift == down("SHIFT") # caps
    IN  CASE down("ALT") /\ shift                -> 4
          [] down("ALT") /\ ~shift /\ (down("CTRL") \/ "RAlt" \in held) -> 3
          [] down("ALT") /\ ~shift /\ ~down("CTRL") /\ "RAlt" \notin held -> 2
          [] ~down("ALT") /\ down("CTRL")        -> 5
          [] ~down("ALT") /\ ~down("CTRL")       -> IF shift THEN 1 ELSE 0

\* The right control and alt keys have the prefix E0, which is row 96 of
\* the map with the KEY bit.
Send(key, make) ==
    LET want == IF key \in Printing THEN Wanted(key) ELSE 0
        code == [code |-> Code(key), make |-> make, want |-> want]
        ext  == [code |-> "EXTKEY", make |-> FALSE, want |-> 0]
    IN  /\ Len(line) + 2 <= MaxPending
        /\ line' = line \o (IF key \in {"RCtrl", "RAlt"} THEN <<ext, code>>
                                                        ELSE <<code>>)

Press(key) ==
    /\ key \notin held
    /\ Send(key, TRUE)
    /\ held' = held \cup {key}
    /\ toggled' = IF key \notin Locks THEN toggled
                  ELSE (toggled \ {key}) \cup ({key} \ toggled)
    /\ UNCHANGED kb

Release(key) ==
    /\ key \in held
    /\ Send(key, FALSE)
    /\ held' = held \ {key}
    /\ UNCHANGED <<kb, toggled>>

\* A key that is held down sends its make code again and again.
Repeat(key) ==
    /\ key \in held
    /\ Send(key, TRUE)
    /\ UNCHANGED <<kb, held, toggled>>

-----------------------------------------------------------------------------
(* The handler.                                                            *)

Side(escape) == IF escape THEN "right" ELSE "left"

\* Slip: the prefix is forgotten before it is looked at.
SideForgotten(code) == "left"

\* The side a modifier's code is taken for.  shift is a flag and never
\* equals RSHIFT_SCAN, so both shift keys are the left one.
SideNoted(code) == IF code = "SHIFT" THEN "left" ELSE Side(kb.esc)

NoteModifier(code, make) ==
    LET side  == SideNoted(code)
        sides == IF make THEN kb.side[code] \cup {side}
                         ELSE kb.side[code] \ {side}
    IN  [kb EXCEPT !.esc = FALSE, !.side[code] = sides,
                   !.down[code] = (sides # {})]

Toggle(lock) ==
    [kb EXCEPT !.esc = FALSE, !.locks = (@ \ {lock}) \cup ({lock} \ @)]

\* make_break, but for the character it returns: that is the column the
\* map gives, which Handle leaves in the state it starts from.
MakeBreak(c) ==
    CASE c.code \in Pairs -> NoteModifier(c.code, c.make)
      [] c.code \in {"Num", "Scroll"} /\ c.make -> Toggle(c.code)
      [] c.code = "Caps" -> Toggle("Caps")
      [] c.code = "EXTKEY" -> [kb EXCEPT !.esc = TRUE]
      [] OTHER -> [kb EXCEPT !.esc = FALSE]

SetsLed(c) == c.code \in {"Num", "Scroll"} /\ c.make

\* keyboard_wait and keyboard_ack read the data port until it is empty or
\* the answer of the keyboard comes: codes that arrived before are lost.
Handle ==
    /\ line # <<>>
    /\ kb' = MakeBreak(Head(line))
    /\ \E lost \in 0..Len(line) - 1 :
         /\ lost > 0 => SetsLed(Head(line))
         /\ line' = SubSeq(line, lost + 2, Len(line))
    /\ UNCHANGED <<held, toggled>>

KeyboardInit ==
    /\ kb = [esc   |-> FALSE,
             down  |-> [pair \in Pairs |-> FALSE],
             side  |-> [pair \in Pairs |-> {}],
             locks |-> {"Num"}]
    /\ line = <<>> /\ held = {}
    /\ toggled = {"Num"}

KeyboardNext ==
    \/ \E key \in Keys : Press(key) \/ Release(key) \/ Repeat(key)
    \/ Handle

KeyboardSpec == KeyboardInit /\ [][KeyboardNext]_keyboardVars

-----------------------------------------------------------------------------
KeyboardTypeOK ==
    /\ kb \in KbType
    /\ line \in Seq(CodeType)
    /\ held \subseteq Keys
    /\ toggled \subseteq Locks

\* A character is the one its key was pressed for, however long its code
\* waits and whatever keys go down and up meanwhile.
PrintsWhatWasTyped ==
    [][Handle /\ Head(line).code \in Printing /\ Head(line).make =>
         MapColumn(Head(line).code) = Head(line).want]_keyboardVars

\* When the handler has caught up, it knows which control and alt keys are
\* down, and on which side.
ModifiersTracked ==
    /\ KeyboardTypeOK
    /\ line = <<>> =>
        \A pair \in {"CTRL", "ALT"} :
            kb.side[pair] = {Side(key \in {"RCtrl", "RAlt"}) :
                               key \in held \cap PairKeys(pair)}
=============================================================================
