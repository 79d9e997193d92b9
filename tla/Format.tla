------------------------------- MODULE Format -------------------------------
(***************************************************************************)
(* Formatted output: vsprintf (src/lib/stdio/vsprintf.c), through which    *)
(* the whole kernel prints, and the formatter of printk                    *)
(* (src/kernel/printk.c), which is linked and has no caller yet.           *)
(*                                                                         *)
(* A format is a sequence of directives, in the order of the string; a     *)
(* character that stands for itself is a directive with the key "char".    *)
(* Arguments are taken one by one, as the directives ask for them.  A text *)
(* is a sequence of characters.                                            *)
(***************************************************************************)
EXTENDS Integers, Sequences, SequencesExt

CONSTANT Word      \* the bits of an int, a long and a pointer

ASSUME WordAssumption == Word \in Nat \ {0}

TwoTo[n \in Nat] == IF n = 0 THEN 1 ELSE 2 * TwoTo[n - 1]

INT_MAX == TwoTo[Word - 1] - 1

\* A width or a maximum that is written `*' in the format.
Star == -1

\* A byte of the buffer that is counted and never written.
Unwritten == "?"

NumberKeys == {"d", "o", "p", "X", "x", "u"}

Directive == [key   : STRING,          \* the letter of the conversion
              self  : STRING,          \* the character, if the key is "char"
              left  : BOOLEAN,         \* `-'
              zero  : BOOLEAN,         \* `0'
              width : Nat \cup {Star},
              max   : Nat \cup {Star}] \* INT_MAX when none is given

\* An argument is a number or a string; num is read as an int.
Argument(num, str) == [num |-> num, str |-> str]

-----------------------------------------------------------------------------
(* vsprintf.                                                               *)

x2c_tab == <<"0", "1", "2", "3", "4", "5", "6", "7",
             "8", "9", "a", "b", "c", "d", "e", "f">>
X2C_tab == [i \in DOMAIN x2c_tab |->
              IF i <= 10 THEN x2c_tab[i]
              ELSE <<"A", "B", "C", "D", "E", "F">>[i - 10]]

DigitTable(key) == IF key \in {"p", "X"} THEN X2C_tab ELSE x2c_tab

Base(key) == CASE key = "o" -> 8
               [] key \in {"p", "X", "x"} -> 16
               [] OTHER -> 10

\* u, which wraps for the smallest int.
Unsigned(key, num) ==
    (IF key = "d" /\ num < 0 THEN -num ELSE num) % TwoTo[Word]

\* Slip: the first digit goes to the end of temp and the others before it.
NumeralReversed(u, base, table) ==
    LET digits[n \in Nat] ==
          IF n < base THEN <<table[n + 1]>>
          ELSE <<table[(n % base) + 1]>> \o digits[n \div base]
    IN  digits[u]

\* int2ascii: at least one digit, the last one first, from the end of temp.
Numeral(u, base, table) ==
    LET digits[n \in Nat] ==
          IF n < base THEN <<table[n + 1]>>
          ELSE digits[n \div base] \o <<table[(n % base) + 1]>>
    IN  digits[u]

\* char temp[8 * sizeof(long) / 3 + 2], the terminator included.
TempSize == (Word \div 3) + 2

AtLeast0(n) == IF n > 0 THEN n ELSE 0

Copies(char, n) == [i \in 1..AtLeast0(n) |-> char]

\* What the directive converts the argument to.
Converted(d, arg) ==
    CASE d.key \in NumberKeys ->
           Numeral(Unsigned(d.key, arg.num), Base(d.key), DigitTable(d.key))
      [] d.key = "c" -> <<Head(arg.str)>>
      [] d.key = "%" -> <<"%">>
      [] d.key = "s" -> arg.str

\* string_length: no character and no percent sign is cut.
Length(d, body, max) ==
    IF d.key \in {"c", "%"} THEN 1
    ELSE IF Len(body) < max THEN Len(body) ELSE AtLeast0(max)

Negative(d, arg) == d.key = "d" /\ arg.num < 0

\* Slip: the sign is not taken off the width.
PaddingUnsigned(d, arg, width, len) ==
    Copies(IF d.zero THEN "0" ELSE " ", width - len)

Padding(d, arg, width, len) ==
    Copies(IF d.zero THEN "0" ELSE " ",
           width - len - (IF Negative(d, arg) THEN 1 ELSE 0))

\* string_print.  The sign before a number padded with blanks is written
\* and not counted.
StringPrint(d, arg, width, max) ==
    LET body == Converted(d, arg)
        len  == Length(d, body, max)
        pad  == Padding(d, arg, width, len)
        sign == IF Negative(d, arg) THEN <<"-">> ELSE <<>>
        number == SubSeq(body, 1, len)
        text == CASE d.zero /\ d.left   -> sign \o number \o pad
                  [] d.zero /\ ~d.left  -> sign \o pad \o number
                  [] ~d.zero /\ d.left  -> sign \o number \o pad
                  [] ~d.zero /\ ~d.left -> pad \o sign \o number
    IN  [text |-> text,
         len  |-> Len(text) - (IF d.zero THEN 0 ELSE Len(sign))]

Known == NumberKeys \cup {"c", "s", "%"}

\* One turn of the loop of vsprintf; out.args are the arguments left.  A
\* key that is not known is written over its percent sign.
Turn(out, d) ==
    LET afterW == IF d.width = Star THEN Tail(out.args) ELSE out.args
        width  == IF d.width = Star THEN Head(out.args).num ELSE d.width
        afterM == IF d.max = Star THEN Tail(afterW) ELSE afterW
        max    == IF d.max = Star THEN Head(afterW).num ELSE d.max
        arg    == IF d.key = "%" THEN Argument(0, <<>>) ELSE Head(afterM)
        done   == StringPrint(d, arg, width, max)
    IN  CASE d.key = "char" ->
               [text |-> Append(out.text, d.self),
                len  |-> out.len + 1,
                args |-> out.args]
          [] d.key \in Known ->
               [text |-> out.text \o done.text,
                len  |-> out.len + done.len,
                args |-> IF d.key = "%" THEN afterM ELSE Tail(afterM)]
          [] d.key \notin Known \cup {"char"} ->
               [text |-> out.text \o <<d.key, Unwritten>>,
                len  |-> out.len + 2,
                args |-> afterM]

\* The arguments that a turn takes.
Takes(d) ==
    (IF d.width = Star THEN 1 ELSE 0) + (IF d.max = Star THEN 1 ELSE 0)
      + (IF d.key \in Known \ {"%"} THEN 1 ELSE 0)

\* What the turns have made of the first n directives.
Turns(call) ==
    LET out[n \in 0..Len(call.fmt)] ==
          IF n = 0 THEN [text |-> <<>>, len |-> 0, args |-> call.args]
          ELSE Turn(out[n - 1], call.fmt[n])
    IN  out

\* The buffer but for its terminator, and what is returned.
Vsprintf(call) == Turns(call)[Len(call.fmt)]

-----------------------------------------------------------------------------
(* The formatter of printk.                                                *)

\* Digits from ten on are one letter too far.
PrintkDigit(rest) ==
    IF rest < 10 THEN x2c_tab[rest + 1]
    ELSE <<"B", "C", "D", "E", "F", "G">>[rest - 9]

\* printNum: the `0' for anything but a positive number is written without
\* moving on, so that the next character goes over it.
PrintNum(num, base) ==
    IF num > 0
    THEN Numeral(num, base, [i \in 1..base |-> PrintkDigit(i - 1)])
    ELSE <<>>

\* Slip: only a number moves on to the next argument.
NextArgNumber(d, args) == IF d.key \in {"d", "x"} THEN Tail(args) ELSE args

\* Every percent sign moves on to the next argument.
NextArg(d, args) == IF d.key = "char" THEN args ELSE Tail(args)

\* One turn of the loop of printk, which knows no flags and no width.
PrintkTurn(out, d) ==
    LET text == CASE d.key = "char" -> <<d.self>>
                  [] d.key = "c" -> <<Head(Head(out.args).str)>>
                  [] d.key = "d" -> PrintNum(Head(out.args).num, 10)
                  [] d.key = "x" -> PrintNum(Head(out.args).num, 16)
                  [] d.key = "s" -> Head(out.args).str
                  [] d.key \notin {"char", "c", "d", "x", "s"} -> <<>>
    IN  [text |-> out.text \o text, args |-> NextArg(d, out.args)]

PrintkTurns(call) ==
    LET out[n \in 0..Len(call.fmt)] ==
          IF n = 0 THEN [text |-> <<>>, args |-> call.args]
          ELSE PrintkTurn(out[n - 1], call.fmt[n])
    IN  out

Printk(call) == PrintkTurns(call)[Len(call.fmt)].text
=============================================================================
