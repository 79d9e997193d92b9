----------------------------- MODULE MCPrinting -----------------------------
(* Words of five bits, lines of three cells, blocks in which a division    *)
(* fails from the fifth line on, and every flag of vsprintf with every     *)
(* conversion.                                                             *)
EXTENDS Printing

NL == "\n"

Plainly(key) == [key |-> key, self |-> "", left |-> FALSE, zero |-> FALSE,
                 width |-> 0, max |-> INT_MAX]

Char(c) == [Plainly("char") EXCEPT !.self = c]

Num(n) == Argument(n, <<"z">>)
Str(s) == Argument(1, s)

OneCall(d, args) == [fmt |-> <<d>>, args |-> args]

Flagged(key) ==
    [key : {key}, self : {""}, left : BOOLEAN, zero : BOOLEAN,
     width : {0, 3}, max : {1, INT_MAX}]

\* The least int, minus one, zero, one digit in every base, and the greatest.
Numbers ==
    {OneCall(d, <<Num(n)>>) : d \in Flagged("d"), n \in {-16, 0, 15}}
    \cup {OneCall(Plainly("d"), <<Num(n)>>) : n \in {-1, 7}}
    \cup {OneCall(d, <<Num(n)>>) :
            d \in Flagged("o") \cup Flagged("x"), n \in {-1, 12}}
    \cup {OneCall(Plainly(key), <<Num(-6)>>) : key \in {"u", "p", "X"}}

Strings ==
    {OneCall(d, <<Str(<<"a", "b">>)>>) :
        d \in {e \in Flagged("s") \cup Flagged("c") : ~e.zero}}

\* The width and the maximum among the arguments, negative ones included.
Starred ==
    {OneCall([Plainly("s") EXCEPT !.width = Star, !.max = Star],
             <<Num(width), Num(max), Str(<<"a", "b">>)>>) :
        width \in {-1, 4}, max \in {-2, 1, 9}}

Mixed ==
    {[fmt |-> <<Char("a"), Plainly("d"), Char(NL), Plainly("s")>>,
      args |-> <<Num(12), Str(<<"b">>)>>],
     [fmt |-> <<Plainly("s"), Plainly("c")>>,
      args |-> <<Str(<<"a", "b">>), Str(<<"c">>)>>],
     [fmt |-> <<Plainly("x"), Char("b"), Plainly("x")>>,
      args |-> <<Num(9), Num(11)>>],
     [fmt |-> <<Plainly("x")>>, args |-> <<Num(8)>>],
     [fmt |-> <<Plainly("%"), Plainly("c")>>, args |-> <<Str(<<"c">>)>>],
     [fmt |-> <<Plainly("q"), Plainly("d")>>, args |-> <<Num(-3)>>],
     [fmt |-> <<>>, args |-> <<>>], [fmt |-> <<Char(NL)>>, args |-> <<>>],
     [fmt |-> <<Char("a"), Char("b"), Char("c"), Char("d"), Char("e"), Char(NL)>>,
      args |-> <<>>]}

ConsoleCalls == Numbers \cup Strings \cup Starred \cup Mixed

KeyboardCalls ==
    {[fmt |-> <<Plainly("c"), Char(" ")>>, args |-> <<Str(<<c>>)>>] :
        c \in {"k", NL}}

NoExtent == -1

Report == <<"D", "E">>
=============================================================================
