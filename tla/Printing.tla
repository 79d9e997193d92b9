------------------------------ MODULE Printing ------------------------------
(***************************************************************************)
(* The console of the kernel: k_printf (src/kernel/misc.c) formats a text  *)
(* into a buffer on its stack, and low_print (src/kernel/                  *)
(* kernel_386lib.asm) copies it to the screen character by character.      *)
(*                                                                         *)
(* Interrupts are on meanwhile, and the handler of the keyboard prints     *)
(* too.  `active' are the activations of k_printf, the one that runs last. *)
(* The position is loaded at the start and stored at the end of low_print. *)
(* The division that finds the row takes the low half of edi only (AX):    *)
(* a newline stays within a block of 64 KB, and where the quotient is no   *)
(* byte it is a divide error, whose handler (src/kernel/exception.c)       *)
(* prints as well and returns to the division.                             *)
(*                                                                         *)
(* The screen is a row of cells, of which low_print sees Cols in a line;   *)
(* edi and display_position, which count bytes, are halved.                *)
(***************************************************************************)
EXTENDS Format

CONSTANTS
    Cols,         \* the cells of a line: 80
    LastRow,      \* the greatest quotient of the division: 255
    Block,        \* the cells that AX counts: 32768
    Cells,        \* the cells from B8000h to the page directory: 147456
    Start,        \* display_position at boot: 480
    Calls,        \* what processes print: a format and its arguments
    KeyCalls,     \* what the handler of the keyboard prints
    Newline,      \* the character 10
    ReportText,   \* exception_table[0], followed by "OS is down"
    ComeRound     \* the extent, once a line has come round to a first row

ASSUME PrintingAssumption ==
    /\ Cols \in Nat \ {0} /\ LastRow \in Nat /\ Cols <= LastRow
    /\ Block \in Nat /\ Block > (LastRow + 1) * Cols
    /\ Cells \in Nat /\ Start \in 0..Cells
    /\ ComeRound \notin Nat
    /\ ReportText \in Seq(STRING) /\ ReportText # <<>>
    /\ Newline \notin ToSet(ReportText)
    /\ \A rest \in 0..15 : Newline \notin {x2c_tab[rest + 1], PrintkDigit(rest)}

\* The formatters take as many arguments off the stack as the format asks
\* for, and no string is longer than an int counts.
ASSUME CallsAssumption ==
    \A call \in Calls \cup KeyCalls :
        /\ call.fmt \in Seq(Directive)
        /\ call.args \in Seq([num : -INT_MAX - 1..INT_MAX, str : Seq(STRING)])
        /\ \A k \in DOMAIN call.args : Len(call.args[k].str) <= INT_MAX
        /\ \A n \in DOMAIN call.fmt :
             Len(Turns(call)[n - 1].args) >= Takes(call.fmt[n])

VARIABLES
    active,            \* the activations of k_printf and low_print
    display_position,  \* where the next text begins
    derailed,          \* what the processor does is not known any more
    extent             \* for the properties: the cells from the start that
                       \* hold text of prints that interrupted no other one

printVars == <<active, display_position, derailed, extent>>

Kinds == {"process", "handler", "exception"}

\* What can be in a buffer.
Texts == {Vsprintf(call).text : call \in Calls \cup KeyCalls} \cup {ReportText}

\* Newlines do not leave the block of the last cell.
Positions == 0..(Cells \div Block + 1) * Block - 1

ActivationType ==
    [kind : Kinds,
     call : Calls \cup KeyCalls \cup {<<>>},
     buf  : Texts,
     at   : Nat \ {0},      \* esi: the next character
     edi  : Positions,
     from : Positions]      \* for the properties: edi at the start

\* Slip: the buffer is static, as the comment at misc.c:31 would have it.
BeginStatic(kind, call, text) ==
    Append([k \in DOMAIN active |-> [active[k] EXCEPT !.buf = text]],
           [kind |-> kind, call |-> call, buf |-> text, at |-> 1,
            edi |-> display_position, from |-> display_position])

\* A text is formatted and low_print called.
Begin(kind, call, text) ==
    Append(active, [kind |-> kind, call |-> call, buf |-> text, at |-> 1,
                    edi |-> display_position, from |-> display_position])

Top == active[Len(active)]

Put(a) == active' = [active EXCEPT ![Len(active)] = a]

\* The extent when something has been stored in the cell.
Grown(cell) ==
    IF extent # ComeRound /\ Len(active) = 1 /\ cell >= extent THEN cell + 1
    ELSE extent

-----------------------------------------------------------------------------
(* Who prints.                                                             *)

PrintProcess(call) ==
    /\ active = <<>> /\ ~derailed
    /\ active' = Begin("process", call, Vsprintf(call).text)
    /\ UNCHANGED <<display_position, derailed, extent>>

\* The line of the keyboard is masked while its handler runs, and the gate
\* of an exception turns interrupts off.
KeyMasked == \E k \in DOMAIN active : active[k].kind # "process"

PrintKey(call) ==
    /\ ~derailed /\ ~KeyMasked
    /\ active' = Begin("handler", call, Vsprintf(call).text)
    /\ UNCHANGED <<display_position, derailed, extent>>

-----------------------------------------------------------------------------
(* low_print.                                                              *)

Busy == active # <<>> /\ ~derailed

Ended(a) == a.at > Len(a.buf)

More == Busy /\ ~Ended(Top)

PutChar ==
    /\ More /\ Top.buf[Top.at] # Newline
    /\ Top.edi < Cells
    /\ Put([Top EXCEPT !.at = @ + 1, !.edi = @ + 1])
    /\ extent' = Grown(Top.edi)
    /\ UNCHANGED <<display_position, derailed>>

\* Within the limit of gs, 1 MB (loader.asm:16), lies the page directory
\* (load.inc:17).  A character stored there goes over the entry that maps
\* the kernel: where its next address leads is not known.
StoreOnPageDir ==
    /\ More /\ Top.buf[Top.at] # Newline
    /\ Top.edi >= Cells
    /\ derailed' = TRUE
    /\ UNCHANGED <<active, display_position, extent>>

\* AX, and the quotient of it.
Low(cell) == cell % Block

Row(cell) == Low(cell) \div Cols

\* Slip: the row is not counted up.
NextRowSame(cell) == cell - Low(cell) + Row(cell) * Cols

\* The quotient and its successor are bytes; the high half of eax stays.
NextRow(cell) ==
    cell - Low(cell) + ((Row(cell) + 1) % (LastRow + 1)) * Cols

BreakLine ==
    /\ More /\ Top.buf[Top.at] = Newline
    /\ Row(Top.edi) <= LastRow
    /\ Put([Top EXCEPT !.at = @ + 1, !.edi = NextRow(@)])
    /\ extent' = IF Row(Top.edi) = LastRow THEN ComeRound ELSE extent
    /\ UNCHANGED <<display_position, derailed>>

\* Slip: the handler of the exception returns behind the division.
SkipDivision(a) == [a EXCEPT !.at = @ + 1]

\* What the handler returns to is the division that failed.
Faulted(a) == a

\* The quotient does not fit: exception_handler prints and returns.
DivideError ==
    /\ More /\ Top.buf[Top.at] = Newline
    /\ Row(Top.edi) > LastRow
    /\ active' = Append(Front(active) \o <<Faulted(Top)>>,
                        Last(Begin("exception", <<>>, ReportText)))
    /\ UNCHANGED <<display_position, derailed, extent>>

PrintEnd ==
    /\ Busy /\ Ended(Top)
    /\ display_position' = Top.edi
    /\ active' = Front(active)
    /\ UNCHANGED <<derailed, extent>>

-----------------------------------------------------------------------------
PrintingInit ==
    /\ active = <<>>
    /\ display_position = Start
    /\ derailed = FALSE
    /\ extent = Start

LowPrint ==
    PutChar \/ StoreOnPageDir \/ BreakLine \/ DivideError \/ PrintEnd

PrintingNext ==
    \/ \E call \in Calls : PrintProcess(call)
    \/ \E call \in KeyCalls : PrintKey(call)
    \/ LowPrint

\* The processor executes what runs, and keys do not come faster than a
\* process prints between two of them.
PrintingSpec ==
    /\ PrintingInit /\ [][PrintingNext]_printVars
    /\ WF_printVars(LowPrint)
    /\ SF_printVars(LowPrint /\ Top.kind = "process")

-----------------------------------------------------------------------------
(* What is printed where.                                                  *)

PrintingTypeOK ==
    /\ active \in Seq(ActivationType) /\ Len(active) <= 3
    /\ display_position \in Positions
    /\ derailed \in BOOLEAN
    /\ extent \in Positions \cup {ComeRound}

\* Whoever interrupts a print, it goes on with its own text: the buffer is
\* its own, whatever misc.c:31 says.
PrintsItsOwn ==
    /\ PrintingTypeOK
    /\ \A k \in DOMAIN active :
         active[k].buf = IF active[k].kind = "exception" THEN ReportText
                         ELSE Vsprintf(active[k].call).text

\* What is on the screen before a print begins stays there, until a line has
\* come round: the print goes behind it, and so does whatever interrupts the
\* print and begins where the print began, over its text.  And whatever has
\* interrupted it, a print that ends leaves the position behind its text.
OldTextStays ==
    extent # ComeRound =>
        /\ active = <<>> => display_position >= extent
        /\ active # <<>> => active[1].edi >= extent
        /\ \A k \in DOMAIN active : active[k].edi >= active[1].from

Reporting == \E k \in DOMAIN active : active[k].kind = "exception"

\* Whoever divides in vain never gets on, although the handler that reports
\* it returns: exception.c:49 is right to say that the system is down.
DownForGood == [](Reporting => [](active # <<>>))

\* A print ends, unless it meets an exception, after which none ever does.
PrintingEnds ==
    /\ active # <<>> ~> (active = <<>> \/ Reporting \/ derailed)
    /\ DownForGood

-----------------------------------------------------------------------------
(* What the kernel itself prints, with the real sizes: the characters of a *)
(* format that stand for themselves, and its fields.                       *)

\* char buf[160]
Buf == 160

Field(key, width, longest) ==
    [key |-> key, width |-> width, longest |-> longest]

Fixed(key, width) ==
    Field(key, width, CASE key = "d" -> 11 [] key = "u" -> 10
                        [] key = "x" -> 8  [] key = "c" -> 1)

Message(plain, fields) == [plain |-> plain, fields |-> fields]

\* The file, the line and the assertion, of which there is one.
AssertionMessages ==
    {Message(82, <<>>), Message(81, <<>>),
     Message(42, <<Field("s", 0, 20), Fixed("d", 0), Field("s", 0, 32)>>)}

\* The longest message is the one of the clock task (clock.c:210).
PanicMessages ==
    {Message(37, <<Field("s", 0, 24)>>), Message(34, <<Fixed("x", 0)>>)}

ClockMessages ==
    {Message(24, [field \in 1..6 |-> Fixed("d", 0)]),
     Message(33, <<Fixed("d", 0)>>)}

ExceptionMessage == Message(29, <<Fixed("x", 0)>>)
DefaultMessage   == Message(9, <<Fixed("d", 0)>>)
KeyMessage       == Message(1, <<Fixed("c", 0)>>)

\* char name[32]
NAME == 31

ProcDump ==
    {Message(69, <<>>), Message(3, <<Fixed("d", 3)>>),
     Message(12, <<Fixed("x", 5), Fixed("x", 6), Fixed("x", 2),
                   Fixed("u", 6), Fixed("u", 6), Fixed("u", 5), Fixed("u", 5)>>),
     Message(2, <<Field("s", 5, 5)>>), Message(1, <<Field("s", 0, NAME)>>)}

MapDump ==
    {Message(38, <<>>),
     Message(8, <<Fixed("d", 3), Field("s", 0, NAME), Fixed("x", 12),
                  Fixed("u", 5)>>)}

Longest(message) ==
    LET len[n \in 0..Len(message.fields)] ==
          IF n = 0 THEN message.plain
          ELSE LET f == message.fields[n] IN
               len[n - 1] + (IF f.width > f.longest THEN f.width ELSE f.longest)
    IN  len[Len(message.fields)]

\* misc.c:33: nothing the kernel prints needs more than the 160 bytes of the
\* buffer, its terminator included, whatever the arguments are.
BuffersSuffice ==
    \A message \in AssertionMessages \cup PanicMessages \cup ClockMessages
                     \cup ProcDump \cup MapDump
                     \cup {ExceptionMessage, DefaultMessage, KeyMessage} :
        Longest(message) + 1 <= Buf

-----------------------------------------------------------------------------
(* What the formatters make of a call.                                     *)

\* A call under way, of one directive that is no plain character.
Single == {call \in {active[k].call : k \in DOMAIN active} :
             call # <<>> /\ Len(call.fmt) = 1 /\ call.fmt[1].key # "char"}

\* Its arguments: a width, a maximum, what is converted.
OperandOf(call) == call.args[Takes(call.fmt[1])]

WidthOf(call) ==
    IF call.fmt[1].width = Star THEN call.args[1].num ELSE call.fmt[1].width

MaxOf(call) ==
    IF call.fmt[1].max = Star THEN call.args[Takes(call.fmt[1]) - 1].num
    ELSE call.fmt[1].max

\* The number that a text shows, its sign and blanks apart.
Shown(text, base, table) ==
    LET digit(char) == (CHOOSE i \in DOMAIN table : table[i] = char) - 1
        value[n \in 0..Len(text)] ==
          IF n = 0 THEN 0
          ELSE IF text[n] \in {" ", "-"} THEN value[n - 1]
          ELSE value[n - 1] * base + digit(text[n])
    IN  value[Len(text)]

\* A number can be read back from what vsprintf printed, unless the maximum
\* cuts digits off or zeros are put behind it; its sign is before the digits,
\* with nothing but blanks before it.  The digits of the longest one fit in
\* temp with their terminator.
NumbersReadBack ==
    \A call \in {c \in Single : c.fmt[1].key \in NumberKeys} :
        LET d     == call.fmt[1]
            num   == OperandOf(call).num
            text  == Vsprintf(call).text
            shown == Shown(text, Base(d.key), DigitTable(d.key))
        IN  /\ Len(Converted(d, OperandOf(call))) + 1 <= TempSize
            /\ ~(d.zero /\ d.left) /\ MaxOf(call) >= Word =>
              /\ (IF "-" \in ToSet(text) THEN -shown ELSE shown) =
                   (IF d.key = "d" THEN num ELSE num % TwoTo[Word])
              /\ \A i \in DOMAIN text :
                   text[i] = "-" => \A j \in 1..i - 1 : text[j] = " "

\* A field is as wide as asked for and not wider than its text needs, and so
\* no message of the kernel is too long for the buffer; what is returned is
\* the length, but for signs before numbers padded with blanks, which
\* vsprintf.c:173 does not count.
FieldsFilled ==
    /\ BuffersSuffice
    /\ \A call \in {c \in Single : c.fmt[1].key \in Known} :
         LET d    == call.fmt[1]
             out  == Vsprintf(call)
             bare == Vsprintf([fmt  |-> <<[d EXCEPT !.width = 0]>>,
                               args |-> IF d.width = Star THEN Tail(call.args)
                                        ELSE call.args])
             size == Len(bare.text)
         IN  /\ Len(out.text) = IF WidthOf(call) > size THEN WidthOf(call)
                                ELSE size
             /\ Len(out.text) - out.len \in {0, 1}
             /\ Len(out.text) # out.len => "-" \in ToSet(out.text) /\ ~d.zero

\* Where printc puts the character: lines do not end by themselves.
PrintcNext(place, char) ==
    IF char = Newline THEN [row |-> place.row + 1, col |-> 0]
    ELSE [place EXCEPT !.col = @ + 1]

PrintcPlace(text) ==
    LET place[n \in 0..Len(text)] ==
          IF n = 0 THEN [row |-> 0, col |-> 0]
          ELSE PrintcNext(place[n - 1], text[n])
    IN  place[Len(text)]

\* The cell that low_print comes to.
CellBehind(text) ==
    LET cell[n \in 0..Len(text)] ==
          IF n = 0 THEN 0
          ELSE IF text[n] = Newline THEN NextRow(cell[n - 1])
          ELSE cell[n - 1] + 1
    IN  cell[Len(text)]

\* Formats that both formatters know, with positive numbers.
Plain(call) ==
    /\ \A i \in DOMAIN call.fmt :
          LET d == call.fmt[i] IN
          /\ d.key \in {"char", "c", "d", "s", "x"}
          /\ ~d.left /\ ~d.zero /\ d.width = 0 /\ d.max = INT_MAX
    /\ \A i \in DOMAIN call.args : call.args[i].num > 0

\* A hexadecimal number in the call has a digit above nine.
HasLetter(call) ==
    \E n \in DOMAIN call.fmt :
        /\ call.fmt[n].key = "x"
        /\ \E rest \in 10..15 :
             x2c_tab[rest + 1] \in
                 ToSet(Numeral(Head(Turns(call)[n - 1].args).num, 16, x2c_tab))

\* A character of printk and the one of vsprintf: what vsprintf writes as
\* one of the digits a to f may be a letter from B to G.
Respelt(char, usual) ==
    \/ char = usual
    \/ \E rest \in 10..15 : char = PrintkDigit(rest) /\ usual = x2c_tab[rest + 1]

\* For characters, strings and positive numbers printk makes the text that
\* k_printf makes, hexadecimal digits above nine apart (printk.c:61): it
\* differs exactly if there is one, and in such letters only.  The cursor is
\* left where low_print leaves it, as long as the text is no longer than a
\* line.
PrintkAgrees ==
    \A call \in {c \in {active[k].call : k \in DOMAIN active} : c # <<>>} :
        LET text  == Vsprintf(call).text
            other == Printk(call)
            place == PrintcPlace(other)
        IN  Plain(call) =>
              /\ other = text <=> ~HasLetter(call)
              /\ Len(other) = Len(text)
              /\ \A i \in DOMAIN text : Respelt(other[i], text[i])
              /\ Len(text) <= Cols =>
                   place.row * Cols + place.col = CellBehind(text)
=============================================================================
