------------------------------ MODULE Segments ------------------------------
(***************************************************************************)
(* The tables of the i386 as the kernel writes them (src/kernel/include/   *)
(* protect.h, init_segment_desc and init_gate in src/kernel/protect.c) and *)
(* as the processor reads them.                                            *)
(*                                                                         *)
(* Fields are numbers of their width.  Where the code joins fields with    *)
(* `|' their bits are apart, and the sum says the same.                    *)
(***************************************************************************)
EXTENDS Naturals, Sequences, TLC

\* x >> n and the low n bits of x.
ShiftRight(x, n) == x \div 2^n
LowBits(x, n) == x % 2^n

-----------------------------------------------------------------------------
(* Names of protect.h.                                                     *)

DescriptorSize == 8

Index == [text |-> 1, data |-> 2, video |-> 3, tss |-> 4, ldtFirst |-> 5]

LdtIndex == [cs |-> 0, ds |-> 1]

Privilege == [kernel |-> 0, task |-> 1, server |-> 2, user |-> 3]

Local == 4     \* SA_TIL

Attr == [g |-> 32768, d |-> 16384,                          \* DA_LIMIT_4K, DA_32
         rw |-> 146, cr |-> 154,                            \* DA_DRW, DA_CR
         ldt |-> 130, tss |-> 137, intGate |-> 142]         \* DA_LDT ...

Selector(index, where, rpl) == index * DescriptorSize + where + rpl

SELECTOR_KERNEL_CS == Selector(Index.text, 0, Privilege.kernel)
SELECTOR_KERNEL_DS == Selector(Index.data, 0, Privilege.kernel)
SELECTOR_KERNEL_GS == Selector(Index.video, 0, Privilege.user)
SELECTOR_TSS       == Selector(Index.tss, 0, Privilege.kernel)

\* seg & SA_RPL_MASK | rpl
WithRpl(sel, rpl) == ShiftRight(sel, 2) * 4 + rpl

ExceptionVectors == 0..14 \cup {16}
IrqVector(i) == 32 + i        \* INT_VECTOR_IRQ0, and IRQ8 eight above
Level0Vector == 102
SysCallVector == 148

-----------------------------------------------------------------------------
(* What the kernel writes.                                                 *)

Bits8 == 0..255
Bits16 == 0..65535

SegDescriptor ==
    [limitLow : Bits16, baseLow : Bits16, baseMiddle : Bits8,
     access : Bits8, granularity : Bits8, baseHigh : Bits8]

NoDescriptor == [limitLow |-> 0, baseLow |-> 0, baseMiddle |-> 0,
                 access |-> 0, granularity |-> 0, baseHigh |-> 0]

\* Slip: what does not fit into base_low is left in it.
SegmentDescUncut(base, limit, attribute) ==
    [limitLow    |-> LowBits(limit, 16),
     baseLow     |-> base,
     baseMiddle  |-> LowBits(ShiftRight(base, 16), 8),
     access      |-> LowBits(attribute, 8),
     granularity |-> LowBits(ShiftRight(limit, 16), 4)
                     + (ShiftRight(attribute, 12) * 16),
     baseHigh    |-> LowBits(ShiftRight(base, 24), 8)]

\* init_segment_desc
SegmentDesc(base, limit, attribute) ==
    [limitLow    |-> LowBits(limit, 16),
     baseLow     |-> LowBits(base, 16),
     baseMiddle  |-> LowBits(ShiftRight(base, 16), 8),
     access      |-> LowBits(attribute, 8),
     granularity |-> LowBits(ShiftRight(limit, 16), 4)
                     + (ShiftRight(attribute, 12) * 16),
     baseHigh    |-> LowBits(ShiftRight(base, 24), 8)]

GateType == [offsetLow : Bits16, selector : Bits16, attr : Bits8, offsetHigh : Bits16]

\* init_gate, with DA_386IGate as protect_init calls it.
Gate(handler, privilege) ==
    [offsetLow  |-> LowBits(handler, 16),
     selector   |-> SELECTOR_KERNEL_CS,
     attr       |-> Attr.intGate + (privilege * 32),
     offsetHigh |-> LowBits(ShiftRight(handler, 16), 16)]

-----------------------------------------------------------------------------
(* What the processor reads.                                               *)

Present(a) == ShiftRight(a, 7) % 2 = 1
Dpl(a)     == LowBits(ShiftRight(a, 5), 2)
Kind(a)    == LowBits(a, 5)     \* S and the type

BaseOf(d) == d.baseLow + (d.baseMiddle * 65536) + (d.baseHigh * 16777216)

\* The limit in the units the descriptor counts in.
LimitOf(d) == d.limitLow + (LowBits(d.granularity, 4) * 65536)

\* All of memory: 2^20 pages from 0.
Flat(d) == BaseOf(d) = 0 /\ LimitOf(d) = 1048575 /\ d.granularity >= 128

EntryOf(g) == g.offsetLow + (g.offsetHigh * 65536)

IndexOf(sel) == ShiftRight(sel, 3)
Rpl(sel)     == LowBits(sel, 2)
IsLocal(sel) == LowBits(ShiftRight(sel, 2), 1) = 1

\* The descriptor a selector designates, of two tables.
Designated(global, local, sel) ==
    IF IsLocal(sel)
    THEN IF IndexOf(sel) \in DOMAIN local THEN local[IndexOf(sel)] ELSE NoDescriptor
    ELSE IF IndexOf(sel) \in DOMAIN global THEN global[IndexOf(sel)] ELSE NoDescriptor

\* The first n entries of a table, for a limit that ends with entry n - 1.
Covered(table, limit) ==
    [i \in {j \in DOMAIN table : j * DescriptorSize + 7 <= limit} |-> table[i]]
=============================================================================
