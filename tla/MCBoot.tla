------------------------------- MODULE MCBoot -------------------------------
(* A floppy of eight clusters whose FAT has two sectors, with every order  *)
(* of the kernel's clusters, and some memory maps and program headers.     *)
EXTENDS Startup

Spaces == [LOADER |-> [seg |-> 96, offset |-> 4, space |-> 16],
           KERNEL |-> [seg |-> 48, offset |-> 0, space |-> 48]]

File(name, chain, size) == [name |-> name, first |-> chain[1], size |-> size]

\* An empty file has no cluster.
Bak == [name |-> "KERNEL.BAK", first |-> 0, size |-> 0]

Links(chain, mark) ==
    [c \in ToSet(chain) |->
        IF c = Last(chain) THEN mark
        ELSE chain[1 + CHOOSE i \in DOMAIN chain : chain[i] = c]]

Fs(root, loader, kernel, mark) ==
    [root |-> root, next |-> Links(loader, mark) @@ Links(kernel, mark),
     chain |-> [LOADER |-> loader, KERNEL |-> kernel]]

LoaderChain == <<9, 4>>

KernelChains ==
    {k \in [1..4 -> Clusters \ {2, 4, 9}] : IsInjective(k)}

\* The kernel's name behind one that begins alike, or in the last place.
Roots == {"behind", "last"}

Root(where, loader, kernel) ==
    IF where = "behind" THEN <<Bak, kernel, loader, NoEntry>>
    ELSE <<loader, Bak, NoEntry, kernel>>

Orders ==
    {Fs(Root(where, File("LOADER", LoaderChain, 12), File("KERNEL", k, 30)),
        LoaderChain, k, mark) :
            where \in Roots, k \in KernelChains, mark \in {4088, 4095}}

Fits == <<3, 5, 7, 9, 8, 6>>
Big  == <<3, 5, 7, 9, 8, 6, 4>>

Extremes ==
    LET loader == File("LOADER", <<2>>, 8) IN
    {Fs(<<loader, Bak, File("KERNEL", Fits, 48), NoEntry>>, <<2>>, Fits, 4095),
     Fs(<<loader, Bak, File("KERNEL", Big, 49), NoEntry>>, <<2>>, Big, 4095),
     Fs(<<loader, Bak, NoEntry, NoEntry>>, <<2>>, Fits, 4095),
     Fs(<<Bak, File("KERNEL", Fits, 48), NoEntry, NoEntry>>, <<2>>, Fits, 4095)}

Region(base, length, type) == [base |-> base, length |-> length, type |-> type]

MapPlain == <<Region(0, 10, 1), Region(10, 6, 2), Region(16, 15, 1), Region(60, 4, 2)>>
MapMixed == <<Region(16, 16, 1), Region(64, 8, 1), Region(0, 10, 1), Region(60, 4, 2)>>
MapHoles == <<Region(0, 3, 1), Region(20, 2, 1)>>
MapShort == <<Region(0, 5, 1)>>

Segment(type, offset, vaddr, filesz) ==
    [type |-> type, offset |-> offset, vaddr |-> vaddr, filesz |-> filesz]

HeadersTwo  == <<Segment(1, 4, 0, 10), Segment(0, 0, 0, 8), Segment(1, 17, 12, 13)>>
HeadersOne  == <<Segment(1, 8, 4, 16), Segment(1, 24, 30, 0)>>

Floppies ==
    [fs : Orders \cup Extremes, map : {MapPlain}, headers : {HeadersTwo}]

Computers ==
    [fs      : {CHOOSE f \in Orders : TRUE},
     map     : {MapPlain, MapMixed, MapHoles, MapShort},
     headers : {HeadersTwo, HeadersOne}]

MCMachines == Floppies \cup Computers

-----------------------------------------------------------------------------
(* The kernel: addresses below 640 KB, two slots besides the tasks.        *)

Layout == [gdt |-> 70000, idt |-> 74096, tss |-> 78000, proc |-> 130960,
           procBytes |-> 220, stack |-> 90000, clockTask |-> 17000,
           idleTask |-> 18000, loaderGdt |-> 590000]

Stubs == [v \in GateVectors |-> 65000 + 16 * v]
=============================================================================
