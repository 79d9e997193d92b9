-------------------------------- MODULE Boot --------------------------------
(***************************************************************************)
(* From the boot sector to the kernel (src/boot/boot.asm, loader.asm and   *)
(* include/loader_32lib.asm): the boot sector reads the loader; the loader *)
(* asks the BIOS for the memory map, reads the kernel, goes to protected   *)
(* mode, maps the memory and copies the kernel's segments to where they    *)
(* are linked.                                                             *)
(*                                                                         *)
(* All of it runs alone and in order; what varies is what it finds: the    *)
(* floppy, the memory map and the headers of the kernel.  Memory sizes are *)
(* in pages.                                                               *)
(***************************************************************************)
EXTENDS Fat12, FiniteSets, FiniteSetsExt

CONSTANTS
    Machines,   \* what it may find: a set of [fs, map, headers]
    AddrPages,  \* pages of 32 bit addresses (2^20)
    PerTable,   \* entries in a page table (1024)
    BufSlots    \* descriptors that _MemChkBuf has room for (12)

\* What the BIOS says of a range of memory.
MemoryRange == [base : Nat, length : Nat, type : Nat]

\* A program header: where a segment lies in the file and where it goes.
Header == [type : Nat, offset : Nat, vaddr : Nat, filesz : Nat]

\* Segments as a linker makes them: in the file, and apart in memory.
Linked(program, floppy) ==
    /\ program \in Seq(Header) /\ program # <<>>
    /\ \A i \in DOMAIN program :
         program[i].type # 0 =>
           /\ \A e \in DOMAIN floppy.root :
                floppy.root[e].name = "KERNEL" =>
                  program[i].offset + program[i].filesz <= floppy.root[e].size
           /\ \A j \in DOMAIN program :
                i # j /\ program[j].type # 0 =>
                  \/ program[i].vaddr + program[i].filesz <= program[j].vaddr
                  \/ program[j].vaddr + program[j].filesz <= program[i].vaddr

ASSUME BootAssumption ==
    /\ DOMAIN Files = {"LOADER", "KERNEL"}
    /\ {AddrPages, PerTable, BufSlots} \subseteq Nat \ {0}
    /\ \A m \in Machines : /\ m.map \in Seq(MemoryRange)
                          /\ Len(m.map) \in 1..BufSlots
                          /\ Formatted(m.fs)
                          /\ Linked(m.headers, m.fs)

VARIABLES
    map,       \* the memory map: what int 0x15 returns, call by call
    headers,   \* the program headers of KERNEL.BIN
    place,     \* where the program is
    memory,    \* the sectors in memory, by the address they start at
    count,     \* ddMCRCount, then the descriptors or headers still to do
    memSize,   \* ddMemSize
    pde, pte,  \* the page directory and the page tables, as far as written
    image      \* the bytes of the kernel where it runs

bootVars == <<fs, rd, map, headers, place, memory, count, memSize, pde, pte,
              image>>

\* What the boot program finds and does not change.
found == <<fs, map, headers>>

-----------------------------------------------------------------------------
(* Real mode.                                                              *)

ReadsFile ==
    /\ place \in {"boot", "kernel"}
    /\ ReadFileStep(memory)
    /\ UNCHANGED <<found, place, count, memSize, pde, pte, image>>

JumpToLoader ==
    /\ place = "boot" /\ rd.step = "done"
    /\ place' = "memchk"
    /\ UNCHANGED <<found, rd, memory, count, memSize, pde, pte, image>>

\* int 0x15, eax = 0xe820: one descriptor, and in ebx whether it is the
\* last one.
MemChkLoop ==
    /\ place = "memchk"
    /\ count' = count + 1
    /\ IF count' < Len(map) THEN UNCHANGED <<rd, place>>
       ELSE place' = "kernel" /\ rd' = Started("KERNEL")
    /\ UNCHANGED <<found, memory, memSize, pde, pte, image>>

\* The carry flag is set, at any call.
MemChkFail ==
    /\ place = "memchk"
    /\ place' = "memfail"
    /\ count' = 0
    /\ UNCHANGED <<found, rd, memory, memSize, pde, pte, image>>

EnterProtectedMode ==
    /\ place = "kernel" /\ rd.step = "done"
    /\ place' = "size"
    /\ UNCHANGED <<found, rd, memory, count, memSize, pde, pte, image>>

-----------------------------------------------------------------------------
(* Protected mode.                                                         *)

\* ddBaseAddrLow + ddLengthLow; the high words are dropped.
Top(d) == ((d.base % AddrPages) + (d.length % AddrPages)) % AddrPages

\* One turn of calMemSize.
CalMemSize ==
    LET d == map[Len(map) - count + 1] IN
    /\ place = "size"
    /\ memSize' = IF d.type = 1 /\ Top(d) >= memSize THEN Top(d) ELSE memSize
    /\ count' = count - 1
    /\ place' = IF count' = 0 THEN "paging" ELSE place
    /\ UNCHANGED <<found, rd, memory, pde, pte, image>>

\* Slip: the memory beyond the last full table is left out.
TablesWhole == memSize \div PerTable

Tables == memSize \div PerTable + (IF memSize % PerTable = 0 THEN 0 ELSE 1)

\* SetupPaging; the tables lie one behind the other, and a memory of size 0
\* would make its loops run through all of memory.
SetupPaging ==
    /\ place = "paging" /\ Tables > 0
    /\ pde' = [i \in 0..Tables - 1 |-> i]
    /\ pte' = [i \in 0..Tables * PerTable - 1 |-> i]
    /\ place' = "copy"
    /\ count' = Len(headers)
    /\ UNCHANGED <<found, rd, memory, memSize, image>>

\* A byte of KERNEL.BIN as it lies in memory: its sector, its place there.
FileByte(k) ==
    LET at == Base("KERNEL") + k - (k % BytsPerSec)
    IN  <<IF at \in DOMAIN memory THEN memory[at] ELSE 0, k % BytsPerSec>>

\* Slip: a segment is taken from the start of the file.
CopiedFromStart(h) == [a \in h.vaddr..h.vaddr + h.filesz - 1 |->
                          FileByte(a - h.vaddr)]

Copied(h) == [a \in h.vaddr..h.vaddr + h.filesz - 1 |->
                 FileByte(h.offset + a - h.vaddr)]

\* One turn of InitKernelFile; the last one ends in the jump to the kernel.
InitKernelFile ==
    LET h == headers[Len(headers) - count + 1] IN
    /\ place = "copy"
    /\ image' = IF h.type = 0 THEN image ELSE Overwritten(image, Copied(h))
    /\ count' = count - 1
    /\ place' = IF count' = 0 THEN "entered" ELSE place
    /\ UNCHANGED <<found, rd, memory, memSize, pde, pte>>

-----------------------------------------------------------------------------
BootInit ==
    /\ \E m \in Machines :
         fs = m.fs /\ map = m.map /\ headers = m.headers
    /\ place = "boot" /\ rd = Started("LOADER")
    /\ memory = <<>> /\ count = 0 /\ memSize = 0
    /\ pde = <<>> /\ pte = <<>> /\ image = <<>>

\* jmp $, or the kernel.
Ended == place \in {"entered", "memfail"} \/ rd.step \in {"nofile", "toolarge"}

BootStep ==
    \/ ReadsFile \/ JumpToLoader
    \/ MemChkLoop \/ MemChkFail
    \/ EnterProtectedMode \/ CalMemSize \/ SetupPaging \/ InitKernelFile

-----------------------------------------------------------------------------
\* The sectors of a file, in order.
SectorsOf(file) ==
    [n \in DOMAIN fs.chain[file] |->
        fs.chain[file][n] + RootDirSectors + DeltaSectorNo]

BootTypeOK ==
    /\ rd \in RdType
    /\ place \in {"boot", "memchk", "memfail", "kernel", "size", "paging",
                  "copy", "entered"}
    /\ count \in 0..Max({BufSlots, Len(headers)})
    /\ memSize \in 0..AddrPages - 1

\* The search gives up only on a file that is not in the root directory,
\* and neither names that begin alike nor the ends of sectors mislead it.  A
\* file that has been read lies at its place in one piece and in order,
\* whatever the order of its clusters, across the ends of the FAT's sectors
\* and of segments.
FileLoaded ==
    /\ rd.step = "nofile" =>
         \A i \in DOMAIN fs.root : fs.root[i].name # rd.file
    /\ rd.step = "done" =>
         LET sectors == SectorsOf(rd.file) IN
         \A n \in DOMAIN sectors :
            LET at == Base(rd.file) + (n - 1) * BytsPerSec IN
            at \in DOMAIN memory /\ memory[at] = sectors[n]

\* load.inc:36: a file keeps to the space reserved for it, which for the
\* kernel ends where the loader that is reading it begins.
KeepsToItsSpace ==
    \A a \in DOMAIN memory :
        \E file \in DOMAIN Files :
            Base(file) <= a /\ a + BytsPerSec <= Base(file) + Space(file)

\* Where a linear page leads to through the tables.
Walk(page) == pte[pde[page \div PerTable] * PerTable + (page % PerTable)]

\* Each page of 32 bit addresses that the BIOS says is memory is mapped to
\* itself before the kernel runs, although the map comes in any order, has
\* holes and goes on above 4 GB.
MemoryMapped ==
    place \in {"copy", "entered"} =>
        \A i \in DOMAIN map : \A page \in 0..AddrPages - 1 :
            map[i].type = 1 /\ page \in map[i].base..map[i].base + map[i].length - 1
              => page \div PerTable \in DOMAIN pde /\ Walk(page) = page

\* When the kernel is entered each of its segments lies where it was linked,
\* byte for byte as in the sectors of KERNEL.BIN.
KernelPlaced ==
    place = "entered" =>
        LET sectors == SectorsOf("KERNEL") IN
        \A i \in DOMAIN headers : \A k \in 0..headers[i].filesz - 1 :
            LET h == headers[i]
                b == h.offset + k
            IN  h.type # 0 =>
                  image[h.vaddr + k]
                    = <<sectors[b \div BytsPerSec + 1], b % BytsPerSec>>
=============================================================================
