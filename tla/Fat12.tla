------------------------------- MODULE Fat12 --------------------------------
(***************************************************************************)
(* Reading one file from the boot floppy, in real mode (src/boot/include/  *)
(* readFileFAT12.asm).  The boot sector reads the loader with this code    *)
(* and the loader reads the kernel.                                        *)
(*                                                                         *)
(* The entries of the FAT are packed to twelve bits and unpacked as the    *)
(* code does it; sectors of files are opaque and are known by their        *)
(* number.  A segment is its linear address.  Sizes of the floppy and of   *)
(* segments are constants, so that small ones have all the boundaries.     *)
(***************************************************************************)
EXTENDS Integers, Sequences, SequencesExt

CONSTANTS
    BytsPerSec,      \* bytes in a sector (512)
    SecPerTrk,       \* sectors in a track (18)
    FATSz,           \* sectors in each of the two FATs (9)
    RootDirSectors,  \* sectors of the root directory (14)
    EntriesPerSec,   \* directory entries in a sector (16)
    TotSec,          \* sectors of the floppy (2880)
    SegBytes,        \* bytes that an offset register reaches (65536)
    Files            \* for each file the code reads: where it goes

ASSUME Fat12Assumption ==
    /\ {BytsPerSec, SecPerTrk, FATSz, RootDirSectors} \subseteq Nat \ {0}
    /\ {EntriesPerSec, TotSec, SegBytes} \subseteq Nat \ {0}
    /\ SegBytes % BytsPerSec = 0
    /\ SecPerTrk > FATSz + 1      \* a read of the FAT stays on its track
    /\ \A file \in DOMAIN Files :
         /\ Files[file].seg \in Nat
         /\ Files[file].offset \in 0..SegBytes - 1
         /\ Files[file].space \in Nat /\ Files[file].space % BytsPerSec = 0

SectorNoOfFAT1 == 1
SectorNoOfRootDirectory == SectorNoOfFAT1 + 2 * FATSz
DeltaSectorNo == SectorNoOfRootDirectory - 2

\* The place for a file: FILE_SEG, FILE_OFFSET, FILE_HAVE_SPACE.
Base(file)   == Files[file].seg + Files[file].offset
Space(file)  == Files[file].space

Clusters == 2..TotSec - RootDirSectors - DeltaSectorNo - 1

Bits12 == 0..4095

EndOfFile(c) == c >= 4088

\* The FAT has an entry of twelve bits for each cluster, and there are fewer
\* clusters than numbers that do not mark an end.
ASSUME GeometryAssumption ==
    /\ SectorNoOfRootDirectory + RootDirSectors <= TotSec
    /\ \A c \in Clusters : ~EndOfFile(c) /\ (3 * c) \div 2 + 1 < FATSz * BytsPerSec

\* What an entry of the root directory says.
DirEntry == [name : STRING, first : Bits12, size : Nat]

\* The clusters of a file, linked from the first one to a mark for the end:
\* just enough of them.
Chained(floppy, chain, entry) ==
    /\ chain \in Seq(Clusters) /\ chain # <<>>
    /\ chain[1] = entry.first
    /\ \A n \in DOMAIN chain :
         /\ chain[n] \in DOMAIN floppy.next
         /\ IF n < Len(chain) THEN floppy.next[chain[n]] = chain[n + 1]
                              ELSE EndOfFile(floppy.next[chain[n]])
    /\ entry.size > (Len(chain) - 1) * BytsPerSec
    /\ entry.size <= Len(chain) * BytsPerSec

\* A floppy as the tools write it, with one entry at most for a file that is
\* looked for.
Formatted(floppy) ==
    /\ floppy.root \in Seq(DirEntry)
    /\ Len(floppy.root) <= RootDirSectors * EntriesPerSec
    /\ \A c \in DOMAIN floppy.next : floppy.next[c] \in Bits12
    /\ \A i \in DOMAIN floppy.root :
         floppy.root[i].name \in DOMAIN Files =>
           /\ \A j \in DOMAIN floppy.root :
                floppy.root[j].name = floppy.root[i].name => j = i
           /\ Chained(floppy, floppy.chain[floppy.root[i].name], floppy.root[i])

VARIABLES
    fs,     \* the file system: root (directory entries), next (the FAT) and,
            \* for the properties only, chain (the clusters of each file)
    rd      \* the registers and variables of this code, a record of RdType

RdType ==
    [step    : {"idle", "root", "names", "data", "fat", "done", "nofile",
                "toolarge"},
     file    : DOMAIN Files,
     wSector : 0..TotSec,
     left    : 0..RootDirSectors,             \* wRootDirSizeLoop
     di      : Nat,                           \* from the start of the buffer
     dx      : 0..EntriesPerSec,
     cluster : Bits12,
     es      : Nat,
     bx      : 0..SegBytes - 1]

-----------------------------------------------------------------------------
(* The floppy, as the tools that made it wrote it.                         *)

\* Entry c of the FAT, 0 if it is free.  Entries 0 and 1 are no clusters, and
\* nothing asks for them.
Entry(c) == IF c \in DOMAIN fs.next THEN fs.next[c] ELSE 0

\* Byte k of the FAT: three bytes hold two entries.
FatByte(k) ==
    LET pair == 2 * (k \div 3) IN
    CASE k % 3 = 0 -> Entry(pair) % 256
      [] k % 3 = 1 -> Entry(pair) \div 256 + 16 * (Entry(pair + 1) % 16)
      [] k % 3 = 2 -> Entry(pair + 1) \div 16

NoEntry == [name |-> "free", first |-> 0, size |-> 0]

RootEntry(k) == IF k \in DOMAIN fs.root THEN fs.root[k] ELSE NoEntry

SectorOf(lba) ==
    IF lba \in SectorNoOfFAT1..SectorNoOfFAT1 + 2 * FATSz - 1
    THEN LET s == (lba - SectorNoOfFAT1) % FATSz
         IN  [i \in 1..BytsPerSec |-> FatByte(s * BytsPerSec + i - 1)]
    ELSE LET s == lba - SectorNoOfRootDirectory
         IN  [i \in 1..EntriesPerSec |-> RootEntry(s * EntriesPerSec + i)]

\* int 0x13: the sector that a cylinder, head and sector number name.
Int13(chs) == (chs.cyl * 2 + chs.head) * SecPerTrk + chs.sector - 1

\* It fails, and the code tries again for ever, for a sector that is not
\* there and for a read across a boundary of the DMA.
Reads(lba, to) ==
    /\ lba < TotSec
    /\ to \div SegBytes = (to + BytsPerSec - 1) \div SegBytes

-----------------------------------------------------------------------------
\* readSect: the number of a sector as cylinder, head and sector.
Chs(lba) ==
    LET track == lba \div SecPerTrk
    IN  [sector |-> (lba % SecPerTrk) + 1,
         head   |-> track % 2,
         cyl    |-> track \div 2]

ReadSect(lba) == SectorOf(Int13(Chs(lba)))

\* The bytes in which the name of an entry agrees with the one looked for:
\* eleven for the file itself.
SameBytes(name, file) ==
    CASE name = file -> 11
      [] name = "KERNEL.BAK" /\ file = "KERNEL" -> 9
      [] OTHER -> 0

\* and di, 0xfff0; add di, 32
NextItem(di, same) == (di + same) - ((di + same) % 16) + 32

\* Slip: the size of the file is not looked at.
TooLargeNever(size, file) == FALSE

TooLarge(size, file) == size > Space(file)

\* The entry in the word at its first byte: shr ax, 4 or and ax, 0x0fff.
Unpack(c, word) == IF (3 * c) % 2 = 1 THEN word \div 16 ELSE word % 4096

\* get_fat_entry: the word is in two sectors since it may be divided between
\* them.
GetFatEntry(c) ==
    LET offset == (3 * c) \div 2
        lba    == SectorNoOfFAT1 + offset \div BytsPerSec
        buffer == ReadSect(lba) \o ReadSect(lba + 1)
        i      == offset % BytsPerSec
        word   == buffer[i + 1] + 256 * buffer[i + 2]
    IN  Unpack(c, word)

\* Slip: the segment stays.
AdvanceInSegment ==
    [rd EXCEPT !.bx = (@ + BytsPerSec) % SegBytes]

\* add bx, 512, and the next segment if there is a carry
Advance ==
    [rd EXCEPT !.bx = (@ + BytsPerSec) % SegBytes,
               !.es = IF rd.bx + BytsPerSec >= SegBytes
                      THEN @ + SegBytes ELSE @]

-----------------------------------------------------------------------------
\* start_read_file
Started(file) ==
    [step |-> "root", file |-> file, wSector |-> SectorNoOfRootDirectory,
     left |-> RootDirSectors, di |-> 0, dx |-> 0, cluster |-> 0,
     es |-> 0, bx |-> 0]

SearchSector ==
    /\ rd.step = "root"
    /\ rd' = IF rd.left = 0 THEN [rd EXCEPT !.step = "nofile"]
             ELSE [rd EXCEPT !.step = "names", !.left = @ - 1, !.di = 0,
                             !.dx = EntriesPerSec]

Item == ReadSect(rd.wSector)[rd.di \div 32 + 1]

Matching == IF rd.di % 32 = 0 THEN SameBytes(Item.name, rd.file) ELSE 0

CompareName ==
    /\ rd.step = "names" /\ rd.dx > 0
    /\ Matching < 11
    /\ rd' = [rd EXCEPT !.dx = @ - 1, !.di = NextItem(@, Matching)]

NextSector ==
    /\ rd.step = "names" /\ rd.dx = 0
    /\ rd' = [rd EXCEPT !.step = "root", !.wSector = @ + 1]

FilenameFound ==
    /\ rd.step = "names" /\ rd.dx > 0
    /\ Matching = 11
    /\ rd' = IF TooLarge(Item.size, rd.file)
             THEN [rd EXCEPT !.step = "toolarge"]
             ELSE [rd EXCEPT !.step = "data", !.cluster = Item.first,
                             !.es = Files[rd.file].seg,
                             !.bx = Files[rd.file].offset]

DataSector == rd.cluster + RootDirSectors + DeltaSectorNo

\* Memory, or a table, over which something is written.
Overwritten(old, new) ==
    [i \in DOMAIN old \cup DOMAIN new |->
        IF i \in DOMAIN new THEN new[i] ELSE old[i]]

\* What the sector holds is its number.  jc rp_read: nothing has changed.
LoadSector(memory) ==
    /\ rd.step = "data"
    /\ IF Reads(DataSector, rd.es + rd.bx)
       THEN /\ rd' = [rd EXCEPT !.step = "fat"]
            /\ memory' = Overwritten(memory,
                            [a \in {rd.es + rd.bx} |-> Int13(Chs(DataSector))])
       ELSE UNCHANGED <<rd, memory>>

FollowChain ==
    /\ rd.step = "fat"
    /\ LET c == GetFatEntry(rd.cluster)
       IN  rd' = IF EndOfFile(c) THEN [rd EXCEPT !.step = "done"]
                 ELSE [Advance EXCEPT !.step = "data", !.cluster = c]

ReadFileStep(memory) ==
    \/ LoadSector(memory)
    \/ /\ SearchSector \/ CompareName \/ NextSector \/ FilenameFound
          \/ FollowChain
       /\ UNCHANGED memory
=============================================================================
