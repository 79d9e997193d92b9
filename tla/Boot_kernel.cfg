\* From the boot sector to the first process: reading of the loader and of the kernel, the memory map, the page tables
\* and the copy, over all orders of four clusters.
SPECIFICATION Spec
CONSTANTS
  BytsPerSec = 8
  SecPerTrk = 4
  FATSz = 2
  RootDirSectors = 2
  EntriesPerSec = 2
  TotSec = 15
  SegBytes = 24
  Files <- Spaces
  Machines <- MCMachines
  AddrPages = 64
  PerTable = 4
  BufSlots = 4
  NrTasks = 3
  NrProcs = 2
  Handlers <- Stubs
  At <- Layout
  LoaderMagic = 808
  KernelMagic = 808
  NoTable = NoTable
  None = None
  ANY = ANY
  Wild = Wild
INVARIANTS
  FileLoaded
  KeepsToItsSpace
  MemoryMapped
  KernelPlaced
  KernelTypeOK
  InterruptsFindHandlers
  GatesGuarded
  TasksResumable
  HandsOver
PROPERTIES
  KernelRuns
