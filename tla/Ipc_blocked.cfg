\* The instance of Ipc_tasks, for the comment on int_blocked.
SPECIFICATION Spec
CONSTANTS
  Clock = Clock
  Tty = Tty
  FS = FS
  U1 = U1
  Empty = Empty
  Idle = Idle
  Hardware = Hardware
  ANY = ANY
  None = None
  Wild = Wild
  Tasks = {Clock, Tty, Idle, Hardware}
  Servers = {FS}
  Users = {U1}
  Free = {Empty}
  SysServers = {FS, Empty}
  IntTasks = {Clock}
  BootQueue <- BootTasks
INVARIANTS
  BlockedInterruptDelivered
