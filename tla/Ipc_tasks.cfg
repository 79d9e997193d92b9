\* Two tasks, a server and a user: chains of sends three deep.
SPECIFICATION Spec
CONSTANTS
  Clock = Clock
  Tty = Tty
  FS = FS
  U1 = U1
  Empty = Empty
  Idle = Idle
  Hardware = Hardware
  ANY = ANY
  None = None
  Wild = Wild
  Tasks = {Clock, Tty, Idle, Hardware}
  Servers = {FS}
  Users = {U1}
  Free = {Empty}
  SysServers = {FS, Empty}
  IntTasks = {Clock}
  BootQueue <- BootTasks
INVARIANTS
  TypeOK
  WaitersExact
  NoSendCycle
  LockCheckExact
  NoMissedRendezvous
  PendingMessageIntact
  ReadyExact
  Dispatched
  UsersCallServersOnly
PROPERTIES
  DeliveryCorrect
  NoOvertaking
