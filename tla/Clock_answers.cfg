\* Two polite servers, for the first ticks after boot; the last
\* delay is over before ticks reaches ULONG_MAX.
CHECK_DEADLOCK FALSE  \* the bound on ticks stops the timer
SPECIFICATION ClockSpec
CONSTANTS
  CLOCK = CLOCK
  FS = FS
  MM = MM
  U1 = U1
  Idle = Idle
  Hardware = Hardware
  ANY = ANY
  None = None
  Wild = Wild
  Tasks = {CLOCK, Idle, Hardware}
  Servers = {FS, MM}
  Users = {}
  Free = {}
  SysServers = {FS, MM}
  IntTasks = {CLOCK}
  BootQueue <- BootServers
  TickMax = 8
  LastTick = 5
  ScheduleTicks = 2
  Delays = {0, 2}
  Requests = {"request"}
  Polite = TRUE
PROPERTIES
  RequestsAnswered
  DelayNotShort
