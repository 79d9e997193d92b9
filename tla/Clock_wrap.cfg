\* Any calls and bad messages, while ticks run to ULONG_MAX and wrap.
SPECIFICATION ClockSpec
CONSTANTS
  CLOCK = CLOCK
  FS = FS
  MM = MM
  U1 = U1
  Idle = Idle
  Hardware = Hardware
  ANY = ANY
  None = None
  Wild = Wild
  Tasks = {CLOCK, Idle, Hardware}
  Servers = {FS}
  Users = {U1}
  Free = {}
  SysServers = {FS}
  IntTasks = {CLOCK}
  BootQueue <- BootOne
  TickMax = 3
  LastTick = 3
  ScheduleTicks = 2
  Delays = {0, 2}
  Requests = {"request", "bad"}
  Polite = FALSE
PROPERTIES
  RequestKept
