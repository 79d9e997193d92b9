\* Three tasks, a server and two users come and go.
SPECIFICATION Spec
CONSTANTS
  T1 = T1
  T2 = T2
  T3 = T3
  S1 = S1
  U1 = U1
  U2 = U2
  Idle = Idle
  Hardware = Hardware
  None = None
  Wild = Wild
  Tasks = {T1, T2, T3, Idle, Hardware}
  Servers = {S1}
  Users = {U1, U2}
  Free = {}
INVARIANTS
  TailsReach
PROPERTIES
  ImplementsDispatch
