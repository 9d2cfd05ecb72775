SPECIFICATION Spec
CONSTANTS
  Ids = {i1, i2, i3, i4}
  Tasks = {k1, k2}
  Engines = {e1, e2}
  Accounts = {a1, a2}
  Sessions = {s1, s2}
  Pids = {p1, p2}
  None = None
  NoCap = NoCap
  FleetCap = 3
  TaskCap = 1
  ProviderCap = 2
  LaneCap = 2
  SessionCap = 1
  Ttl = 0
  MaxTime = 1
INVARIANTS ReservationCaps AccountCaps
SYMMETRY Symmetry
