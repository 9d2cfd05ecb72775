SPECIFICATION Spec
CONSTANTS
  Procs = {p1, p2}
  Parts = {r1, r2}
  Plan = Plan
  Engine = Engine
  Account = Account
  None = None
  NoCap = NoCap
  FleetCap = 1
  LaneCap = 2
  SessionCap = 2
  Ttl = 1
  MaxAttempts = 2
  MaxTime = 1
  Orderly = TRUE
INVARIANTS HeldUntilEnd 
 
SYMMETRY Symmetry
CHECK_DEADLOCK FALSE
