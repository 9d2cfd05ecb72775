SPECIFICATION Spec
CONSTANTS
  c1 = c1
  c2 = c2
  user = user
  s = s
  None = None
  Commands = {c1, c2, user}
  Sessions = {s}
  SessionOf <- MCSessionOf
  Ttl = 0
  MaxIssues = 2
  MaxTime = 1
  Crashes = 1
PROPERTIES ClaimHolds OnlyUpdatesLost OpenedOnce
SYMMETRY Alike
CHECK_DEADLOCK FALSE
