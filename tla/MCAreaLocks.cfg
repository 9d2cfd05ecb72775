SPECIFICATION Spec
CONSTANTS
  Managers = {m1, m2}
  Runs = {r1, r2}
  Areas = {a1, a2}
  Star = Star
  None = None
  Torn = Torn
  Ttl = 1
  MaxTime = 4
  MaxCrashes = 1
INVARIANTS AreaExclusion  GrantBacked
SYMMETRY Symmetry
