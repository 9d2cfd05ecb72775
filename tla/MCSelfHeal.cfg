SPECIFICATION HealSpec
CONSTANTS
  a = a
  g = g
  h = h
  b = b
  Runs <- MCRuns
  Healers = {g, h}
  Nil = Nil
  MaxAttempts = 2
  MaxBatch = 1
  MaxAge = 0
  InitialBackoff = 1
  MaxBackoff = 2
  Repeat = FALSE
  Excluded <- MCExcluded
  Prompt = FALSE
  Broken = {"running"}
  Outcomes = {"error", "done"}
  Horizon = 1
  Invocations = 2
  UserKills = 1
  Reruns = 1
  HealerCrashes = 1
  Failures = 1
INVARIANTS OwnReservation
PROPERTIES RepairedOnce 
SYMMETRY Alike
CHECK_DEADLOCK FALSE
