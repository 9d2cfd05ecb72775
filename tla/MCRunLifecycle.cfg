SPECIFICATION FairSpec
CONSTANTS
  Procs = {p1, p2}
  Launcher = p1
  None = None
  Gone = Gone
  PoolSize = 2
  Kills = 1
  Crashes = 1
  Faulty = {p1}
  Patient = TRUE
  Obedient = TRUE
  SafeSpawn = TRUE
INVARIANTS SingleWorker
PROPERTIES KillStands ResultStands KillStops
CHECK_DEADLOCK FALSE
