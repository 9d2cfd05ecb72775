SPECIFICATION InstallSpec
CONSTANTS
  c1 = c1
  c2 = c2
  c3 = c3
  v1 = v1
  v2 = v2
  Bin = Bin
  Share = Share
  Home = Home
  None = None
  Mine = Mine
  Derived = Derived
  Commands = {c1, c2, c3}
  Versions = {v1, v2}
  Device <- MCDevice
  MaxFailures = 2
  MaxCrashes = 1
  MaxEdits = 1
PROPERTIES AllOrNothing KeepsMine EditsKept CleanRemoval
SYMMETRY Alike
CHECK_DEADLOCK FALSE
