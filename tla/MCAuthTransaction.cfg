SPECIFICATION Spec
CONSTANTS
  Count = 3
  Identities = TRUE
  Profiles <- MCProfiles
  Own <- MCOwn
  Parts <- MCParts
  MaxTime = 1
  Rotations = 2
  Failures = 2
  Crashes = 1
  UndoFails = TRUE
INVARIANTS NothingLost
PROPERTIES ImplementsStore
CHECK_DEADLOCK FALSE
