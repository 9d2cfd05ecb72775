SPECIFICATION FairSpec
CONSTANTS
  a = a
  b = b
  c = c
  d = d
  Parts <- MCParts
  Deps <- MCDeps
  Order <- MCOrder
  Rank <- MCOrder
  None = None
  MaxLive = 2
  MaxStall = 2
  MaxAttempts = 2
  MaxDefer = 2
  MaxRetryAfter = 1
INVARIANTS AdmissionMatchesWork NoStallVerdict
PROPERTIES ImplementsLifecycle Terminates
CHECK_DEADLOCK FALSE
