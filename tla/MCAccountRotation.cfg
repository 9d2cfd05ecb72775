SPECIFICATION FairSpec
CONSTANTS
  Runs = {r1, r2}
  r1 = r1
  r2 = r2
  Nil = Nil
  Count = 3
  Profiles <- MCProfiles
  Setups <- MCSetups
  Patient = TRUE
INVARIANTS OneTaker  Fresh
PROPERTIES  AllEnd
CHECK_DEADLOCK FALSE
