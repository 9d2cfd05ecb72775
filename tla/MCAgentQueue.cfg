SPECIFICATION FairSpec
CONSTANTS
  Tasks = {k1, k2, k3}
  Sessions = {s1}
  Callers = {}
  AgentBudgets = {1, 2}
  TaskBudgets = {0, 2}
  Wants = {1, 2}
  U32Max = 2
  QueueTtl = 0
  MaxLag = 1
INVARIANTS NothingIdle NoOvertaking 
PROPERTIES Served
