SPECIFICATION Spec
CONSTANTS
  Procs = {a, b}
  Parts = {p, q}
  None = None
  Timely = TRUE
  MaxInterrupts = 2
INVARIANTS WorkerAccounted DoneIsBacked
PROPERTIES NoSecondWorker
SYMMETRY Symmetry
CHECK_DEADLOCK FALSE
