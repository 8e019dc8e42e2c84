CONSTANTS
  w1 = w1
  w2 = w2
  Worker <- MCWorker
  Mode <- MCMode
  Trace <- MCTrace
  MaxBad = 1
  MayRaise = TRUE
SPECIFICATION Spec
SYMMETRY Symmetric
INVARIANTS TypeOK DirsSound RoundComplete
CHECK_DEADLOCK FALSE
