CONSTANTS
  w1 = w1
  w2 = w2
  Worker <- OneWorker
  Mode <- MCMode
  Trace <- MCTrace
  MaxBad = 2
  MayRaise = FALSE
SPECIFICATION Spec
INVARIANT OrderingMeant
CHECK_DEADLOCK FALSE
