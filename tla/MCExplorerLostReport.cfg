CONSTANTS
  w1 = w1
  w2 = w2
  Worker <- OneWorker
  Mode <- MCMode
  Trace <- MCTrace
  MaxBad = 1
  MayRaise = FALSE
SPECIFICATION Spec
INVARIANT AtomicityReported
CHECK_DEADLOCK FALSE
