CONSTANTS
  w1 = w1
  w2 = w2
  Worker <- MCWorker
  Mode <- MCMode
  Trace <- ShortTrace
  MaxBad = 1
  MayRaise = TRUE
SPECIFICATION FairSpec
PROPERTY Finishes
CHECK_DEADLOCK FALSE
