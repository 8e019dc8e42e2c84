CONSTANTS
  w1 = w1
  w2 = w2
  Worker <- OneWorker
  Mode <- MCMode
  Trace <- MCTrace
  MaxBad = 3
  MayRaise = FALSE
SPECIFICATION Spec
INVARIANTS PatchesExact SyncedKept
CHECK_DEADLOCK FALSE
