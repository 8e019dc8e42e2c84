CONSTANTS
  Path <- MCPath
  Fd <- MCFd
  MaxSize = 3
  MaxCalls = 4
  Call <- AppendCalls
  Mode <- MCMode
SPECIFICATION Spec
INVARIANT FullReplay
CHECK_DEADLOCK FALSE
