CONSTANTS
  Path <- OnePath
  Fd <- MCFd
  MaxSize = 3
  MaxCalls = 5
  Call <- DataCalls
  Mode <- MCMode
SPECIFICATION Spec
INVARIANTS FullReplay FsyncDurable
CHECK_DEADLOCK FALSE
