CONSTANTS
  Path <- MCPath
  Fd <- MCFd
  MaxSize = 2
  MaxCalls = 4
  Call <- NameCalls
  Mode <- MCMode
SPECIFICATION Spec
INVARIANTS TreesExact FsyncDurable
CHECK_DEADLOCK FALSE
