CONSTANTS
  DiskOp <- MCDiskOp
  Inode <- MCInode
  MaxOps <- MCMaxOps
SPECIFICATION Spec
INVARIANTS TypeOK PrefixesValid SyncBarrier SyncDurable DepsExact
PROPERTY RecomputeIdle
CHECK_DEADLOCK FALSE
