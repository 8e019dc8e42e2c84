------------------------------ MODULE MCSetFs ------------------------------
(* Instances of SetFs for TLC: a directory (inode 1) and a file (inode 2). *)
EXTENDS SetFs, FiniteSets

D(op, inode, parent, offset, count, final_size, syscall) ==
  [op |-> op, inode |-> inode, parent |-> parent, offset |-> offset,
   count |-> count, final_size |-> final_size, syscall |-> syscall]

MCInode == {0, 1, 2}
MCMaxOps == 4

Write(offset, count) == D("write", 2, 0, offset, count, 0, "none")
Truncate(final_size) == D("truncate", 2, 0, 0, 0, final_size, "none")
Sync(inode, offset, count, syscall) == D("sync", inode, 0, offset, count, 0, syscall)

MCDiskOp ==
  {Write(0, 1), Write(1, 2), Write(2, 1), Truncate(0), Truncate(2),
   D("create_dir_entry", 2, 1, 0, 0, 0, "none"),
   D("delete_dir_entry", 2, 1, 0, 0, 0, "none"),
   D("stdout", 0, 0, 0, 0, 0, "none"),
   Sync(1, 0, 4, "fsync"), Sync(2, 0, 3, "fsync"), Sync(2, 0, 1, "fdatasync"),
   Sync(2, 0, 2, "write"), Sync(1, 0, 4, "fdatasync")}

=============================================================================
