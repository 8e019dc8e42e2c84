----------------------------- MODULE MCExplorer -----------------------------
(* Instances of Explorer for TLC.  Inode 1 is a directory, 2 and 3 files.  *)
EXTENDS Explorer, TLC

CONSTANTS w1, w2
MCWorker == {w1, w2}
OneWorker == {w1}
Symmetric == Permutations(MCWorker)

\* ('count', 1), ('count', 3) and ('aligned', 4096), with blocks of 2 units.
MCMode == <<[split_mode |-> "count", splits |-> 1], [split_mode |-> "count", splits |-> 3],
            [split_mode |-> "aligned", splits |-> 2]>>

Creat(inode, name) == [op |-> "creat", parent |-> 1, inode |-> inode, name |-> name]
Put(op, inode, offset, count) ==
  [op |-> op, inode |-> inode, offset |-> offset, count |-> count, dump_file |-> 1, dump_offset |-> 0]
Trunc(inode, from, to) == [op |-> "trunc", inode |-> inode, initial_size |-> from, final_size |-> to]
Fsync(inode, size) == [op |-> "fsync", inode |-> inode, size |-> size]
Stdout == [op |-> "stdout", data |-> 1]
Sync == [op |-> "sync", files |-> <<[inode |-> 1, size |-> 4], [inode |-> 2, size |-> 3]>>]
Rename == [op |-> "rename", source |-> "b", dest |-> "a", source_inode |-> 3, dest_inode |-> 2,
           source_parent |-> 1, dest_parent |-> 1, dest_hardlinks |-> 1, dest_size |-> 1]

MCTrace ==
  {<<Creat(2, "a"), Put("append", 2, 0, 1), Fsync(2, 1), Stdout>>,
   <<Trunc(2, 0, 0), Creat(3, "b"), Rename>>,
   <<Put("write", 2, 0, 3), Sync, Stdout>>,
   <<Stdout, Creat(2, "a"), Trunc(2, 0, 1)>>,
   <<Put("write", 2, 0, 2), Trunc(2, 2, 1), Fsync(2, 1)>>}

ShortTrace ==
  {<<Creat(2, "a"), Put("append", 2, 0, 1)>>, <<Creat(3, "b"), Stdout, Fsync(2, 0)>>}

=============================================================================
