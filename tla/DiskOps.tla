------------------------------ MODULE DiskOps ------------------------------
(***************************************************************************)
(* defaultfs.get_disk_ops (src/alicedefaultfs.py): the disk operations a   *)
(* micro operation is split into, under a split mode such as               *)
(* [split_mode |-> "count", splits |-> 3].  Sizes and offsets are in units *)
(* of the model; the bytes of a workload are named by the dump file they   *)
(* come from and their offset in it.                                       *)
(***************************************************************************)
EXTENDS Integers, Sequences

\* A field that a kind of disk operation does not have keeps this value.
NoDiskOp ==
  [op |-> "none", inode |-> 0, parent |-> 0, entry |-> "none", entry_type |-> "TYPE_FILE",
   offset |-> 0, count |-> 0, initial_size |-> 0, final_size |-> 0,
   special_write |-> "None", dump_file |-> 0, dump_offset |-> 0, syscall |-> "none"]

Least(a, b) == IF a <= b THEN a ELSE b

\* The size of the slice at start of a range: up to the next multiple of
\* splits, or the range's size divided by splits and rounded up.
SliceCount(mode, start, initial, final) ==
  IF mode.split_mode = "aligned"
  THEN Least(mode.splits - (start % mode.splits), final - start)
  ELSE Least((final - initial + mode.splits - 1) \div mode.splits, final - start)

\* The while loops of trunc_disk_ops and of the write case.
Slices(mode, initial, final) ==
  LET slices[start \in initial .. final] ==
        IF start = final
        THEN <<>>
        ELSE LET count == SliceCount(mode, start, initial, final)
             IN <<[offset |-> start, count |-> count]>> \o slices[start + count]
  IN slices[initial]

-----------------------------------------------------------------------------
SpecialWrite(inode, slice, special) ==
  [NoDiskOp EXCEPT !.op = "write", !.inode = inode, !.offset = slice.offset,
                   !.count = slice.count, !.special_write = special]

DataWrite(m, slice) ==
  [NoDiskOp EXCEPT !.op = "write", !.inode = m.inode, !.offset = slice.offset,
                   !.count = slice.count, !.dump_file = m.dump_file,
                   !.dump_offset = m.dump_offset + (slice.offset - m.offset)]

\* The lists of a list, one after the other.
Concat(lists) ==
  LET upto[k \in 1 .. Len(lists)] == IF k = 1 THEN lists[k] ELSE upto[k - 1] \o lists[k]
  IN IF Len(lists) = 0 THEN <<>> ELSE upto[Len(lists)]

ForEachSlice(slices, F(_)) == Concat([k \in 1 .. Len(slices) |-> F(slices[k])])

\* Wrong variant: the slices of a shrinking file are not reversed.
ShrinkUnreversed(mode, inode, initial_size, final_size) ==
  LET Cut(slice) == <<[NoDiskOp EXCEPT !.op = "truncate", !.inode = inode,
                                       !.initial_size = slice.offset + slice.count,
                                       !.final_size = slice.offset]>>
  IN ForEachSlice(Slices(mode, final_size, initial_size), Cut)

\* A shrinking truncate: cut from the end of the file, slice by slice.
Shrink(mode, inode, initial_size, final_size) ==
  LET Cut(slice) == <<[NoDiskOp EXCEPT !.op = "truncate", !.inode = inode,
                                       !.initial_size = slice.offset + slice.count,
                                       !.final_size = slice.offset]>>
      cuts == ForEachSlice(Slices(mode, final_size, initial_size), Cut)
  IN [k \in 1 .. Len(cuts) |-> cuts[Len(cuts) + 1 - k]]

\* A growing truncate: each slice holds garbage, then zeros.
Grow(mode, inode, initial_size, final_size) ==
  LET Expand(slice) == <<SpecialWrite(inode, slice, "GARBAGE"),
                         SpecialWrite(inode, slice, "ZEROS")>>
  IN ForEachSlice(Slices(mode, initial_size, final_size), Expand)

trunc_disk_ops(mode, inode, initial_size, final_size) ==
  IF initial_size > final_size
  THEN Shrink(mode, inode, initial_size, final_size)
  ELSE Grow(mode, inode, initial_size, final_size)

\* trunc_disk_ops with append_micro_op: zeros, garbage, then the data.
append_disk_ops(mode, m) ==
  LET Expand(slice) == <<SpecialWrite(m.inode, slice, "ZEROS"),
                         SpecialWrite(m.inode, slice, "GARBAGE"),
                         DataWrite(m, slice)>>
  IN ForEachSlice(Slices(mode, m.offset, m.offset + m.count), Expand)

write_disk_ops(mode, m) ==
  LET Data(slice) == <<DataWrite(m, slice)>>
  IN ForEachSlice(Slices(mode, m.offset, m.offset + m.count), Data)

unlink_disk_ops(mode, parent, inode, name, size, hardlinks, entry_type) ==
  (IF hardlinks = 1 THEN trunc_disk_ops(mode, inode, size, 0) ELSE <<>>)
    \o <<[NoDiskOp EXCEPT !.op = "delete_dir_entry", !.parent = parent, !.entry = name,
                          !.inode = inode, !.entry_type = entry_type]>>

link_disk_ops(parent, inode, name, entry_type) ==
  <<[NoDiskOp EXCEPT !.op = "create_dir_entry", !.parent = parent, !.entry = name,
                     !.inode = inode, !.entry_type = entry_type]>>

\* Wrong variant: the new entry is made first.
RenameLinkFirst(mode, m) ==
  link_disk_ops(m.dest_parent, m.source_inode, m.dest, "TYPE_FILE")
    \o (IF m.dest_hardlinks >= 1
        THEN unlink_disk_ops(mode, m.dest_parent, m.dest_inode, m.dest, m.dest_size,
                             m.dest_hardlinks, "TYPE_FILE")
        ELSE <<>>)
    \o unlink_disk_ops(mode, m.source_parent, m.source_inode, m.source, 0, 2, "TYPE_FILE")

\* The destination goes first, then the source entry moves.  The entry type
\* is TYPE_FILE, the default of both helpers, whatever is renamed.
rename_disk_ops(mode, m) ==
  (IF m.dest_hardlinks >= 1
   THEN unlink_disk_ops(mode, m.dest_parent, m.dest_inode, m.dest, m.dest_size,
                        m.dest_hardlinks, "TYPE_FILE")
   ELSE <<>>)
    \o unlink_disk_ops(mode, m.source_parent, m.source_inode, m.source, 0, 2, "TYPE_FILE")
    \o link_disk_ops(m.dest_parent, m.source_inode, m.dest, "TYPE_FILE")

sync_disk_op(inode, offset, count, syscall) ==
  [NoDiskOp EXCEPT !.op = "sync", !.inode = inode, !.offset = offset, !.count = count,
                   !.syscall = syscall]

get_disk_ops(mode, m) ==
  CASE m.op = "creat"  -> link_disk_ops(m.parent, m.inode, m.name, "TYPE_FILE")
    [] m.op = "unlink" -> unlink_disk_ops(mode, m.parent, m.inode, m.name, m.size,
                                          m.hardlinks, "TYPE_FILE")
    [] m.op = "link"   -> link_disk_ops(m.dest_parent, m.source_inode, m.dest, "TYPE_FILE")
    [] m.op = "rename" -> rename_disk_ops(mode, m)
    [] m.op = "trunc"  -> trunc_disk_ops(mode, m.inode, m.initial_size, m.final_size)
    [] m.op = "append" -> append_disk_ops(mode, m)
    [] m.op = "write"  -> write_disk_ops(mode, m)
    [] m.op = "mkdir"  -> link_disk_ops(m.parent, m.inode, m.name, "TYPE_DIR")
    [] m.op = "rmdir"  -> unlink_disk_ops(mode, m.parent, m.inode, m.name, 0, 0, "TYPE_DIR")
    [] m.op \in {"fsync", "fdatasync"} -> <<sync_disk_op(m.inode, 0, m.size, m.op)>>
    [] m.op = "file_sync_range" -> <<sync_disk_op(m.inode, m.offset, m.count, m.syscall)>>
    [] m.op = "sync"   -> [k \in 1 .. Len(m.files) |->
                             sync_disk_op(m.files[k].inode, 0, m.files[k].size, "sync")]
    [] m.op = "stdout" -> <<[NoDiskOp EXCEPT !.op = "stdout", !.dump_file = m.data]>>

=============================================================================
