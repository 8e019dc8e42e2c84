----------------------------- MODULE ReplayDisk -----------------------------
(***************************************************************************)
(* replay_disk_ops (src/alice.py): a crash directory built from a copy of  *)
(* the initial snapshot by replaying disk operations.  A file is known by  *)
(* the inode it had in the recorded run; '.inodes' holds a link to every   *)
(* file and the directories that are not linked yet, and is removed at the *)
(* end.  The state of a replay is a record of                              *)
(*                                                                         *)
(*   links   <<directory, name>> -> [type, inode], outside of '.inodes'    *)
(*   data    file inode -> its bytes                                       *)
(*   dirs    the domain of dirinode_map                                    *)
(*   linked  the directories of dirinode_map that are not in '.inodes'     *)
(*   stdout  the stdout file                                               *)
(*   raised  whether an exception ended the replay                         *)
(*                                                                         *)
(* dirinode_map maps to paths and is not updated when a directory is       *)
(* removed; a directory is known by its inode here, because the parser     *)
(* never reuses an inode and so no later operation names a removed one.    *)
(***************************************************************************)
EXTENDS DiskOps, SequencesExt

Root == 1

\* A byte is <<dump file, offset in it>>; no dump file is 0 or -1.
Zero == <<0, 0>>
Garbage == <<-1, 0>>

\* get_inode_file creates an empty file when there is none.
get_inode_file(st, inode) ==
  IF inode \in DOMAIN st.data THEN st ELSE [st EXCEPT !.data = (inode :> <<>>) @@ @]

get_inode_directory(st, inode) == [st EXCEPT !.dirs = @ \cup {inode}]

Raise(st) == [st EXCEPT !.raised = TRUE]

Unlink(st, at) == [st EXCEPT !.links = [l \in DOMAIN @ \ {at} |-> @[l]]]

LinkTo(st, at, type, inode) ==
  [st EXCEPT !.links = (at :> [type |-> type, inode |-> inode]) @@ @]

\* basename of an entry
At(d) == <<d.parent, Last(d.entry)>>

\* An entry that exists is unlinked first, which fails for a directory.
CreateFile(st, d) ==
  IF At(d) \in DOMAIN st.links /\ st.links[At(d)].type = "TYPE_DIR"
  THEN Raise(st)
  ELSE LinkTo(get_inode_file(st, d.inode), At(d), "TYPE_FILE", d.inode)

\* rename(2) of a directory only replaces an empty directory.
CreateDir(st, d) ==
  IF \/ d.inode \in st.linked
     \/ /\ At(d) \in DOMAIN st.links
        /\ \/ st.links[At(d)].type = "TYPE_FILE"
           \/ \E l \in DOMAIN st.links : l[1] = st.links[At(d)].inode
  THEN Raise(st)
  ELSE [LinkTo(get_inode_directory(st, d.inode), At(d), "TYPE_DIR", d.inode)
          EXCEPT !.linked = @ \cup {d.inode}]

create_dir_entry(st, d) ==
  LET found == get_inode_directory(st, d.parent)
  IN IF d.entry_type = "TYPE_FILE" THEN CreateFile(found, d) ELSE CreateDir(found, d)

\* A directory is moved back into '.inodes', where a directory of that inode
\* may be in the way of a file or, unless it is empty, of another directory.
InTheWay(st, d) ==
  /\ d.inode \in st.dirs \ st.linked
  /\ \/ st.links[At(d)].type = "TYPE_FILE"
     \/ \E l \in DOMAIN st.links : l[1] = d.inode

\* Unlinking a directory fails.
delete_dir_entry(st, d) ==
  LET found == get_inode_directory(st, d.parent)
      isfile == found.links[At(d)].type = "TYPE_FILE"
  IN IF At(d) \notin DOMAIN found.links THEN found
     ELSE IF (IF d.entry_type = "TYPE_FILE" THEN ~isfile ELSE InTheWay(found, d)) THEN Raise(found)
     ELSE Unlink(found, At(d))

\* ftruncate: the file is cut, or grows by zeros.
Resized(bytes, size) == [b \in 1 .. size |-> IF b <= Len(bytes) THEN bytes[b] ELSE Zero]

truncate(st, d) ==
  LET found == get_inode_file(st, d.inode)
  IN [found EXCEPT !.data[d.inode] = Resized(@, d.final_size)]

\* What a write puts at byte b (from 0) of the file.
ByteOf(d, b) ==
  CASE d.special_write = "ZEROS" -> Zero
    [] d.special_write = "GARBAGE" -> Garbage
    [] OTHER -> <<d.dump_file, d.dump_offset + (b - d.offset)>>

\* lseek and write: a gap after the end of the file reads as zeros.
Overwrite(bytes, d) ==
  LET end == d.offset + d.count
      size == IF end > Len(bytes) THEN end ELSE Len(bytes)
      grown == Resized(bytes, size)
  IN [b \in 1 .. size |-> IF b > d.offset /\ b <= end THEN ByteOf(d, b - 1) ELSE grown[b]]

write(st, d) ==
  LET found == get_inode_file(st, d.inode)
  IN [found EXCEPT !.data[d.inode] = Overwrite(@, d)]

replay_disk_op(st, d) ==
  IF st.raised THEN st
  ELSE CASE d.op = "create_dir_entry" -> create_dir_entry(st, d)
         [] d.op = "delete_dir_entry" -> delete_dir_entry(st, d)
         [] d.op = "truncate" -> truncate(st, d)
         [] d.op = "write" -> write(st, d)
         [] d.op = "stdout" -> [st EXCEPT !.stdout = Append(@, d.dump_file)]
         [] d.op = "sync" -> st

\* initialize_inode_links on a copy of the snapshot.
Snapshot(links, data) ==
  LET dirs == {Root} \cup {links[l].inode : l \in {m \in DOMAIN links : links[m].type = "TYPE_DIR"}}
  IN [links |-> links, data |-> data, dirs |-> dirs, linked |-> dirs, stdout |-> <<>>, raised |-> FALSE]

replay_disk_ops(snapshot, rows) == FoldLeft(replay_disk_op, snapshot, rows)

\* What is left at a path once '.inodes' is removed: 0, or an inode.
Resolve(st, path) ==
  LET Step(dir, name) == IF <<dir, name>> \in DOMAIN st.links THEN st.links[<<dir, name>>].inode ELSE 0
  IN FoldLeft(Step, Root, path)

=============================================================================
