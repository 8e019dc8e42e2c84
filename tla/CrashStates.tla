---------------------------- MODULE CrashStates ----------------------------
(***************************************************************************)
(* From system calls to crash directories: the micro operations the parser *)
(* emits (Workload), the disk operations and dependencies set_fs makes of  *)
(* them (Suite), and the directories replay_disk_ops builds (ReplayDisk),  *)
(* against what the kernel did for the application.                        *)
(***************************************************************************)
EXTENDS Workload

S == INSTANCE Suite

CONSTANT Mode      \* the split modes of default_checks

-----------------------------------------------------------------------------
\* The initial snapshot: the root directory with the file /a.
InitialSnapshot ==
  Snapshot(<<Root, "a">> :> [type |-> "TYPE_FILE", inode |-> 2], SnapshotData)

\* all_diskops of the trace so far, as a sequence.
Diskops(mode) == Concat([x \in DOMAIN micro_ops |-> get_disk_ops(mode, micro_ops[x])])

\* The rows of a crash state: the disk operations in C (numbered from 1), in
\* order.
Rows(all, C) == LET Included(x) == x \in C
                    index == SelectSeq([x \in DOMAIN all |-> x], Included)
                IN [x \in DOMAIN index |-> all[index[x]]]

Printed == LET IsStdout(m) == m.op = "stdout"
               ops == SelectSeq(micro_ops, IsStdout)
           IN [x \in DOMAIN ops |-> ops[x].data]

-----------------------------------------------------------------------------
(* Properties                                                              *)

TypeOK ==
  /\ calls \in 0 .. MaxCalls /\ next \in 3 .. 3 + MaxCalls /\ isdir \subseteq 1 .. next - 1
  /\ tree \in [Path -> 0 .. next - 1] /\ stree \in [Path -> 0 .. next - 1]
  /\ DOMAIN kfd \subseteq Fd /\ DOMAIN fd_details \subseteq DOMAIN kfd
  /\ \A f \in DOMAIN data : Len(data[f]) \in 0 .. MaxSize
  /\ \A x \in DOMAIN micro_ops : micro_ops[x].op \in
       {"creat", "unlink", "link", "rename", "trunc", "append", "write", "mkdir", "rmdir",
        "fsync", "fdatasync", "file_sync_range", "sync", "stdout"}
  /\ padded \subseteq DOMAIN data /\ status \in {"ok", "raised"}

\* The parser's scratch copy and its descriptors follow the kernel: the same
\* names, the same sizes, and every descriptor at the same file and position.
ScratchExact ==
  status = "ok" =>
    /\ stree = tree
    /\ \A f \in DOMAIN data : ssize[f] = Len(data[f])
    /\ DOMAIN fd_details = DOMAIN kfd
    /\ \A fd \in DOMAIN kfd :
         fd_details[fd].inode = kfd[fd].inode /\ fd_details[fd].pos = kfd[fd].pos

\* The replay of the whole trace, in every split mode, is the workload
\* directory: the same names lead to the same files with the same bytes, and
\* the stdout file has what was printed.  The bytes of a padded file are left
\* out: an empty write past its end, which changes no file, is a truncation in
\* the micro operations.
FullReplay ==
  status = "ok" => \A m \in DOMAIN Mode :
    LET st == replay_disk_ops(InitialSnapshot, Diskops(Mode[m]))
    IN /\ ~st.raised
       /\ \A p \in Path : Resolve(st, p) = tree[p]
       /\ \A p \in Path : IsFile(p) /\ tree[p] \notin padded => st.data[tree[p]] = data[tree[p]]
       /\ st.stdout = Printed

\* Disk operation x changes what an fsync of the inode makes durable.
Touches(d, inode) ==
  \/ d.op \in {"write", "truncate"} /\ d.inode = inode
  \/ d.op \in {"create_dir_entry", "delete_dir_entry"} /\ d.parent = inode

\* A crash state st has the inode as the kernel has it now.
AsNow(st, inode) ==
  IF inode \in isdir
  THEN \A p \in Path : ParentIn(tree, p) = inode =>
         LET at == <<inode, Last(p)>>
         IN IF at \in DOMAIN st.links THEN st.links[at].inode = tree[p] ELSE tree[p] = 0
  ELSE (IF inode \in DOMAIN st.data THEN st.data[inode] ELSE <<>>) = data[inode]

\* After an fsync, every legal crash state that has the fsync has the file's
\* bytes, or the directory's entries, as they were, until the application
\* changes them again: whatever else the crash state lacks.  (Left out are
\* padded files, an open file that has no name any more, which the unlink
\* truncates, and a directory that was removed.)
FsyncDurable ==
  LET all == Diskops(Mode[1])
      suite == S!set_fs(micro_ops, Mode[1])
      dops == DOMAIN all
  IN status = "ok" /\ ~suite.raises =>
       \A x \in dops :
         (/\ all[x].op = "sync" /\ all[x].syscall \in {"fsync", "sync"}
          /\ all[x].inode = Root \/ \E p \in Path : tree[p] = all[x].inode
          /\ all[x].inode \notin padded
          /\ \A y \in dops : y > x => ~Touches(all[y], all[x].inode)) =>
         LET needed == {x} \cup {y + 1 : y \in suite.deps[x - 1]}
         IN \A T \in SUBSET (dops \ needed) :
              LET C == needed \cup T
                  st == replay_disk_ops(InitialSnapshot, Rows(all, C))
              IN (\A y \in C : {z + 1 : z \in suite.deps[y - 1]} \subseteq C) /\ ~st.raised
                   => AsNow(st, all[x].inode)

\* The parser's copy of the directory and the replay of its operations both
\* follow the kernel.
TreesExact == TypeOK /\ ScratchExact /\ FullReplay
=============================================================================
