------------------------------ MODULE Workload ------------------------------
(***************************************************************************)
(* An application runs, and ALICE parses its trace: __get_micro_op         *)
(* (src/_aliceparsesyscalls.py), one action per system call.  The parser   *)
(* replays each call on a scratch copy of the workload directory, from     *)
(* which it takes inodes, sizes and link counts, and tracks the file       *)
(* descriptors by the path they were opened with.  Beside it the model     *)
(* keeps what the kernel did for the application: the two start equal, and *)
(* the micro operations are worth their name only while they stay so.      *)
(*                                                                         *)
(* Calls that fail are left out where the handler ignores them (open,      *)
(* close, lseek, link, rename, unlink, mkdir, rmdir).  Writes, truncates   *)
(* and fsyncs assert that they succeeded, and a failed one ends the parser *)
(* here as there.  A path is a sequence of names below the workload        *)
(* directory.                                                              *)
(***************************************************************************)
EXTENDS ReplayDisk, FiniteSets

CONSTANTS
  Path,      \* the paths the application uses
  Fd,        \* its file descriptors
  MaxSize,   \* bound on the size of a file
  MaxCalls,  \* bound on the length of the trace
  Call       \* the system calls the application makes

VARIABLES
  calls,        \* number of system calls made
  next,         \* the next inode number: none is used twice
  isdir,        \* inodes of directories
  tree, data,   \* the kernel: path -> inode or 0; file inode -> bytes
  kfd,          \* the kernel: open descriptor -> [inode, pos, append]
  stree, ssize, \* the scratch copy: path -> inode or 0; file inode -> size
  fd_details,   \* FileDescriptorTracker: descriptor -> [name, pos, inode, sync]
  micro_ops,    \* the output of get_micro_ops
  padded,       \* history: files that an empty write past the end grew in micro_ops only
  status        \* "ok", or "raised" when an exception ended the parser

kernel == <<tree, data, kfd>>
parser == <<stree, ssize, fd_details>>
vars == <<calls, next, isdir, kernel, parser, micro_ops, padded, status>>

DirSize == 4      \* st_size of a directory

-----------------------------------------------------------------------------
Exists(t, p) == t[p] # 0

\* The inode of dirname(p) in t, 0 if there is none.
ParentIn(t, p) == IF Len(p) = 1 THEN Root ELSE t[Front(p)]

__parent_inode(p) == ParentIn(stree, p)

Links(t, inode) == Cardinality({p \in Path : t[p] = inode})

\* A call the application makes: it counts, and emits micro operations.
Emit(ops) ==
  /\ micro_ops' = micro_ops \o ops
  /\ UNCHANGED status

\* An assert or another exception ends the parser.
Raises == status' = "raised" /\ UNCHANGED <<parser, micro_ops>>

Calls(c) == c \in Call /\ status = "ok" /\ calls < MaxCalls /\ calls' = calls + 1

FdOn(fd) == fd \in DOMAIN kfd

get_fds_fname(name) == {fd \in DOMAIN fd_details : fd_details[fd].name = name}
get_fds(inode) == {fd \in DOMAIN fd_details : fd_details[fd].inode = inode}

\* __replayed_truncate(name, size)
__replayed_truncate(name, size) == [ssize EXCEPT ![stree[name]] = size]

-----------------------------------------------------------------------------
(* open, close and lseek                                                   *)

FreeFd == CHOOSE fd \in Fd \ DOMAIN kfd : \A other \in Fd \ DOMAIN kfd : fd <= other

KernelOpen(p, flags) ==
  LET new == ~Exists(tree, p)
      inode == IF new THEN next ELSE tree[p]
  IN /\ Fd \ DOMAIN kfd # {}
     /\ new => "O_CREAT" \in flags /\ ParentIn(tree, p) \in isdir
     /\ tree[p] \in isdir => flags = {}
     /\ tree' = [tree EXCEPT ![p] = inode] /\ UNCHANGED padded
     /\ data' = IF new \/ "O_TRUNC" \in flags THEN (inode :> <<>>) @@ data ELSE data
     /\ next' = IF new THEN next + 1 ELSE next
     /\ kfd' = (FreeFd :> [inode |-> inode, pos |-> 0, append |-> "O_APPEND" \in flags]) @@ kfd

open(p, flags) ==
  LET new == ~Exists(stree, p)
      inode == IF new THEN next ELSE stree[p]
      trunc == ~new /\ "O_TRUNC" \in flags
      size == IF new \/ trunc THEN 0 ELSE IF inode \in isdir THEN DirSize ELSE ssize[inode]
  IN /\ Calls("open") /\ KernelOpen(p, flags) /\ UNCHANGED isdir
     /\ IF new /\ ("O_CREAT" \notin flags \/ get_fds_fname(p) # {})
        THEN Raises
        ELSE /\ stree' = [stree EXCEPT ![p] = inode]
             /\ ssize' = IF new \/ trunc THEN (inode :> 0) @@ ssize ELSE ssize
             /\ fd_details' = (FreeFd :> [name |-> p, inode |-> inode, sync |-> "O_SYNC" \in flags,
                                          pos |-> IF "O_APPEND" \in flags THEN size ELSE 0]) @@ fd_details
             /\ Emit((IF new THEN <<[op |-> "creat", name |-> p, inode |-> inode,
                                     parent |-> __parent_inode(p)]>> ELSE <<>>)
                     \o (IF trunc THEN <<[op |-> "trunc", inode |-> inode, final_size |-> 0,
                                          initial_size |-> ssize[inode]]>> ELSE <<>>))

Without(f, x) == [y \in DOMAIN f \ {x} |-> f[y]]

\* Wrong variant: the mapping of a closed descriptor stays.
closeKept(fd) ==
  /\ Calls("close") /\ FdOn(fd)
  /\ kfd' = Without(kfd, fd)
  /\ UNCHANGED <<next, isdir, tree, data, parser, micro_ops, padded, status>>

close(fd) ==
  /\ Calls("close") /\ FdOn(fd)
  /\ kfd' = Without(kfd, fd) /\ fd_details' = Without(fd_details, fd)
  /\ UNCHANGED <<next, isdir, tree, data, stree, ssize, micro_ops, padded, status>>

lseek(fd, pos) ==
  /\ Calls("lseek") /\ FdOn(fd)
  /\ kfd' = [kfd EXCEPT ![fd].pos = pos]
  /\ fd_details' = [fd_details EXCEPT ![fd].pos = pos]
  /\ UNCHANGED <<next, isdir, tree, data, stree, ssize, micro_ops, padded, status>>

-----------------------------------------------------------------------------
(* write, pwrite and the truncates                                         *)

\* How much of a write replaces what the file has.
overwrite_size(pos, count, size) ==
  IF pos < size THEN Least(count, size - pos) ELSE 0

\* The micro operations of a write of count bytes at pos of a file of that
\* size: what it overwrites, the gap it leaves, what it appends.  The gap is
\* there even when nothing is appended, although an empty write changes no file.
WriteOps(inode, pos, count, size, sync, dump_file) ==
  LET ow == overwrite_size(pos, count, size)
      start == pos + ow
      rest == count - ow
      SyncRange(from, n) == <<[op |-> "file_sync_range", inode |-> inode, offset |-> from, count |-> n,
                           syscall |-> "write"]>>
      Part(op, from, n) ==
        <<[op |-> op, inode |-> inode, offset |-> from, count |-> n, dump_file |-> dump_file,
           dump_offset |-> from - pos]>> \o (IF sync THEN SyncRange(from, n) ELSE <<>>)
  IN (IF ow > 0 THEN Part("write", pos, ow) ELSE <<>>)
       \o (IF start > size THEN <<[op |-> "trunc", inode |-> inode, initial_size |-> size,
                                   final_size |-> start]>> ELSE <<>>)
       \o (IF rest > 0 THEN Part("append", start, rest) ELSE <<>>)

NewBytes(bytes, pos, count) ==
  Overwrite(bytes, [NoDiskOp EXCEPT !.offset = pos, !.count = count, !.dump_file = calls + 1])

\* What a write of count bytes returns: an error, fewer than asked for, all.
Returned(count) == {-1, count - 1, count}

\* A write at kpos for the kernel and at pos for the parser, which finds the
\* size at the path the descriptor was opened with.  It asserts that all bytes
\* were written, and that some are if the write starts inside the file.
WriteAt(fd, count, ret, kpos, pos) ==
  LET details == fd_details[fd]
      at == stree[details.name]
      size == IF at \in DOMAIN ssize THEN ssize[at] ELSE 0
  IN /\ kfd[fd].inode \notin isdir /\ kpos + count <= MaxSize
     /\ data' = [data EXCEPT ![kfd[fd].inode] = IF ret > 0 THEN NewBytes(@, kpos, ret) ELSE @]
     /\ UNCHANGED <<next, isdir, tree>>
     /\ padded' = IF ret = 0 /\ pos > size THEN padded \cup {details.inode} ELSE padded
     /\ IF ret # count \/ at = 0 \/ (count = 0 /\ pos < size)
        THEN Raises
        ELSE /\ Emit(WriteOps(details.inode, pos, count, size, details.sync, calls + 1))
             /\ ssize' = [ssize EXCEPT ![at] = IF count > 0 /\ pos + count > @ THEN pos + count ELSE @]
             /\ UNCHANGED stree

\* The path of a descriptor has come to lead to another file.
StaleName(fd) == tree[fd_details[fd].name] \notin {0, kfd[fd].inode}

Writable(fd) == FdOn(fd) /\ ("stale_name" \in Call \/ ~StaleName(fd))

KernelPos(fd) == IF kfd[fd].append THEN Len(data[kfd[fd].inode]) ELSE kfd[fd].pos

syscall_write(fd, count, ret) ==
  /\ Calls("write") /\ Writable(fd)
  /\ WriteAt(fd, count, ret, KernelPos(fd), fd_details[fd].pos)
  /\ kfd' = IF ret > 0 THEN [kfd EXCEPT ![fd].pos = KernelPos(fd) + ret] ELSE kfd
  /\ fd_details' = IF status' = "ok" THEN [fd_details EXCEPT ![fd].pos = @ + count] ELSE fd_details

pwrite(fd, count, ret, pos) ==
  /\ Calls("pwrite") /\ Writable(fd) /\ ~kfd[fd].append
  /\ WriteAt(fd, count, ret, pos, pos)
  /\ UNCHANGED <<kfd, fd_details>>

\* The initial size is that of the inode, but the path is what is truncated.
ftruncate(fd, size) ==
  LET details == fd_details[fd] IN
  /\ Calls("ftruncate") /\ Writable(fd) /\ kfd[fd].inode \notin isdir
  /\ data' = [data EXCEPT ![kfd[fd].inode] = Resized(@, size)]
  /\ UNCHANGED <<next, isdir, tree, kfd, padded>>
  /\ IF ~Exists(stree, details.name)
     THEN Raises
     ELSE /\ Emit(<<[op |-> "trunc", inode |-> details.inode, final_size |-> size,
                     initial_size |-> ssize[details.inode]]>>)
          /\ ssize' = __replayed_truncate(details.name, size)
          /\ UNCHANGED <<stree, fd_details>>

truncate_path(p, size) ==
  /\ Calls("truncate") /\ Exists(tree, p) /\ tree[p] \notin isdir
  /\ data' = [data EXCEPT ![tree[p]] = Resized(@, size)]
  /\ UNCHANGED <<next, isdir, tree, kfd, padded>>
  /\ Emit(<<[op |-> "trunc", inode |-> stree[p], final_size |-> size, initial_size |-> ssize[stree[p]]]>>)
  /\ ssize' = __replayed_truncate(p, size)
  /\ UNCHANGED <<stree, fd_details>>

\* A truncate or an fsync that fails, on any file: the handler asserts the
\* result before it looks at the descriptor or the path.
asserted_call_fails ==
  /\ \E c \in {"truncate", "ftruncate", "fsync", "fdatasync"} : Calls(c)
  /\ Raises
  /\ UNCHANGED <<next, isdir, kernel, padded>>

-----------------------------------------------------------------------------
(* Names                                                                   *)

IsFile(p) == Exists(tree, p) /\ tree[p] \notin isdir

link(source, dest) ==
  /\ Calls("link") /\ IsFile(source) /\ ~Exists(tree, dest) /\ ParentIn(tree, dest) \in isdir
  /\ tree' = [tree EXCEPT ![dest] = tree[source]]
  /\ stree' = [stree EXCEPT ![dest] = stree[source]]
  /\ Emit(<<[op |-> "link", source |-> source, dest |-> dest, source_inode |-> stree[source],
             source_parent |-> __parent_inode(source), dest_parent |-> __parent_inode(dest)]>>)
  /\ UNCHANGED <<next, isdir, data, kfd, ssize, fd_details, padded>>

\* Wrong variant: the scratch copy keeps the old name.
renameKept(source, dest) ==
  /\ Calls("rename") /\ source # dest /\ IsFile(source) /\ ParentIn(tree, dest) \in isdir
  /\ ~Exists(tree, dest)
  /\ tree' = [tree EXCEPT ![dest] = tree[source], ![source] = 0]
  /\ stree' = [stree EXCEPT ![dest] = stree[source]]
  /\ UNCHANGED <<next, isdir, data, kfd, ssize, fd_details, micro_ops, padded, status>>

\* rename(2) does nothing when both paths are links to the same file.
Renamed(t, source, dest) ==
  IF t[source] = t[dest] THEN t ELSE [t EXCEPT ![dest] = t[source], ![source] = 0]

\* A file that loses its only name is renamed in the scratch copy first, which
\* leaves nothing to rename when the source is the destination.
rename(source, dest) ==
  LET dest_hardlinks == IF Exists(stree, dest) THEN Links(stree, stree[dest]) ELSE 0 IN
  /\ Calls("rename") /\ IsFile(source)
  /\ ParentIn(tree, dest) \in isdir /\ tree[dest] \notin isdir
  /\ "rename_same_file" \in Call \/ tree[source] # tree[dest] \/ dest_hardlinks = 1
  /\ tree' = Renamed(tree, source, dest)
  /\ UNCHANGED <<next, isdir, data, kfd, padded>>
  /\ IF dest_hardlinks = 1 /\ (get_fds(stree[dest]) # {} \/ source = dest)
     THEN Raises
     ELSE /\ stree' = Renamed(stree, source, dest)
          /\ Emit(<<[op |-> "rename", source |-> source, dest |-> dest,
                     source_inode |-> stree[source], source_parent |-> __parent_inode(source),
                     dest_inode |-> stree[dest], dest_parent |-> __parent_inode(dest),
                     dest_hardlinks |-> dest_hardlinks,
                     dest_size |-> IF dest_hardlinks = 0 THEN 0 ELSE ssize[stree[dest]]]>>)
          /\ UNCHANGED <<ssize, fd_details>>

\* The last link of the scratch copy is renamed, so that its inode stays in use.
unlink(p) ==
  /\ Calls("unlink") /\ IsFile(p)
  /\ tree' = [tree EXCEPT ![p] = 0]
  /\ stree' = [stree EXCEPT ![p] = 0]
  /\ Emit(<<[op |-> "unlink", name |-> p, inode |-> stree[p], parent |-> __parent_inode(p),
             hardlinks |-> Links(stree, stree[p]), size |-> ssize[stree[p]]]>>)
  /\ UNCHANGED <<next, isdir, data, kfd, ssize, fd_details, padded>>

\* eval of a mode such as 0755 is a syntax error; only 0777 is rewritten first.
mkdir(p, mode) ==
  /\ Calls("mkdir") /\ ~Exists(tree, p) /\ ParentIn(tree, p) \in isdir
  /\ tree' = [tree EXCEPT ![p] = next]
  /\ isdir' = isdir \cup {next} /\ next' = next + 1
  /\ UNCHANGED <<data, kfd, padded>>
  /\ IF mode # "0777"
     THEN Raises
     ELSE /\ stree' = [stree EXCEPT ![p] = next]
          /\ Emit(<<[op |-> "mkdir", name |-> p, inode |-> next, parent |-> __parent_inode(p)]>>)
          /\ UNCHANGED <<ssize, fd_details>>

rmdir(p) ==
  /\ Calls("rmdir") /\ tree[p] \in isdir
  /\ \A q \in Path : Exists(tree, q) /\ Len(q) > 1 => Front(q) # p
  /\ tree' = [tree EXCEPT ![p] = 0] /\ stree' = [stree EXCEPT ![p] = 0]
  /\ Emit(<<[op |-> "rmdir", name |-> p, inode |-> stree[p], parent |-> __parent_inode(p)]>>)
  /\ UNCHANGED <<next, isdir, data, kfd, ssize, fd_details, padded>>

-----------------------------------------------------------------------------
(* Syncs and output                                                        *)

SizeOf(inode) == IF inode \in isdir THEN DirSize ELSE ssize[inode]

\* fsync and fdatasync
fsync(op, fd) ==
  /\ Calls(op) /\ FdOn(fd)
  /\ Emit(<<[op |-> op, inode |-> fd_details[fd].inode, size |-> SizeOf(fd_details[fd].inode)]>>)
  /\ UNCHANGED <<next, isdir, kernel, parser, padded>>

\* find lists every path of the scratch copy, and the files and directories
\* that were deleted, which it keeps under other names.
SyncedFiles ==
  LET linked == SetToSeq({p \in Path : Exists(stree, p)})
      deleted == SetToSeq({f \in (DOMAIN ssize \cup isdir) \ {Root} : Links(stree, f) = 0})
      inodes == <<Root>> \o [x \in DOMAIN linked |-> stree[linked[x]]] \o deleted
  IN [x \in DOMAIN inodes |-> [inode |-> inodes[x], size |-> SizeOf(inodes[x])]]

sync ==
  /\ Calls("sync")
  /\ Emit(<<[op |-> "sync", files |-> SyncedFiles]>>)
  /\ UNCHANGED <<next, isdir, kernel, parser, padded>>

\* A write to a descriptor that was duplicated from the terminal.
stdout ==
  /\ Calls("stdout")
  /\ Emit(<<[op |-> "stdout", data |-> calls + 1]>>)
  /\ UNCHANGED <<next, isdir, kernel, parser, padded>>

-----------------------------------------------------------------------------
\* The workload directory holds one file, /a, with two bytes, of dump file 1000.
FirstFile == <<"a">>
SnapshotData == 2 :> <<<<1000, 0>>, <<1000, 1>>>>

Init ==
  /\ calls = 0 /\ next = 3 /\ isdir = {Root}
  /\ tree = [p \in Path |-> IF p = FirstFile THEN 2 ELSE 0] /\ data = SnapshotData
  /\ stree = tree /\ ssize = 2 :> 2
  /\ kfd = <<>> /\ fd_details = <<>>
  /\ micro_ops = <<>> /\ padded = {} /\ status = "ok"

Flags == {{}, {"O_CREAT"}, {"O_CREAT", "O_TRUNC"}, {"O_SYNC"}}
           \cup (IF "O_APPEND" \in Call THEN {{"O_APPEND"}} ELSE {})

Next ==
  \/ \E p \in Path, flags \in Flags : open(p, flags)
  \/ \E fd \in Fd :
       \/ close(fd)
       \/ \E pos \in 0 .. MaxSize : lseek(fd, pos)
       \/ \E count \in 0 .. MaxSize : \E ret \in Returned(count) :
            \/ syscall_write(fd, count, ret)
            \/ \E pos \in 0 .. MaxSize : pwrite(fd, count, ret, pos)
       \/ \E size \in 0 .. MaxSize : ftruncate(fd, size)
       \/ \E op \in {"fsync", "fdatasync"} : fsync(op, fd)
  \/ \E p \in Path, size \in 0 .. MaxSize : truncate_path(p, size)
  \/ \E source, dest \in Path : link(source, dest) \/ rename(source, dest)
  \/ \E p \in Path : unlink(p) \/ rmdir(p) \/ \E mode \in {"0777", "0755"} : mkdir(p, mode)
  \/ asserted_call_fails
  \/ sync
  \/ stdout

Spec == Init /\ [][Next]_vars

=============================================================================
