------------------------------- MODULE SetFs -------------------------------
(***************************************************************************)
(* The dependency computation of Replayer.set_fs (src/alice.py), once the  *)
(* disk operations of the trace are known.  Four passes over them:         *)
(*                                                                         *)
(*   construct  ALCTestSuite(all_diskops): one Operation object per disk   *)
(*              operation, with the dependencies it finds in the module    *)
(*              globals dirty_write_ops_inode and latest_fsync_on_any_file *)
(*   get_deps   defaultfs.get_deps: the file system's own dependencies     *)
(*   add_deps   first loop of ALCTestSuite.add_deps_to_ops                 *)
(*   recompute  second loop of add_deps_to_ops                             *)
(*                                                                         *)
(* after which test_combo_validity answers which sets of disk operations   *)
(* may be on disk after a crash ("ready").  set_fs is called once per      *)
(* split mode on the same globals, so "ready" is followed by another call. *)
(* A failing assert, or the NameError of the warning paths of get_deps,    *)
(* ends the program ("abort").                                             *)
(*                                                                         *)
(* The inner loops of a pass are closed-form sets: they read only          *)
(* operations of lower index, which the pass has already finished with.    *)
(***************************************************************************)
EXTENDS Integers

CONSTANTS
  DiskOp,   \* the disk operations a trace is made of
  Inode,    \* the inode numbers they name
  MaxOps    \* bound on the number of disk operations of a trace

Kinds == {"write", "truncate", "sync", "create_dir_entry", "delete_dir_entry", "stdout"}

\* A field that a kind of operation does not have is 0 (syscall: "none").
\* syscall is the system call of the micro operation a sync comes from.
DiskOpType ==
  [op : Kinds, inode : Inode, parent : Inode, offset : Nat, count : Nat,
   final_size : Nat, syscall : STRING]

ASSUME ConstAssumption ==
  /\ DiskOp \subseteq DiskOpType
  /\ Inode \subseteq Nat
  /\ MaxOps \in Nat

VARIABLES
  phase,                     \* the pass under way
  i,                         \* its loop index
  n,                         \* len(op_list)
  ops,                       \* all_diskops
  dirty_write_ops_inode,
  latest_fsync_on_any_file,
  deps,                      \* Operation.deps, by micro_op_id
  last_sync,                 \* the local of get_deps
  hidden_dependencies        \* as set by get_deps

vars == <<phase, i, n, ops, dirty_write_ops_inode, latest_fsync_on_any_file,
          deps, last_sync, hidden_dependencies>>

None == -1                   \* Python's None, for an operation index
StdoutInode == -1            \* set_fs's inode for a stdout operation
Id == 0 .. n - 1

-----------------------------------------------------------------------------
(* ALCTestSuite and Operation                                              *)

IsDirEntry(d) == d.op \in {"create_dir_entry", "delete_dir_entry"}

\* set_fs hands ALCTestSuite a one-byte write to inode -1 for each stdout.
SuiteOp(d) ==
  IF d.op = "stdout"
  THEN [d EXCEPT !.op = "write", !.inode = StdoutInode, !.offset = 0, !.count = 1]
  ELSE d

is_included_in_sync_range(d, offset, count) ==
  \/ d.op = "write" /\ d.offset >= offset /\ d.offset + d.count <= offset + count
  \/ d.op = "truncate" /\ d.final_size \in offset .. offset + count
  \/ IsDirEntry(d)

\* update_dirty_write_collection adds an operation to this inode's set.
DirtyOn(d, inode) ==
  \/ d.op \in {"write", "truncate"} /\ d.inode = inode
  \/ IsDirEntry(d) /\ d.parent = inode

AddDirty(d) ==
  [inode \in Inode \cup {StdoutInode} |->
     dirty_write_ops_inode[inode] \cup (IF DirtyOn(d, inode) THEN {n} ELSE {})]

\* The dirty operations a sync d flushes.
Flushed(d) ==
  {w \in dirty_write_ops_inode[d.inode] :
     is_included_in_sync_range(SuiteOp(ops[w]), d.offset, d.count)}

WithDeps(S) == S \cup UNION {deps[w] : w \in S}

calculate_dependencies(d) ==
  WithDeps((IF d.op = "sync" THEN Flushed(d) ELSE {})
             \cup ({latest_fsync_on_any_file} \ {None}))

clear_dirty_write_collection(d) ==
  IF d.op = "sync"
  THEN [dirty_write_ops_inode EXCEPT ![d.inode] = @ \ Flushed(d)]
  ELSE AddDirty(d)

Extend(f, v) == [x \in 0 .. n |-> IF x = n THEN v ELSE f[x]]

\* Operation(micro_op, len(op_list)), appended to op_list.
Operation(d0) ==
  LET d == SuiteOp(d0) IN
  /\ phase = "construct" /\ n < MaxOps
  /\ ops' = Extend(ops, d0)
  /\ deps' = Extend(deps, calculate_dependencies(d))
  /\ dirty_write_ops_inode' = clear_dirty_write_collection(d)
  /\ latest_fsync_on_any_file' = IF d.op = "sync" THEN n ELSE latest_fsync_on_any_file
  /\ n' = n + 1
  /\ UNCHANGED <<phase, i, last_sync, hidden_dependencies>>

\* The for loop of ALCTestSuite.__init__ is over.
EndConstruct ==
  /\ phase = "construct"
  /\ phase' = "get_deps"
  /\ i' = 0
  /\ last_sync' = None
  /\ hidden_dependencies' = [x \in Id |-> {}]
  /\ UNCHANGED <<n, ops, dirty_write_ops_inode, latest_fsync_on_any_file, deps>>

-----------------------------------------------------------------------------
(* defaultfs.get_deps                                                      *)

End(x) == ops[x].offset + ops[x].count
InRange(p, s) == ops[s].offset <= p /\ p <= End(s)

\* Wrong variant: any earlier sync of the file ends the scan.
CoversAnyRange(k, s) == ops[k].op = "sync" /\ ops[k].inode = ops[s].inode

\* A sync k that ends the backward scan of sync s.
Covers(k, s) ==
  /\ ops[k].op = "sync" /\ ops[k].inode = ops[s].inode
  /\ ops[k].offset <= ops[s].offset /\ End(k) >= End(s)

\* Wrong variant: the scan of a sync is not limited to earlier operations.
ScannedAll(s) == {j \in Id \ {s} : \A k \in j .. s - 1 : ~Covers(k, s)}

Scanned(s) == {j \in 0 .. s - 1 : \A k \in j .. s - 1 : ~Covers(k, s)}

\* Wrong variant: the entries of a directory are not looked at.
SyncedNoEntries(j, s) ==
  \/ ops[j].op = "truncate" /\ ops[j].inode = ops[s].inode
  \/ ops[j].op = "write" /\ ops[j].inode = ops[s].inode /\ InRange(ops[j].offset, s)

\* The operations the loop body adds when it gets to them.
Synced(j, s) ==
  \/ ops[j].op = "truncate" /\ ops[j].inode = ops[s].inode
  \/ ops[j].op = "write" /\ ops[j].inode = ops[s].inode /\ InRange(ops[j].offset, s)
  \/ IsDirEntry(ops[j]) /\ ops[j].parent = ops[s].inode

\* The two asserts on the system call behind a sync.
SyscallAssertFails(j, s) ==
  \/ /\ ops[j].op = "truncate" /\ ops[j].inode = ops[s].inode
     /\ ops[s].syscall \notin {"fsync", "fdatasync", "sync"}
  \/ /\ IsDirEntry(ops[j]) /\ ops[j].parent = ops[s].inode
     /\ ops[s].syscall \notin {"fsync", "sync"}

\* The two warnings name modules that alicedefaultfs does not import: a write
\* with one end in the range of the sync and one outside is a NameError.
WarningRaises(j, s) ==
  /\ ops[j].op = "write" /\ ops[j].inode = ops[s].inode
  /\ InRange(ops[j].offset, s) # InRange(End(j), s)

ScanRaises(s) ==
  \E j \in Scanned(s) : SyscallAssertFails(j, s) \/ WarningRaises(j, s)

FsDeps(x, last) ==
  ({last} \ {None})
    \cup (IF ops[x].op = "sync" THEN {j \in Scanned(x) : Synced(j, x)} ELSE {})

\* Wrong variant: output on the terminal orders nothing.
IsSyncPointNoStdout(x) == ops[x].op = "sync"

IsSyncPoint(x) == ops[x].op \in {"sync", "stdout"}

get_deps ==
  /\ phase = "get_deps" /\ i < n
  /\ IF ops[i].op = "sync" /\ ScanRaises(i)
     THEN /\ phase' = "abort"
          /\ UNCHANGED <<i, last_sync, hidden_dependencies>>
     ELSE /\ hidden_dependencies' = [hidden_dependencies EXCEPT ![i] = FsDeps(i, last_sync)]
          /\ last_sync' = IF IsSyncPoint(i) THEN i ELSE last_sync
          /\ i' = i + 1
          /\ UNCHANGED phase
  /\ UNCHANGED <<n, ops, dirty_write_ops_inode, latest_fsync_on_any_file, deps>>

-----------------------------------------------------------------------------
(* ALCTestSuite.add_deps_to_ops, given a tuple (x, y) for each y in the    *)
(* hidden_dependencies of x, sorted by x                                   *)

\* Wrong variant: the dependencies of get_deps are not added.
add_depNone(x) == deps[x]

\* Wrong variant: the dependencies of a dependency are left to recompute.
add_depShallow(x) == deps[x] \cup hidden_dependencies[x]

\* Operation.add_dep, for every tuple (x, y).
add_dep(x) == deps[x] \cup WithDeps(hidden_dependencies[x])

add_deps ==
  /\ phase = "add_deps" /\ i < n
  /\ deps' = [deps EXCEPT ![i] = add_dep(i)]
  /\ i' = i + 1
  /\ UNCHANGED <<phase, n, ops, dirty_write_ops_inode, latest_fsync_on_any_file,
                 last_sync, hidden_dependencies>>

recompute ==
  /\ phase = "recompute" /\ i < n
  /\ deps' = [deps EXCEPT ![i] = WithDeps(@)]
  /\ i' = i + 1
  /\ UNCHANGED <<phase, n, ops, dirty_write_ops_inode, latest_fsync_on_any_file,
                 last_sync, hidden_dependencies>>

\* The loop of a pass is over and the next pass starts.
NextPass ==
  /\ i = n
  /\ \/ phase = "get_deps" /\ phase' = "add_deps" /\ i' = 0
     \/ phase = "add_deps" /\ phase' = "recompute" /\ i' = 0
     \/ phase = "recompute" /\ phase' = "ready" /\ i' = i
  /\ UNCHANGED <<n, ops, dirty_write_ops_inode, latest_fsync_on_any_file, deps,
                 last_sync, hidden_dependencies>>

-----------------------------------------------------------------------------
NoOps == [x \in {} |-> {}]
NoDirty == [inode \in Inode \cup {StdoutInode} |-> {}]

Init ==
  /\ phase = "construct" /\ i = 0 /\ n = 0
  /\ ops = NoOps /\ deps = NoOps /\ hidden_dependencies = NoOps
  /\ last_sync = None
  /\ dirty_write_ops_inode = NoDirty
  /\ latest_fsync_on_any_file = None

\* Wrong variant: the globals of the previous call are not reset.
ResetGlobalsKept == UNCHANGED <<dirty_write_ops_inode, latest_fsync_on_any_file>>

\* "Reset all the global things".
ResetGlobals ==
  /\ dirty_write_ops_inode' = NoDirty
  /\ latest_fsync_on_any_file' = None

\* set_fs with another split mode: other disk operations, the same globals.
SetFsAgain ==
  /\ phase = "ready"
  /\ ResetGlobals
  /\ phase' = "construct" /\ i' = 0 /\ n' = 0
  /\ ops' = NoOps /\ deps' = NoOps /\ hidden_dependencies' = NoOps
  /\ last_sync' = None

Next ==
  \/ \E d \in DiskOp : Operation(d)
  \/ EndConstruct
  \/ get_deps
  \/ add_deps
  \/ recompute
  \/ NextPass
  \/ SetFsAgain

Spec == Init /\ [][Next]_vars

-----------------------------------------------------------------------------
(* What the result means                                                   *)

\* A set of disk operations that may be on disk after a crash.
test_combo_validity(S) == \A x \in S : deps[x] \subseteq S

ValidCombo(S) == S \subseteq Id /\ test_combo_validity(S)

TypeOK ==
  /\ phase \in {"construct", "get_deps", "add_deps", "recompute", "ready", "abort"}
  /\ n \in 0 .. MaxOps
  /\ i \in 0 .. n
  /\ ops \in [Id -> DiskOp]
  /\ dirty_write_ops_inode \in [Inode \cup {StdoutInode} -> SUBSET Id]
  /\ latest_fsync_on_any_file \in Id \cup {None}
  /\ deps \in [Id -> SUBSET Id]
  /\ last_sync \in Id \cup {None}
  /\ phase # "construct" => hidden_dependencies \in [Id -> SUBSET Id]

\* Every prefix of the trace is a valid combo: the across-syscall checks of
\* default_checks construct prefixes without asking is_legal.
PrefixesValid ==
  phase = "ready" => \A x \in Id : ValidCombo(0 .. x)

\* A sync or an output on the terminal is a barrier: a crash state with an
\* operation that was issued after it also has it.
SyncBarrier ==
  phase = "ready" =>
    \A S \in SUBSET Id : test_combo_validity(S) =>
      \A x \in S : \A s \in 0 .. x - 1 : ops[s].op \in {"sync", "stdout"} => s \in S

\* A sync is durable: a crash state with the sync has every earlier operation
\* of the synced inode that starts in the synced range, whatever partial or
\* full syncs of the inode came in between.
SyncDurable ==
  phase = "ready" =>
    \A S \in SUBSET Id : test_combo_validity(S) =>
      \A s \in S : ops[s].op = "sync" =>
        \A j \in 0 .. s - 1 : Synced(j, s) => j \in S

\* The dependencies are exactly the transitive closure of those of get_deps:
\* what Operation finds in the dirty sets adds nothing to them, and nothing
\* of an earlier call of set_fs survives.
DepsExact ==
  phase = "ready" => \A x \in Id : deps[x] = WithDeps(hidden_dependencies[x])

\* The second loop of add_deps_to_ops finds nothing to add: tuples sorted by
\* their first component leave it only closed dependencies.
RecomputeIdle == [][phase = "recompute" => UNCHANGED deps]_vars

=============================================================================
