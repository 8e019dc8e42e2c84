------------------------------- MODULE Suite -------------------------------
(***************************************************************************)
(* What Replayer.set_fs (src/alice.py) leaves behind for a trace of micro  *)
(* operations and a split mode: the disk operations of every micro         *)
(* operation and the dependencies between them.  SetFs models how the      *)
(* passes of set_fs compute the dependencies; by DepsExact they are the    *)
(* transitive closure of those of get_deps, and are written here as that.  *)
(*                                                                         *)
(* Micro operations are numbered from 0, and so are the disk operations of *)
(* each; <<x, y>> is disk operation y of micro operation x.                *)
(***************************************************************************)
EXTENDS DiskOps, FiniteSets

\* The definitions of SetFs on a list of disk operations with dependencies d.
Fs(all, d) == INSTANCE SetFs
  WITH DiskOp <- {}, Inode <- {}, MaxOps <- 0, phase <- "ready", i <- 0,
       n <- Cardinality(DOMAIN all), ops <- all, deps <- d, hidden_dependencies <- <<>>,
       dirty_write_ops_inode <- <<>>, latest_fsync_on_any_file <- -1, last_sync <- -1

\* hidden_disk_ops of each micro operation
HiddenDiskOps(trace, mode) == [x \in 0 .. Len(trace) - 1 |-> get_disk_ops(mode, trace[x + 1])]

\* What set_fs takes for granted of get_disk_ops: for every micro operation a
\* list of disk operations, whose offsets and counts are numbers.
IsTrace(trace, mode) ==
  /\ Len(trace) \in Nat \ {0}
  /\ \A x \in 1 .. Len(trace) :
       LET dops == get_disk_ops(mode, trace[x])
       IN /\ dops \in Seq({dops[y] : y \in DOMAIN dops})
          /\ \A y \in DOMAIN dops : dops[y].offset \in Int /\ dops[y].count \in Int

\* all_diskops, numbered from 0
AllDiskOps(trace, mode) ==
  LET all == Concat([x \in 1 .. Len(trace) |-> get_disk_ops(mode, trace[x])])
  IN [x \in 0 .. Len(all) - 1 |-> all[x + 1]]

\* last_sync when get_deps gets to operation x
LastSync(all, x) ==
  LET before == {s \in 0 .. x - 1 : Fs(all, <<>>)!IsSyncPoint(s)}
  IN IF before = {} THEN -1 ELSE CHOOSE s \in before : \A t \in before : t <= s

Deps(all) ==
  LET deps[x \in DOMAIN all] ==
        LET direct == Fs(all, <<>>)!FsDeps(x, LastSync(all, x))
        IN direct \cup UNION {deps[y] : y \in direct}
  IN deps

SetFsRaises(all) == \E x \in DOMAIN all : all[x].op = "sync" /\ Fs(all, <<>>)!ScanRaises(x)

set_fs(trace, mode) ==
  LET all == AllDiskOps(trace, mode)
  IN [dops |-> HiddenDiskOps(trace, mode),
      deps |-> IF SetFsRaises(all) THEN <<>> ELSE Deps(all),
      raises |-> SetFsRaises(all)]

-----------------------------------------------------------------------------
dops_len(suite, x) == Len(suite.dops[x])

dops_single(suite, d) ==
  LET before[x \in 0 .. d[1]] == IF x = 0 THEN 0 ELSE before[x - 1] + dops_len(suite, x - 1)
  IN before[d[1]] + d[2]

\* The disk operations up to and including disk_end of micro_end.
UpTo(suite, micro_end, disk_end) ==
  UNION {{<<x, y>> : y \in 0 .. (IF x = micro_end THEN disk_end ELSE dops_len(suite, x) - 1)} :
           x \in 0 .. micro_end}

test_combo_validity(suite, S) ==
  LET single == {dops_single(suite, d) : d \in S}
  IN Fs(<<>>, suite.deps)!test_combo_validity(single)

\* Wrong variant: the micro operation that is cut short is not looked at.
is_legalBeforeEnd(trace, suite, micro_end, disk_end, omitted) ==
  test_combo_validity(suite, {d \in UpTo(suite, micro_end, disk_end) \ omitted : d[1] < micro_end})

\* Replayer.is_legal, with its two exceptions for the sync system call.
is_legal(trace, suite, micro_end, disk_end, omitted) ==
  LET range == UpTo(suite, micro_end, disk_end)
  IN /\ ~(trace[micro_end + 1].op = "sync" /\ disk_end < dops_len(suite, micro_end) - 1)
     /\ \A d \in range \cap omitted : trace[d[1] + 1].op # "sync"
     /\ test_combo_validity(suite, range \ omitted)

-----------------------------------------------------------------------------
\* The promise of a sync: disk operation d of a sync makes the earlier disk
\* operation e durable.
Flushes(d, e) ==
  \/ e.op = "truncate" /\ e.inode = d.inode
  \/ e.op = "write" /\ e.inode = d.inode /\ d.offset <= e.offset /\ e.offset <= d.offset + d.count
  \/ e.op \in {"create_dir_entry", "delete_dir_entry"} /\ e.parent = d.inode

=============================================================================
