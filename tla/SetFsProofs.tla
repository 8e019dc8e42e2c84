---------------------------- MODULE SetFsProofs ----------------------------
(***************************************************************************)
(* TLAPS proofs about SetFs, for every set of disk operations, of inodes   *)
(* and every number of operations.                                         *)
(***************************************************************************)
EXTENDS SetFs, TLAPS

-----------------------------------------------------------------------------
(* The inductive invariant                                                 *)

\* Every dependency is of a lower index.
Backward ==
  /\ \A x \in Id : deps[x] \subseteq 0 .. x - 1
  /\ phase # "construct" => \A x \in Id : hidden_dependencies[x] \subseteq 0 .. x - 1

\* A dirty operation of an inode dirtied it, and no later sync flushed it.
DirtyInv ==
  \A inode \in Inode : \A w \in dirty_write_ops_inode[inode] :
    /\ DirtyOn(SuiteOp(ops[w]), inode)
    /\ \A k \in w + 1 .. n - 1 :
         ops[k].op = "sync" /\ ops[k].inode = inode =>
           ~is_included_in_sync_range(SuiteOp(ops[w]), ops[k].offset, ops[k].count)

LatestInv ==
  latest_fsync_on_any_file # None => ops[latest_fsync_on_any_file].op = "sync"

\* The operations that Operation may make x depend on.
Direct(x) ==
  {w \in 0 .. x - 1 :
     ops[w].op = "sync" \/ (ops[x].op = "sync" /\ w \in Scanned(x) /\ Synced(w, x))}

FromDirect(x) == deps[x] \subseteq WithDeps(Direct(x))

\* l is the last sync point before x.
IsLastSync(l, x) ==
  /\ l \in 0 .. x - 1 => IsSyncPoint(l)
  /\ l \in 0 .. x - 1 \/ l = None
  /\ \A k \in l + 1 .. x - 1 : ~IsSyncPoint(k)

FsDone(x) ==
  \E l \in Id \cup {None} : IsLastSync(l, x) /\ hidden_dependencies[x] = FsDeps(x, l)

\* What the passes leave in the dependencies of x.
Exact(x) == deps[x] = WithDeps(hidden_dependencies[x])
Closed(x) == \A y \in deps[x] : deps[y] \subseteq deps[x]
Barrier(x) == \A s \in 0 .. x - 1 : IsSyncPoint(s) => s \in deps[x]
Durable(x) == ops[x].op = "sync" => \A j \in 0 .. x - 1 : Synced(j, x) => j \in deps[x]
Good(x) == Exact(x) /\ Closed(x) /\ Barrier(x) /\ Durable(x)

IInv ==
  /\ TypeOK
  /\ Backward
  /\ phase = "construct" => DirtyInv /\ LatestInv
  /\ phase \in {"construct", "get_deps"} => \A x \in Id : FromDirect(x)
  /\ phase = "get_deps" => IsLastSync(last_sync, i) /\ \A x \in 0 .. i - 1 : FsDone(x)
  /\ phase \in {"add_deps", "recompute", "ready"} => \A x \in Id : FsDone(x)
  /\ phase = "add_deps" =>
       /\ \A x \in 0 .. i - 1 : Good(x)
       /\ \A x \in i .. n - 1 : FromDirect(x)
  /\ phase \in {"recompute", "ready"} => \A x \in Id : Good(x)

-----------------------------------------------------------------------------
(* Types                                                                   *)

\* SuiteOp keeps the kind of everything but stdout, and its inode is one that
\* dirty_write_ops_inode has.
LEMMA SuiteOpFacts ==
  ASSUME NEW d \in DiskOp
  PROVE  /\ d.op \in Kinds /\ d.inode \in Inode /\ d.offset \in Nat /\ d.count \in Nat
         /\ d.final_size \in Nat
         /\ SuiteOp(d).inode \in Inode \cup {StdoutInode}
         /\ SuiteOp(d).op = "sync" <=> d.op = "sync"
         /\ d.op = "sync" => SuiteOp(d) = d
         /\ d.op = "stdout" => SuiteOp(d).op = "write" /\ SuiteOp(d).inode = StdoutInode
         /\ d.op # "stdout" => SuiteOp(d) = d
  BY ConstAssumption DEF DiskOpType, SuiteOp, Kinds

\* What WithDeps has, and what bounds it.
LEMMA WithDepsIn ==
  ASSUME NEW S, NEW y
  PROVE  y \in WithDeps(S) <=> y \in S \/ \E w \in S : y \in deps[w]
  BY DEF WithDeps

LEMMA WithDepsWithin ==
  ASSUME NEW T, NEW S \in SUBSET T, \A w \in S : deps[w] \subseteq T
  PROVE  WithDeps(S) \subseteq T
  BY DEF WithDeps

\* The variables keep their types through every step of set_fs.
THEOREM TypeCorrect == Spec => []TypeOK
<1>1. Init => TypeOK
  BY ConstAssumption DEF Init, TypeOK, Id, NoOps, NoDirty, None, StdoutInode
<1>2. TypeOK /\ [Next]_vars => TypeOK'
  <2> SUFFICES ASSUME TypeOK, [Next]_vars
               PROVE  TypeOK'
    OBVIOUS
  <2> USE ConstAssumption
  <2>1. ASSUME NEW d0 \in DiskOp, Operation(d0)
        PROVE  TypeOK'
    <3> DEFINE d == SuiteOp(d0)
    <3>1. d.inode \in Inode \cup {StdoutInode}
      BY SuiteOpFacts
    <3>2. /\ n' = n + 1 /\ n' \in 0 .. MaxOps /\ phase' = phase /\ phase = "construct"
          /\ i' = i /\ i' \in 0 .. n' /\ last_sync' = last_sync
      BY <2>1 DEF Operation, TypeOK
    <3>3. Id' = 0 .. n /\ Id \subseteq Id' /\ n \in Id'
      BY <3>2 DEF Id, TypeOK
    <3>4. ops' \in [Id' -> DiskOp]
      BY <2>1, <3>3 DEF Operation, Extend, TypeOK, Id
    <3>5. Flushed(d) \subseteq Id
      BY <3>1 DEF Flushed, TypeOK
    <3>6. calculate_dependencies(d) \subseteq Id
      BY <3>5, WithDepsWithin DEF calculate_dependencies, TypeOK
    <3>7. deps' = [x \in Id' |-> IF x = n THEN calculate_dependencies(d) ELSE deps[x]]
      BY <2>1, <3>3 DEF Operation, Extend
    <3>8. deps' \in [Id' -> SUBSET Id']
      <4>1. \A x \in Id' : x # n => x \in Id
        BY <3>2 DEF Id, TypeOK
      <4>2. \A x \in Id : deps[x] \subseteq Id
        BY DEF TypeOK
      <4> QED
        BY <3>3, <3>6, <3>7, <4>1, <4>2, Zenon
    <3>9. clear_dirty_write_collection(d) \in [Inode \cup {StdoutInode} -> SUBSET Id']
      BY <3>1, <3>3, Zenon DEF clear_dirty_write_collection, AddDirty, TypeOK
    <3>10. latest_fsync_on_any_file' \in Id' \cup {None}
      BY <2>1, <3>3 DEF Operation, TypeOK
    <3> QED
      BY <2>1, <3>2, <3>3, <3>4, <3>8, <3>9, <3>10 DEF Operation, TypeOK
  <2>2. CASE EndConstruct
    BY <2>2 DEF EndConstruct, TypeOK, Id
  <2>3. CASE get_deps
    <3>1. i \in Id
      BY <2>3 DEF get_deps, TypeOK, Id
    <3>2. FsDeps(i, last_sync) \subseteq Id
      BY <3>1 DEF FsDeps, Scanned, TypeOK, Id
    <3>3. phase = "get_deps" /\ hidden_dependencies \in [Id -> SUBSET Id]
      BY <2>3 DEF get_deps, TypeOK
    <3>4. hidden_dependencies' \in [Id -> SUBSET Id]
      BY <2>3, <3>2, <3>3 DEF get_deps
    <3>5. phase' \in {"get_deps", "abort"} /\ i' \in 0 .. n /\ last_sync' \in Id \cup {None}
      BY <2>3, <3>1, <3>3 DEF get_deps, TypeOK, Id
    <3> QED
      BY <2>3, <3>4, <3>5 DEF get_deps, TypeOK, Id
  <2>4. CASE add_deps
    <3>1. i \in Id /\ hidden_dependencies[i] \subseteq Id
      BY <2>4 DEF add_deps, add_dep, TypeOK, Id
    <3>2. WithDeps(hidden_dependencies[i]) \subseteq Id
      BY <3>1, WithDepsWithin, Zenon DEF TypeOK
    <3> QED
      BY <2>4, <3>1, <3>2 DEF add_deps, add_dep, TypeOK, Id
  <2>5. CASE recompute
    <3>1. i \in Id /\ deps[i] \subseteq Id
      BY <2>5 DEF recompute, TypeOK, Id
    <3>2. WithDeps(deps[i]) \subseteq Id
      BY <3>1, WithDepsWithin, Zenon DEF TypeOK
    <3> QED
      BY <2>5, <3>1, <3>2 DEF recompute, TypeOK, Id
  <2>6. CASE NextPass
    BY <2>6 DEF NextPass, TypeOK, Id
  <2>7. CASE SetFsAgain
    BY <2>7 DEF SetFsAgain, ResetGlobals, TypeOK, Id, NoOps, NoDirty, None, StdoutInode
  <2>8. CASE UNCHANGED vars
    BY <2>8 DEF vars, TypeOK, Id
  <2> QED
    BY <2>1, <2>2, <2>3, <2>4, <2>5, <2>6, <2>7, <2>8 DEF Next
<1> QED
  BY <1>1, <1>2, PTL DEF Spec

-----------------------------------------------------------------------------
(* Frame lemmas                                                            *)

\* The predicates on the trace below m depend on the operations below m only.
LEMMA TraceFrame ==
  ASSUME NEW m \in Nat, \A x \in 0 .. m - 1 : ops'[x] = ops[x]
  PROVE  \A x \in 0 .. m - 1 :
           /\ IsSyncPoint(x)' <=> IsSyncPoint(x)
           /\ \A j \in 0 .. x - 1 : Synced(j, x)' <=> Synced(j, x)
           /\ Scanned(x)' = Scanned(x)
           /\ Direct(x)' = Direct(x)
<1> SUFFICES ASSUME NEW x \in 0 .. m - 1
             PROVE  /\ IsSyncPoint(x)' <=> IsSyncPoint(x)
                    /\ \A j \in 0 .. x - 1 : Synced(j, x)' <=> Synced(j, x)
                    /\ Scanned(x)' = Scanned(x)
                    /\ Direct(x)' = Direct(x)
  OBVIOUS
<1>1. ops'[x] = ops[x] /\ \A j \in 0 .. x - 1 : ops'[j] = ops[j]
  OBVIOUS
<1>2. IsSyncPoint(x)' <=> IsSyncPoint(x)
  BY <1>1 DEF IsSyncPoint
<1>3. \A j \in 0 .. x - 1 : Synced(j, x)' <=> Synced(j, x)
  BY <1>1 DEF Synced, InRange, End, IsDirEntry
<1>4. \A k \in 0 .. x - 1 : Covers(k, x)' <=> Covers(k, x)
  BY <1>1 DEF Covers, End
<1>5. Scanned(x)' = Scanned(x)
  <2>1. \A j \in 0 .. x - 1 : \A k \in j .. x - 1 : k \in 0 .. x - 1
    OBVIOUS
  <2> QED
    BY <1>4, <2>1 DEF Scanned
<1>6. Direct(x)' = Direct(x)
  BY <1>1, <1>3, <1>5 DEF Direct
<1> QED
  BY <1>2, <1>3, <1>5, <1>6

\* Growing dependencies grow WithDeps; equal ones leave it alone.
LEMMA WithDepsGrows ==
  ASSUME NEW S, \A w \in S : deps[w] \subseteq deps'[w]
  PROVE  WithDeps(S) \subseteq WithDeps(S)'
  BY DEF WithDeps

LEMMA WithDepsMonotone ==
  ASSUME NEW S, NEW T, S \subseteq T
  PROVE  WithDeps(S) \subseteq WithDeps(T)
  BY DEF WithDeps

\* A dirty operation that a sync flushes is one the scan of get_deps finds:
\* it was not covered by a sync in between, for that sync would have flushed it.
LEMMA FlushedIsScanned ==
  ASSUME TypeOK, DirtyInv, NEW d \in DiskOp, d.op = "sync",
         NEW m \in Nat, m = n,
         ops'[m] = d, \A x \in Id : ops'[x] = ops[x],
         NEW w \in Flushed(d)
  PROVE  w \in Id /\ w \in Scanned(m)' /\ Synced(w, m)'
<1> USE ConstAssumption
<1>1. /\ d.inode \in Inode /\ d.offset \in Nat /\ d.count \in Nat
  BY SuiteOpFacts
<1>2. /\ w \in dirty_write_ops_inode[d.inode] /\ w \in Id
      /\ is_included_in_sync_range(SuiteOp(ops[w]), d.offset, d.count)
  BY <1>1 DEF Flushed, TypeOK
<1>3. w \in 0 .. m - 1
  BY <1>2 DEF TypeOK, Id
<1>4. ops[w] \in DiskOp /\ ops'[w] = ops[w]
  BY <1>2 DEF TypeOK
<1>5. DirtyOn(SuiteOp(ops[w]), d.inode)
  BY <1>1, <1>2, Zenon DEF DirtyInv
<1>6. ops[w].op # "stdout" /\ SuiteOp(ops[w]) = ops[w]
  BY <1>1, <1>4, <1>5, SuiteOpFacts DEF DirtyOn, IsDirEntry, StdoutInode
<1>7. ops[w].op # "sync"
  BY <1>5, <1>6 DEF DirtyOn, IsDirEntry
<1>8. Synced(w, m)'
  <2>1. CASE ops[w].op = "write"
    BY <1>1, <1>2, <1>4, <1>5, <1>6, <2>1, SuiteOpFacts
    DEF is_included_in_sync_range, Synced, DirtyOn, IsDirEntry, InRange, End
  <2>2. CASE ops[w].op # "write"
    BY <1>4, <1>5, <1>6, <2>2 DEF Synced, DirtyOn, IsDirEntry
  <2> QED
    BY <2>1, <2>2
<1>9. ASSUME NEW k \in w .. m - 1, Covers(k, m)'
      PROVE  FALSE
  <2>1. k \in Id /\ ops'[k] = ops[k] /\ ops[k] \in DiskOp
    BY <1>3 DEF Id, TypeOK
  <2>2. /\ ops[k].op = "sync" /\ ops[k].inode = d.inode
        /\ ops[k].offset <= d.offset
        /\ ops[k].offset + ops[k].count >= d.offset + d.count
    BY <1>9, <2>1 DEF Covers, End
  <2>3. k \in w + 1 .. m - 1
    BY <1>3, <1>7, <2>2
  <2>4. ~is_included_in_sync_range(ops[w], ops[k].offset, ops[k].count)
    BY <1>1, <1>2, <1>6, <2>2, <2>3, Zenon DEF DirtyInv
  <2>5. ops[k].offset \in Nat /\ ops[k].count \in Nat
    BY <2>1, SuiteOpFacts
  <2>6. ops[w].offset \in Nat /\ ops[w].count \in Nat /\ ops[w].final_size \in Nat
    BY <1>4, SuiteOpFacts
  <2> QED
    BY <1>1, <1>2, <1>6, <2>2, <2>4, <2>5, <2>6 DEF is_included_in_sync_range
<1>10. w \in Scanned(m)'
  BY <1>3, <1>9 DEF Scanned
<1> QED
  BY <1>2, <1>8, <1>10

-----------------------------------------------------------------------------
(* One lemma per action                                                    *)

LEMMA OperationStep ==
  ASSUME IInv, TypeOK', NEW d0 \in DiskOp, Operation(d0)
  PROVE  IInv'
<1> USE ConstAssumption
<1> PICK m \in Nat : m = n
  BY DEF IInv, TypeOK
<1> DEFINE d == SuiteOp(d0)
<1> DEFINE D == calculate_dependencies(d)
<1>1. phase = "construct" /\ phase' = "construct" /\ n' = m + 1
  BY DEF Operation
<1>2. Id = 0 .. m - 1 /\ Id' = 0 .. m
  BY <1>1 DEF Id
<1>3. TypeOK /\ DirtyInv /\ LatestInv /\ Backward /\ \A x \in Id : FromDirect(x)
  BY <1>1 DEF IInv
<1>4. /\ ops'[m] = d0 /\ \A x \in Id : ops'[x] = ops[x]
      /\ deps'[m] = D /\ \A x \in Id : deps'[x] = deps[x]
  BY <1>2 DEF Operation, Extend
<1>5. /\ d.inode \in Inode \cup {StdoutInode}
      /\ d.op = "sync" <=> d0.op = "sync"
      /\ d.op = "sync" => d = d0 /\ d0.inode \in Inode
  BY SuiteOpFacts
<1>6. Flushed(d) \subseteq Id /\ D \subseteq Id
  <2>1. Flushed(d) \subseteq Id
    BY <1>3, <1>5 DEF Flushed, TypeOK
  <2>2. D \subseteq Id
    BY <1>3, <2>1, WithDepsWithin DEF calculate_dependencies, TypeOK
  <2> QED
    BY <2>1, <2>2
<1>7. Backward'
  <2>1. \A x \in Id' : deps'[x] \subseteq 0 .. x - 1
    BY <1>2, <1>3, <1>4, <1>6 DEF Backward
  <2> QED
    BY <1>1, <2>1 DEF Backward
<1>8. DirtyInv'
  <2> SUFFICES ASSUME NEW inode \in Inode, NEW w \in dirty_write_ops_inode'[inode]
               PROVE  /\ DirtyOn(SuiteOp(ops'[w]), inode)
                      /\ \A k \in w + 1 .. m : ops'[k].op = "sync" /\ ops'[k].inode = inode =>
                           ~is_included_in_sync_range(SuiteOp(ops'[w]), ops'[k].offset, ops'[k].count)
    BY <1>1 DEF DirtyInv, DirtyOn, IsDirEntry, SuiteOp, is_included_in_sync_range
  <2>1. dirty_write_ops_inode' = clear_dirty_write_collection(d)
    BY DEF Operation
  <2>2. dirty_write_ops_inode[inode] \subseteq Id
    BY <1>3 DEF TypeOK
  <2>3. ASSUME w \in dirty_write_ops_inode[inode],
               d.op = "sync" /\ d.inode = inode =>
                 ~is_included_in_sync_range(SuiteOp(ops[w]), d.offset, d.count)
        PROVE  /\ DirtyOn(SuiteOp(ops'[w]), inode)
               /\ \A k \in w + 1 .. m : ops'[k].op = "sync" /\ ops'[k].inode = inode =>
                    ~is_included_in_sync_range(SuiteOp(ops'[w]), ops'[k].offset, ops'[k].count)
    <3>1. w \in 0 .. m - 1 /\ ops'[w] = ops[w]
      BY <1>2, <1>4, <2>2, <2>3
    <3>2. \A k \in w + 1 .. m : k = m \/ (k \in w + 1 .. m - 1 /\ k \in Id)
      BY <1>2, <3>1
    <3> QED
      BY <1>3, <1>4, <1>5, <2>3, <3>1, <3>2 DEF DirtyInv
  <2>4. CASE d.op = "sync"
    <3>1. w \in dirty_write_ops_inode[inode] /\ (d.inode = inode => w \notin Flushed(d))
      BY <1>3, <1>5, <2>1, <2>4 DEF clear_dirty_write_collection, TypeOK
    <3>2. d.inode = inode => ~is_included_in_sync_range(SuiteOp(ops[w]), d.offset, d.count)
      BY <3>1 DEF Flushed
    <3> QED
      BY <2>3, <3>1, <3>2
  <2>5. CASE d.op # "sync"
    <3>1. w \in dirty_write_ops_inode[inode] \/ (w = m /\ DirtyOn(d, inode))
      BY <2>1, <2>5 DEF clear_dirty_write_collection, AddDirty
    <3>2. CASE w = m /\ DirtyOn(d, inode)
      BY <1>4, <3>2
    <3> QED
      BY <2>3, <2>5, <3>1, <3>2
  <2> QED
    BY <2>4, <2>5
<1>9. LatestInv'
  BY <1>2, <1>3, <1>4, <1>5 DEF LatestInv, Operation, TypeOK
<1>10. \A x \in Id' : FromDirect(x)'
  <2>1. ASSUME NEW x \in Id
        PROVE  FromDirect(x)'
    <3>1. Direct(x)' = Direct(x)
      BY <1>2, <1>4, TraceFrame, Zenon
    <3>2. Direct(x) \subseteq Id
      BY <1>2 DEF Direct
    <3>3. WithDeps(Direct(x)) \subseteq WithDeps(Direct(x))'
      BY <1>4, <3>1, <3>2 DEF WithDeps
    <3> QED
      BY <1>3, <1>4, <3>3 DEF FromDirect
  <2>2. FromDirect(m)'
    <3> DEFINE S == (IF d.op = "sync" THEN Flushed(d) ELSE {})
                      \cup ({latest_fsync_on_any_file} \ {None})
    <3>1. D = WithDeps(S) /\ S \subseteq Id
      BY <1>3, <1>6 DEF calculate_dependencies, TypeOK
    <3>2. S \subseteq Direct(m)'
      <4>1. ASSUME d.op = "sync", NEW w \in Flushed(d)
            PROVE  w \in Direct(m)'
        <5>1. w \in Id /\ w \in Scanned(m)' /\ Synced(w, m)'
          BY <1>3, <1>4, <1>5, <4>1, FlushedIsScanned
        <5> QED
          BY <1>2, <1>4, <1>5, <4>1, <5>1 DEF Direct
      <4>2. ASSUME latest_fsync_on_any_file # None
            PROVE  latest_fsync_on_any_file \in Direct(m)'
        BY <1>2, <1>3, <1>4, <4>2 DEF Direct, LatestInv, TypeOK
      <4> QED
        BY <4>1, <4>2
    <3>3. WithDeps(S) \subseteq WithDeps(Direct(m))'
      BY <1>4, <3>1, <3>2 DEF WithDeps
    <3> QED
      BY <1>4, <3>1, <3>3 DEF FromDirect
  <2> QED
    BY <1>2, <2>1, <2>2
<1> QED
  BY <1>1, <1>7, <1>8, <1>9, <1>10 DEF IInv

\* With the trace and the dependencies unchanged, so is what is said of them.
LEMMA SameTrace ==
  ASSUME TypeOK, UNCHANGED <<n, ops>>
  PROVE  /\ Id' = Id
         /\ \A x \in Id : /\ IsSyncPoint(x)' <=> IsSyncPoint(x)
                          /\ \A j \in 0 .. x - 1 : Synced(j, x)' <=> Synced(j, x)
                          /\ Scanned(x)' = Scanned(x)
                          /\ Direct(x)' = Direct(x)
                          /\ \A l : FsDeps(x, l)' = FsDeps(x, l)
         /\ \A x \in 0 .. n : \A l : IsLastSync(l, x)' <=> IsLastSync(l, x)
<1>1. Id' = Id
  BY DEF Id
<1>2. \A x \in Id : /\ IsSyncPoint(x)' <=> IsSyncPoint(x)
                    /\ \A j \in 0 .. x - 1 : Synced(j, x)' <=> Synced(j, x)
                    /\ Scanned(x)' = Scanned(x)
                    /\ Direct(x)' = Direct(x)
                    /\ \A l : FsDeps(x, l)' = FsDeps(x, l)
  BY DEF IsSyncPoint, Synced, InRange, End, IsDirEntry, Scanned, Covers, Direct, FsDeps
<1>3. \A x \in 0 .. n : \A l : IsLastSync(l, x)' <=> IsLastSync(l, x)
  BY DEF IsLastSync, IsSyncPoint
<1> QED
  BY <1>1, <1>2, <1>3

LEMMA SameGood ==
  ASSUME TypeOK, UNCHANGED <<n, ops, deps, hidden_dependencies>>
  PROVE  \A x \in Id : Good(x)' <=> Good(x)
<1> SUFFICES ASSUME NEW x \in Id
             PROVE  Good(x)' <=> Good(x)
  OBVIOUS
<1>1. (Exact(x)' <=> Exact(x)) /\ (Closed(x)' <=> Closed(x))
  BY DEF Exact, Closed, WithDeps
<1>2. Barrier(x)' <=> Barrier(x)
  BY DEF Barrier, IsSyncPoint
<1>3. Durable(x)' <=> Durable(x)
  BY SameTrace, Zenon DEF Durable
<1> QED
  BY <1>1, <1>2, <1>3 DEF Good

LEMMA EndConstructStep ==
  ASSUME IInv, TypeOK', EndConstruct
  PROVE  IInv'
<1>1. /\ phase = "construct" /\ phase' = "get_deps" /\ i' = 0 /\ last_sync' = None
      /\ UNCHANGED <<n, ops, deps>> /\ hidden_dependencies' = [x \in Id |-> {}]
  BY DEF EndConstruct
<1>2. TypeOK /\ Backward /\ \A x \in Id : FromDirect(x)
  BY <1>1 DEF IInv
<1>3. Id' = Id
  BY <1>1 DEF Id
<1>4. Backward'
  BY <1>1, <1>2, <1>3 DEF Backward
<1>5. \A x \in Id : FromDirect(x)'
  BY <1>1, <1>2, SameTrace DEF FromDirect, WithDeps
<1>6. IsLastSync(last_sync, i)'
  BY <1>1 DEF IsLastSync, None
<1>7. \A x \in 0 .. i' - 1 : FsDone(x)'
  BY <1>1
<1> QED
  BY <1>1, <1>3, <1>4, <1>5, <1>6, <1>7 DEF IInv

LEMMA GetDepsStep ==
  ASSUME IInv, TypeOK', get_deps
  PROVE  IInv'
<1> USE ConstAssumption
<1>1. phase = "get_deps" /\ i < n /\ UNCHANGED <<n, ops, deps>>
  BY DEF get_deps
<1>2. /\ TypeOK /\ Backward /\ \A x \in Id : FromDirect(x)
      /\ IsLastSync(last_sync, i) /\ \A x \in 0 .. i - 1 : FsDone(x)
  BY <1>1 DEF IInv
<1>3. i \in Id /\ i \in Nat /\ n \in Nat /\ Id' = Id
  BY <1>1, <1>2 DEF TypeOK, Id
<1>4. \A x \in Id : FromDirect(x)'
  BY <1>1, <1>2, SameTrace DEF FromDirect, WithDeps
<1>5. CASE phase' = "abort"
  BY <1>1, <1>2, <1>3, <1>5 DEF IInv, Backward, get_deps
<1>6. CASE phase' # "abort"
  <2> PICK m \in Id : m = i
    BY <1>3
  <2>1. /\ phase' = "get_deps" /\ i' = m + 1
        /\ hidden_dependencies' = [hidden_dependencies EXCEPT ![m] = FsDeps(m, last_sync)]
        /\ last_sync' = IF IsSyncPoint(m) THEN m ELSE last_sync
    BY <1>1, <1>6 DEF get_deps
  <2>2. hidden_dependencies \in [Id -> SUBSET Id]
    BY <1>1, <1>2 DEF TypeOK
  <2>3. /\ hidden_dependencies'[m] = FsDeps(m, last_sync)
        /\ \A x \in Id : x # m => hidden_dependencies'[x] = hidden_dependencies[x]
    BY <2>1, <2>2
  <2>4. FsDeps(m, last_sync) \subseteq 0 .. m - 1
    BY <1>2, <1>3 DEF FsDeps, Scanned, IsLastSync
  <2>5. Backward'
    BY <1>1, <1>2, <1>3, <2>3, <2>4 DEF Backward
  <2>6. IsLastSync(last_sync, i)'
    <3>1. \A x : IsSyncPoint(x)' <=> IsSyncPoint(x)
      BY <1>1 DEF IsSyncPoint
    <3>2. m \in Nat
      BY <1>3
    <3>3. CASE IsSyncPoint(m)
      BY <2>1, <3>1, <3>2, <3>3 DEF IsLastSync
    <3>4. CASE ~IsSyncPoint(m)
      <4>1. last_sync' = last_sync /\ (last_sync \in 0 .. m - 1 \/ last_sync = -1)
        BY <1>2, <2>1, <3>4 DEF IsLastSync, None
      <4>2. \A k \in last_sync + 1 .. m : k = m \/ k \in last_sync + 1 .. m - 1
        BY <3>2, <4>1
      <4> QED
        BY <1>2, <2>1, <3>1, <3>2, <3>4, <4>1, <4>2 DEF IsLastSync, None
    <3> QED
      BY <3>3, <3>4
  <2>7. ASSUME NEW x \in 0 .. i' - 1
        PROVE  FsDone(x)'
    <3>1. x \in Id /\ x \in 0 .. n /\ (x = m \/ x \in 0 .. i - 1)
      BY <1>1, <1>3, <2>1 DEF Id
    <3>2. CASE x = m
      <4>1. last_sync \in Id \cup {None}
        BY <1>2 DEF TypeOK
      <4> QED
        BY <1>1, <1>2, <1>3, <2>3, <3>1, <3>2, <4>1, SameTrace, Zenon DEF FsDone
    <3>3. CASE x # m
      BY <1>1, <1>2, <1>3, <2>3, <3>1, <3>3, SameTrace, Zenon DEF FsDone
    <3> QED
      BY <3>2, <3>3
  <2> QED
    BY <1>3, <1>4, <2>1, <2>5, <2>6, <2>7 DEF IInv
<1> QED
  BY <1>5, <1>6

\* What add_dep leaves in the dependencies of operation m, once the lower ones
\* are done: the dependencies Operation found are among the new ones, and the
\* result is closed, a barrier and durable.
LEMMA AddDepsGood ==
  ASSUME TypeOK, Backward, phase = "add_deps", NEW m \in Id, FsDone(m), FromDirect(m),
         \A x \in 0 .. m - 1 : Good(x)
  PROVE  LET R == WithDeps(hidden_dependencies[m]) IN
         /\ R \subseteq 0 .. m - 1
         /\ deps[m] \subseteq R
         /\ \A y \in R : deps[y] \subseteq R
         /\ \A s \in 0 .. m - 1 : IsSyncPoint(s) => s \in R
         /\ ops[m].op = "sync" => \A j \in 0 .. m - 1 : Synced(j, m) => j \in R
<1> DEFINE H == hidden_dependencies[m]
           R == WithDeps(H)
<1>1. m \in Nat /\ 0 .. m - 1 \subseteq Id
  BY ConstAssumption DEF TypeOK, Id
<1>2. H \subseteq 0 .. m - 1
  BY DEF Backward
<1>3. \A x \in 0 .. m - 1 : deps[x] \subseteq 0 .. x - 1 /\ deps[x] \subseteq 0 .. m - 1
  BY <1>1 DEF Backward
<1>4. R \subseteq 0 .. m - 1
  BY <1>2, <1>3, WithDepsWithin, Zenon
<1>5. \A y \in H : y \in R /\ deps[y] \subseteq R
  BY DEF WithDeps
<1>6. \A y \in R : deps[y] \subseteq R
  <2> SUFFICES ASSUME NEW y \in R
               PROVE  deps[y] \subseteq R
    OBVIOUS
  <2>1. CASE y \in H
    BY <1>5, <2>1
  <2>2. ASSUME NEW w \in H, y \in deps[w]
        PROVE  deps[y] \subseteq R
    <3>1. Closed(w)
      BY <1>2 DEF Good
    <3> QED
      BY <1>5, <2>2, <3>1 DEF Closed
  <2> QED
    BY <2>1, <2>2, WithDepsIn
<1>7. PICK l \in Id \cup {None} : IsLastSync(l, m) /\ H = FsDeps(m, l)
  BY DEF FsDone
<1>8. ASSUME NEW s \in 0 .. m - 1, IsSyncPoint(s)
      PROVE  s \in R
  <2>1. l # None
    BY <1>1, <1>7, <1>8 DEF IsLastSync, None
  <2>2. l \in 0 .. m - 1 /\ l \in H
    BY <1>7, <2>1 DEF IsLastSync, FsDeps
  <2>3. s <= l
    BY <1>1, <1>7, <1>8, <2>2 DEF IsLastSync
  <2>4. CASE s = l
    BY <1>5, <2>2, <2>4
  <2>5. CASE s < l
    <3>1. Barrier(l) /\ s \in 0 .. l - 1
      BY <1>1, <2>2, <2>5 DEF Good
    <3>2. s \in deps[l]
      BY <1>8, <3>1 DEF Barrier
    <3> QED
      BY <1>5, <2>2, <3>2
  <2> QED
    BY <1>1, <2>2, <2>3, <2>4, <2>5
<1>9. deps[m] \subseteq R
  <2>1. ASSUME NEW w \in Direct(m)
        PROVE  w \in R
    <3>1. w \in 0 .. m - 1
      BY <2>1 DEF Direct
    <3>2. CASE ops[w].op = "sync"
      BY <1>8, <3>1, <3>2 DEF IsSyncPoint
    <3>3. CASE ops[m].op = "sync" /\ w \in Scanned(m) /\ Synced(w, m)
      BY <1>5, <1>7, <3>3 DEF FsDeps
    <3> QED
      BY <2>1, <3>2, <3>3 DEF Direct
  <2>2. WithDeps(Direct(m)) \subseteq R
    BY <1>6, <2>1, WithDepsWithin
  <2> QED
    BY <2>2 DEF FromDirect
<1>10. ASSUME ops[m].op = "sync", NEW j \in 0 .. m - 1, Synced(j, m)
       PROVE  j \in R
  <2>1. CASE j \in Scanned(m)
    BY <1>5, <1>7, <1>10, <2>1 DEF FsDeps
  <2>2. CASE j \notin Scanned(m)
    <3>1. PICK k \in j .. m - 1 : Covers(k, m)
      BY <1>10, <2>2 DEF Scanned
    <3>2. k \in 0 .. m - 1 /\ ops[k].op = "sync" /\ IsSyncPoint(k) /\ k # j
      BY <1>1, <1>10, <3>1 DEF Covers, IsSyncPoint, Synced, IsDirEntry
    <3>3. /\ j \in 0 .. k - 1 /\ j \in Id /\ k \in Id
      BY <1>1, <3>1, <3>2
    <3>4. ops[j] \in DiskOp /\ ops[k] \in DiskOp /\ ops[m] \in DiskOp
      BY <3>3 DEF TypeOK
    <3>5. /\ ops[j].offset \in Nat /\ ops[j].count \in Nat
          /\ ops[k].offset \in Nat /\ ops[k].count \in Nat
          /\ ops[m].offset \in Nat /\ ops[m].count \in Nat
      BY <3>4, SuiteOpFacts
    <3>6. Synced(j, k)
      BY <1>10, <3>1, <3>5 DEF Synced, Covers, InRange, End
    <3>7. Durable(k)
      BY <3>2 DEF Good
    <3>8. j \in deps[k]
      BY <3>2, <3>3, <3>6, <3>7 DEF Durable
    <3> QED
      BY <1>6, <1>8, <3>2, <3>8
  <2> QED
    BY <2>1, <2>2
<1> HIDE DEF R, H
<1>11. /\ R \subseteq 0 .. m - 1
       /\ deps[m] \subseteq R
       /\ \A y \in R : deps[y] \subseteq R
       /\ \A s \in 0 .. m - 1 : IsSyncPoint(s) => s \in R
       /\ ops[m].op = "sync" => \A j \in 0 .. m - 1 : Synced(j, m) => j \in R
  BY <1>4, <1>6, <1>8, <1>9, <1>10
<1> QED
  BY <1>11 DEF R, H

LEMMA AddDepsStep ==
  ASSUME IInv, TypeOK', add_deps
  PROVE  IInv'
<1> USE ConstAssumption
<1>1. phase = "add_deps" /\ phase' = phase /\ i < n /\ UNCHANGED <<n, ops, hidden_dependencies>>
  BY DEF add_deps
<1>2. /\ TypeOK /\ Backward /\ \A x \in Id : FsDone(x)
      /\ \A x \in 0 .. i - 1 : Good(x)
      /\ \A x \in i .. n - 1 : FromDirect(x)
  BY <1>1 DEF IInv
<1>3. i \in Id /\ i \in Nat /\ n \in Nat /\ Id' = Id
  BY <1>1, <1>2 DEF TypeOK, Id
<1> PICK m \in Id : m = i
  BY <1>3
<1> DEFINE R == WithDeps(hidden_dependencies[m])
<1>4. /\ R \subseteq 0 .. m - 1
      /\ deps[m] \subseteq R
      /\ \A y \in R : deps[y] \subseteq R
      /\ \A s \in 0 .. m - 1 : IsSyncPoint(s) => s \in R
      /\ ops[m].op = "sync" => \A j \in 0 .. m - 1 : Synced(j, m) => j \in R
  BY <1>1, <1>2, <1>3, AddDepsGood DEF Id
<1>5. i' = m + 1 /\ deps'[m] = R /\ \A x \in Id : x # m => deps'[x] = deps[x]
  BY <1>2, <1>4 DEF add_deps, add_dep, TypeOK
<1>6. m \in Nat /\ \A x \in 0 .. m - 1 : x \in Id /\ x # m /\ 0 .. x - 1 \subseteq 0 .. m - 1
  BY <1>3 DEF Id
<1>7. Backward'
  BY <1>1, <1>2, <1>3, <1>4, <1>5 DEF Backward
<1>8. \A x \in Id : FsDone(x)'
  BY <1>1, <1>2, <1>3, SameTrace DEF FsDone, Id
<1>9. ASSUME NEW x \in 0 .. m - 1
      PROVE  Good(x)'
  <2>1. Good(x) /\ deps[x] \subseteq 0 .. x - 1 /\ hidden_dependencies[x] \subseteq 0 .. x - 1
    BY <1>1, <1>2, <1>6 DEF Backward
  <2>2. deps'[x] = deps[x] /\ \A y \in 0 .. x - 1 : deps'[y] = deps[y]
    BY <1>5, <1>6
  <2>3. Exact(x)'
    BY <1>1, <2>1, <2>2 DEF Good, Exact, WithDeps
  <2>4. Closed(x)'
    BY <2>1, <2>2 DEF Good, Closed
  <2>5. Barrier(x)'
    BY <1>1, <2>1, <2>2 DEF Good, Barrier, IsSyncPoint
  <2>6. Durable(x)'
    BY <1>1, <1>2, <1>6, <2>1, <2>2, SameTrace DEF Good, Durable
  <2> QED
    BY <2>3, <2>4, <2>5, <2>6 DEF Good
<1>10. Good(m)'
  <2>1. \A y \in R : deps'[y] = deps[y]
    BY <1>4, <1>5, <1>6
  <2>2. \A y \in hidden_dependencies[m] : deps'[y] = deps[y]
    BY <1>1, <1>2, <1>5, <1>6 DEF Backward
  <2>3. Exact(m)'
    BY <1>1, <1>5, <2>2 DEF Exact, WithDeps
  <2>4. Closed(m)'
    BY <1>4, <1>5, <2>1 DEF Closed
  <2>5. Barrier(m)'
    BY <1>1, <1>4, <1>5 DEF Barrier, IsSyncPoint
  <2>6. Durable(m)'
    BY <1>1, <1>2, <1>4, <1>5, SameTrace, Zenon DEF Durable
  <2> QED
    BY <2>3, <2>4, <2>5, <2>6 DEF Good
<1>11. ASSUME NEW x \in m + 1 .. n - 1
       PROVE  FromDirect(x)'
  <2>1. x \in Id /\ x # m /\ FromDirect(x)
    BY <1>2, <1>3, <1>6 DEF Id
  <2>2. Direct(x)' = Direct(x) /\ Direct(x) \subseteq Id
    BY <1>1, <1>2, <1>3, <2>1, SameTrace DEF Direct, Id
  <2>3. \A y \in Id : deps[y] \subseteq deps'[y]
    BY <1>4, <1>5
  <2>4. WithDeps(Direct(x)) \subseteq WithDeps(Direct(x))'
    BY <2>2, <2>3 DEF WithDeps
  <2> QED
    BY <1>5, <2>1, <2>4 DEF FromDirect
<1>12. \A x \in 0 .. i' - 1 : Good(x)'
  BY <1>5, <1>6, <1>9, <1>10
<1> QED
  BY <1>1, <1>3, <1>5, <1>7, <1>8, <1>11, <1>12 DEF IInv

\* The second loop of add_deps_to_ops changes nothing: the dependencies are
\* already closed when it starts.
LEMMA RecomputeStep ==
  ASSUME IInv, TypeOK', recompute
  PROVE  IInv' /\ UNCHANGED deps
<1>1. phase = "recompute" /\ phase' = phase /\ i < n /\ UNCHANGED <<n, ops, hidden_dependencies>>
  BY DEF recompute
<1>2. TypeOK /\ Backward /\ \A x \in Id : FsDone(x) /\ Good(x)
  BY <1>1 DEF IInv
<1>3. i \in Id /\ Id' = Id
  BY <1>1, <1>2, ConstAssumption DEF TypeOK, Id
<1>4. WithDeps(deps[i]) = deps[i]
  BY <1>2, <1>3 DEF Good, Closed, WithDeps
<1>5. deps' = deps
  BY <1>2, <1>3, <1>4 DEF recompute, TypeOK
<1>6. \A x \in Id : FsDone(x)'
  BY <1>1, <1>2, <1>3, SameTrace DEF FsDone, Id, TypeOK
<1>7. \A x \in Id : Good(x)'
  BY <1>1, <1>2, <1>5, SameGood
<1>8. Backward'
  BY <1>1, <1>2, <1>3, <1>5 DEF Backward
<1> QED
  BY <1>1, <1>3, <1>5, <1>6, <1>7, <1>8 DEF IInv

LEMMA NextPassStep ==
  ASSUME IInv, TypeOK', NextPass
  PROVE  IInv'
<1> USE ConstAssumption
<1>1. i = n /\ UNCHANGED <<n, ops, deps, hidden_dependencies>>
  BY DEF NextPass
<1>2. TypeOK /\ Backward /\ n \in Nat /\ Id' = Id /\ Id = 0 .. i - 1
  BY <1>1 DEF IInv, TypeOK, Id
<1>3. \A x \in Id : FsDone(x)' <=> FsDone(x)
  BY <1>1, <1>2, SameTrace DEF FsDone, Id
<1>4. \A x \in Id : FromDirect(x)' <=> FromDirect(x)
  BY <1>1, <1>2, SameTrace, SMTT(30) DEF FromDirect, WithDeps
<1>5. \A x \in Id : Good(x)' <=> Good(x)
  BY <1>1, <1>2, SameGood
<1>6. CASE phase = "get_deps" /\ phase' = "add_deps" /\ i' = 0
  BY <1>1, <1>2, <1>3, <1>4, <1>6 DEF IInv, Backward, Id
<1>7. CASE phase = "add_deps" /\ phase' = "recompute"
  BY <1>1, <1>2, <1>3, <1>5, <1>7 DEF IInv, Backward
<1>8. CASE phase = "recompute" /\ phase' = "ready"
  BY <1>1, <1>2, <1>3, <1>5, <1>8 DEF IInv, Backward
<1> QED
  BY <1>6, <1>7, <1>8 DEF NextPass

\* A new call of set_fs and the first one start with no operations.
LEMMA InitIInv ==
  Init => IInv
<1> SUFFICES ASSUME Init
             PROVE  IInv
  OBVIOUS
<1>1. TypeOK
  BY ConstAssumption DEF Init, TypeOK, Id, NoOps, NoDirty, None, StdoutInode
<1>2. Id = {}
  BY DEF Init, Id
<1>3. DirtyInv /\ LatestInv
  BY DEF Init, DirtyInv, LatestInv, NoDirty
<1> QED
  BY <1>1, <1>2, <1>3 DEF IInv, Backward, Init

LEMMA SetFsAgainStep ==
  ASSUME IInv, TypeOK', SetFsAgain
  PROVE  IInv'
<1>1. phase' = "construct" /\ Id' = {}
  BY DEF SetFsAgain, Id
<1>2. DirtyInv' /\ LatestInv'
  BY DEF SetFsAgain, ResetGlobals, DirtyInv, LatestInv, NoDirty
<1> QED
  BY <1>1, <1>2 DEF IInv, Backward

LEMMA StutterStep ==
  ASSUME IInv, TypeOK', UNCHANGED vars
  PROVE  IInv'
<1>1. /\ TypeOK /\ UNCHANGED <<phase, i, n, ops, deps, last_sync, hidden_dependencies>>
      /\ Id' = Id
  BY DEF IInv, vars, Id
<1>2. DirtyInv => DirtyInv'
  BY <1>1 DEF vars, DirtyInv, DirtyOn, SuiteOp, IsDirEntry, is_included_in_sync_range
<1>3. (LatestInv => LatestInv') /\ (Backward => Backward')
  BY <1>1 DEF vars, LatestInv, Backward
<1>4. \A x \in Id : FsDone(x)' <=> FsDone(x)
  BY <1>1, SameTrace DEF FsDone, Id, TypeOK
<1>5. \A x \in Id : FromDirect(x)' <=> FromDirect(x)
  BY <1>1, SameTrace DEF FromDirect, WithDeps
<1>6. \A x \in Id : Good(x)' <=> Good(x)
  BY <1>1, SameGood
<1>7. IsLastSync(last_sync, i)' <=> IsLastSync(last_sync, i)
  BY <1>1 DEF IsLastSync, IsSyncPoint
<1>8. i \in 0 .. n /\ n \in Nat /\ 0 .. i - 1 \subseteq Id /\ i .. n - 1 \subseteq Id
  BY <1>1, ConstAssumption DEF TypeOK, Id
<1> QED
  BY <1>1, <1>2, <1>3, <1>4, <1>5, <1>6, <1>7, <1>8 DEF IInv

-----------------------------------------------------------------------------
(* The theorems                                                            *)

LEMMA Inductive == Spec => []IInv
<1>1. IInv /\ TypeOK' /\ [Next]_vars => IInv'
  BY OperationStep, EndConstructStep, GetDepsStep, AddDepsStep, RecomputeStep,
     NextPassStep, SetFsAgainStep, StutterStep DEF Next
<1> QED
  BY <1>1, InitIInv, TypeCorrect, PTL DEF Spec

\* In a ready state the dependencies of every operation are good.
LEMMA ReadyGood ==
  ASSUME IInv, phase = "ready"
  PROVE  \A x \in Id : Good(x) /\ deps[x] \subseteq 0 .. x - 1 /\ x \in Nat /\ 0 .. x \subseteq Id
BY ConstAssumption DEF IInv, Backward, Id, TypeOK

\* Every prefix of a trace is a crash state that test_combo_validity accepts,
\* so that the across-syscall checks of default_checks, which do not ask
\* is_legal, examine legal states only.
THEOREM PrefixesAreValid == Spec => []PrefixesValid
<1>1. IInv => PrefixesValid
  BY ReadyGood DEF PrefixesValid, ValidCombo, test_combo_validity
<1> QED
  BY <1>1, Inductive, PTL

\* Every sync and every output on the terminal is a barrier for the crash
\* states that test_combo_validity accepts.
THEOREM SyncIsBarrier == Spec => []SyncBarrier
<1>1. IInv => SyncBarrier
  BY ReadyGood DEF SyncBarrier, test_combo_validity, Good, Barrier, IsSyncPoint
<1> QED
  BY <1>1, Inductive, PTL

\* A crash state with a sync has all that get_deps says the sync writes back,
\* although the scan of get_deps stops at the first sync that covers it.
THEOREM SyncIsDurable == Spec => []SyncDurable
<1>1. IInv => SyncDurable
  BY ReadyGood DEF SyncDurable, test_combo_validity, Good, Durable
<1> QED
  BY <1>1, Inductive, PTL

\* The dependencies are those of get_deps, transitively, and nothing more.
THEOREM DepsAreExact == Spec => []DepsExact
<1>1. IInv => DepsExact
  BY ReadyGood DEF DepsExact, Good, Exact
<1> QED
  BY <1>1, Inductive, PTL

\* The second loop of add_deps_to_ops changes no dependencies: they are closed
\* when it starts.
THEOREM RecomputeAddsNothing == Spec => RecomputeIdle
<1>1. ASSUME IInv, TypeOK', [Next]_vars
      PROVE  [phase = "recompute" => UNCHANGED deps]_vars
  <2> SUFFICES ASSUME phase = "recompute", Next
               PROVE  UNCHANGED deps
    BY <1>1 DEF vars
  <2>1. CASE recompute
    BY <1>1, <2>1, RecomputeStep
  <2>2. CASE NextPass
    BY <2>2 DEF NextPass
  <2> QED
    BY <2>1, <2>2 DEF Next, Operation, EndConstruct, get_deps, add_deps, SetFsAgain
<1> QED
  BY <1>1, Inductive, TypeCorrect, PTL DEF Spec, RecomputeIdle

=============================================================================
