------------------------------ MODULE Explorer ------------------------------
(***************************************************************************)
(* default_checks (src/alicedefaultexplorer.py): the main thread builds    *)
(* crash states with a Replayer (src/alice.py) and hands them to the       *)
(* threads of MultiThreadedChecker, in three rounds:                       *)
(*                                                                         *)
(*   across     every prefix of the trace, to find the operations that     *)
(*              have to be persisted together (atomic_patch_middle)        *)
(*   ordering   a prefix without one of its micro operations               *)
(*   atomicity  a prefix that ends within a micro operation, also without  *)
(*              one disk operation of it, in each of three split modes     *)
(*                                                                         *)
(* Each round ends with queue.join and a report.  A crash state is known   *)
(* by its key, which also names its directory: <<"across", i>>,            *)
(* <<"ordering", i, j>>, <<"atomicity", mode, i, j>> or                    *)
(* <<"atomicity", mode, i, j, k>>.                                         *)
(*                                                                         *)
(* The checker is the user's.  Its verdict is any function of the crash    *)
(* state, fixed when a state is first checked, with at most MaxBad crash   *)
(* states rejected; and starting it may raise (MayRaise), which ends the   *)
(* thread that tried.                                                      *)
(***************************************************************************)
EXTENDS Suite

CONSTANTS
  Trace,      \* the traces, sequences of micro operations
  Mode,       \* the split modes: Mode[1] is the one of the first two rounds
  Worker,     \* the threads
  MaxBad,     \* bound on the crash states the checker rejects
  MayRaise    \* whether starting the checker may raise

ASSUME ExplorerAssumption ==
  /\ Len(Mode) \in Nat \ {0} /\ DOMAIN Mode = 1 .. Len(Mode)
  /\ \A tr \in Trace : \A m \in DOMAIN Mode : IsTrace(tr, Mode[m])
  /\ IsFiniteSet(Worker) /\ MaxBad \in Nat

VARIABLES
  trace,                       \* micro_ops
  suites,                      \* what set_fs computes for the trace in each split mode
  mode,                        \* index of the split mode of the last set_fs
  pc, i, j, k,                 \* of the main thread
  micro_end, disk_end,
  omitted,                     \* disk operations with hidden_omitted
  saved,                       \* Replayer.saved[0]
  atomic_patch_middle,
  queue, unfinished,           \* queue.Queue and its count of unfinished tasks
  outputs,                     \* MultiThreadedChecker.outputs
  dirs,                        \* the crash directories on disk: key -> crash state
  at, task,                    \* of each thread: where it is, and its task
  good, bad,                   \* crash states accepted and rejected so far
  reported                     \* the dynamic vulnerabilities printed

input == <<trace, suites>>
replayer == <<mode, micro_end, disk_end, omitted, saved>>
findings == <<atomic_patch_middle, reported>>
main == <<input, pc, i, j, k, replayer, findings>>
checker == <<at, task, good, bad>>
shared == <<queue, unfinished, outputs, dirs>>
vars == <<main, checker, shared>>

NoKey == <<>>
Empty == [x \in {} |-> 0]

-----------------------------------------------------------------------------
(* Replayer                                                                *)

suite == suites[mode]
mops_len == Len(trace)
DopsOf(x) == {<<x, y>> : y \in 0 .. dops_len(suite, x) - 1}

\* dops_omit leaves the disk operation of a stdout alone.
dops_omit(D) == omitted \cup {d \in D : trace[d[1] + 1].op # "stdout"}

\* Wrong variant: nothing is included again.
dops_includeNot(D) == omitted

dops_include(D) == omitted \ D

\* construct_crashed_dir, with the current ends and om omitted.  The replay
\* is inside the loop over the disk operations: without any there is no
\* directory.
CrashState(m, e, om) == [mode |-> mode, ops |-> UpTo(suite, m, e) \ om]

construct_crashed_dir(key, m, e, om) ==
  dirs' = IF UpTo(suite, m, e) = {}
          THEN dirs
          ELSE [d \in DOMAIN dirs \cup {key} |-> IF d = key THEN CrashState(m, e, om) ELSE dirs[d]]

SaveAll(m) == [omitted |-> {}, mode |-> m, micro_end |-> mops_len - 1,
               disk_end |-> dops_len(suites[m], mops_len - 1) - 1]

load ==
  /\ omitted' = saved.omitted /\ mode' = saved.mode
  /\ micro_end' = saved.micro_end /\ disk_end' = saved.disk_end

-----------------------------------------------------------------------------
(* MultiThreadedChecker                                                    *)

check_later(key) ==
  /\ queue' = Append(queue, key)
  /\ unfinished' = unfinished + 1

\* Wrong variant: a task is done as soon as a thread has it.
GetDone(w) ==
  /\ at[w] = "get" /\ queue # <<>>
  /\ at' = [at EXCEPT ![w] = "check"]
  /\ task' = [task EXCEPT ![w] = Head(queue)]
  /\ queue' = Tail(queue)
  /\ unfinished' = unfinished - 1
  /\ UNCHANGED <<main, good, bad, outputs, dirs>>

Get(w) ==
  /\ at[w] = "get" /\ queue # <<>>
  /\ at' = [at EXCEPT ![w] = "check"]
  /\ task' = [task EXCEPT ![w] = Head(queue)]
  /\ queue' = Tail(queue)
  /\ UNCHANGED <<main, good, bad, unfinished, outputs, dirs>>

\* What the checker sees: a missing directory, or the crash state in it.
Seen(key) == IF key \in DOMAIN dirs THEN dirs[key] ELSE [mode |-> 0, ops |-> {}]

\* subprocess.call, and its return code in outputs.
Check(w) ==
  LET seen == Seen(task[w]) IN
  /\ at[w] = "check"
  /\ \E retcode \in {0, 1} :
       /\ seen \in good => retcode = 0
       /\ seen \in bad => retcode = 1
       /\ retcode = 1 => seen \in bad \/ Cardinality(bad) < MaxBad
       /\ good' = IF retcode = 0 THEN good \cup {seen} ELSE good
       /\ bad' = IF retcode = 1 THEN bad \cup {seen} ELSE bad
       /\ outputs' = [o \in DOMAIN outputs \cup {task[w]} |->
                        IF o = task[w] THEN retcode ELSE outputs[o]]
  /\ at' = [at EXCEPT ![w] = "rm"]
  /\ UNCHANGED <<main, task, queue, unfinished, dirs>>

\* subprocess.call raises: the exception ends the thread, without task_done.
CheckRaises(w) ==
  /\ MayRaise /\ at[w] = "check"
  /\ at' = [at EXCEPT ![w] = "dead"]
  /\ UNCHANGED <<main, task, good, bad, shared>>

\* Wrong variant: every crash directory is removed.
RemoveDirAll(w) ==
  /\ at[w] = "rm"
  /\ dirs' = Empty
  /\ at' = [at EXCEPT ![w] = "done"]
  /\ UNCHANGED <<main, task, good, bad, queue, unfinished, outputs>>

\* Wrong variant: task_done is not called.
RemoveDirNoDone(w) ==
  /\ at[w] = "rm"
  /\ dirs' = [d \in DOMAIN dirs \ {task[w]} |-> dirs[d]]
  /\ at' = [at EXCEPT ![w] = "get"]
  /\ UNCHANGED <<main, task, good, bad, queue, unfinished, outputs>>

\* rm -rf dirname
RemoveDir(w) ==
  /\ at[w] = "rm"
  /\ dirs' = [d \in DOMAIN dirs \ {task[w]} |-> dirs[d]]
  /\ at' = [at EXCEPT ![w] = "done"]
  /\ UNCHANGED <<main, task, good, bad, queue, unfinished, outputs>>

task_done(w) ==
  /\ at[w] = "done"
  /\ at' = [at EXCEPT ![w] = "get"]
  /\ task' = [task EXCEPT ![w] = NoKey]
  /\ unfinished' = unfinished - 1
  /\ UNCHANGED <<main, good, bad, queue, outputs, dirs>>

\* queue.join returns.
Joined == unfinished = 0

\* reset also asserts that the queue is empty: see RoundComplete.
reset == outputs' = Empty /\ UNCHANGED <<queue, unfinished, dirs>>

Failed(key) == key \in DOMAIN outputs /\ outputs[key] # 0

-----------------------------------------------------------------------------
(* default_checks, before and in its first round                           *)

EndAt(x, y) == micro_end' = x /\ disk_end' = y

\* Replayer(alice_args) and set_fs: everything is included up to the end.
Init ==
  /\ trace \in Trace
  /\ suites = [m \in DOMAIN Mode |-> set_fs(trace, Mode[m])]
  /\ mode = 1 /\ pc = "set_fs" /\ i = 0 /\ j = 0 /\ k = 0
  /\ micro_end = mops_len - 1 /\ disk_end = 0
  /\ omitted = {} /\ saved = Empty /\ atomic_patch_middle = {}
  /\ queue = <<>> /\ unfinished = 0 /\ outputs = Empty /\ dirs = Empty
  /\ at = [w \in Worker |-> "get"] /\ task = [w \in Worker |-> NoKey]
  /\ good = {} /\ bad = {} /\ reported = {}

\* set_fs(defaultfs('count', 1)); an exception in it ends the program.
Start ==
  /\ pc = "set_fs"
  /\ IF suite.raises
     THEN pc' = "abort" /\ UNCHANGED <<disk_end, saved>>
     ELSE /\ pc' = "across"
          /\ disk_end' = dops_len(suite, micro_end) - 1
          /\ saved' = SaveAll(mode)
  /\ UNCHANGED <<input, mode, i, j, k, micro_end, omitted, findings, checker, shared>>

AcrossConstruct ==
  LET last == dops_len(suite, i) - 1 IN
  /\ pc = "across" /\ i < mops_len
  /\ EndAt(i, last)
  /\ construct_crashed_dir(<<"across", i>>, i, last, omitted)
  /\ pc' = "across_put"
  /\ UNCHANGED <<input, mode, i, j, k, omitted, saved, findings, checker, queue, unfinished, outputs>>

AcrossPut ==
  /\ pc = "across_put"
  /\ check_later(<<"across", i>>)
  /\ i' = i + 1 /\ pc' = "across"
  /\ UNCHANGED <<input, replayer, j, k, findings, checker, outputs, dirs>>

AcrossJoin ==
  /\ pc = "across" /\ i = mops_len /\ Joined
  /\ i' = 0 /\ pc' = "across_scan"
  /\ UNCHANGED <<input, replayer, j, k, findings, checker, shared>>

\* The inner while loop: i ends at the last failure of the run that starts at x.
RunEnd(x) ==
  CHOOSE y \in x .. mops_len - 1 :
    /\ \A z \in x .. y : Failed(<<"across", z>>)
    /\ y = mops_len - 1 \/ ~Failed(<<"across", y + 1>>)

\* Wrong variant: the run is reported up to its last failure.
PatchEndShort(y) == y

PatchEnd(y) == Least(y + 1, mops_len - 1)

\* One iteration of the outer while loop.
AcrossScan ==
  /\ pc = "across_scan" /\ i < mops_len
  /\ IF Failed(<<"across", i>>)
     THEN /\ atomic_patch_middle' = atomic_patch_middle \cup {i} \cup i .. RunEnd(i) - 1
          /\ reported' = reported \cup {<<"across", i, PatchEnd(RunEnd(i))>>}
          /\ i' = RunEnd(i) + 1
     ELSE i' = i + 1 /\ UNCHANGED <<findings>>
  /\ UNCHANGED <<input, replayer, pc, j, k, checker, shared>>

\* load(0), reset, and the second round.
AcrossDone ==
  /\ pc = "across_scan" /\ i >= mops_len
  /\ load /\ reset
  /\ i' = 0 /\ pc' = "ordering"
  /\ UNCHANGED <<input, j, k, saved, findings, checker>>

-----------------------------------------------------------------------------
(* The second round                                                        *)

InPatch(x) == x \in atomic_patch_middle \/ x - 1 \in atomic_patch_middle

OrderingSkip ==
  /\ pc = "ordering" /\ i < mops_len
  /\ dops_len(suite, i) = 0 \/ InPatch(i)
  /\ i' = i + 1
  /\ UNCHANGED <<input, replayer, pc, j, k, findings, checker, shared>>

OrderingOmit ==
  /\ pc = "ordering" /\ i < mops_len
  /\ dops_len(suite, i) # 0 /\ ~InPatch(i)
  /\ omitted' = dops_omit(DopsOf(i))
  /\ j' = i + 1 /\ pc' = "ordering_j"
  /\ UNCHANGED <<input, mode, i, k, micro_end, disk_end, saved, findings, checker, shared>>

OrderingTry ==
  LET last == dops_len(suite, j) - 1 IN
  /\ pc = "ordering_j" /\ j < mops_len
  /\ IF dops_len(suite, j) = 0 \/ j \in atomic_patch_middle
     THEN j' = j + 1 /\ UNCHANGED <<pc, micro_end, disk_end, dirs>>
     ELSE /\ EndAt(j, last)
          /\ IF is_legal(trace, suite, j, last, omitted)
             THEN /\ construct_crashed_dir(<<"ordering", i, j>>, j, last, omitted)
                  /\ pc' = "ordering_put" /\ UNCHANGED j
             ELSE j' = j + 1 /\ UNCHANGED <<pc, dirs>>
  /\ UNCHANGED <<input, mode, i, k, omitted, saved, findings, checker, queue, unfinished, outputs>>

OrderingPut ==
  /\ pc = "ordering_put"
  /\ check_later(<<"ordering", i, j>>)
  /\ j' = j + 1 /\ pc' = "ordering_j"
  /\ UNCHANGED <<input, replayer, i, k, findings, checker, outputs, dirs>>

OrderingInclude ==
  /\ pc = "ordering_j" /\ j = mops_len
  /\ omitted' = dops_include(DopsOf(i))
  /\ i' = i + 1 /\ pc' = "ordering"
  /\ UNCHANGED <<input, mode, j, k, micro_end, disk_end, saved, findings, checker, shared>>

OrderingJoin ==
  /\ pc = "ordering" /\ i = mops_len /\ Joined
  /\ pc' = "ordering_report"
  /\ UNCHANGED <<input, replayer, i, j, k, findings, checker, shared>>

\* The report names the first j of every i; load(0), reset, the third round.
OrderingReport ==
  /\ pc = "ordering_report"
  /\ reported' = reported \cup
       {key \in DOMAIN outputs :
          Failed(key) /\ \A y \in 0 .. key[3] - 1 : ~Failed(<<"ordering", key[2], y>>)}
  /\ load /\ reset
  /\ pc' = "atomicity_set_fs"
  /\ i' = 1
  /\ UNCHANGED <<input, j, k, saved, atomic_patch_middle, checker>>

-----------------------------------------------------------------------------
(* The third round                                                         *)

\* replayer.set_fs(defaultfs(*mode)), for the mode of index i.
SetMode ==
  /\ pc = "atomicity_set_fs" /\ i <= Len(Mode)
  /\ mode' = i
  /\ IF suites[i].raises
     THEN pc' = "abort" /\ UNCHANGED <<i, j, disk_end, omitted, saved>>
     ELSE /\ pc' = "atomicity" /\ i' = 0 /\ j' = 0
          /\ disk_end' = dops_len(suites[mode'], micro_end) - 1
          /\ omitted' = {}
          /\ saved' = [SaveAll(mode') EXCEPT !.micro_end = micro_end, !.disk_end = disk_end']
  /\ UNCHANGED <<input, k, micro_end, findings, checker, shared>>

\* The next micro operation: i is in a patch, or has no more disk operations.
AtomicityNext ==
  /\ pc = "atomicity" /\ i < mops_len
  /\ InPatch(i) \/ j >= dops_len(suite, i) - 1
  /\ i' = i + 1 /\ j' = 0
  /\ UNCHANGED <<input, replayer, pc, k, findings, checker, shared>>

AtomicityTry ==
  /\ pc = "atomicity" /\ i < mops_len /\ ~InPatch(i) /\ j < dops_len(suite, i) - 1
  /\ EndAt(i, j)
  /\ IF is_legal(trace, suite, i, j, omitted)
     THEN /\ construct_crashed_dir(<<"atomicity", mode, i, j>>, i, j, omitted)
          /\ pc' = "atomicity_put"
     ELSE pc' = "atomicity_k" /\ UNCHANGED dirs
  /\ k' = 0
  /\ UNCHANGED <<input, mode, i, j, omitted, saved, findings, checker, queue, unfinished, outputs>>

AtomicityPut ==
  /\ pc = "atomicity_put"
  /\ check_later(<<"atomicity", mode, i, j>>)
  /\ pc' = "atomicity_k"
  /\ UNCHANGED <<input, replayer, i, j, k, findings, checker, outputs, dirs>>

\* The loop over k runs in every mode: its condition compares the number
\* 4096 with the string '4096'.
AtomicityOmit ==
  LET om == dops_omit({<<i, k>>}) IN
  /\ pc = "atomicity_k" /\ k < j
  /\ omitted' = om
  /\ IF is_legal(trace, suite, i, j, om)
     THEN construct_crashed_dir(<<"atomicity", mode, i, j, k>>, i, j, om) /\ pc' = "atomicity_kput"
     ELSE pc' = "atomicity_include" /\ UNCHANGED dirs
  /\ UNCHANGED <<input, mode, i, j, k, micro_end, disk_end, saved, findings, checker, queue, unfinished, outputs>>

AtomicityOmitPut ==
  /\ pc = "atomicity_kput"
  /\ check_later(<<"atomicity", mode, i, j, k>>)
  /\ pc' = "atomicity_include"
  /\ UNCHANGED <<input, replayer, i, j, k, findings, checker, outputs, dirs>>

AtomicityInclude ==
  /\ pc = "atomicity_include"
  /\ omitted' = dops_include({<<i, k>>})
  /\ k' = k + 1 /\ pc' = "atomicity_k"
  /\ UNCHANGED <<input, mode, i, j, micro_end, disk_end, saved, findings, checker, shared>>

AtomicityNextDop ==
  /\ pc = "atomicity_k" /\ k = j
  /\ j' = j + 1 /\ pc' = "atomicity"
  /\ UNCHANGED <<input, replayer, i, k, findings, checker, shared>>

AtomicityNextMode ==
  /\ pc = "atomicity" /\ i = mops_len
  /\ i' = mode + 1 /\ pc' = "atomicity_set_fs"
  /\ UNCHANGED <<input, replayer, j, k, findings, checker, shared>>

AtomicityJoin ==
  /\ pc = "atomicity_set_fs" /\ i > Len(Mode) /\ Joined
  /\ pc' = "atomicity_report"
  /\ UNCHANGED <<input, replayer, i, j, k, findings, checker, shared>>

\* The loops of the report over j and k; dops_len is that of the last mode.
AtomicityFailed(x) ==
  \E m \in DOMAIN Mode : \E y \in 0 .. dops_len(suite, x) - 2 :
    \/ Failed(<<"atomicity", m, x, y>>)
    \/ \E z \in 0 .. y - 1 : Failed(<<"atomicity", m, x, y, z>>)

AtomicityReport ==
  /\ pc = "atomicity_report"
  /\ reported' = reported \cup {<<"atomicity", x>> : x \in {y \in 0 .. mops_len - 1 : AtomicityFailed(y)}}
  /\ pc' = "done"
  /\ UNCHANGED <<input, replayer, i, j, k, atomic_patch_middle, checker, shared>>

Main ==
  \/ Start
  \/ AcrossConstruct \/ AcrossPut \/ AcrossJoin \/ AcrossScan \/ AcrossDone
  \/ OrderingSkip \/ OrderingOmit \/ OrderingTry \/ OrderingPut \/ OrderingInclude
  \/ OrderingJoin \/ OrderingReport
  \/ SetMode \/ AtomicityNext \/ AtomicityTry \/ AtomicityPut
  \/ AtomicityOmit \/ AtomicityOmitPut \/ AtomicityInclude \/ AtomicityNextDop
  \/ AtomicityNextMode \/ AtomicityJoin \/ AtomicityReport

Thread(w) == Get(w) \/ Check(w) \/ CheckRaises(w) \/ RemoveDir(w) \/ task_done(w)

Next == Main \/ \E w \in Worker : Thread(w)

\* The operating system runs every thread that can run; the checker returns.
Fairness ==
  /\ WF_vars(Main)
  /\ \A w \in Worker : WF_vars(Get(w) \/ Check(w) \/ RemoveDir(w) \/ task_done(w))

Spec == Init /\ [][Next]_vars
FairSpec == Spec /\ Fairness

-----------------------------------------------------------------------------
(* Properties                                                              *)

TypeOK ==
  /\ trace \in Trace /\ mode \in DOMAIN Mode
  /\ i \in 0 .. mops_len + Len(Mode) + 1 /\ j \in Nat /\ k \in Nat
  /\ atomic_patch_middle \subseteq 0 .. mops_len - 1
  /\ micro_end \in 0 .. mops_len - 1 /\ disk_end \in Int
  /\ pc # "abort" => omitted \subseteq UNION {DopsOf(x) : x \in 0 .. mops_len - 1}
  /\ unfinished \in Nat
  /\ at \in [Worker -> {"get", "check", "rm", "done", "dead"}]
  /\ good \cap bad = {}

\* The crash state a key stands for, whatever happened before it was built.
Meant(key) ==
  LET Of(m) == suites[m]
      Dops(m, x) == {<<x, y>> : y \in 0 .. dops_len(Of(m), x) - 1}
      Prefix(m, x) == UNION {Dops(m, y) : y \in 0 .. x}
      Cut(m, x, y) == Prefix(m, x - 1) \cup {<<x, z>> : z \in 0 .. y}
  IN CASE key[1] = "across" -> [mode |-> 1, ops |-> Prefix(1, key[2])]
       [] key[1] = "ordering" ->
            [mode |-> 1,
             ops |-> Prefix(1, key[3]) \ (IF trace[key[2] + 1].op = "stdout" THEN {} ELSE Dops(1, key[2]))]
       [] Len(key) = 4 -> [mode |-> key[2], ops |-> Cut(key[2], key[3], key[4])]
       [] Len(key) = 5 -> [mode |-> key[2], ops |-> Cut(key[2], key[3], key[4]) \ {<<key[3], key[5]>>}]

\* Every directory on disk holds the crash state its name says, from the time
\* it is built to the time a thread removes it: what was omitted for one state
\* is included again before the next one, and no two states share a directory.
DirsAsMeant == \A key \in DOMAIN dirs : dirs[key] = Meant(key)

\* A checker that runs has a directory in front of it (unless the trace has no
\* disk operation up to that point), and it is nobody else's.
CheckedInPlace ==
  \A w \in Worker : at[w] = "check" =>
    /\ task[w] \in DOMAIN dirs \/ Meant(task[w]).ops = {}
    /\ \A v \in Worker \ {w} : at[v] \in {"check", "rm"} => task[v] # task[w]
    /\ \A q \in DOMAIN queue : queue[q] # task[w]

\* Checkers see the crash states they are meant to see, each its own.
DirsSound == DirsAsMeant /\ CheckedInPlace

\* is_legal says of the crash state of a key: no sync system call is on disk
\* in part or passed over, and the dependencies hold.
LegalState(key) ==
  LET meant == Meant(key)
      Dops(x) == {<<x, y>> : y \in 0 .. dops_len(suites[meant.mode], x) - 1}
  IN /\ \A x \in 0 .. mops_len - 1 : trace[x + 1].op = "sync" =>
          \/ Dops(x) \subseteq meant.ops
          \/ Dops(x) \cap meant.ops = {} /\ \A d \in meant.ops : d[1] < x
     /\ test_combo_validity(suites[meant.mode], meant.ops)

\* The keys each round should check.
ToCheck ==
  LET Mop == 0 .. mops_len - 1
      DopsLen(m, x) == dops_len(suites[m], x)
      Pair == {p \in Mop \X Mop :
                 /\ p[1] < p[2] /\ DopsLen(1, p[1]) # 0 /\ DopsLen(1, p[2]) # 0
                 /\ ~InPatch(p[1]) /\ p[2] \notin atomic_patch_middle}
      Cuts(m, x, y) == {<<"atomicity", m, x, y>>} \cup {<<"atomicity", m, x, y, z>> : z \in 0 .. y - 1}
      AllCuts == UNION {UNION {UNION {Cuts(m, x, y) : y \in 0 .. DopsLen(m, x) - 2} :
                                 x \in {z \in Mop : ~InPatch(z)}} : m \in DOMAIN Mode}
  IN [across_scan      |-> {<<"across", x>> : x \in Mop},
      ordering_report  |-> {<<"ordering", p[1], p[2]>> : p \in Pair},
      atomicity_report |-> AllCuts]

\* When the main thread reads the outputs of a round, every crash state of the
\* round that is legal has its verdict and no other state has one, the queue is
\* empty (as reset asserts), no thread is at work and no directory is left.
RoundComplete ==
  pc \in DOMAIN ToCheck =>
    /\ DOMAIN outputs = {key \in ToCheck[pc] : LegalState(key)}
    /\ queue = <<>> /\ dirs = Empty
    /\ \A w \in Worker : at[w] = "get"

\* The patches reported partition the failing prefixes into maximal runs: a
\* failing prefix is in exactly one, and a patch starts at the first failure
\* of its run and ends at the first success after it, or with the trace.
PatchesExact ==
  LET Fails(x) == Failed(<<"across", x>>)
      last == mops_len - 1
      Patch == {r \in reported : r[1] = "across"}
  IN pc = "across_scan" /\ i >= mops_len =>
       /\ \A x \in 0 .. last : Fails(x) =>
            Cardinality({r \in Patch : r[2] <= x /\ (x < r[3] \/ r[3] = last)}) = 1
       /\ \A r \in Patch :
            /\ Fails(r[2]) /\ (r[2] = 0 \/ ~Fails(r[2] - 1))
            /\ ~Fails(r[3]) \/ r[3] = last

\* A crash state handed to the checker that has a sync, of whatever system
\* call, also has every earlier operation on the synced file that starts in the
\* synced range, and every earlier entry of the synced directory.
SyncedKept ==
  \A key \in DOMAIN dirs : \A x \in 0 .. mops_len - 1 :
    LET dops == suites[dirs[key].mode].dops
        ops == dirs[key].ops
    IN \A y \in DOMAIN dops[x] :
         <<x, y - 1>> \in ops /\ dops[x][y].op = "sync" =>
           \A u \in 0 .. x - 1 : \A v \in DOMAIN dops[u] :
             Flushes(dops[x][y], dops[u][v]) => <<u, v - 1>> \in ops

\* The program ends, unless a thread ended with an exception: then queue.join
\* waits for its task forever.
Finishes == <>(pc \in {"done", "abort"} \/ \E w \in Worker : at[w] = "dead")

-----------------------------------------------------------------------------
(* What the documentation says and the code does not do                    *)

\* Every atomicity failure the checker found is reported.
AtomicityReported ==
  pc = "done" => \A key \in DOMAIN outputs : Failed(key) => <<"atomicity", key[3]>> \in reported

\* A reported ordering is about a state that lacks the operation it names.
OrderingMeant ==
  \A r \in reported : r[1] = "ordering" =>
    \E y \in 0 .. dops_len(suites[1], r[2]) - 1 : <<r[2], y>> \notin Meant(r).ops

\* set_fs gets through every trace: a write that is only partly in the range of
\* a sync is worth a warning.
SetFsSucceeds == pc # "abort"

=============================================================================
