# ALICE: a TLA+ verification project

ALICE finds crash vulnerabilities of an application. It records the system calls
of a workload with a modified strace, turns them into file system operations, builds
the directories a crash could have left behind, and runs the user's checker on each.
This project models the program from the ptrace stop to the report: `alice-strace` (C,
under `src/alice-strace`), which writes the trace, and the Python program (`src/*.py`),
which reads it. TLC checks the models on small instances; TLAPS proves, for all
instances, the dependencies between disk operations, the exploration of crash states by
any number of threads, the tracking of memory mappings, the splitting of large writes
and the copying of a task's memory.

What is modelled of `alice-strace` is the build its `config.h` describes (x86_64 with the
i386 and x32 personalities, PTRACE_SEIZE, libunwind, `process_vm_readv`), started as
`bin/alice-record` does: `-k -s 0 -ff -tt -o FILE PROG`. The modules about options cover
the others too.

## The system

| Part | Source | Module | Status |
|---|---|---|---|
| Tracer: the loop on `wait4`, the task table, the three files of each task | `alice-strace.c` 370-411, 586-1053, 1925-2389 | `Tracer`, `TraceLog` | modelled for `-ff` with PTRACE_SEIZE |
| Start of the tracer: options, probes, handshake with the command, PATH, kernel release | `alice-strace.c` 889-1583, 1586-1922 | `CommandLine`, `Startup`, `HostFacts` | modelled |
| End of the tracer: exit status, the process the log is piped into | `alice-strace.c` 500-573, 1986-2041, 2391-2423 | `TracerEnd` | modelled |
| One line of the trace: entry, exit, byte dump, stack trace | `syscall.c` 2024-2225, 2670-2883 | `TraceLine`, `Lines` | modelled |
| Tables of calls | `linux/syscallent.h` of three personalities | `Syscalls` | modelled |
| Decoders of arguments | `desc.c`, `file.c`, `io.c`, `mem.c`, `net.c`, `process.c`, `signal.c`, `system.c`, `time.c`, `term.c` and others | `Decode*` | fields and brackets; no names of flags |
| Registers, personalities, rewriting of fork | `syscall.c` 295-380, 1049-1313, 2352-2425, `util.c` 1271-1525 | `Registers` | modelled |
| Reading memory, quoting | `util.c` 388-1085 | `TraceeMemory`, `Quoting`, `TraceeMemoryProofs` | modelled; the copying is proved |
| Stack traces | `syscall.c` 1957-2102, 2888-3009 | `StackWalk`, `MmapCache` | modelled |
| `-e`, `-P`, `-c`, names of ioctls | `syscall.c` 385-587, `pathtrace.c`, `count.c`, `ioctl.c` | `Qualify`, `PathTrace`, `Counts`, `IoctlTable` | modelled |
| Parser: system calls to micro operations, on a scratch copy of the workload directory | `_aliceparsesyscalls.py` 417-970 | `Workload` | files, names, syncs, output |
| Parser: which lines match, fields, offsets in the byte dump | `_aliceparsesyscalls.py` 101-135, 991-1020 | `TraceLine`, `Quoting` | modelled |
| Descriptors of several processes, `dup`, `fcntl`, `my_tracker` | `_aliceparsesyscalls.py` 207-373, 752-810, 879-891 | `FdTracker` | modelled |
| Memory mappings | `_aliceparsesyscalls.py` 137-205, 811-878, 953-958 | `Memregions`, `MemregionsProofs` | modelled and proved |
| Micro operations to disk operations, in split modes | `alicedefaultfs.py` 30-216 | `DiskOps` | modelled |
| Dependencies between disk operations | `alice.py` 363-400, `alicedefaultfs.py` 218-277, `_aliceautotest.py` 101-357, 519-532 | `SetFs`, `Suite`, `SetFsProofs`, `SuiteProofs` | modelled and proved |
| `Replayer`: omitting, ending, saving, legality | `alice.py` 275-452 | `Suite`, `Explorer` | modelled, except what only prints or is unused |
| `replay_disk_ops`: building a crash directory | `alice.py` 64-272 | `ReplayDisk`, `BlockWrites`, `BlockWritesProofs` | without the unused cache; the splitting into blocks is proved |
| `default_checks` and `MultiThreadedChecker` | `alicedefaultexplorer.py` | `Explorer`, `ExplorerThreadProofs`, `ExplorerProofs` | modelled and proved |
| Counting and enumerating combinations | `_aliceautotest.py` 281-306, 363-500 | | not modelled |
| Configuration, colours, records, scripts, examples | `_aliceutils.py`, `alicestruct.py`, `bin/`, `example/`, `scenario_builder/` | | not modelled |

A run goes: `alice-strace` writes, per task, a log, a dump of the bytes written and a file
of stack traces; `get_micro_ops` reads the three side by side and parses the lines in the
order of their times; `set_fs` calls `get_disk_ops` on every
micro operation, builds an `ALCTestSuite` and adds the dependencies of `get_deps`;
`default_checks` omits operations, asks `is_legal`, calls `construct_crashed_dir`
and queues the directory; threads run the checker and collect return codes; after
`queue.join` the main thread reports. `set_fs` runs once more for each split mode.

## Modules

**`SetFs`** is `set_fs` pass by pass: building the `Operation`s (with the dirty sets
kept in class attributes), the scan of `get_deps`, the loops of `add_deps_to_ops`,
and a second call on the same globals. `ops` are the disk operations, `deps` the
dependency sets, `hidden_dependencies` what `get_deps` found.

**`DiskOps`** has `get_disk_ops` as operators: the slices of a range, truncation from
the end, garbage and zeros for growth, the order of the entries of a rename.

**`Suite`** gives the result of `set_fs` in closed form (the closure of the dependencies
of `get_deps`, which is what `DepsExact` says `SetFs` computes) and `is_legal` on it.

**`Explorer`** composes `Suite` with the main thread of `default_checks`, one action per
statement that touches shared state, and the threads: `Get`, `Check`, `RemoveDir` and
`task_done` are the four steps of `run`. `dirs` is the scratchpad; a directory is a
function from its name to the crash state in it. The checker's verdict is any function
of the crash state. `CheckRaises` is `subprocess.call` failing to start the checker.
An exception of `replay_disk_ops` is not in this module.

**`ReplayDisk`** is the replay of disk operations as a fold over a record: entries,
bytes, known directories, output, and whether an exception ended it.

**`Workload`** has one action per system call. Each updates the kernel's state (what the
application sees: external, written from how the parser reads the calls), the parser's
scratch copy and descriptors, and appends micro operations. A byte is named by the call
that wrote it and its offset, so misplaced data is seen. An assert that fails leaves
`status = "raised"`. Calls that fail are left out where the handler ignores them; a write
that is cut short or fails, and a truncate or fsync that fails, end the parser in an assert,
and are in the model. `padded` has the files that a write of no bytes past the end has grown
in the micro operations and nowhere else (`_aliceparsesyscalls.py:562`).

**`CrashStates`** composes `Workload`, `Suite` and `ReplayDisk`: from system calls to the
bytes and names of crash directories.

**`FdTracker`** has the kernel's descriptor tables (`kern`) beside the parser's three trackers
per process (`track`), for several tasks that open, duplicate, write, fork, start threads
and execute. `odd` records what happened that the parser is known to get wrong, so that
each property names exactly the exceptions it needs.

**`Memregions`** has the kernel's mappings, address by address, beside `memregion_map`; calls
come with lengths that are no multiple of a page.

**`BlockWrites`** is the arithmetic by which `replay_disk_ops` splits a large write of zeros or
garbage into three `dd` commands.

### The tracer

**`Tracer`** is the loop of `trace` and what it calls, beside a kernel written from what the
loop relies on: tasks that enter and leave calls, fork, execute, get signals, stop as a
group and are killed at any moment, also between two steps of the tracer. `tab` is
`tcbtab`; `trc` is where the tracer is and the status it has in hand; a log is the
sequence of the events told in it. One action handles one status, one restarts the task.
`robbed` has the tasks whose open line `line_ended` has taken to be ended for another one.
**`TraceLog`** is the abstract promise: an event holds its task until it is told, so no log
misses, invents or reorders one. `ImplementsTraceLog` maps the logs and the pending
stops of `Tracer` onto it.

**`Lines`** gives text as tokens. A C function that prints is the set of texts it can print, one
per path, so sequence is concatenation and a branch is a union. **`Decode*`** have one such
operator per decoder, with the paths on which reading the tracee's memory fails;
**`Syscalls`** has the three tables. **`TraceLine`** makes lines of them, together with the byte
dump and the stack traces, for each outcome of a call, and reads them with the parser's
`parse_line` and `get_micro_ops`.

**`TraceeMemory`**, **`Quoting`**, **`Counts`**, **`MmapCache`**, **`Qualify`**, **`PathTrace`**, **`Registers`**,
**`IoctlTable`**, **`CommandLine`**, **`Startup`**, **`StackWalk`**, **`HostFacts`** and **`TracerEnd`** each have a part
of the tracer that shares no state with the others; the head of each says which. A module
of an algorithm has one variable with the inputs, the result and what is needed to say
what the result should have been. Sizes such as a page, a chunk or a million are
constants, which the runs make small.

`MC*` modules and `.cfg` files give the constants. Operators commented as wrong variants
are used by no specification; they are plausible bugs, and substituting one for the
definition that follows it makes TLC report a violation.

## Runs

| Run | Shows | Bounds |
|---|---|---|
| `set_fs` | every prefix is legal; syncs and output are barriers; a sync is durable; dependencies are the closure of `get_deps`; the second loop of `add_deps_to_ops` is idle | traces of 4 from 13 disk operations, two `set_fs` calls |
| `checker_threads` | directories hold what their names say; no two threads share one; after `join` exactly the legal states of the round have a verdict | 2 threads, symmetric; 5 traces; at most 1 rejected state; threads may die |
| `verdicts` | the patches are the maximal runs of failing prefixes; no state lacks what an fsync in it wrote back | 1 thread; at most 3 rejected states |
| `termination` | the program ends, or a thread died | 2 threads; 2 short traces |
| `crash_data` | replay reproduces the bytes in all split modes; fsync is durable in all legal crash states | 5 calls on 1 file, 2 descriptors, sizes up to 3 |
| `crash_names` | the scratch copy follows the kernel; replay reproduces the tree; fsync and sync are durable | 4 calls, 4 paths with a directory, 2 descriptors, sizes up to 2 |
| `recorder` | every call of the tables, in every outcome, is printed with matching brackets and read back by the parser with each field, byte and stack trace in its place; each of the thirteen parts above does what it is for; the parser follows mappings and descriptors as the kernel has them; large special writes are split exactly | calls one at a time, and 3 in a row of 3 that end differently; pages of 4 bytes and strings of 6; strings of 3 from 9 kinds of byte; 2 threads and 3 mappings; 3 options; 5 stops of two tasks; 4 calls on 6 addresses in 3 pages; 4 calls on 3 descriptors of 2 tasks; offsets and sizes up to 18 with blocks of 3 and 5 |
| `tracer` | the table is in step with the tasks; logs are in order and complete; the exit status is the command's; no task is left stopped; the parser can read the log; a refinement of `TraceLog`; the tracer ends | a command with a thread and a child, or three threads; 6 ways to start, with up to 3 calls of each task and 2 signals |

The bounds are small but reach the cases: with blocks of 2 and sizes up to 3 a range
starts, ends and straddles a block boundary; a covering sync needs three operations and
a fourth for one behind it; two threads are enough for every pair of steps to overlap;
three rejected states give runs of length one to three, separate and at the end. In
`recorder` the constants are scaled so that every boundary is crossed: a string ends before,
at and after its chunk, page and word; the cache and the vectors grow once; a region
is cut in front, behind and in the middle. The parts are side by side in one state
space and never interleave, since they share nothing.
In `tracer` one way to start has all three tasks in one group: one is inside a clone, the
one it made ends the group, and the third has a line open, which is the shortest way to
an open line that nobody closes.
Deadlock is not checked where the program ends by design.

A run checks one property per part; where a part promises several things, they are
definitions of their own, with a comment each, and the property is their conjunction
(`LinesReadBack`, `RegionsRight`, `DescriptorsFollowed`, `SetUpAsAsked`, `TableInSync`, `EndsClean`,
`TreesExact` and so on). The list of exceptions below uses the names of the conjuncts.

Four runs expect a violation; each states what a line of the repository says and the
code does not do.

| Run | Violated | What happens |
|---|---|---|
| `lost_report` | `AtomicityReported` | the report uses the number of disk operations of the last split mode |
| `false_ordering` | `OrderingMeant` | the last prefix of a failing run is examined again, and output cannot be omitted |
| `warning_abort` | `SetFsSucceeds` | the warning names modules that are not imported |
| `append_position` | `FullReplay` | the position of an `O_APPEND` descriptor is that of the open |

The passing runs of `CrashStates` leave out calls the parser does not follow; the names
`O_APPEND`, `stale_name` and `rename_same_file` in `Call` switch them on. With them TLC
violates `FullReplay`: `link a b; rename a b` (the kernel does nothing, the disk
operations delete `a`), and a write through a descriptor whose path now leads to another
file (`_aliceparsesyscalls.py:545`). A write of no bytes past the end of a file is in the
passing runs; `FullReplay`, and with it `TreesExact`, and `FsyncDurable` then leave out the bytes
of that file, which the disk operations make longer than it is. `FsyncDurable` also leaves out
what has no name at the crash: files that are open and unlinked, and directories that were
removed. The models also contain these ends of the program,
outside of what the properties speak of: renaming over an open file or onto itself
(`_aliceparsesyscalls.py:621`), writing to an unlinked one (545), a write of no bytes inside a
file (553), a write cut short (542), a truncate or an fsync that fails (654, 702), `mkdir` with a
mode other than 0777, which is evaluated as an old octal number (730), a shared mapping by a
task whose stores were not recorded (839), a write to an `O_SYNC`
descriptor after a truncate (`alicedefaultfs.py:245`), and a crash state that lacks an
`rmdir` but has a later `creat` of that name (`alice.py:156`). A prefix without disk
operations has no directory (`alice.py:349`), and the loop over `k` runs in the aligned
mode too, because `4096` is compared with `'4096'` (`alicedefaultexplorer.py:216`).

The properties of the recorder and of the trackers name their exceptions, and TLC reaches
each. They are what a user of the tool should know:

- the parser rejects "+++ killed by", and lines cut by a thread's execve, a detached task
  or a group stop (`ParserAccepts`, `ParserReadsLog`);
- a task found dead while it is restarted inside a clone has its own line ended and, with it, the
  column of the task that printed last: the end of that task joins its open line
  (`LinesSeparate`, `TableSound`);
- `munmap` of a part, or a fixed mapping inside, makes it forget more of a mapping than is
  gone (`ForgottenWhenCut`), and `mremap` onto a followed mapping leaves a region that is
  not there (`TrackedIsMapped`);
- a failed `execve` counts as one that succeeded, `dup2` onto itself loses the descriptor, a
  duplicate shares its close-on-exec flag, and a fork gives each process a position of its own
  (`FilesFollowed`, `WrittenWhereMeant`);
- `my_tracker` takes a descriptor for output long after it was closed, and in every process
  (`OutputIsOutput`);
- a `clone` with only some of CLONE_VM, CLONE_FILES and CLONE_FS (as of `posix_spawn`), and
  F_SETFL, fail assertions (`TrackersHold`);
- every special write over 4096 bytes that has a whole block in it ends the replay in an
  exception, because the block number given to `dd` is a float (`BlocksExact`);
- a thread's cache of mappings is stale after another thread's `mmap` (`StackResolved`);
- with two tasks in two personalities, the exit of a call may be decoded in the wrong one
  (`PersonalityKept`);
- x32 calls are decoded with ints where results are long; a fork of them is rewritten in the
  wrong register, and its number put back without the bit of x32 (`ErrnoExact`, `ForkFollowed`,
  `TrapTransparent`);
- `-P` does not look at the right arguments of the calls in `Misjudged`: some it takes for calls
  without a descriptor, the arguments of `old_mmap` and `oldselect` of 32-bit tasks it reads at the
  wrong place or as longs (`PathFilterExact`, `WaitFilterExact`);
- a part of PATH that fits the buffer, but not together with the name of the command, writes
  past it (`CommandFound`);
- a walk along frame pointers that lead in a circle does not end (`WalkEnds`);
- with `-D`, the process between pauses forever when the attach is refused (`NobodyStuck`); with
  `-o '|cmd'` too, the command does not wait for the tracer if the reader ends first
  (`HeldBeforeExec`), the tracer does not wait for the reader, which is no child of it
  (`PipeDrained`), and its exit status is 0 (`EndPassedOn`).

**Fairness.** `termination` assumes weak fairness of the main thread and of each thread's
normal steps: the operating system schedules every runnable thread, and a checker
returns. `CheckRaises` is never forced. `tracer` assumes weak fairness of the tracer's steps
and of each task's own (entering, serving and leaving calls, taking signals, stopping with
its group): both are processes the kernel schedules while they are not stopped. Signals,
kills and interruptions are never forced. `Finishes` excludes a group left stopped by a
SIGSTOP, and a leader that has exited and is waited for by `detach`.

## Proofs

`SetFsProofs` proves for every set of disk operations, inodes and every trace length:
`TypeCorrect`, `PrefixesAreValid`, `SyncIsBarrier`, `SyncIsDurable`, `DepsAreExact` and
`RecomputeAddsNothing`. None of the properties is inductive alone. The inductive invariant
says, pass by pass, that dependencies point backwards; that a dirty set only has
operations on its inode that no later sync of it covers, so what `Operation` computes is
among what `get_deps` would give; that below the index of `get_deps` its dependencies are
the direct ones; and that below the index of `add_deps` the sets are their closure.
Durability then
follows although the scan stops early: the covering sync depends on what lies behind it,
and the closure carries that over. The only
assumption is `ConstAssumption`, the types of the constants, in `SetFs`.

`MemregionsProofs` proves, for every address space, division into pages, set of files and number
of calls: `RegionsRightAlways` (from `TrackedIsMappedAlways`, `InsertFitsAlways` and
`MappedWritesRightAlways`) and `ForgottenWhenCutAlways`. The inductive invariant `RegionsInv` is the types (in particular
that a region starts no later than it ends), `TrackedIsMapped` and `InsertFits` together: the
mapping of a new region is right only because every region it overlaps was cut
(`RemoveOverlaps`), and nothing else is hit because the pages the kernel changes
beyond the length of a call belong to no other mapping's region (`PagesSpareRegions`, which
needs that free addresses are not followed, hence `TrackedIsMapped`). The operations of
a store follow from the regions alone (`ResolveRight`, `ResolveAll`), and what is forgotten from
comparing the regions before and after each call. The only assumption is
`MemregionsAssumption`, the types of the constants.

`SuiteProofs` proves what `Suite` gives for every trace and split mode on which `set_fs`
succeeds: `PrefixValid`, `SyncedIsKept` and `BarrierIsKept`. The closure of dependencies is a
recursive function there; the proofs go by well-founded induction on sets of numbers
(the least operation that would be a counterexample), which the provers can do where the
induction rules of the library, which take an operator, cannot be used.

`ExplorerProofs`, with the steps of the threads and of the first two rounds in
`ExplorerThreadProofs`, proves, for every set of threads, every trace and every list of split modes:
`TypeCorrect`, `DirectoriesSound`, `RoundsComplete`, `SyncsKept` and `PatchesAreExact`. There are two
layers. The inductive invariant `IInv` has five parts: what `set_fs` computed (`SuitesInv`);
where the main thread is and what is omitted there (`PosInv`: `load` and `dops_include` undo
exactly what the loop did); that a crash state is in one place at a time, in the queue, with
one thread or in the outputs, and that those handed out are those in one of these places
(`FlightInv`); that `unfinished` counts the queue and the busy threads (`CountInv`); and that the
directories are those of the states in flight (`DirInv`). `DirsSound` needs all five: a
directory is not overwritten because its state is handed out once, which is known from
the position of the loops. When `unfinished` is zero nothing is in flight, so the outputs are
the states handed out, and these are the legal ones of the round: `RoundsComplete`. On top of
`IInv`, `SoundInv` says that every directory holds a state that `test_combo_validity` lets through,
which gives `SyncsKept` by `SyncedIsKept`, and `ScanInv` that the scan has reported exactly the
patches that start before its index, which gives `PatchesAreExact`. All three invariants were
checked with TLC on the instance of `verdicts` first. `SyncedKept` speaks of what a sync
flushes (`Flushes` in `Suite`): a write that starts beyond the end of the range of the sync,
which is the size of the file, is no dependency of it. The assumption `ExplorerAssumption` says
that there is a split mode, that the threads are finite in number and that disk operations
have numbers for offsets and counts (`IsTrace`).

`BlockWritesProofs` proves `BlocksAreExact` for every block size, offset and count. The state is one
call of the arithmetic, so the invariant is the property; the lemmas are about quotients
and multiples.

`TraceeMemoryProofs` proves `CopiesAreExact` for every size of page, chunk and word with
`MemoryAssumption` (a chunk is no longer than a page and a page is a whole number of words). The
inductive invariant `MInv` relates what has been copied to the loop variables: the bytes
copied are those from the first address on, none from where there was no memory at the
start, and of a string none that is NUL. That a failed first chunk of `umovestr` means that
the first byte is not mapped rests on `ChunkInPage`, and that a word can be peeked at exactly if any
byte of it is mapped on `SameWord`.

Only model-checked: `Workload`, `ReplayDisk`, `CrashStates`, `FdTracker` and the modules of
`alice-strace` other than `TraceeMemory`; liveness (`Finishes` of `Explorer` and of `Tracer`), which TLAPS does
not do; the refinement of `TraceLog`; and what folds and languages of text compute
(`ReplayDisk`, `DiskOps`, `Lines`), which would need induction with an operator as parameter.
`Startup` has no constants, so that TLC's run covers all of its states; `TracerEnd` takes a wait
status apart with the bitwise operators, which the provers do not know. `FdTracker` speaks of a bounded pool of identities, which a theorem for all instances
would have to do without. That
`Suite` and `SetFs` agree rests on `DepsAreExact` and on reading the two definitions.

## Not modelled

- The names that decoders print for flags and constants (`printxval`, `printflags` and the xlat
  tables, about 2,400 lines of C) and the numbers inside a field: the parser reads fields by
  position and a few of them by value, and those have tags of their own in `Lines`. A table of
  names has no state and no order that a property could be about.
- Architectures other than x86_64, and `vsprintf.c`, which is empty without `USE_CUSTOM_PRINTF`.
- In the tracer: `-b execve`, `-f` into one shared file while tasks interleave, and the older
  way to attach without PTRACE_SEIZE (`Startup` has its handshake, `Tracer` not its
  stops). `detach` restarting a task and the kernel reporting it again is one step. Pids are not
  reused, and the tracer's own descriptors are not counted.
- In the parser: `fallocate`, symbolic links, renames of directories, current directories, and the
  order of lines of several tasks, which is that of their time stamps.
- Counting and enumerating combinations (`count_*`, `try_all_combos`), which `default_checks`
  does not use.
- Configuration, colours, records, the two scripts, the examples and the scenario builder:
  text, process start, and inputs of the program.

In lines of C, the definitions stand for about 30% of `alice-strace`, whose larger part is
code for other architectures, tables of names and tests. Of the lines they stand for, some
940 are tables of flags, of which a model keeps one fact (whether the first entry is zero,
which decides if `printflags` prints anything for no flags), and some 1,100 are the tables of
system calls, of which it keeps the name, the decoder and the number of raw arguments. Of
the modules of the Python program that do the work, they stand for about two thirds.
