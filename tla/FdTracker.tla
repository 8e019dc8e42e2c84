----------------------------- MODULE FdTracker -----------------------------
(***************************************************************************)
(* The descriptors of the traced processes as the parser follows them      *)
(* (ProcessTracker, FileDescriptorTracker, my_tracker, and open, close,    *)
(* dup, fcntl, clone, vfork, execve and write in __get_micro_op of         *)
(* _aliceparsesyscalls.py), beside the descriptors that the kernel has.    *)
(* Files are "watched", or "plain" outside the directory of the workload;  *)
(* "out" is what descriptor 1 is at the start.  Every open is of another   *)
(* file, and of no directory; what it and a write do to the file is in     *)
(* Workload.                                                               *)
(***************************************************************************)
EXTENDS Integers, FiniteSets, FiniteSetsExt

CONSTANTS FdNumbers,    \* the descriptors, of which 1 is open at the start
          Tasks,        \* threads and processes; First is there at the start
          First,
          MaxFdCalls    \* bound: calls of a trace

ASSUME FdTrackerAssumption ==
    FdNumbers \subseteq Nat /\ 1 \in FdNumbers /\ First \in Tasks /\ MaxFdCalls \in Nat

VARIABLES kern,         \* the kernel's view
          track,        \* the parser's
          wrote,        \* the last write
          odd,          \* not in the code: what has happened that the parser gets wrong
          fd_calls
(* kern.leader is the process of a task, None if it does not run;          *)
(* kern.table[p] its descriptors, [d, cloexec] with d = 0 for a closed     *)
(* one; kern.desc[d] the open file, which dup and fork share.              *)
(* track.map is trackers_map: a tracker is known by its pid, Gone is the   *)
(* None of a thread that an execve ended.  Its three FileDescriptorTracker *)
(* map a descriptor to a Struct in track.objs (0: none), which             *)
(* set_equivalent shares.  track.mine is my_tracker, track.on is FALSE     *)
(* once an exception has ended the parser.                                 *)

fd_vars == <<kern, track, wrote, odd, fd_calls>>

None    == "none"
Gone    == "gone"
FileKinds == {"watched", "plain"}
Ids     == 1..2 * (MaxFdCalls + 1)
Closed  == [d |-> 0, cloexec |-> FALSE]
NoFds   == [f \in FdNumbers |-> 0]
NoTracker == [watched |-> NoFds, unwatched |-> NoFds, std |-> NoFds, children |-> {}]
NewTracker == [NoTracker EXCEPT !.std[1] = 1]
Unused  == [name |-> None, pos |-> 0, cloexec |-> FALSE]
NoWrite == [how |-> None, pos |-> 0, kpos |-> 0, name |-> None]

Table(t)      == kern.table[kern.leader[t]]
IsOpen(t, f)  == Table(t)[f].d # 0
Lowest(t)     == {f \in FdNumbers : ~IsOpen(t, f) /\ \A g \in FdNumbers : g < f => IsOpen(t, g)}
FreshDesc     == Min({d \in Ids : kern.desc[d].name = None})
FreshObj(o)   == Min({i \in Ids : o[i].name = None})

-----------------------------------------------------------------------------
(* The parser.  Every function takes and gives the parser's view; p is the *)
(* tracker of the task.                                                    *)
Raised(tk) == [tk EXCEPT !.on = FALSE]

new_fd_mapping(tk, p, which, f, name, cloexec) ==
    IF tk.of[p][which][f] # 0 THEN Raised(tk)
    ELSE [tk EXCEPT !.of[p][which][f] = FreshObj(tk.objs),
                    !.objs[FreshObj(tk.objs)] = [name |-> name, pos |-> 0, cloexec |-> cloexec]]
set_equivalent_copy(tk, p, which, old, new) ==                    \* Mutant: a Struct of its own
    IF tk.of[p][which][new] # 0 THEN Raised(tk)
    ELSE [tk EXCEPT !.of[p][which][new] = FreshObj(tk.objs),
                    !.objs[FreshObj(tk.objs)] = tk.objs[tk.of[p][which][old]]]
(* The two share the Struct, position and attributes. *)
set_equivalent(tk, p, which, old, new) ==
    IF tk.of[p][which][new] # 0 THEN Raised(tk)
    ELSE [tk EXCEPT !.of[p][which][new] = tk.of[p][which][old]]
is_watched(tk, p, which, f) == tk.of[p][which][f] # 0
remove_fd_mapping(tk, p, which, f) == [tk EXCEPT !.of[p][which][f] = 0]

open_line(tk, p, f, name, cloexec) ==
    new_fd_mapping(tk, p, IF name = "watched" THEN "watched" ELSE "unwatched", f, name, cloexec)

close_line_first(tk, p, f) == remove_fd_mapping(tk, p, "watched", f)          \* Mutant
close_line(tk, p, f) ==
    IF is_watched(tk, p, "watched", f) THEN remove_fd_mapping(tk, p, "watched", f)
    ELSE remove_fd_mapping(tk, p, "unwatched", f)

(* dup of a standard descriptor is not followed. *)
equivalent(tk, p, old, new) ==
    IF is_watched(tk, p, "watched", old) THEN set_equivalent(tk, p, "watched", old, new)
    ELSE IF is_watched(tk, p, "unwatched", old) THEN set_equivalent(tk, p, "unwatched", old, new)
    ELSE tk
dup_line(tk, p, old, new)  == equivalent(tk, p, old, new)
dup2_line(tk, p, old, new) == equivalent(close_line(tk, p, new), p, old, new)

(* fcntl with F_DUPFD is followed for standard descriptors too. *)
tracker_of(tk, p, f) ==
    IF is_watched(tk, p, "watched", f) THEN "watched"
    ELSE IF is_watched(tk, p, "unwatched", f) THEN "unwatched"
    ELSE IF is_watched(tk, p, "std", f) THEN "std" ELSE None
dupfd_line(tk, p, old, new) ==
    LET which == tracker_of(tk, p, old)
        made  == set_equivalent(tk, p, which, old, new)
    IN  IF which = None THEN tk
        ELSE IF ~made.on THEN made ELSE [made EXCEPT !.mine[new] = @ \cup {old}]
setfd_line(tk, p, f, on) ==
    LET which == tracker_of(tk, p, f)
    IN  IF which = None THEN tk ELSE [tk EXCEPT !.objs[tk.of[p][which][f]].cloexec = on]
setfl_line(tk, p, f) == IF tracker_of(tk, p, f) \in {"watched", "std"} THEN Raised(tk) ELSE tk

(* Output is what goes to a duplicate of descriptor 1 that fcntl made. *)
output_any(tk, f) == tk.mine[f] # {}                                          \* Mutant
is_equivalent_to_stdout(tk, f) == 1 \in tk.mine[f]
write_how(tk, p, f) ==
    IF is_equivalent_to_stdout(tk, f) THEN "output"
    ELSE IF is_watched(tk, p, "watched", f) THEN "file" ELSE None
write_line(tk, p, f) ==
    IF write_how(tk, p, f) # "file" THEN tk ELSE [tk EXCEPT !.objs[tk.of[p].watched[f]].pos = @ + 1]

(* A deep copy: every Struct once, so that what was shared stays so. *)
record_fork(tk, p, child) ==
    LET used  == {tk.of[p][w][f] : w \in {"watched", "unwatched", "std"}, f \in FdNumbers} \ {0}
        free  == {i \in Ids : tk.objs[i].name = None}
        copy  == CHOOSE c \in [used -> free] : \A x, y \in used : x # y => c[x] # c[y]
        to(m) == [f \in FdNumbers |-> IF m[f] = 0 THEN 0 ELSE copy[m[f]]]
    IN  IF tk.map[child] # None THEN Raised(tk)
        ELSE [tk EXCEPT !.map[child] = child,
                        !.of[child] = [watched |-> to(tk.of[p].watched), unwatched |-> to(tk.of[p].unwatched),
                                       std |-> to(tk.of[p].std), children |-> {}],
                        !.objs = [i \in Ids |-> IF \E x \in used : copy[x] = i
                                                THEN tk.objs[CHOOSE x \in used : copy[x] = i] ELSE tk.objs[i]]]
record_clone(tk, p, child) ==
    IF tk.map[child] # None THEN Raised(tk)
    ELSE [tk EXCEPT !.map[child] = p, !.of[p].children = @ \cup {child}]

closing(tk, m) == [f \in FdNumbers |-> IF m[f] # 0 /\ tk.objs[m[f]].cloexec THEN 0 ELSE m[f]]
ended_all(tk, p) == {t \in Tasks : tk.map[t] = p}                             \* Mutant
ended(tk, p)     == tk.of[p].children
(* An execve that failed is taken for one that did not. *)
record_execve(tk, p) ==
    [tk EXCEPT !.of[p].watched = closing(tk, @), !.of[p].unwatched = closing(tk, @),
               !.of[p].children = {},
               !.map = [t \in Tasks |-> IF t \in ended(tk, p) THEN Gone ELSE @[t]]]

-----------------------------------------------------------------------------
(* get_proctracker: a task that has none gets a new one, and that of an    *)
(* ended thread is None, which has no pid.                                 *)
get_proctracker(t) ==
    IF track.map[t] = None THEN [track EXCEPT !.map[t] = t, !.of[t] = NewTracker]
    ELSE IF track.map[t] = Gone THEN Raised(track) ELSE track

(* A call of a task that runs, while the parser does. *)
Call_of(t) ==
    /\ track.on /\ kern.leader[t] # None
    /\ fd_calls < MaxFdCalls /\ fd_calls' = fd_calls + 1
(* The kernel's part of a call, and the parser's after get_proctracker. *)
Handled(t, k, line) ==
    /\ kern' = k
    /\ track' = IF get_proctracker(t).on THEN line ELSE get_proctracker(t)
Tracker(t) == get_proctracker(t).map[t]
SetFd(t, f, x) == [kern EXCEPT !.table[kern.leader[t]][f] = x]

(* What the parser gets wrong, when it happens. *)
If(c, s) == IF c THEN {s} ELSE {}
FlagsDiffer ==
    \E t \in Tasks, f \in FdNumbers :
        /\ kern.leader[t] # None /\ track.map[t] \notin {None, Gone}
        /\ \E w \in {"watched", "unwatched"} :
              LET o == track.of[track.map[t]][w][f]
              IN  o # 0 /\ track.objs[o].cloexec # Table(t)[f].cloexec
(* Descriptors that some task has closed or replaced. *)
ClosedOnes == {f \in FdNumbers : \E t \in Tasks : /\ kern.leader[t] # None /\ kern'.leader[t] # None
                                            /\ Table(t)[f].d \notin {0, Table(t)'[f].d}}
Sees(events) ==
    odd' = odd \cup events \cup If(FlagsDiffer', "cloexec")
               \cup If(\E f \in ClosedOnes : track.mine[f] # {}, "mark_closed")
               \cup If(1 \in ClosedOnes, "std_closed")

open(t, f, name, cloexec) ==
    /\ Call_of(t) /\ f \in Lowest(t)
    /\ Handled(t, [SetFd(t, f, [d |-> FreshDesc, cloexec |-> cloexec])
                        EXCEPT !.desc[FreshDesc] = [name |-> name, pos |-> 0]],
                open_line(get_proctracker(t), Tracker(t), f, name, cloexec))
    /\ Sees({}) /\ UNCHANGED wrote
close(t, f) ==
    /\ Call_of(t) /\ IsOpen(t, f)
    /\ Handled(t, SetFd(t, f, Closed), close_line(get_proctracker(t), Tracker(t), f))
    /\ Sees({}) /\ UNCHANGED wrote
dup(t, old, new) ==
    /\ Call_of(t) /\ IsOpen(t, old) /\ new \in Lowest(t)
    /\ Handled(t, SetFd(t, new, [d |-> Table(t)[old].d, cloexec |-> FALSE]),
                dup_line(get_proctracker(t), Tracker(t), old, new))
    /\ Sees({}) /\ UNCHANGED wrote
(* dup2, of a descriptor to itself too, and dup3. *)
dup2(t, old, new, cloexec) ==
    /\ Call_of(t) /\ IsOpen(t, old) /\ (old = new => ~cloexec)
    /\ Handled(t, IF old = new THEN kern
                  ELSE SetFd(t, new, [d |-> Table(t)[old].d, cloexec |-> cloexec]),
                dup2_line(get_proctracker(t), Tracker(t), old, new))
    /\ Sees(If(old = new, "self_dup")) /\ UNCHANGED wrote
(* F_DUPFD and F_DUPFD_CLOEXEC. *)
fcntl_dupfd(t, old, new, cloexec) ==
    /\ Call_of(t) /\ IsOpen(t, old) /\ new \in Lowest(t)
    /\ Handled(t, SetFd(t, new, [d |-> Table(t)[old].d, cloexec |-> cloexec]),
                dupfd_line(get_proctracker(t), Tracker(t), old, new))
    /\ Sees(If(old = 1 /\ kern.desc[Table(t)[1].d].name # "out", "redirected")
            \cup If(\E u \in Tasks : kern.leader[u] \notin {None, kern.leader[t]}, "several"))
    /\ UNCHANGED wrote
fcntl_setfd(t, f, on) ==
    /\ Call_of(t) /\ IsOpen(t, f)
    /\ Handled(t, SetFd(t, f, [Table(t)[f] EXCEPT !.cloexec = on]),
                setfd_line(get_proctracker(t), Tracker(t), f, on))
    /\ Sees({}) /\ UNCHANGED wrote
fcntl_setfl(t, f) ==
    /\ Call_of(t) /\ IsOpen(t, f)
    /\ Handled(t, kern, setfl_line(get_proctracker(t), Tracker(t), f))
    /\ Sees({"setfl"}) /\ UNCHANGED wrote

(* One byte, to a file that is not open for appending. *)
write(t, f) ==
    /\ Call_of(t) /\ IsOpen(t, f)
    /\ LET tk == get_proctracker(t)
           d  == Table(t)[f].d
       IN  /\ Handled(t, [kern EXCEPT !.desc[d].pos = @ + 1], write_line(tk, Tracker(t), f))
           /\ wrote' = IF ~tk.on THEN NoWrite
                       ELSE [how |-> write_how(tk, Tracker(t), f), name |-> kern.desc[d].name,
                             kpos |-> kern.desc[d].pos,
                             pos |-> IF is_watched(tk, Tracker(t), "watched", f)
                                     THEN tk.objs[tk.of[Tracker(t)].watched[f]].pos ELSE 0]
    /\ Sees({})

(* clone without CLONE_VM, and vfork. *)
fork(t, child) ==
    /\ Call_of(t) /\ child # First /\ kern.leader[child] = None /\ track.map[child] = None
    /\ Handled(t, [kern EXCEPT !.leader[child] = child, !.table[child] = Table(t)],
                record_fork(get_proctracker(t), Tracker(t), child))
    /\ Sees(If(\E f \in FdNumbers : IsOpen(t, f) /\ kern.desc[Table(t)[f].d].name = "watched", "shared_pos"))
    /\ UNCHANGED wrote
(* clone with CLONE_VM, CLONE_FILES and CLONE_FS. *)
clone(t, child) ==
    /\ Call_of(t) /\ child # First /\ kern.leader[child] = None /\ track.map[child] = None
    /\ Handled(t, [kern EXCEPT !.leader[child] = kern.leader[t]],
                record_clone(get_proctracker(t), Tracker(t), child))
    /\ Sees({}) /\ UNCHANGED wrote
(* clone with some of the three only, as posix_spawn does. *)
clone_spawn(t) ==
    /\ Call_of(t)
    /\ Handled(t, kern, Raised(get_proctracker(t)))
    /\ Sees({"spawn"}) /\ UNCHANGED wrote

(* The other threads end, and the one that remains has the leader's id. *)
execve(t) ==
    /\ Call_of(t)
    /\ LET p == kern.leader[t]
       IN  Handled(t, [kern EXCEPT
                           !.leader = [u \in Tasks |-> IF @[u] = p /\ u # p THEN None ELSE @[u]],
                           !.table[p] = [f \in FdNumbers |-> IF @[f].cloexec THEN Closed ELSE @[f]]],
                   record_execve(get_proctracker(t), Tracker(t)))
    /\ Sees({}) /\ UNCHANGED wrote
execve_fails(t) ==
    /\ Call_of(t)
    /\ Handled(t, kern, record_execve(get_proctracker(t), Tracker(t)))
    /\ Sees({"exec_failed"}) /\ UNCHANGED wrote

FdInit ==
    /\ kern = [leader |-> [t \in Tasks |-> IF t = First THEN First ELSE None],
               table |-> [t \in Tasks |-> [f \in FdNumbers |->
                             IF f = 1 /\ t = First THEN [Closed EXCEPT !.d = 1] ELSE Closed]],
               desc |-> [d \in Ids |-> [name |-> IF d = 1 THEN "out" ELSE None, pos |-> 0]]]
    /\ track = [on |-> TRUE, map |-> [t \in Tasks |-> None], of |-> [t \in Tasks |-> NoTracker],
                objs |-> [i \in Ids |-> IF i = 1 THEN [Unused EXCEPT !.name = "out"] ELSE Unused],
                mine |-> [f \in FdNumbers |-> {}]]
    /\ wrote = NoWrite /\ odd = {} /\ fd_calls = 0
FdAtRest == kern = <<>> /\ track = [on |-> FALSE] /\ wrote = NoWrite /\ odd = {} /\ fd_calls = 0

FdNext ==
    \E t \in Tasks :
        \/ \E f \in FdNumbers, name \in FileKinds, cloexec \in BOOLEAN : open(t, f, name, cloexec)
        \/ \E f \in FdNumbers : close(t, f) \/ fcntl_setfl(t, f) \/ write(t, f)
        \/ \E f \in FdNumbers, on \in BOOLEAN : fcntl_setfd(t, f, on)
        \/ \E old, new \in FdNumbers : dup(t, old, new)
        \/ \E old, new \in FdNumbers, cloexec \in BOOLEAN :
              dup2(t, old, new, cloexec) \/ fcntl_dupfd(t, old, new, cloexec)
        \/ \E child \in Tasks : fork(t, child) \/ clone(t, child)
        \/ clone_spawn(t)
        \/ execve(t)
        \/ execve_fails(t)

FdSpec == FdInit /\ [][FdNext]_fd_vars

-----------------------------------------------------------------------------
(* The parser knows exactly the descriptors of every task that are open on *)
(* files, and on which, through any dup, fork, thread and execve; unless   *)
(* an execve failed, a descriptor was duplicated onto itself, or one and   *)
(* its duplicate were not both to be closed by execve.                     *)
FilesFollowed ==
    track.on /\ odd \cap {"exec_failed", "self_dup", "cloexec"} = {} =>
        \A t \in Tasks, f \in FdNumbers :
            kern.leader[t] # None /\ track.map[t] \notin {None, Gone} =>
                LET named(w) == IF track.of[track.map[t]][w][f] = 0 THEN None
                                ELSE track.objs[track.of[track.map[t]][w][f]].name
                    name     == IF IsOpen(t, f) THEN kern.desc[Table(t)[f].d].name ELSE None
                IN  /\ named("watched") = IF name = "watched" THEN name ELSE None
                    /\ named("unwatched") = IF name = "plain" THEN name ELSE None

(* A write is taken for one to the file it goes to, at the position it has *)
(* there, if nothing happened before that the parser gets wrong: a fork    *)
(* with the file open, too, gives each process a position of its own.      *)
WrittenWhereMeant ==
    odd = {} => /\ wrote.name = "watched" => wrote.how = "file" /\ wrote.pos = wrote.kpos
                /\ wrote.how = "file" => wrote.name = "watched"

(* Only what goes to the output is taken for output, unless a duplicate of *)
(* descriptor 1 was closed (my_tracker still has it), was made while       *)
(* another process ran (it has it for all), or was made while descriptor 1 *)
(* was redirected.                                                         *)
OutputIsOutput ==
    odd \cap {"mark_closed", "several", "redirected"} = {} => (wrote.how = "output" => wrote.name = "out")

(* No assertion of the trackers fails, and no task is without its tracker, *)
(* unless something happened that the parser gets wrong or rejects.        *)
TrackersHold == ~track.on /\ fd_calls > 0 => odd \ {"shared_pos", "redirected", "several"} # {}

(* Descriptors lead to the files, positions and output that they have in   *)
(* the kernel, apart from the cases the three properties name.             *)
DescriptorsFollowed == FilesFollowed /\ WrittenWhereMeant /\ OutputIsOutput
=============================================================================
