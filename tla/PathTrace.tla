----------------------------- MODULE PathTrace -----------------------------
(***************************************************************************)
(* The option -P (pathtrace.c): the paths selected on the command line,    *)
(* and which calls of a task are traced because of them.                   *)
(***************************************************************************)
EXTENDS Integers, Sequences, FiniteSets

CONSTANTS MaxSelected,   \* bound: options -P
          MaxNfds        \* 1024*1024: descriptors of a select that are looked at

ASSUME PathTraceAssumption == MaxSelected \in Nat /\ MaxNfds \in Nat \ {0}

VARIABLE paths           \* paths.selected, paths.asked (the options), the last call

(* Four names: of a file, of a link to it, of a file made only after the   *)
(* options were read, and a relative one of such a file.                   *)
PathNames == {"/f", "l", "/m", "r"}
Files     == {"/f", "/m", "/cwd/r"}
canonical == [n \in PathNames |-> CASE n = "l" -> "/f" [] n = "r" -> "/cwd/r" [] OTHER -> n]
Existing  == {"/f", "l"}
NoFile    == "none"

-----------------------------------------------------------------------------
(* What a word passed to a call may be: a descriptor, the address of a     *)
(* name, that of a buffer or a number.  as_fd and as_path are what is      *)
(* found if it is taken for a descriptor or for the address of a name.     *)
Word(is, fd, path) == [is |-> is, as_fd |-> fd, as_path |-> path]
Words(is) ==
    CASE is = "fd"   -> {Word(is, f, NoFile) : f \in Files \cup {NoFile}}
      [] is = "path" -> {Word(is, NoFile, n) : n \in PathNames \cup {NoFile}}
      [] is = "buf"  -> {Word(is, NoFile, n) : n \in {"/f", NoFile}}
      [] is = "num"  -> {Word(is, f, NoFile) : f \in {"/f", NoFile}}

(* The words of the calls with TRACE_FILE or TRACE_DESC, one call for each *)
(* kind, and of two calls with neither.  Of old_mmap, which only 32-bit    *)
(* tasks make, the first word leads to the arguments and the others are    *)
(* registers that hold anything.                                           *)
signature == [
    open |-> <<"path", "num">>, read |-> <<"fd", "buf">>, chdir |-> <<"path">>,
    dup2 |-> <<"fd", "fd">>, sendfile64 |-> <<"fd", "fd", "buf">>, tee |-> <<"fd", "fd">>,
    openat |-> <<"fd", "path">>, inotify_add_watch |-> <<"fd", "path">>,
    pipe2 |-> <<"buf", "num">>, pipe |-> <<"buf">>, link |-> <<"path", "path">>,
    connect |-> <<"fd", "buf">>, mount |-> <<"path", "path">>, quotactl |-> <<"num", "path">>,
    renameat |-> <<"fd", "path", "fd", "path">>, mmap |-> <<"num", "num", "num", "num", "fd">>,
    old_mmap |-> <<"buf", "num", "num", "num", "num">>, perf_event_open |-> <<"buf", "num", "num", "fd", "num">>,
    symlinkat |-> <<"path", "fd", "path">>, splice |-> <<"fd", "buf", "fd", "buf">>,
    epoll_ctl |-> <<"fd", "num", "fd", "buf">>, eventfd |-> <<"num">>,
    epoll_create |-> <<"num">>, getpid |-> <<>>,
    epoll_create1 |-> <<"num">>, socketcall |-> <<"num", "buf">>, getcwd |-> <<"buf", "num">>,
    timerfd_settime |-> <<"fd", "num">>, sync_file_range |-> <<"fd", "num">>,
    name_to_handle_at |-> <<"fd", "path">>]
TRACE_FILE == {"open", "chdir", "openat", "link", "mount", "quotactl", "renameat", "symlinkat",
               "getcwd", "name_to_handle_at"}
TRACE_DESC == DOMAIN signature \ {"chdir", "link", "mount", "quotactl", "getcwd", "getpid", "connect"}
printargs_calls == {"sync_file_range", "name_to_handle_at", "getpid"}

-----------------------------------------------------------------------------
(* Mutant: the name is stored, but not what it resolves to. *)
pathtrace_select_raw(n) ==
    /\ paths.pc = "options" /\ Cardinality(paths.asked) < MaxSelected
    /\ paths' = [paths EXCEPT !.asked = @ \cup {n}, !.selected = @ \cup {n}]
(* A path is kept once, however often it is named. *)
storepath(selected, n) == selected \cup {n}
(* The path as it is given, and what it resolves to if it exists. *)
pathtrace_select(n) ==
    /\ paths.pc = "options" /\ Cardinality(paths.asked) < MaxSelected
    /\ paths' = [paths EXCEPT !.asked = @ \cup {n},
                              !.selected = IF n \in Existing THEN storepath(storepath(@, n), canonical[n])
                                           ELSE storepath(@, n)]

pathmatch(n)  == n \in paths.selected
upathmatch(w) == w.as_path # NoFile /\ pathmatch(w.as_path)
(* The name the kernel has for a descriptor, if it is one. *)
getfdpath(w)  == w.as_fd
fdmatch(w)    == getfdpath(w) # NoFile /\ pathmatch(getfdpath(w))

(* The calls that are said to have neither a descriptor nor a path. *)
nothing_to_test == printargs_calls \cup {"pipe", "eventfd", "timerfd_settime", "epoll_create"}
(* Of any other call the first word. *)
fallback(call) ==
    IF call \in TRACE_FILE THEN [fd |-> {}, path |-> {1}] ELSE [fd |-> {1}, path |-> {}]

(* The words looked at, by the decoder of the call. *)
looked_at(call) ==
    CASE call \notin TRACE_FILE \cup TRACE_DESC -> [fd |-> {}, path |-> {}]
      [] call \in {"dup2", "sendfile64", "tee"} -> [fd |-> {1, 2}, path |-> {}]
      [] call \in {"inotify_add_watch", "openat", "pipe2"} -> [fd |-> {1}, path |-> {2}]
      [] call \in {"link", "mount"} -> [fd |-> {}, path |-> {1, 2}]
      [] call = "quotactl" -> [fd |-> {}, path |-> {2}]
      [] call = "renameat" -> [fd |-> {1, 3}, path |-> {2, 4}]
      [] call \in {"mmap", "old_mmap"} -> [fd |-> {5}, path |-> {}]
      [] call = "symlinkat" -> [fd |-> {2}, path |-> {1, 3}]
      [] call = "splice" -> [fd |-> {1, 3}, path |-> {}]
      [] call = "epoll_ctl" -> [fd |-> {3}, path |-> {}]
      [] call \in nothing_to_test -> [fd |-> {}, path |-> {}]
      [] OTHER -> fallback(call)

pathtrace_match(call, args) ==
    \/ \E i \in looked_at(call).fd : fdmatch(args[i])
    \/ \E i \in looked_at(call).path : upathmatch(args[i])

(* select: of each set that is given and can be read, the descriptors      *)
(* below nfds, of a negative nfds none.                                    *)
select_match_far(nfds, sets, open) ==                              \* Mutant
    \E s \in 1..3 : sets[s].readable /\ \E j \in sets[s].fds : j <= nfds /\ pathmatch(open[j])
select_match(nfds, sets, open) ==
    LET n == IF nfds > MaxNfds THEN MaxNfds ELSE IF nfds < 0 THEN 0 ELSE nfds
    IN  \E s \in 1..3 : sets[s].readable /\ \E j \in sets[s].fds : j < n /\ pathmatch(open[j])

(* oldselect, which only 32-bit tasks make: its words are in memory, and   *)
(* without them the call is not traced.  They are read as long, so that    *)
(* two words of the task make one: the number of descriptors has the       *)
(* address of the first set above it, which makes it too large, or         *)
(* negative; the sets are looked for where the second set, the timeout and *)
(* a word behind the arguments say, the upper half of an address being     *)
(* cut off.                                                                *)
WordsAsLong(nfds, readfds, writefds, others) ==
    [nfds |-> CASE readfds = "high" -> -1
                [] readfds = "null" /\ nfds >= 0 -> nfds
                [] OTHER -> MaxNfds + 1,
     sets |-> <<writefds, others[1], others[2]>>]
oldselect_match(words_readable, nfds, readfds, writefds, others, open) ==
    LET args == WordsAsLong(nfds, readfds, writefds, others)
    IN  words_readable /\ select_match(args.nfds, args.sets, open)

(* poll: every entry that can be read; none if the array wraps around. *)
poll_match(wraps, entries, open) ==
    ~wraps /\ \E e \in 1..Len(entries) :
        entries[e].readable /\ entries[e].fd >= 0 /\ pathmatch(open[entries[e].fd])

-----------------------------------------------------------------------------
(* trace_syscall_entering filters the calls that do not match. *)
SomeCall(name, args) ==
    /\ paths.pc \in {"options", "traced"} /\ paths.asked # {}
    /\ paths' = [paths EXCEPT !.pc = "traced",
                              !.call = [name |-> name, args |-> args,
                                        matched |-> pathtrace_match(name, args)]]
SelectCall(nfds, sets, open) ==
    /\ paths.pc \in {"options", "traced"} /\ paths.asked # {}
    /\ paths' = [paths EXCEPT !.pc = "traced",
                              !.call = [name |-> "select", nfds |-> nfds, sets |-> sets, open |-> open,
                                        matched |-> select_match(nfds, sets, open)]]
OldSelectCall(words_readable, nfds, readfds, writefds, others, open) ==
    /\ paths.pc \in {"options", "traced"} /\ paths.asked # {}
    /\ paths' = [paths EXCEPT !.pc = "traced",
                              !.call = [name |-> "oldselect", nfds |-> nfds,
                                        matched |-> oldselect_match(words_readable, nfds, readfds, writefds,
                                                                    others, open)]]
PollCall(wraps, entries, open) ==
    /\ paths.pc \in {"options", "traced"} /\ paths.asked # {}
    /\ paths' = [paths EXCEPT !.pc = "traced",
                              !.call = [name |-> "poll", entries |-> entries, open |-> open, wraps |-> wraps,
                                        matched |-> poll_match(wraps, entries, open)]]

NoPaths   == paths = [pc |-> "none"]
PathsInit == paths = [pc |-> "options", asked |-> {}, selected |-> {},
                      call |-> [name |-> "none", args |-> <<>>, matched |-> FALSE]]

Fds     == 0..MaxNfds
OpenMaps == [Fds -> {"/f", "/m"}]
NoSet   == [readable |-> FALSE, fds |-> {}]
FdSets  == [readable : {TRUE}, fds : SUBSET Fds] \cup {NoSet}
Entries == [readable : BOOLEAN, fd : {-1, 0, 1}]
(* Bound: two words of a call vary, the others match nothing. *)
ArgLists(name) ==
    LET is == signature[name]
        dull(k) == Word(is[k], NoFile, NoFile)
    IN  IF is = <<>> THEN {<<>>}
        ELSE UNION {{[k \in 1..Len(is) |-> IF k = i THEN w ELSE IF k = j THEN x ELSE dull(k)] :
                        w \in Words(is[i]), x \in Words(is[j])} : i, j \in 1..Len(is)}
PathsNext ==
    \/ paths.pc = "options" /\ \E n \in PathNames : pathtrace_select(n)
    \/ paths.pc = "options" /\ \E name \in DOMAIN signature : \E args \in ArgLists(name) : SomeCall(name, args)
    \/ /\ paths.pc = "options"
       /\ \E nfds \in -1..MaxNfds + 1, a, b \in FdSets, open \in OpenMaps :
             SelectCall(nfds, <<a, b, NoSet>>, open)
    \/ /\ paths.pc = "options"
       /\ \E words_readable \in BOOLEAN, nfds \in -1..MaxNfds, readfds \in {"null", "low", "high"},
             a \in FdSets, b \in {NoSet, [readable |-> TRUE, fds |-> Fds]}, open \in OpenMaps :
             OldSelectCall(words_readable, nfds, readfds, a, <<b, NoSet>>, open)
    \/ /\ paths.pc = "options"
       /\ \E wraps \in BOOLEAN, a, b \in Entries, open \in OpenMaps : PollCall(wraps, <<a, b>>, open)

PathsSpec == PathsInit /\ [][PathsNext]_paths

-----------------------------------------------------------------------------
(* A descriptor is followed to its file whichever name of it was given: it *)
(* matches exactly if some option named the file in a way that led to it   *)
(* when the options were read, or names it as the kernel does.             *)
FileAsked(f) == \E n \in paths.asked : canonical[n] = f /\ (n \in Existing \/ n = f)
NameAsked(n) == n \in paths.asked \/ \E m \in paths.asked \cap Existing : canonical[m] = n

(* The calls decided on the wrong words.  Missed: the descriptor of a      *)
(* timer, the first one of epoll_ctl, the group of perf_event_open, what   *)
(* sockets and message queues are asked for (they have neither class), and *)
(* all calls printed by printargs, although some have a descriptor or a    *)
(* path.  Taken for what they are not: the flags of epoll_create1 and the  *)
(* number of a socketcall for a descriptor, the buffer of getcwd for a     *)
(* path.  Both: old_mmap and oldselect.                                    *)
Misjudged == {"timerfd_settime", "epoll_ctl", "perf_event_open", "connect", "sync_file_range",
              "name_to_handle_at", "epoll_create1", "socketcall", "getcwd", "old_mmap", "oldselect"}

(* A call is traced exactly if one of its descriptors is of a file that    *)
(* was asked for, or one of its names is spelled as an option or as what   *)
(* an option resolves to.                                                  *)
PathFilterExact ==
    paths.pc = "traced" /\ paths.call.name \notin Misjudged \cup {"select", "poll"} =>
        LET c == paths.call
        IN  c.matched <=> \E i \in 1..Len(c.args) :
                             \/ c.args[i].is = "fd" /\ FileAsked(c.args[i].as_fd)
                             \/ c.args[i].is = "path" /\ NameAsked(c.args[i].as_path)

(* A select or poll is traced exactly if it waits for a descriptor of a    *)
(* file that was asked for, below the number it was given and the cap.     *)
WaitFilterExact ==
    paths.pc = "traced" /\ paths.call.name \in {"select", "poll"} =>
        LET c == paths.call
            waited == IF c.name = "poll"
                      THEN {c.entries[e].fd : e \in {k \in 1..Len(c.entries) : ~c.wraps /\ c.entries[k].readable}}
                      ELSE {j \in UNION {c.sets[s].fds : s \in 1..3} : j < c.nfds /\ j < MaxNfds}
        IN  c.matched <=> \E j \in waited \cap Fds : FileAsked(c.open[j])
=============================================================================
