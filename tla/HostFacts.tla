----------------------------- MODULE HostFacts -----------------------------
(***************************************************************************)
(* What alice-strace works out of its environment before it traces         *)
(* (alice-strace.c): the kernel's release as one number (get_os_release),  *)
(* and the file that a command is (startup_child, the search of PATH).     *)
(***************************************************************************)
EXTENDS Integers, Sequences, FiniteSets, Bitwise

CONSTANTS Releases,     \* the numbers in a release
          MaxFields,    \* bound: fields of a release
          MaxPath       \* bound: components of PATH

ASSUME HostFactsAssumption == Releases \subseteq Nat /\ {MaxFields, MaxPath} \subseteq Nat

VARIABLE fact           \* the function called last, its input and what it returned

NoFact == [op |-> "none"]

-----------------------------------------------------------------------------
(* A release is what stands between its first dots: a number, or a word    *)
(* without a digit in front; what follows another character ("-rc1") is    *)
(* never looked at.                                                        *)
WORD_FIELD == -1
KERNEL_VERSION(a, b, c) == 65536 * a + 256 * b + c

Bad == -1               \* error_msg_and_die
padded_not(rel) == IF rel >= KERNEL_VERSION(0, 1, 0) THEN rel ELSE Bad         \* Mutant
(* "X.Y-something" means "X.Y.0" *)
padded(rel) == IF rel >= KERNEL_VERSION(0, 1, 0) THEN 256 * rel ELSE Bad
(* Number after number is shifted in, until the first is in the third      *)
(* byte or there are no more.                                              *)
get_os_release(f) ==
    LET read[i \in 0..Len(f)] ==
            IF i = 0 THEN 0
            ELSE IF f[i] = WORD_FIELD \/ read[i - 1] = Bad THEN Bad
            ELSE IF read[i - 1] >= KERNEL_VERSION(1, 0, 0) THEN read[i - 1]
            ELSE (256 * read[i - 1]) | f[i]
        full == {i \in 1..Len(f) : read[i] >= KERNEL_VERSION(1, 0, 0)}
    IN  IF full # {} THEN read[CHOOSE i \in full : \A j \in full : i <= j]
        ELSE padded(read[Len(f)])

-----------------------------------------------------------------------------
(* A component of PATH is a directory, "" (the current one), "long", more  *)
(* than fits, or "tight", which fits only without the command's name.  has *)
(* is what each directory has under the command's name.                    *)
Directories == {"d", "e", "cwd"}
Kinds       == {"none", "file", "dir", "exec"}
Components  == {"d", "e", "", "long", "tight"}
Stray       == "stray"       \* a file nobody asked for, by a name that was never set or is overwritten

accepted_any(kind) == kind # "none"                            \* Mutant
accepted(kind)     == kind = "exec"        \* a regular file with an execute bit

(* A component that cannot be used is passed over: pathname stays as it    *)
(* is.  Only the length of the component itself is looked at.              *)
directory(c, getcwd) ==
    IF c \in {"d", "e", "tight"} THEN c ELSE IF c = "" /\ getcwd THEN "cwd" ELSE "skip"

(* The loop ends at the end of the string: an empty last component is not  *)
(* looked at.                                                              *)
looked_up(path) == IF path # <<>> /\ path[Len(path)] = "" THEN SubSeq(path, 1, Len(path) - 1) ELSE path

(* The components that are tried, in order, up to the first that has the   *)
(* command.                                                                *)
tried(path, has, getcwd) ==
    LET dirs == SelectSeq([i \in 1..Len(looked_up(path)) |-> directory(path[i], getcwd)],
                          LAMBDA d : d # "skip")
        good == {i \in 1..Len(dirs) : dirs[i] # "tight" /\ accepted(has[dirs[i]])}
    IN  IF good # {} THEN SubSeq(dirs, 1, CHOOSE i \in good : \A j \in good : i <= j) ELSE dirs

(* pathname after the loop: the first that is accepted, else the last that *)
(* was tried.  After a tight one, with which the strcpy of the name goes   *)
(* past the end of pathname, the outcome is undefined.                     *)
search(path, has, getcwd) ==
    LET dirs == tried(path, has, getcwd)
    IN  IF dirs = <<>> \/ \E i \in 1..Len(dirs) : dirs[i] = "tight" THEN Stray ELSE dirs[Len(dirs)]

(* Then pathname must exist.  What is found under a name that was never    *)
(* set, or is overwritten, is anybody's guess.                             *)
Started(pathname, has) ==
    IF pathname = Stray THEN {"died", Stray}
    ELSE IF has[pathname] = "none" THEN {"died"} ELSE {pathname}

-----------------------------------------------------------------------------
FactInit == fact = [op |-> "start"]

OsRelease(f) ==
    fact' = [op |-> "os_release", f |-> f, out |-> get_os_release(f)]

(* Of a command named without a slash. *)
FindCommand(path, has, getcwd) ==
    \E out \in Started(search(path, has, getcwd), has) :
        fact' = [op |-> "search", path |-> path, has |-> has, getcwd |-> getcwd, out |-> out]

FactNext ==
    /\ fact.op = "start"
    /\ \/ \E n \in 1..MaxFields : \E f \in [1..n -> Releases \cup {WORD_FIELD}] : OsRelease(f)
       \/ \E n \in 0..MaxPath : \E path \in [1..n -> Components] :
             \E has \in [Directories -> Kinds], getcwd \in BOOLEAN : FindCommand(path, has, getcwd)

FactSpec == FactInit /\ [][FactNext]_fact

-----------------------------------------------------------------------------
(* Of a release that starts with two numbers, the first positive and less  *)
(* than 256, the number is KERNEL_VERSION of the three (the third 0 if it  *)
(* is missing).  A third number beyond 255 spoils the second one, by at    *)
(* most one: the test for 3.0.0 that the tracer makes is still right.      *)
ReleaseExact ==
    fact.op = "os_release" /\ Len(fact.f) >= 2 /\ fact.f[1] \in 1..255 /\ fact.f[2] \in 0..254 =>
        LET x == fact.f[1]
            y == fact.f[2]
            z == IF Len(fact.f) = 2 THEN 0 ELSE fact.f[3]
        IN  IF z = WORD_FIELD THEN fact.out = Bad
            ELSE /\ z < 256 => fact.out = KERNEL_VERSION(x, y, z)
                 /\ fact.out \in KERNEL_VERSION(x, y, 0)..KERNEL_VERSION(x, y + 1, 255)
                 /\ fact.out >= KERNEL_VERSION(3, 0, 0) <=> x >= 3

(* The command that is started is the executable file in the first         *)
(* component of PATH that has one, as in execvp, except that an empty      *)
(* component at the end does not stand for the current directory.  Without *)
(* one no other executable file is started, unless PATH names no directory *)
(* at all, when a name that was never set is used.  Nothing is said of a   *)
(* PATH with a component, before the command is found, that fits into      *)
(* pathname but not together with the command's name.                      *)
CommandFound ==
    fact.op = "search" =>
        LET dir(i) == directory(fact.path[i], fact.getcwd)
            last   == {i \in 1..Len(fact.path) : fact.path[i] = "" /\ i = Len(fact.path)}
            named  == {i \in 1..Len(fact.path) \ last : dir(i) # "skip"}
            tight  == {i \in named : fact.path[i] = "tight"}
            execs  == {i \in named \ tight : fact.has[dir(i)] = "exec"}
            first  == CHOOSE i \in execs : \A j \in execs : i <= j
        IN  /\ execs # {} /\ (\A i \in tight : i > first) => fact.out = dir(first)
            /\ execs = {} /\ tight = {} /\ fact.out # "died" =>
                  IF named = {} THEN fact.out = Stray ELSE fact.has[fact.out] \in {"file", "dir"}
=============================================================================
