----------------------------- MODULE Registers -----------------------------
(***************************************************************************)
(* How the tracer learns the kind of call a task makes and its result      *)
(* (syscall.c: get_regs, get_scno, update_personality, get_error), and how *)
(* it rewrites a fork on kernels that do not report new tasks (internal_-  *)
(* fork; setbpt and clearbpt of util.c).                                   *)
(*                                                                         *)
(* Personality 0 is 64-bit, 1 is 32-bit and 2 is x32.                      *)
(***************************************************************************)
EXTENDS Integers, Sequences, FiniteSets

CONSTANTS LONG, INT,    \* 2^64 and 2^32: values of a long and of an int
          nerrnos,      \* error numbers are 1..nerrnos - 1
          MaxStops      \* bound: stops of the tasks

ASSUME RegistersAssumption ==
    /\ INT \in Nat /\ LONG \in Nat /\ INT < LONG /\ LONG % INT = 0
    /\ nerrnos \in Nat \ {0} /\ 2 * nerrnos < INT /\ MaxStops \in Nat

VARIABLES modes,    \* the personality of the tracer and of two tasks
          trap      \* the registers of a task at a fork

-----------------------------------------------------------------------------
(* Personalities.  modes.cur is current_personality, modes.support is      *)
(* getregset_support, a task has the personality it really runs in (runs)  *)
(* and the one in its tcb (currpers).  entered, seen and alone are not in  *)
(* the code: the personality a call was entered in, those seen so far, and *)
(* whether there was only one task.                                        *)

Traced == 1..2
personality_wordsize(p) == IF p = 0 THEN LONG ELSE INT

(* Mutant: any failure means that the kernel has no PTRACE_GETREGSET. *)
get_regs_rash(support, kernel, dying) ==
    IF support > 0 THEN [support |-> 1, ok |-> ~dying]
    ELSE IF support = 0 /\ kernel /\ ~dying THEN [support |-> 1, ok |-> TRUE]
    ELSE [support |-> -1, ok |-> ~dying]
(* Whether PTRACE_GETREGSET works is found out once; a task that is dying  *)
(* does not count.                                                         *)
get_regs(support, kernel, dying) ==
    IF support > 0 THEN [support |-> 1, ok |-> ~dying]
    ELSE IF support = 0 /\ kernel /\ ~dying THEN [support |-> 1, ok |-> TRUE]
    ELSE IF support = 0 /\ dying THEN [support |-> 0, ok |-> FALSE]
    ELSE [support |-> -1, ok |-> ~dying]

(* The tables of calls, errors, ioctls and signals go with the personality *)
(* (sysent of Syscalls), and so does the word size.                        *)
set_personality(st, p) == [st EXCEPT !.cur = p]

(* Mutant: the tcb is not told. *)
update_personality_tracer(st, t, p) == set_personality(st, p)
update_personality(st, t, p) ==
    IF p = st.cur THEN st ELSE [set_personality(st, p) EXCEPT !.task[t].currpers = p]

(* A new task: it runs what its parent runs. *)
alloctcb_pers ==
    /\ modes.pc = "run" /\ ~modes.task[2].used
    /\ modes' = [modes EXCEPT !.task[2] = [@ EXCEPT !.used = TRUE, !.runs = modes.task[1].runs,
                                                    !.currpers = modes.cur],
                              !.alone = FALSE]

(* get_scno on entry: by the size of the register set, and bit 30 of the   *)
(* number, which a successful read gives away.                             *)
EnterCall(t, dying) ==
    LET task == modes.task[t]
        regs == get_regs(modes.support, modes.kernel, dying)
        read == [modes EXCEPT !.support = regs.support, !.n = @ + 1]
    IN  /\ modes.pc = "run" /\ modes.n < MaxStops
        /\ task.used /\ ~task.in /\ ~task.dying
        /\ modes' = IF ~regs.ok THEN [read EXCEPT !.task[t].dying = TRUE]
                    ELSE [update_personality(read, t, task.runs) EXCEPT
                             !.task[t].in = TRUE, !.task[t].entered = task.runs,
                             !.seen = @ \cup {task.runs}]

(* execve replaces the program of a task while it is in the call. *)
ChangeProgram(t, p) ==
    /\ modes.pc = "run" /\ modes.task[t].in /\ modes.task[t].runs # p /\ ~modes.task[t].changed
    /\ modes' = [modes EXCEPT !.task[t].runs = p, !.task[t].changed = TRUE]

(* The value v of a long as another width sees it. *)
unsigned(v, w) == v % w
signed(v, w)   == LET u == v % w IN IF 2 * u >= w THEN u - w ELSE u

(* Mutant: the last error number is taken for a value. *)
is_negated_errno_strict(val, p) ==
    LET w == personality_wordsize(p) IN unsigned(val, w) > unsigned(-nerrnos, w) + 1
is_negated_errno(val, p) ==
    LET w == personality_wordsize(p) IN unsigned(val, w) > unsigned(-nerrnos, w)

(* What the exit of a call is taken for, from the value the kernel left in *)
(* rax: a 32-bit register set is sign-extended.  Of the calls that never   *)
(* fail (SYSCALL_NEVER_FAILS) every value is a result.                     *)
get_error(rax, narrow, p, check_errno) ==
    LET r == IF narrow THEN signed(rax, INT) ELSE signed(rax, LONG)
    IN  IF check_errno /\ is_negated_errno(r, p) THEN [u_rval |-> -1, u_error |-> -r]
        ELSE [u_rval |-> r, u_error |-> 0]

ExitCall(t, rax, fails) ==
    LET task == modes.task[t]
        st   == update_personality(modes, t, task.currpers)
    IN  /\ modes.pc = "run" /\ modes.n < MaxStops /\ task.in
        /\ modes' = [st EXCEPT
              !.n = @ + 1, !.task[t].in = FALSE,
              !.last = [task |-> t, rax |-> rax, runs |-> task.runs, entered |-> task.entered,
                        decoded |-> st.cur, fails |-> fails,
                        got |-> get_error(rax, task.runs = 1, st.cur, fails)]]

-----------------------------------------------------------------------------
(* The fork of a task, on kernels without PTRACE_O_TRACEFORK and the like. *)
(* A register holds a word, with flags where clone has its flags, and with *)
(* bit 30 in the number of an x32 call.                                    *)

Regs == {"orig_rax", "rdi", "rsi", "rbx", "rcx"}
Plain(name) == [word |-> name, flags |-> {}]
Flags(fs)   == [word |-> "flags", flags |-> fs]
call_number(call, p) == [word |-> call, flags |-> IF p = 2 THEN {"__X32_SYSCALL_BIT"} ELSE {}]

(* Where the kernel finds the first two arguments, and where the code      *)
(* takes them to be: the test is for any personality but 0.                *)
arg0(p) == IF p = 1 THEN "rbx" ELSE "rdi"
arg1(p) == IF p = 1 THEN "rcx" ELSE "rsi"
arg0_offset(p) == IF p # 0 THEN "rbx" ELSE "rdi"
arg1_offset(p) == IF p # 0 THEN "rcx" ELSE "rsi"

SetOptionsComplete == trap.options = {"CLONE", "FORK", "VFORK"}

(* setbpt: a fork or vfork becomes a clone, a clone gets CLONE_PTRACE.     *)
change_to_clone_vfork(fs) == fs \cup {"PTRACE"}                        \* Mutant
change_to_clone(fs) == IF "VFORK" \in fs THEN (fs \cup {"PTRACE"}) \ {"VFORK", "VM"} ELSE fs \cup {"PTRACE"}
setbpt_fork(tr) ==
    LET p == tr.pers
    IN  [tr EXCEPT !.inst = <<tr.regs[arg0_offset(p)], tr.regs[arg1_offset(p)]>>,
                   !.regs["orig_rax"] = Plain("clone"),
                   !.regs[arg0_offset(p)] = Flags({"PTRACE"}),
                   !.regs[arg1_offset(p)] = Plain("0"),
                   !.bptset = TRUE]
setbpt_clone(tr) ==
    LET p == tr.pers
    IN  [tr EXCEPT !.inst = <<tr.regs[arg0(p)], tr.regs[arg1(p)]>>,
                   !.regs[arg0_offset(p)] = Flags(change_to_clone(tr.regs[arg0(p)].flags)),
                   !.bptset = TRUE]

(* setbpt fails if the task has been killed, and the failure is ignored.   *)
internal_fork_entering(killed) ==
    /\ trap.pc = "enter"
    /\ trap' = [(IF killed \/ SetOptionsComplete \/ ~trap.followfork
                    \/ (trap.call = "clone" /\ "UNTRACED" \in trap.regs[arg0(trap.pers)].flags)
                 THEN trap
                 ELSE IF trap.call = "clone" THEN setbpt_clone(trap) ELSE setbpt_fork(trap))
                EXCEPT !.pc = IF killed THEN "dead" ELSE "kernel"]

(* The kernel makes the new task out of what is in the registers. *)
KernelForks ==
    LET nr == trap.regs["orig_rax"].word
        fs == IF nr = "clone" THEN trap.regs[arg0(trap.pers)].flags ELSE {}
    IN  /\ trap.pc = "kernel"
        /\ trap' = [trap EXCEPT !.pc = "exit",
                                !.child = IF "UNTRACED" \notin fs
                                             /\ ("PTRACE" \in fs \/ SetOptionsComplete)
                                          THEN "traced" ELSE "untraced",
                                !.waits = nr = "vfork" \/ "VFORK" \in fs,
                                !.shares = nr = "vfork" \/ "VM" \in fs]

(* The number put back is scno, from which get_scno has taken bit 30.  Of  *)
(* a task that has been killed (ESRCH) only the flag is cleared.           *)
(* Mutant: the number of the call stays that of clone.                     *)
clearbpt_number(tr) ==
    [tr EXCEPT !.regs[arg0_offset(tr.pers)] = tr.inst[1], !.regs[arg1_offset(tr.pers)] = tr.inst[2],
               !.bptset = FALSE]
clearbpt(tr) ==
    [tr EXCEPT !.regs["orig_rax"] = Plain(tr.call),
               !.regs[arg0_offset(tr.pers)] = tr.inst[1], !.regs[arg1_offset(tr.pers)] = tr.inst[2],
               !.bptset = FALSE]
(* On exit, or when the task is detached from; a call that is to be        *)
(* restarted is entered again.                                             *)
internal_fork_exiting(again, killed) ==
    /\ trap.pc = "exit"
    /\ trap' = IF killed THEN [trap EXCEPT !.bptset = FALSE, !.pc = "dead"]
               ELSE [(IF trap.bptset THEN clearbpt(trap) ELSE trap)
                     EXCEPT !.pc = IF again /\ trap.forks = 0 THEN "enter" ELSE "done", !.forks = 1]

-----------------------------------------------------------------------------
ModesInit ==
    \E kernel \in BOOLEAN :
        modes = [pc |-> "run", n |-> 0, kernel |-> kernel, support |-> 0, cur |-> 0,
                 task |-> [t \in Traced |-> [used |-> t = 1, runs |-> 0, currpers |-> 0, in |-> FALSE,
                                            entered |-> 0, changed |-> FALSE, dying |-> FALSE]],
                 seen |-> {}, alone |-> TRUE,
                 last |-> [task |-> 0, rax |-> 0, runs |-> 0, entered |-> 0, decoded |-> 0,
                           fails |-> FALSE, got |-> [u_rval |-> 0, u_error |-> 0]]]
(* Values around the errors of either width. *)
Results == {0, INT - 1, INT - nerrnos + 1, INT - nerrnos, LONG - 1, LONG - nerrnos + 1, LONG - nerrnos,
            LONG - INT - 1}
ModesNext ==
    \/ alloctcb_pers
    \/ \E t \in Traced, dying \in BOOLEAN : EnterCall(t, dying)
    \/ \E t \in Traced, p \in 0..2 : ChangeProgram(t, p)
    \/ \E t \in Traced, rax \in Results, fails \in BOOLEAN : ExitCall(t, rax, fails)

NoModes == modes = [pc |-> "none"]
NoTrap  == trap = [pc |-> "none"]
TrapInit ==
    \E p \in 0..2, call \in {"fork", "vfork", "clone"}, fs \in SUBSET {"VM", "VFORK", "UNTRACED"},
       options \in SUBSET {"CLONE", "FORK", "VFORK"}, followfork \in BOOLEAN :
        LET regs == [r \in Regs |-> IF r = "orig_rax" THEN call_number(call, p)
                                    ELSE IF call = "clone" /\ r = arg0(p) THEN Flags(fs) ELSE Plain(r)]
        IN  trap = [pc |-> "enter", pers |-> p, call |-> call, options |-> options,
                    followfork |-> followfork, regs |-> regs, before |-> regs,
                    inst |-> <<Plain("0"), Plain("0")>>, bptset |-> FALSE, forks |-> 0,
                    child |-> "none", waits |-> FALSE, shares |-> FALSE]
TrapNext ==
    \/ \E killed \in BOOLEAN : internal_fork_entering(killed)
    \/ KernelForks
    \/ \E again, killed \in BOOLEAN : internal_fork_exiting(again, killed)

RegistersSpec == ((ModesInit /\ NoTrap) \/ (NoModes /\ TrapInit))
                 /\ [][(ModesNext /\ UNCHANGED trap) \/ (TrapNext /\ UNCHANGED modes)]_<<modes, trap>>

-----------------------------------------------------------------------------
(* The exit of a call is decoded in the personality the call was entered   *)
(* in, through any execve, as long as there is one task, or no task was    *)
(* seen in another personality.  (With two tasks in two personalities it   *)
(* is not: update_personality leaves currpers as it was when the tracer    *)
(* is already in the personality the task has come to.)                    *)
PersonalityKept ==
    modes.pc = "run" /\ modes.last.task # 0 /\ (modes.alone \/ Cardinality(modes.seen) <= 1) =>
        modes.last.decoded = modes.last.entered

(* What getregset_support remembers is what the kernel can do, whichever   *)
(* task was killed while it was being found out.                           *)
SupportSound ==
    modes.pc = "run" => /\ modes.support > 0 => modes.kernel
                        /\ modes.support < 0 => ~modes.kernel

(* A call decoded in the personality it ran in, if it can fail at all, has *)
(* failed exactly if the kernel returned an error, and the number is that  *)
(* error.  x32 is left out: its results are long, but compared as ints,    *)
(* so some large ones are errors.                                          *)
ErrnoExact ==
    modes.pc = "run" /\ modes.last.task # 0
        /\ modes.last.decoded = modes.last.runs /\ modes.last.runs # 2 =>
        LET w == IF modes.last.runs = 0 THEN LONG ELSE INT
            r == signed(modes.last.rax, w)
            error == modes.last.fails /\ r \in -(nerrnos - 1)..-1
        IN  modes.last.got = IF error THEN [u_rval |-> -1, u_error |-> -r]
                             ELSE [u_rval |-> r, u_error |-> 0]

(* With -f, the child of a fork is traced, unless the program asked that   *)
(* it should not be; and a parent whose fork was rewritten never waits for *)
(* a child that is stopped, nor shares its memory by having waited.        *)
(* Except that in x32 the flags of clone are put into the wrong register.  *)
ForkFollowed ==
    trap.pc \in {"exit", "done"} /\ trap.followfork /\ ~(trap.pers = 2) =>
        /\ trap.child = "traced" \/ "UNTRACED" \in trap.before[arg0(trap.pers)].flags
        /\ trap.bptset => ~trap.waits
        /\ trap.bptset /\ trap.shares =>
              trap.call = "clone" /\ "VFORK" \notin trap.before[arg0(trap.pers)].flags

(* After the call the registers are those the program had, so that it goes *)
(* on as if it had not been traced, and a call that is restarted is the    *)
(* same call again.  Except in x32, where the number of a call that was    *)
(* rewritten comes back without bit 30, so that a restart makes the 64-bit *)
(* call, and the arguments are taken from and put into wrong registers.    *)
TrapTransparent ==
    trap.pc \in {"enter", "done"} =>
        ~trap.bptset /\ (trap.pers # 2 => trap.regs = trap.before)

(* The number, result and error of a call are those of the call that was   *)
(* made, whichever tasks stopped in between and in which personality.      *)
DecodedRight == PersonalityKept /\ SupportSound /\ ErrnoExact

(* A fork that is rewritten is followed, and the program cannot tell.      *)
ForksTransparent == ForkFollowed /\ TrapTransparent
=============================================================================
