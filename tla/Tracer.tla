------------------------------- MODULE Tracer -------------------------------
(***************************************************************************)
(* The main loop of alice-strace (trace, alice-strace.c): which task the   *)
(* kernel reports, what is done about it, and what that leaves in the      *)
(* task table and in the files of each task (-ff, PTRACE_SEIZE, one log    *)
(* and one file of stack traces per pid).                                  *)
(*                                                                         *)
(* The kernel is external.  It is modelled from what the loop relies on: a *)
(* task stops when it enters or leaves a call, gets a signal, forks or     *)
(* executes; a stop is reported once; a SIGKILL ends every task of a group *)
(* even in the middle of the tracer's handling of one; the leader of a     *)
(* group is reported dead after its threads; a thread that executes takes  *)
(* over the leader's pid, and the leader vanishes unreported.              *)
(***************************************************************************)
EXTENDS Integers, Sequences, FiniteSets, SequencesExt

CONSTANT Modes   \* how the tracer was started (with a command or with -p; may it be interrupted); is
                 \* pid 3 a thread too; and the bounds: threads to attach, calls a task makes before
                 \* its last, signals sent

ASSUME TracerAssumption ==
    Modes \subseteq [launch : BOOLEAN, interactive : BOOLEAN, third : BOOLEAN, threads : 1..2,
                     calls : Nat, signals : Nat]

VARIABLES
    task,      \* the kernel's view of each pid
    gstop,     \* the thread groups stopped by a SIGSTOP
    tab,       \* tcbtab
    nprocs,    \* how many entries of it are in use
    trc,       \* the tracer: where it is, the status it has in hand
    log,       \* per pid, the lines of FILE.pid
    stack      \* per pid, the calls whose stack traces are in FILE.stackinfo.pid

vars == <<task, gstop, tab, nprocs, trc, log, stack>>

(* Pid 1 is the command, 2 a thread of it, 3 another process or thread. *)
Pids      == 1..3
Group(p)  == IF p = 2 \/ (p = 3 /\ trc.third) THEN 1 ELSE p
Leaders   == {p \in Pids : Group(p) = p}
Mates(p)  == {q \in Pids \ {p} : Group(q) = Group(p)}
child     == 1                                \* strace_child

Signals   == {"USR", "TERM", "STOP", "CONT"}  \* caught by the task; fatal; stops; continues
TSTOP     == "tracer's SIGSTOP"

Event(k, n) == [k |-> k, n |-> n]
NoEvent   == Event("none", 0)

(* n counts the events of a pid; event is the one the tracer has yet to be *)
(* told of; old is the pid a task had before it executed; sys: it was last *)
(* resumed with PTRACE_SYSCALL.                                            *)
NoTask == [life |-> "none", how |-> "none", mode |-> "user", call |-> "none", stop |-> "none",
           seen |-> FALSE, listen |-> FALSE, traced |-> FALSE, sys |-> TRUE, cur |-> "none", sig |-> {},
           left |-> 0, n |-> 0, event |-> NoEvent, old |-> 0]
NewTask(calls) == [NoTask EXCEPT !.life = "live", !.left = calls]

Live(p)    == task[p].life = "live"
Stopped(p) == Live(p) /\ task[p].traced /\ task[p].stop # "none"
Over       == {"done", "mistaken"}
Runs(p)    == trc.pc # "mistaken" /\ Live(p) /\ task[p].traced /\ task[p].stop = "none" /\ ~task[p].listen

-----------------------------------------------------------------------------
(* The kernel.                                                             *)

StopsAt(t, kind) == [t EXCEPT !.stop = kind, !.seen = FALSE]
Happens(t, kind, ev) ==
    [StopsAt(t, kind) EXCEPT !.n = @ + 1, !.event = Event(ev, t.n + 1)]
Dies(t, how) ==
    [t EXCEPT !.life = IF t.traced THEN "zombie" ELSE "gone", !.how = how, !.stop = "none", !.seen = FALSE, !.listen = FALSE,
              !.sig = {}, !.n = @ + 1, !.event = Event(how, t.n + 1)]
GroupDies(g, how, tasks) ==
    [p \in Pids |-> IF Group(p) = g /\ tasks[p].life = "live" THEN Dies(tasks[p], how) ELSE tasks[p]]

Exits    == {"_exit", "exit_group"}
Calls(p) ==
    IF trc.hide THEN {"exec"}                 \* what exec_or_die does next
    ELSE Exits \cup
         IF task[p].left = 0 THEN {}
         ELSE {"plain", "exec"}
              \cup (IF task[2].life = "none" /\ p = 1 THEN {"thread"} ELSE {})
              \cup (IF task[3].life = "none" THEN {"fork"} ELSE {})

(* External: a task enters a call.  A pending signal comes first.  One     *)
(* that was resumed with PTRACE_CONT does not stop.                        *)
EntersCall(p) ==
    /\ Runs(p) /\ task[p].mode = "user" /\ task[p].sig = {} /\ Group(p) \notin gstop
    /\ \E c \in IF task[p].sys THEN Calls(p) ELSE Exits :
          task' = IF ~task[p].sys THEN [task EXCEPT ![p].mode = "kernel", ![p].call = c] ELSE
                  [task EXCEPT ![p] = [Happens(task[p], "enter", "call") EXCEPT
                       !.call = c, !.left = IF @ > 0 /\ c \notin Exits THEN @ - 1 ELSE @]]
    /\ UNCHANGED <<gstop, tab, nprocs, trc, log, stack>>

(* External: the kernel serves it. *)
Served(p) ==
    LET t      == task[p]
        new    == IF t.call = "fork" THEN 3 ELSE 2
        forks  == t.call \in {"fork", "thread"} /\ task[new].life = "none"
        others == {q \in Mates(p) : Live(q)}
        unreported == \E q \in Mates(p) \ Leaders : task[q].life = "zombie"
        after  == [StopsAt(t, "exec") EXCEPT !.call = "plain", !.old = p]
    IN  CASE t.call \in {"plain", "fork", "thread"} /\ ~forks ->
                {[task EXCEPT ![p] = IF t.sys THEN StopsAt(t, "exit")
                                     ELSE [t EXCEPT !.mode = "user", !.call = "none"]]}
          [] forks ->
                {[task EXCEPT ![p] = [StopsAt(t, "fork") EXCEPT !.call = "plain"],
                              ![new] = [StopsAt(NewTask(IF new = 3 THEN 0 ELSE 1), "trap") EXCEPT !.traced = TRUE]]}
          [] t.call = "exec" /\ others # {} ->                \* the other threads die first
                {[q \in Pids |-> IF q \in others THEN Dies(task[q], "exited") ELSE task[q]]}
          [] t.call = "exec" /\ others = {} /\ unreported ->    \* and have been reported
                {}
          [] t.call = "exec" /\ others = {} /\ ~unreported /\ p \in Leaders ->
                {[task EXCEPT ![p] = after]}
          [] t.call = "exec" /\ others = {} /\ ~unreported /\ p \notin Leaders ->
                {[task EXCEPT ![Group(p)] = [after EXCEPT !.n = task[Group(p)].n - 1],
                              ![p] = [NoTask EXCEPT !.life = "gone", !.n = t.n]]}
          [] t.call = "_exit" -> {[task EXCEPT ![p] = Dies(t, "exited")]}
          [] t.call = "exit_group" -> {GroupDies(Group(p), "exited", task)}
ServesCall(p) ==
    /\ Runs(p) /\ task[p].mode = "kernel"
    /\ task' \in Served(p)
    /\ UNCHANGED <<gstop, tab, nprocs, trc, log, stack>>

(* External: back in user mode, a task takes a signal, the tracer's first, *)
(* or stops with its group; a task that listens is told when that ends.    *)
TakesSignal(p) ==
    /\ Runs(p) /\ task[p].mode = "user"
    /\ \E s \in task[p].sig :
          /\ TSTOP \in task[p].sig => s = TSTOP
          /\ task' = [task EXCEPT ![p] =
                 [(IF s = TSTOP THEN StopsAt(@, "sig") ELSE Happens(@, "sig", "sig"))
                    EXCEPT !.cur = s, !.sig = @ \ {s}]]
    /\ UNCHANGED <<gstop, tab, nprocs, trc, log, stack>>
JoinsGroupStop(p) ==
    /\ \/ Runs(p) /\ task[p].mode = "user" /\ task[p].sig = {} /\ Group(p) \in gstop
          /\ task' = [task EXCEPT ![p] = StopsAt(@, "group")]
       \/ trc.pc # "mistaken" /\ Live(p) /\ task[p].listen /\ Group(p) \notin gstop
          /\ task' = [task EXCEPT ![p] = [StopsAt(@, "trap") EXCEPT !.listen = FALSE]]
    /\ UNCHANGED <<gstop, tab, nprocs, trc, log, stack>>

(* External: a signal for a group, put where one of its tasks p takes it.  *)
(* SIGCONT and SIGSTOP cancel each other.                                  *)
WithSignal(tasks, p, s) ==
    LET cancels == CASE s = "CONT" -> {"STOP", TSTOP} [] s \in {"STOP", TSTOP} -> {"CONT"} [] OTHER -> {}
        flushed == [q \in Pids |-> IF Group(q) = Group(p) THEN [tasks[q] EXCEPT !.sig = @ \ cancels]
                                   ELSE tasks[q]]
    IN  [flushed EXCEPT ![p].sig = @ \cup {s}]
SendSignal(p, s) ==
    /\ Live(p) /\ task[p].traced /\ s \notin task[p].sig
    /\ s = "CONT" => Group(p) \in gstop
    /\ trc.signals > 0 /\ trc.pc \notin Over
    /\ task' = WithSignal(task, p, s)
    /\ gstop' = IF s = "CONT" THEN gstop \ {Group(p)} ELSE gstop
    /\ trc' = [trc EXCEPT !.signals = @ - 1, !.quiet = FALSE]
    /\ UNCHANGED <<tab, nprocs, log, stack>>
SendKill(g) ==
    /\ \E p \in Pids : Group(p) = g /\ Live(p)
    /\ trc.signals > 0 /\ trc.pc \notin Over
    /\ task' = GroupDies(g, "killed", task)
    /\ gstop' = gstop \ {g}
    /\ trc' = [trc EXCEPT !.signals = @ - 1, !.quiet = FALSE]
    /\ UNCHANGED <<tab, nprocs, log, stack>>

(* External: ptrace resumes a stopped task, injecting s. *)
Resumed(tasks, p, s, sys) ==
    LET t == tasks[p]
        u == [t EXCEPT !.stop = "none", !.cur = "none", !.event = NoEvent, !.sys = sys,
                       !.mode = CASE t.stop = "enter" -> "kernel" [] t.stop = "exit" -> "user" [] OTHER -> @,
                       !.call = IF t.stop = "exit" THEN "none" ELSE @]
        all == [tasks EXCEPT ![p] = u]
    IN  IF t.stop = "sig" /\ s = "TERM" THEN GroupDies(Group(p), "killed", all) ELSE all
GstopAfter(p, s) == IF task[p].stop = "sig" /\ s = "STOP" THEN gstop \cup {Group(p)} ELSE gstop

(* External: what wait may report: a stop not reported before, or a death, *)
(* that of a leader after those of its threads.                            *)
Reportable(p) ==
    \/ Stopped(p) /\ ~task[p].seen
    \/ /\ task[p].life = "zombie" /\ task[p].traced
       /\ p \in Leaders => \A q \in Mates(p) : task[q].life \in {"none", "gone"}
Reported(p) ==
    IF Stopped(p) THEN [task EXCEPT ![p].seen = TRUE] ELSE [task EXCEPT ![p].life = "gone"]
Status(p) ==
    IF Stopped(p) THEN [p |-> p, what |-> task[p].stop, sig |-> task[p].cur, n |-> task[p].n]
    ELSE [p |-> p, what |-> task[p].how, sig |-> "none", n |-> task[p].n]
NoStatus == [p |-> 0, what |-> "none", sig |-> "none", n |-> 0]

-----------------------------------------------------------------------------
(* The task table.  out, dumpf and stackf are the pids whose files a tcb   *)
(* writes to; open: a line is unfinished (curcol is not 0).                *)

NoTcb == [pid |-> 0, attached |-> FALSE, startup |-> FALSE, insys |-> FALSE, strace_child |-> FALSE,
          reprint |-> FALSE, open |-> FALSE, out |-> 0, dumpf |-> 0, stackf |-> 0]
Slots == 1..Len(tab)
pid2tcb(t, p) == {i \in 1..Len(t) : t[i].pid = p}

(* Twice as many entries when all are in use; the first free one is taken. *)
expand_tcbtab(t) == IF \A i \in 1..Len(t) : t[i].pid # 0 THEN t \o [i \in 1..Len(t) |-> NoTcb] ELSE t
alloctcb(t, p, tcb) ==
    LET bigger == expand_tcbtab(t)
        free   == CHOOSE i \in 1..Len(bigger) :
                     bigger[i].pid = 0 /\ \A j \in 1..i - 1 : bigger[j].pid # 0
    IN  [bigger EXCEPT ![free] = [tcb EXCEPT !.pid = p]]

(* An attached task has files of its own, empty ones. *)
newoutf(tcb, p) == [tcb EXCEPT !.out = p, !.dumpf = p, !.stackf = p]
Attached(tcb, p) == newoutf([tcb EXCEPT !.attached = TRUE, !.startup = TRUE], p)
Emptied(files, ps) == [p \in Pids |-> IF p \in ps THEN <<>> ELSE files[p]]

-----------------------------------------------------------------------------
(* Lines.  A line is open until its newline.                               *)

Line(kind, n, end) == [kind |-> kind, n |-> n, end |-> end]
EndLine(lines, e) == [lines EXCEPT ![Len(lines)].end = e]

(* A line of tcb that is still open is closed first, if curcol says so. *)
printleader_bare(lines, tcb) == lines[tcb.out]      \* Mutant: it is left open
printleader(lines, tcb) == IF tcb.open THEN EndLine(lines[tcb.out], "unfinished") ELSE lines[tcb.out]
WriteLine(lines, tcb, line) == [lines EXCEPT ![tcb.out] = Append(printleader(lines, tcb), line)]

Unfinished(p) == log[p] # <<>> /\ Last(log[p]).end = "open"

(* droptcb: a line of its own still open ends with " <detached ...>". *)
droptcb_lines(lines, tcb) ==
    IF tcb.open THEN [lines EXCEPT ![tcb.out] = EndLine(@, "detached")] ELSE lines

-----------------------------------------------------------------------------
(* The main loop.                                                          *)

GoesTo(pc, printing) ==
    trc' = [trc EXCEPT !.pc = pc, !.got = NoStatus, !.rsig = "none", !.i = 1, !.printing = printing]
Goto(pc) == GoesTo(pc, trc.printing)

(* wait4 returns a status; a task never seen before gets a tcb. *)
nprocs_with_always(unknown) == nprocs + 1      \* Mutant: a tcb counted at every status
nprocs_with(unknown) == IF unknown THEN nprocs + 1 ELSE nprocs
WaitReturns(p) ==
    LET unknown == pid2tcb(tab, p) = {}
    IN  /\ trc.pc = "wait" /\ nprocs # 0 /\ (trc.interrupted => trc.waiting)
        /\ Reportable(p)
        /\ task' = Reported(p)
        /\ trc' = [trc EXCEPT !.pc = "handle", !.got = Status(p), !.waiting = FALSE]
        /\ tab' = IF unknown THEN alloctcb(tab, p, Attached(NoTcb, p)) ELSE tab
        /\ nprocs' = nprocs_with(unknown)
        /\ log' = IF unknown THEN Emptied(log, {p}) ELSE log
        /\ stack' = IF unknown THEN Emptied(stack, {p}) ELSE stack
        /\ UNCHANGED gstop

(* Nobody left, nobody to wait for, or interrupted: cleanup. *)
TraceReturns ==
    /\ trc.pc = "wait"
    /\ \/ nprocs = 0
       \/ trc.interrupted
       \/ \A p \in Pids : ~task[p].traced \/ task[p].life \in {"none", "gone"}
    /\ Goto("cleanup")
    /\ UNCHANGED <<task, gstop, tab, nprocs, log, stack>>

(* A fatal signal for the tracer, while it waits (INTR_WHILE_WAIT); wait4  *)
(* may already have a status to return.                                    *)
interrupt ==
    /\ trc.pc = "wait" /\ trc.interactive /\ ~trc.interrupted
    /\ \E w \in IF nprocs # 0 THEN BOOLEAN ELSE {FALSE} :
          trc' = [trc EXCEPT !.interrupted = TRUE, !.waiting = w]
    /\ UNCHANGED <<task, gstop, tab, nprocs, log, stack>>

Handling(what) == trc.pc = "handle" /\ trc.got.what \in what
Got   == trc.got.p
Slot  == CHOOSE i \in Slots : tab[i].pid = Got
tcp   == tab[Slot]
(* The task is still in the stop that was reported. *)
There == Stopped(Got) /\ task[Got].stop = trc.got.what /\ task[Got].n = trc.got.n

(* The pid has changed hands since (a thread of the group has executed):   *)
(* what the tracer now does is done to another task.  The model ends here. *)
Mistaken ==
    /\ trc.pc \in {"handle", "restart"} /\ trc.got.what \notin {"killed", "exited"}
    /\ Stopped(Got) /\ ~There
    /\ Goto("mistaken")
    /\ UNCHANGED <<task, gstop, tab, nprocs, log, stack>>

(* Killed by a signal, or exited.  The command decides the exit code. *)
exit_code_last(p, what) == IF trc.launch THEN what ELSE trc.exit_code      \* Mutant: any task does
exit_code(p, what) == IF trc.launch /\ p = child THEN what ELSE trc.exit_code
HandleDeath ==
    /\ Handling({"killed", "exited"})
    /\ log' = WriteLine(log, tcp, Line(trc.got.what, trc.got.n, "ended"))
    /\ tab' = [tab EXCEPT ![Slot] = NoTcb]
    /\ nprocs' = nprocs - 1
    /\ trc' = [trc EXCEPT !.pc = "wait", !.got = NoStatus, !.printing = 0,
                          !.exit_code = exit_code(Got, trc.got.what)]
    /\ UNCHANGED <<task, gstop, stack>>

(* printing is printing_tcp: the tcb of the line that is being written. *)
Restarts(s, printing) == trc' = [trc EXCEPT !.pc = "restart", !.rsig = s, !.printing = printing]
Restarting(s) == Restarts(s, trc.printing)

(* The first stop of a task, or a fork: nothing to do but to resume it. *)
HandleTrap_toggles ==      \* Mutant: taken for a stop of a call
    /\ Handling({"trap", "fork"}) /\ (There \/ ~Live(Got))
    /\ tab' = [tab EXCEPT ![Slot].startup = FALSE, ![Slot].insys = ~@]
    /\ Restarting("none")
    /\ UNCHANGED <<task, gstop, nprocs, log, stack>>
HandleTrap_leaves ==       \* Mutant: the task is not resumed
    /\ Handling({"trap", "fork"}) /\ (There \/ ~Live(Got))
    /\ tab' = [tab EXCEPT ![Slot].startup = FALSE]
    /\ Goto("wait")
    /\ UNCHANGED <<task, gstop, nprocs, log, stack>>
HandleTrap ==
    /\ Handling({"trap", "fork"}) /\ (There \/ ~Live(Got))
    /\ tab' = [tab EXCEPT ![Slot].startup = FALSE]
    /\ Restarting("none")
    /\ UNCHANGED <<task, gstop, nprocs, log, stack>>

(* An execve has succeeded.  If a thread made it, its tcb takes over the   *)
(* leader's pid and, by a swap, the leader's files; the leader's tcb is    *)
(* dropped with the thread's.  The thread's line stays unfinished in its   *)
(* own file, and the end of the call will be printed anew.                 *)
swap_log_only(i, j, t) ==        \* Mutant: the stack traces stay with the thread
    [t EXCEPT ![i].out = t[j].out, ![i].dumpf = t[j].dumpf, ![j].out = t[i].out, ![j].dumpf = t[i].dumpf]
swap_files(i, j, t) ==
    [t EXCEPT ![i].out = t[j].out, ![i].dumpf = t[j].dumpf, ![i].stackf = t[j].stackf,
              ![j].out = t[i].out, ![j].dumpf = t[i].dumpf, ![j].stackf = t[i].stackf]
HandleExec ==
    LET old     == task[Got].old
        threads == IF There /\ old # Got THEN pid2tcb(tab, old) ELSE {}
    IN  /\ Handling({"exec"}) /\ (There \/ ~Live(Got))
        /\ IF threads = {}
           THEN UNCHANGED <<tab, nprocs, log>> /\ Restarting("none")
           ELSE LET i       == CHOOSE k \in threads : TRUE
                    swapped == swap_files(i, Slot, tab)
                    changed == IF tab[i].open THEN [log EXCEPT ![tab[i].out] = EndLine(@, "changed")] ELSE log
                    leader  == [swapped[i] EXCEPT !.pid = Got, !.open = tcp.open]
                    led     == WriteLine(changed, leader, Line("superseded", 0, "ended"))
                IN  /\ tab' = [swapped EXCEPT ![Slot] = NoTcb,
                                  ![i] = [leader EXCEPT !.open = FALSE, !.reprint = TRUE]]
                    /\ nprocs' = nprocs - 1
                    /\ log' = led
                    /\ Restarts("none", 0)
        /\ UNCHANGED <<task, gstop, stack>>

(* A group stop is shown, and kept (PTRACE_LISTEN). *)
HandleGroupStop ==
    /\ Handling({"group"}) /\ (There \/ ~Live(Got))
    /\ log' = IF trc.hide THEN log ELSE WriteLine(log, tcp, Line("stopped", 0, "ended"))
    /\ tab' = [tab EXCEPT ![Slot].open = @ /\ trc.hide, ![Slot].startup = FALSE]
    /\ task' = IF There THEN [task EXCEPT ![Got].stop = "none", ![Got].listen = TRUE] ELSE task
    /\ GoesTo("wait", IF trc.hide THEN trc.printing ELSE 0)
    /\ UNCHANGED <<gstop, nprocs, stack>>

(* A signal is shown, and injected when the task is resumed.  If the task  *)
(* has been killed meanwhile, this is taken for a group stop.              *)
HandleSignal ==
    /\ Handling({"sig"}) /\ (There \/ ~Live(Got))
    /\ log' = IF trc.hide THEN log
              ELSE WriteLine(log, tcp, Line(IF There THEN "sig" ELSE "stopped", trc.got.n, "ended"))
    /\ tab' = [tab EXCEPT ![Slot].open = @ /\ trc.hide, ![Slot].startup = FALSE]
    /\ LET printing == IF trc.hide THEN trc.printing ELSE 0
       IN  IF There THEN Restarts(trc.got.sig, printing) ELSE GoesTo("wait", printing)
    /\ UNCHANGED <<task, gstop, nprocs, stack>>

(* Entry to a call or return from it, told apart by the tcb alone. *)
SyscallStop == Handling({"enter", "exit"}) /\ ~trc.interrupted /\ (There \/ ~Live(Got))

(* Interrupted: the stop is left as it is. *)
HandleInterrupted ==
    /\ Handling({"enter", "exit"}) /\ trc.interrupted
    /\ Goto("cleanup")
    /\ UNCHANGED <<task, gstop, tab, nprocs, log, stack>>

(* Before the first execve nothing is printed.  Each line of a call has a  *)
(* stack trace.                                                            *)
shown_after_exec(c) == ~trc.hide      \* Mutant: nor is the execve
shown(c) == ~trc.hide \/ c = "exec"
output_stacktrace(tcb, n) == [stack EXCEPT ![tcb.stackf] = Append(@, n)]

(* _exit never returns: its line is finished at once. *)
trace_syscall_entering ==
    LET c == task[Got].call
    IN  /\ SyscallStop /\ ~tcp.insys /\ There
        /\ log' = IF shown(c) THEN WriteLine(log, tcp, Line("call", task[Got].n, IF c \in Exits THEN "ended" ELSE "open"))
                  ELSE log
        /\ stack' = IF shown(c) THEN output_stacktrace(tcp, task[Got].n) ELSE stack
        /\ tab' = [tab EXCEPT ![Slot].insys = TRUE, ![Slot].open = shown(c) /\ c \notin Exits]
        /\ trc' = [trc EXCEPT !.pc = "restart", !.hide = @ /\ c # "exec",
                     !.printing = IF ~shown(c) THEN @ ELSE IF c \in Exits THEN 0 ELSE Slot]
        /\ UNCHANGED <<task, gstop, nprocs>>

trace_syscall_exiting ==
    LET resumed == IF tcp.reprint THEN WriteLine(log, tcp, Line("resumed", 0, "ended"))
                   ELSE [log EXCEPT ![tcp.out] = EndLine(@, "ended")]
    IN  /\ SyscallStop /\ tcp.insys /\ There
        /\ log' = IF trc.hide THEN log ELSE resumed
        /\ tab' = [tab EXCEPT ![Slot].insys = FALSE, ![Slot].open = FALSE, ![Slot].reprint = FALSE]
        /\ Restarts("none", IF trc.hide THEN trc.printing ELSE 0)
        /\ UNCHANGED <<task, gstop, nprocs, stack>>

(* The registers cannot be read: the task has been killed.  It is not      *)
(* resumed; its death will be reported.                                    *)
trace_syscall_fails ==
    /\ SyscallStop /\ ~There
    /\ log' = IF ~tcp.insys THEN WriteLine(log, tcp, Line("????", 0, "open"))
              ELSE IF tcp.reprint \/ ~Unfinished(tcp.out) THEN WriteLine(log, tcp, Line("resumed", 0, "unavailable"))
              ELSE [log EXCEPT ![tcp.out] = EndLine(@, "unavailable")]
    /\ tab' = [tab EXCEPT ![Slot].insys = ~tcp.insys, ![Slot].open = ~tcp.insys, ![Slot].reprint = FALSE]
    /\ GoesTo("wait", IF tcp.insys THEN 0 ELSE Slot)
    /\ UNCHANGED <<task, gstop, nprocs, stack>>

(* ptrace_restart.  If the task is gone, an open line is ended; line_ended *)
(* then takes the line of printing_tcp, another task's maybe, to have      *)
(* ended as well.                                                          *)
line_ended(t) == [i \in 1..Len(t) |-> IF i \in {Slot, trc.printing} THEN [t[i] EXCEPT !.open = FALSE] ELSE t[i]]
Robbed == IF tcp.open THEN {tab[i].out : i \in {i \in Slots \cap {trc.printing} : i # Slot /\ tab[i].open}} ELSE {}
ptrace_restart ==
    /\ trc.pc = "restart" /\ (There \/ ~Live(Got))
    /\ IF There
       THEN /\ task' = Resumed(task, Got, trc.rsig, TRUE)
            /\ gstop' = GstopAfter(Got, trc.rsig)
            /\ UNCHANGED <<tab, log>>
            /\ Goto("wait")
       ELSE /\ log' = IF tcp.open THEN [log EXCEPT ![tcp.out] = EndLine(@, "esrch")] ELSE log
            /\ tab' = IF tcp.open THEN line_ended(tab) ELSE tab
            /\ trc' = [trc EXCEPT !.pc = "wait", !.got = NoStatus, !.rsig = "none", !.i = 1,
                                  !.printing = IF tcp.open THEN 0 ELSE @, !.robbed = @ \cup Robbed]
            /\ UNCHANGED <<task, gstop>>
    /\ UNCHANGED <<nprocs, stack>>

-----------------------------------------------------------------------------
(* startup_attach: for each -p, every thread of the process is seized; a   *)
(* tcb whose own pid could not be is dropped.  An interruption is noticed  *)
(* only in between, and before the drop.                                   *)

startup_attach(ok, intr) ==
    LET i     == trc.i
        p     == tab[i].pid
        tids  == {q \in Pids : Group(q) = p /\ Live(q)}
        Add(t, q) == IF q = p THEN [t EXCEPT ![i] = Attached(@, q)] ELSE alloctcb(t, q, Attached(NoTcb, q))
        added == FoldLeft(Add, tab, SetToSortSeq(ok, <))
        drops == p \notin ok /\ ~intr
    IN  /\ trc.pc = "attach" /\ i <= Len(tab)
        /\ p # 0 /\ ~tab[i].attached
        /\ ok \subseteq tids /\ \A q \in ok : ~task[q].traced
        /\ intr => trc.interactive
        /\ task' = [q \in Pids |-> IF q \in ok THEN [StopsAt(task[q], "trap") EXCEPT !.traced = TRUE]
                                   ELSE task[q]]
        /\ tab' = IF drops THEN [added EXCEPT ![i] = NoTcb] ELSE added
        /\ nprocs' = nprocs + Cardinality(ok \ {p}) - IF drops THEN 1 ELSE 0
        /\ log' = Emptied(log, ok)
        /\ stack' = Emptied(stack, ok)
        /\ trc' = [trc EXCEPT !.i = IF intr THEN 1 ELSE @ + 1, !.pc = IF intr THEN "wait" ELSE @,
                              !.interrupted = intr]
        /\ UNCHANGED gstop
startup_attach_skips ==
    /\ trc.pc = "attach"
    /\ trc.i \in {i \in Slots : tab[i].pid = 0 \/ tab[i].attached}
    /\ trc' = [trc EXCEPT !.i = @ + 1]
    /\ UNCHANGED <<task, gstop, tab, nprocs, log, stack>>
startup_attach_ends ==
    /\ trc.pc = "attach" /\ trc.i > Len(tab)
    /\ Goto("wait")
    /\ UNCHANGED <<task, gstop, tab, nprocs, log, stack>>

-----------------------------------------------------------------------------
(* cleanup and detach, tcb by tcb.                                         *)

Cur == tab[trc.i]
NextSlot(pc) ==
    trc' = [trc EXCEPT !.pc = pc, !.i = @ + 1, !.printing = IF @ = trc.i THEN 0 ELSE @]
Drop ==
    /\ tab' = [tab EXCEPT ![trc.i] = NoTcb]
    /\ nprocs' = nprocs - 1
    /\ log' = droptcb_lines(log, Cur)
    /\ NextSlot("cleanup")

CleanupSkips ==
    /\ trc.pc = "cleanup" /\ trc.i <= Len(tab) /\ Cur.pid = 0
    /\ NextSlot("cleanup")
    /\ UNCHANGED <<task, gstop, tab, nprocs, log, stack>>
CleanupEnds ==
    /\ trc.pc = "cleanup" /\ trc.i > Len(tab)
    /\ trc' = [trc EXCEPT !.pc = "done"]
    /\ UNCHANGED <<task, gstop, tab, nprocs, log, stack>>

(* The command itself is told to continue and to end. *)
CleanupKills ==
    /\ trc.pc = "cleanup" /\ trc.i <= Len(tab) /\ Cur.pid # 0
    /\ IF Cur.strace_child /\ Live(Cur.pid)
       THEN /\ task' = WithSignal(WithSignal(task, Cur.pid, "CONT"), Cur.pid, "TERM")
            /\ gstop' = gstop \ {Group(Cur.pid)}
       ELSE UNCHANGED <<task, gstop>>
    /\ trc' = [trc EXCEPT !.pc = "detach"]
    /\ UNCHANGED <<tab, nprocs, log, stack>>

Untraced(tasks, p) == [Resumed(tasks, p, "none", FALSE) EXCEPT ![p].traced = FALSE]

(* A stopped task is let go.  Otherwise PTRACE_DETACH fails: a task that   *)
(* is gone is forgotten, one that still exists is sent a SIGSTOP.          *)
detach ==
    LET p == Cur.pid
    IN  /\ trc.pc = "detach"
        /\ \/ /\ Cur.attached /\ Stopped(p)
              /\ task' = Untraced(task, p)
              /\ Drop
           \/ /\ ~Cur.attached \/ task[p].life \in {"none", "gone"}
              /\ UNCHANGED task
              /\ Drop
           \/ /\ Cur.attached /\ ~Stopped(p) /\ task[p].life \in {"live", "zombie"}
              /\ task' = IF Live(p) THEN WithSignal(task, p, TSTOP) ELSE task
              /\ trc' = [trc EXCEPT !.pc = "dwait"]
              /\ UNCHANGED <<tab, nprocs, log>>
        /\ UNCHANGED <<gstop, stack>>

(* And waited for until it reports a SIGSTOP or is no more; what comes     *)
(* before is passed on with PTRACE_CONT.                                   *)
sigstop_any(p) == TRUE        \* Mutant: detached at the first stop
sigstop(p) == task[p].stop = "group" \/ task[p].cur \in {"STOP", TSTOP}
detach_waits ==
    LET p == Cur.pid
    IN  /\ trc.pc = "dwait" /\ (Reportable(p) \/ task[p].life = "gone")
        /\ \/ /\ ~Live(p)
              /\ task' = Reported(p)
              /\ Drop
              /\ UNCHANGED gstop
           \/ /\ Stopped(p) /\ sigstop(p)
              /\ task' = Untraced(task, p)
              /\ Drop
              /\ UNCHANGED gstop
           \/ /\ Stopped(p) /\ ~sigstop(p)
              /\ task' = Resumed(task, p, task[p].cur, FALSE)
              /\ gstop' = GstopAfter(p, task[p].cur)
              /\ UNCHANGED <<tab, nprocs, log, trc>>
        /\ UNCHANGED stack

-----------------------------------------------------------------------------
Empty == [p \in Pids |-> <<>>]
Start(mode) ==
    [pc |-> IF mode.launch THEN "wait" ELSE "attach", got |-> NoStatus, rsig |-> "none", i |-> 1,
     launch |-> mode.launch, third |-> mode.third, interactive |-> mode.interactive, interrupted |-> FALSE,
     waiting |-> FALSE, printing |-> 0, hide |-> mode.launch, exit_code |-> "none",
     signals |-> mode.signals, quiet |-> TRUE, robbed |-> {}]

(* After startup_child: the command, seized, is about to execute.  Or -p:  *)
(* a process, with or without a second thread, perhaps named twice.        *)
Init ==
    /\ gstop = {} /\ log = Empty /\ stack = Empty
    /\ \E mode \in Modes :
          /\ trc = Start(mode)
          /\ IF mode.launch
             THEN /\ task = [p \in Pids |-> IF p = child
                        THEN [StopsAt(NewTask(mode.calls), "trap") EXCEPT !.traced = TRUE] ELSE NoTask]
                  /\ tab = <<[Attached(NoTcb, child) EXCEPT !.pid = child, !.strace_child = TRUE]>>
             ELSE /\ task = [p \in Pids |-> IF p <= mode.threads THEN NewTask(mode.calls) ELSE NoTask]
                  /\ \E k \in 1..2 : tab = [i \in 1..k |-> [NoTcb EXCEPT !.pid = 1]]
          /\ nprocs = Len(tab)

Kernel ==
    \E p \in Pids :
       \/ EntersCall(p)
       \/ ServesCall(p)
       \/ TakesSignal(p)
       \/ JoinsGroupStop(p)
Outside ==
    \/ \E p \in Pids, s \in Signals : SendSignal(p, s)
    \/ \E g \in Leaders : SendKill(g)
    \/ interrupt
TracerStep ==
    \/ \E ok \in SUBSET Pids, intr \in BOOLEAN : startup_attach(ok, intr)
    \/ startup_attach_skips
    \/ startup_attach_ends
    \/ \E p \in Pids : WaitReturns(p)
    \/ TraceReturns
    \/ Mistaken
    \/ HandleDeath
    \/ HandleTrap
    \/ HandleExec
    \/ HandleGroupStop
    \/ HandleSignal
    \/ HandleInterrupted
    \/ trace_syscall_entering
    \/ trace_syscall_exiting
    \/ trace_syscall_fails
    \/ ptrace_restart
    \/ CleanupSkips
    \/ CleanupEnds
    \/ CleanupKills
    \/ detach
    \/ detach_waits
Next == Kernel \/ Outside \/ TracerStep

Spec == Init /\ [][Next]_vars

(* The tracer runs, and so does every task that is not stopped. *)
FairSpec == Spec /\ WF_vars(TracerStep) /\ \A p \in Pids :
    WF_vars(EntersCall(p) \/ ServesCall(p) \/ TakesSignal(p) \/ JoinsGroupStop(p))

-----------------------------------------------------------------------------
TypeOK ==
    /\ gstop \subseteq Leaders /\ nprocs \in 0..Len(tab)
    /\ trc.pc \in {"attach", "wait", "handle", "restart", "cleanup", "detach", "dwait", "mistaken", "done"}
    /\ trc.exit_code \in {"none", "exited", "killed"}
    /\ \A p \in Pids :
          /\ task[p].life \in {"none", "live", "zombie", "gone"}
          /\ task[p].stop \in {"none", "enter", "exit", "fork", "exec", "sig", "group", "trap"}
          /\ \A i \in 1..Len(log[p]) :
                log[p][i].end \in {"open", "ended", "unfinished", "unavailable", "esrch", "changed", "detached"}

(* The table: nprocs counts it, no pid is in it twice once the tasks are   *)
(* attached, the three files of a tcb are those of its own pid, and a tcb  *)
(* takes its line to be open exactly if it is, unless line_ended has been  *)
(* called for another task meanwhile (robbed).                             *)
TableSound ==
    LET used == {i \in Slots : tab[i].pid # 0}
    IN  /\ nprocs = Cardinality(used)
        /\ trc.pc # "attach" /\ ~trc.interrupted => \A i, j \in used : tab[i].pid = tab[j].pid => i = j
        /\ \A i \in used : tab[i].attached =>
              /\ tab[i].out = tab[i].pid /\ tab[i].dumpf = tab[i].pid /\ tab[i].stackf = tab[i].pid
              /\ tab[i].open => Unfinished(tab[i].out)
              /\ Unfinished(tab[i].out) => tab[i].open \/ tab[i].pid \in trc.robbed

(* A thread that has executed, now under the pid of its leader. *)
Renamed(p) == task[p].old \notin {0, p}

(* The tracer and the tasks agree: between two statuses a tcb is inside a  *)
(* call exactly when its task is in the kernel.                            *)
InSync ==
    trc.pc = "wait" =>
        \A i \in Slots : tab[i].pid # 0 /\ Live(tab[i].pid) /\ ~Renamed(tab[i].pid) =>
            tab[i].insys = (task[tab[i].pid].mode = "kernel")

(* The log of a pid has what happened to it in the order it happened, and  *)
(* a stack trace for every call in it and for nothing else.                *)
LogInOrder ==
    \A p \in Pids :
        LET told == SelectSeq(log[p], LAMBDA l : l.kind \in {"call", "sig", "killed", "exited"})
            made == SelectSeq(log[p], LAMBDA l : l.kind = "call")
        IN  /\ \A i \in 1..Len(told) - 1 : told[i].n < told[i + 1].n
            /\ stack[p] = [i \in 1..Len(made) |-> made[i].n]

(* The exit code of the tracer is that of the command, whatever its        *)
(* threads and children do, if the tracer was not interrupted.             *)
ExitMirrored ==
    trc.pc = "done" /\ trc.launch /\ ~trc.interrupted =>
        task[child].life = "gone" /\ trc.exit_code = task[child].how

(* A child whose first stop has not been reported: it has no tcb, nprocs   *)
(* does not count it, and the loop may end without it.                     *)
Unseen(p) == task[p].stop = "trap" /\ ~task[p].seen /\ task[p].n = 0

(* When the tracer is done it holds no task it has ever seen under the pid *)
(* it has, and none it let go will be stopped by the SIGSTOP sent to       *)
(* detach from it.                                                         *)
LetGo ==
    /\ trc.pc = "done" => \A p \in Pids : Live(p) /\ task[p].traced => Unseen(p) \/ Renamed(p)
    /\ \A p \in Pids : Live(p) /\ ~task[p].traced /\ TSTOP \in task[p].sig => Group(p) \in gstop

(* parse_line raises an exception for these lines. *)
parse_line_raises(l) ==
    \/ l.kind \in {"killed", "stopped", "superseded", "resumed"}
    \/ l.end \in {"changed", "detached"}

(* A line ends before the next one of its file begins, whatever signals,   *)
(* deaths, programs executed and interruptions come in between.  Except in *)
(* the log of a task whose line was open and the last one printed when     *)
(* another task was found dead in ptrace_restart with its own line open:   *)
(* line_ended clears the column of both, and "+++ exited" joins the line.  *)
LinesSeparate ==
    \A p \in Pids \ trc.robbed : \A i \in 1..Len(log[p]) - 1 : log[p][i].end # "open"

(* Every line is one that parse_line accepts, as long as no signal was     *)
(* sent, no thread but the first executed a program and the tracer was not *)
(* interrupted.                                                            *)
ParserReadsLog ==
    trc.quiet /\ ~trc.interrupted /\ (\A p \in Pids : ~Renamed(p)) =>
        \A p \in Pids : \A i \in 1..Len(log[p]) : ~parse_line_raises(log[p][i])

(* The table, the files and the tasks agree between any two statuses.      *)
TableInSync == TableSound /\ InSync

(* A log tells what happened in order, with its stack traces, in lines     *)
(* that the parser accepts.                                                *)
LogReadable == LogInOrder /\ LinesSeparate /\ ParserReadsLog

(* A tracer that is done has passed on how the command ended, and no task  *)
(* is left held or stopped by it.                                          *)
EndsClean == ExitMirrored /\ LetGo

(* The logs as TraceLog sees them: an event is told when its line is       *)
(* written; signals before the first execve are not shown.                 *)
Told(p) ==
    LET lines == SelectSeq(log[p], LAMBDA l : l.kind \in {"call", "sig", "killed", "exited"})
    IN  [i \in 1..Len(lines) |-> Event(lines[i].kind, lines[i].n)]
Due(p) ==
    IF \/ trc.pc = "restart" /\ Got = p /\ There
       \/ task[p].life = "gone" /\ ~(trc.pc = "handle" /\ Got = p)
       \/ trc.hide /\ task[p].event.k = "sig"
    THEN NoEvent ELSE task[p].event
Recording == trc.pc \notin Over \cup {"cleanup", "detach", "dwait"}

TL == INSTANCE TraceLog WITH
        Tasks <- Pids, None <- NoEvent,
        told <- [p \in Pids |-> Told(p)], due <- [p \in Pids |-> Due(p)], recording <- Recording

(* The tracer keeps the logs as TraceLog promises.                         *)
ImplementsTraceLog == TL!Spec

(* A leader that has exited is not reported while it has other threads:    *)
(* detach may wait for it for ever, and so may the loop if such a thread   *)
(* is not traced.                                                          *)
LeaderWaitedFor ==
    \E p \in Leaders :
        /\ task[p].life = "zombie" /\ ~Reportable(p)
        /\ trc.pc = "dwait" \/ \E q \in Mates(p) : Live(q) /\ ~task[q].traced

(* The tracer ends when its tasks have ended or it is interrupted, unless  *)
(* a group is left stopped or a leader that has exited is waited for.      *)
Finishes == <>[](trc.pc \in Over \/ gstop # {} \/ LeaderWaitedFor)
=============================================================================
