------------------------------ MODULE Startup ------------------------------
(***************************************************************************)
(* How alice-strace begins (alice-strace.c).                               *)
(*                                                                         *)
(* The probes: before anything is traced, init forks short-lived children  *)
(* to find out which ptrace options the kernel has.  The handshake: the    *)
(* command must not execute before the tracer holds it, in each of the     *)
(* three ways of starting it: as a child that is seized, as a child that   *)
(* asks to be traced, and, with -D, as the tracer's grandparent.           *)
(***************************************************************************)
EXTENDS Naturals, FiniteSets

VARIABLES probe,     \* the probe under way: the tracer, its child c and grandchild g
          boot       \* the handshake under way: the command, the tracer and, with -D, the process between

-----------------------------------------------------------------------------
(* The probes.                                                             *)

(* supported: what the kernel can do; the verdict: what the probe found.   *)
(* The child goes through the stops of its script one by one; a process is *)
(* "none", "runs", "stop" (reported when waited for), "exit0", "exit1",    *)
(* "killed" (to be waited for) or "gone".                                  *)
NoProbe == [test |-> "none", supported |-> FALSE, opts |-> FALSE, pc |-> "none", c |-> "none",
            at |-> "none", g |-> "none", expected |-> FALSE, found |-> FALSE, verdict |-> FALSE]

(* External: where the probe's child stops next under PTRACE_SYSCALL.      *)
StopAfter(test, at, opts) ==
    CASE at = "start"     -> "SIGSTOP"
      [] at = "SIGSTOP"   -> IF test = "for_all" THEN "_exit" ELSE "fork"
      [] at = "fork"      -> IF opts THEN "EVENT_FORK" ELSE "fork returns"
      [] at = "EVENT_FORK" -> "fork returns"
      [] at = "fork returns" -> "_exit"
      [] OTHER -> "exited"

(* The probe's child runs to its next stop or exit.  PTRACE_TRACEME or the *)
(* fork may fail: it exits with 1.  With the options set, the kernel       *)
(* attaches the grandchild, which starts with a SIGSTOP of its own and may *)
(* be seen before the fork is; without them it is nobody's business.       *)
ProbeChildRuns ==
    /\ probe.c = "runs"
    /\ probe.test # "seize"                 \* that one pauses
    /\ \/ LET next == StopAfter(probe.test, probe.at, probe.opts)
          IN  IF next = "exited" THEN probe' = [probe EXCEPT !.c = "exit0"]
              ELSE probe' = [probe EXCEPT !.c = "stop", !.at = next,
                                          !.g = IF next = "EVENT_FORK" THEN "starts" ELSE @]
       \/ /\ probe.at \in {"start", "fork"}
          /\ probe' = [probe EXCEPT !.c = "exit1"]
    /\ UNCHANGED boot

GrandchildRuns ==
    /\ \/ probe.g = "starts" /\ probe' = [probe EXCEPT !.g = "stop"]
       \/ probe.g = "runs" /\ probe' = [probe EXCEPT !.g = "exit0"]
    /\ UNCHANGED boot

ProbeDies == [probe EXCEPT !.pc = "died", !.c = "gone", !.g = IF @ = "none" THEN @ ELSE "gone"]

(* test_ptrace_setoptions_followfork: wait reports the child or the        *)
(* grandchild, in any order, until there is nobody left (ECHILD).          *)
nobody_left(p) == p.c = "gone" /\ p.g \in {"none", "gone"}
followfork_waits ==
    /\ probe.test = "followfork" /\ probe.pc = "wait"
    /\ \/ /\ probe.c = "stop"
          /\ probe' = [probe EXCEPT !.c = "runs", !.opts = @ \/ (probe.at = "SIGSTOP" /\ probe.supported),
                                    !.expected = @ \/ probe.at = "EVENT_FORK"]
       \/ /\ probe.g = "stop"
          /\ probe' = [probe EXCEPT !.g = "runs", !.found = TRUE]
       \/ probe.c = "exit0" /\ probe' = [probe EXCEPT !.c = "gone"]
       \/ probe.g = "exit0" /\ probe' = [probe EXCEPT !.g = "gone"]
       \/ probe.c = "exit1" /\ probe' = ProbeDies
       \/ /\ nobody_left(probe)
          /\ probe' = [probe EXCEPT !.pc = "done", !.verdict = probe.expected /\ probe.found]
    /\ UNCHANGED boot

(* test_ptrace_setoptions_for_all: worked if a stop was marked with 0x80.  *)
trapped_any(p) == TRUE            \* Mutant: any stop will do
trapped(p) == p.at = "_exit" /\ p.opts
for_all_waits ==
    /\ probe.test = "for_all" /\ probe.pc = "wait"
    /\ \/ /\ probe.c = "stop"
          /\ probe' = [probe EXCEPT !.c = "runs", !.opts = @ \/ (probe.at = "SIGSTOP" /\ probe.supported),
                                    !.verdict = @ \/ trapped(probe)]
       \/ probe.c = "exit0" /\ probe' = [probe EXCEPT !.c = "gone", !.pc = "done"]
       \/ probe.c = "exit1" /\ probe' = ProbeDies
    /\ UNCHANGED boot

(* test_ptrace_seize: seize the child, kill it, wait for its death. *)
seize_tries ==
    /\ probe.test = "seize"
    /\ \/ /\ probe.pc = "wait" /\ probe.c = "runs"
          /\ probe' = [probe EXCEPT !.verdict = probe.supported, !.c = "killed"]
       \/ /\ probe.pc = "wait" /\ probe.c = "killed"
          /\ probe' = [probe EXCEPT !.c = "gone", !.pc = "done"]
    /\ UNCHANGED boot

ProbeInit ==
    \E t \in {"followfork", "for_all", "seize"}, s \in BOOLEAN :
        probe = [NoProbe EXCEPT !.test = t, !.supported = s, !.pc = "wait", !.c = "runs", !.at = "start"]

-----------------------------------------------------------------------------
(* The handshake.                                                          *)

(* cmd: "boot", "stopped" (by its own SIGSTOP), "waiting" (-D: in wait),   *)
(* "exec", "dead".  mid (with -D): "boot", "forks", "pause", "dead".  trc: *)
(* "wait", "attach", "cont", "release" (-D), "runs", "dead".  held: the    *)
(* tracer is attached to the command; tab: whom it has a tcb for; armed:   *)
(* the alarm of exec_or_die.  reader: with -D and -o '|command', the        *)
(* process the log is piped into, a child of the command: "runs", "zombie" *)
(* or "gone", once waited for.                                             *)
NoBoot == [mode |-> "none", cmd |-> "none", mid |-> "none", trc |-> "none", held |-> FALSE,
           reader |-> "none", tab |-> {}, armed |-> FALSE, refused |-> FALSE, outside |-> FALSE]

Parent(p) == IF p = "dead" THEN "init" ELSE "parent"      \* External: getppid

(* exec_or_die, up to where the command waits for the tracer. *)
exec_or_die_stops ==
    /\ boot.cmd = "boot"
    /\ boot' = IF boot.mode = "daemon" THEN [boot EXCEPT !.cmd = "waiting", !.armed = TRUE]
               ELSE [boot EXCEPT !.cmd = "stopped", !.held = @ \/ boot.mode = "traceme"]
    /\ UNCHANGED probe

(* It fails before: the user ids cannot be set, tracing is refused. *)
exec_or_die_fails ==
    /\ boot.cmd = "boot"
    /\ boot' = [boot EXCEPT !.cmd = "dead"]
    /\ UNCHANGED probe

(* -D: wait returns when a child has died, the process between or the      *)
(* reader of the log; not while the command is stopped by the tracer's     *)
(* PTRACE_ATTACH.                                                          *)
exec_or_die_execs ==
    /\ boot.cmd = "waiting"
    /\ \/ /\ boot.mid = "dead"
          /\ boot' = [boot EXCEPT !.cmd = "exec", !.armed = FALSE]
       \/ /\ boot.reader = "zombie"
          /\ boot' = [boot EXCEPT !.cmd = "exec", !.armed = FALSE, !.reader = "gone"]
    /\ UNCHANGED probe

(* External: the reader of the log ends. *)
ReaderDies ==
    /\ boot.reader = "runs"
    /\ boot' = [boot EXCEPT !.reader = "zombie"]
    /\ UNCHANGED probe

(* The alarm of three seconds kills a command that nobody releases. *)
AlarmFires ==
    /\ boot.armed /\ boot.cmd = "waiting"
    /\ boot' = [boot EXCEPT !.cmd = "dead", !.armed = FALSE]
    /\ UNCHANGED probe

(* Someone kills the command before it executes. *)
CommandKilled ==
    /\ boot.cmd \in {"boot", "stopped", "waiting"} /\ ~boot.outside
    /\ boot' = [boot EXCEPT !.cmd = "dead", !.outside = TRUE]
    /\ UNCHANGED probe

(* startup_child in the tracer.  A child that asked to be traced needs     *)
(* nothing: the main loop will see it stop.  A child to be seized is       *)
(* waited for until it has stopped itself; any other status is an error.   *)
startup_child_traceme ==
    /\ boot.mode = "traceme" /\ boot.trc = "wait"
    /\ boot' = [boot EXCEPT !.trc = "runs", !.tab = {"cmd"}]
    /\ UNCHANGED probe

startup_child_blind ==        \* Mutant: the tracer does not wait for the stop
    boot.trc = "wait" /\ boot' = [boot EXCEPT !.trc = "attach"]
startup_child_waits ==
    /\ boot.trc = "wait" /\ boot.cmd \in {"stopped", "dead"}
    /\ boot' = [boot EXCEPT !.trc = IF boot.cmd = "stopped" THEN "attach" ELSE "dead"]

(* If the child cannot be seized it is killed. *)
startup_child_attaches ==
    /\ boot.mode = "seize" /\ boot.trc = "attach"
    /\ \/ /\ boot.cmd # "dead"
          /\ boot' = [boot EXCEPT !.trc = "cont", !.held = TRUE]
       \/ boot' = [boot EXCEPT !.trc = "dead", !.cmd = "dead", !.refused = TRUE]
    /\ UNCHANGED probe

(* SIGCONT, and the table entry. *)
startup_child_continues ==
    /\ boot.mode = "seize" /\ boot.trc = "cont"
    /\ boot' = [boot EXCEPT !.trc = "runs", !.tab = {"cmd"},
                            !.cmd = IF @ = "stopped" THEN "exec" ELSE @]
    /\ UNCHANGED probe

(* The main loop resumes a child that asked to be traced from its stop. *)
TraceResumes ==
    /\ boot.mode = "traceme" /\ boot.trc = "runs" /\ boot.cmd = "stopped"
    /\ boot' = [boot EXCEPT !.cmd = "exec"]
    /\ UNCHANGED probe

(* -D: the child of the command looks up its parent, makes the tcb for it, *)
(* forks the tracer and pauses.                                            *)
startup_child_daemon ==
    /\ boot.mid = "boot"
    /\ boot' = [boot EXCEPT !.mid = "forks",
                            !.tab = {IF Parent(boot.cmd) = "parent" THEN "cmd" ELSE "init"}]
    /\ UNCHANGED probe
startup_attach_forks ==
    /\ boot.mid = "forks"
    /\ boot' = [boot EXCEPT !.mid = "pause", !.trc = "attach"]
    /\ UNCHANGED probe

(* The grandchild attaches, and only then releases the command by killing  *)
(* the process between; if it cannot attach it has nothing left to trace.  *)
release_first(b) == [b EXCEPT !.trc = "release", !.mid = "dead"]   \* Mutant: released without the attach
release_after(b) == [b EXCEPT !.trc = "release", !.held = TRUE]
startup_attach_daemon ==
    /\ boot.mode = "daemon" /\ boot.trc = "attach"
    /\ \/ /\ boot.cmd # "dead" \/ boot.tab = {"init"}
          /\ boot' = release_after(boot)
       \/ boot' = [boot EXCEPT !.trc = "dead", !.tab = {}, !.refused = TRUE]
    /\ UNCHANGED probe
startup_attach_releases ==
    /\ boot.mode = "daemon" /\ boot.trc = "release"
    /\ boot' = [boot EXCEPT !.trc = "runs", !.mid = "dead"]
    /\ UNCHANGED probe

BootInit ==
    \/ boot = [NoBoot EXCEPT !.mode = "seize", !.cmd = "boot", !.trc = "wait"]
    \/ boot = [NoBoot EXCEPT !.mode = "traceme", !.cmd = "boot", !.trc = "wait"]
    \/ \E reader \in {"none", "runs"} :
         boot = [NoBoot EXCEPT !.mode = "daemon", !.cmd = "boot", !.mid = "boot", !.reader = reader]

-----------------------------------------------------------------------------
StartupInit == (ProbeInit /\ boot = NoBoot) \/ (probe = NoProbe /\ BootInit)

StartupNext ==
    \/ ProbeChildRuns
    \/ GrandchildRuns
    \/ followfork_waits
    \/ for_all_waits
    \/ seize_tries
    \/ exec_or_die_stops
    \/ exec_or_die_fails
    \/ exec_or_die_execs
    \/ ReaderDies
    \/ AlarmFires
    \/ CommandKilled
    \/ startup_child_traceme
    \/ (boot.mode = "seize" /\ startup_child_waits /\ UNCHANGED probe)
    \/ startup_child_attaches
    \/ startup_child_continues
    \/ TraceResumes
    \/ startup_child_daemon
    \/ startup_attach_forks
    \/ startup_attach_daemon
    \/ startup_attach_releases

-----------------------------------------------------------------------------
(* A probe that completes says what the kernel can do, in whatever order   *)
(* the stops of its child and grandchild are seen, and no child of it is   *)
(* left behind.                                                            *)
ProbesExact ==
    probe.pc = "done" =>
        /\ probe.verdict = probe.supported
        /\ probe.c = "gone" /\ probe.g \in {"none", "gone"}

(* The command never executes before the tracer holds it: no call of it is *)
(* missed.  The exception is -D with -o '|command': if that command ends   *)
(* first, the wait meant for the process between returns for it.  What the *)
(* tracer holds is the command, unless that has died before its child      *)
(* asked who its parent is.                                                *)
HeldBeforeExec ==
    /\ boot.cmd = "exec" /\ boot.reader # "gone" => boot.held
    /\ boot.held /\ boot.tab = {"init"} => boot.cmd = "dead"

(* When the tracer has started or given up, the command is not left        *)
(* waiting for it: it executes, is dead, or waits for what is still sure   *)
(* to come (a child that asked to be traced, to be resumed).  With -D the  *)
(* alarm sees to that; the process between, though, pauses forever when    *)
(* the attach is refused.                                                  *)
NobodyStuck ==
    boot.trc \in {"runs", "dead"} =>
        /\ boot.cmd = "stopped" => boot.mode = "traceme" /\ boot.trc = "runs"
        /\ boot.cmd = "waiting" => boot.armed \/ boot.mid = "dead"
        /\ boot.mid = "pause" => boot.refused

(* The tracer finds out what the kernel can do, holds the command before   *)
(* it executes, and leaves nobody waiting, in every order of the steps of  *)
(* the processes involved.                                                 *)
StartSound == ProbesExact /\ HeldBeforeExec /\ NobodyStuck
=============================================================================
