---------------------------- MODULE CommandLine ----------------------------
(***************************************************************************)
(* The options of alice-strace (init, alice-strace.c): the getopt loop,    *)
(* the combinations that are refused, and what the accepted ones select:   *)
(* whom to trace, where the lines go, which lines carry a pid, and when    *)
(* the tracer may be interrupted.  Options that only change the text of a  *)
(* line are left to the modules that print it.                             *)
(***************************************************************************)
EXTENDS Integers, FiniteSets

CONSTANT MaxGiven      \* bound: options on the command line

ASSUME CommandLineAssumption == MaxGiven \in Nat

VARIABLE cl            \* the option variables, and what was given

INTR_NOT_SET        == 0
INTR_ANYWHERE       == 1
INTR_WHILE_WAIT     == 2
INTR_NEVER          == 3
INTR_BLOCK_TSTP_TOO == 4

Targets == {"self", "p1", "p2"}     \* -p of the tracer itself, of other processes
OutNames == {"file", "pipe"}        \* "|COMMAND" and "!COMMAND" are pipes

NoOptions == [pc |-> "none", argv |-> FALSE, given |-> 0, seen |-> {}, ffs |-> 0, qs |-> 0,
              lastI |-> 0, cflag |-> "none", D |-> FALSE, optF |-> FALSE, followfork |-> 0,
              qflag |-> 0, outfname |-> "none", tcbs |-> 0, nprocs |-> 0, user |-> FALSE, opt_intr |-> 0,
              shared |-> FALSE, pfx |-> FALSE, ignored |-> FALSE, caught |-> FALSE]

Refuse == cl' = [cl EXCEPT !.pc = "refused"]
Accept(o, next) == cl' = [next EXCEPT !.given = @ + 1, !.seen = @ \cup {o}]
Parsing == cl.pc = "options" /\ cl.given < MaxGiven

-----------------------------------------------------------------------------
(* The getopt loop.                                                        *)

(* -c and -C exclude each other, in either order. *)
cflag_option(o) ==
    LET this  == IF o = "c" THEN "only" ELSE "both"
        other == IF o = "c" THEN "both" ELSE "only"
    IN  IF cl.cflag = other THEN Refuse ELSE Accept(o, [cl EXCEPT !.cflag = this])
StatsOption(o) == Parsing /\ cflag_option(o)

FlagOption(o) ==
    /\ Parsing
    /\ \/ o = "D" /\ Accept(o, [cl EXCEPT !.D = TRUE])
       \/ o = "F" /\ Accept(o, [cl EXCEPT !.optF = TRUE])
       \/ o = "f" /\ Accept(o, [cl EXCEPT !.followfork = @ + 1, !.ffs = @ + 1])
       \/ o = "q" /\ Accept(o, [cl EXCEPT !.qflag = @ + 1, !.qs = @ + 1])
       \/ o = "u" /\ Accept(o, [cl EXCEPT !.user = TRUE])

OutputOption(name) == Parsing /\ Accept("o", [cl EXCEPT !.outfname = name])

(* -I takes 1 to 4. *)
InterruptOption(n) ==
    /\ Parsing
    /\ IF n <= 0 \/ n > INTR_BLOCK_TSTP_TOO THEN Refuse
       ELSE Accept("I", [cl EXCEPT !.opt_intr = n, !.lastI = n])

(* A tcb for every pid, even one already given; the tracer refuses itself. *)
process_opt_p_list(pid) ==
    /\ Parsing
    /\ IF pid = "self" THEN Refuse ELSE Accept(pid, [cl EXCEPT !.tcbs = @ + 1])

-----------------------------------------------------------------------------
(* What follows the loop.                                                  *)

(* Must have PROG or -p PID, not both; -D goes with PROG only; the tasks'  *)
(* own files (-ff) do not go with -c, -C nor with a pipe; -u needs root,   *)
(* and a user there is.                                                    *)
followfork_of(c) == IF c.followfork = 0 THEN (IF c.optF THEN 1 ELSE 0) ELSE c.followfork
excluded_alone(c, root, known) ==    \* Mutant: -ff is not compared with the pipe
    \/ c.argv = (c.tcbs # 0)
    \/ c.tcbs # 0 /\ c.D
    \/ followfork_of(c) >= 2 /\ c.cflag # "none"
    \/ c.user /\ ~(root /\ known)
excluded(c, root, known) ==
    \/ c.argv = (c.tcbs # 0)
    \/ c.tcbs # 0 /\ c.D
    \/ followfork_of(c) >= 2 /\ (c.cflag # "none" \/ c.outfname = "pipe")
    \/ c.user /\ ~(root /\ known)

(* One shared log: standard error, a pipe, or FILE without -ff.  -ff       *)
(* without -o is a single -f.                                              *)
redirect(c) ==
    [c EXCEPT !.shared = c.outfname # "file" \/ c.followfork < 2,
              !.followfork = IF c.outfname = "none" /\ @ >= 2 THEN 1 ELSE @]

(* A command whose output goes to a file is traced quietly and, unless -I  *)
(* says otherwise, without interruption; note that -qq is lost here.       *)
interaction_always(c) ==      \* Mutant: -I is overridden
    IF c.outfname # "none" /\ c.argv THEN [c EXCEPT !.opt_intr = INTR_NEVER, !.qflag = 1]
    ELSE [c EXCEPT !.opt_intr = IF @ = INTR_NOT_SET THEN INTR_WHILE_WAIT ELSE @]
interaction(c) ==
    LET quiet == c.outfname # "none" /\ c.argv
        dflt  == IF quiet THEN INTR_NEVER ELSE INTR_WHILE_WAIT
    IN  [c EXCEPT !.opt_intr = IF @ = INTR_NOT_SET THEN dflt ELSE @,
                  !.qflag = IF quiet THEN 1 ELSE @]

(* Fatal signals: left alone, ignored, or caught (and blocked, but while   *)
(* the tracer waits).                                                      *)
handlers(c) ==
    [c EXCEPT !.caught  = c.opt_intr = INTR_WHILE_WAIT,
              !.ignored = c.opt_intr \in {INTR_NEVER, INTR_BLOCK_TSTP_TOO}]

(* The pid before each line of an output file, looked at when the tracer   *)
(* has attached: nprocs counts the processes that could be.                *)
prefix_forks(c) == [c EXCEPT !.pfx = c.outfname # "none" /\ c.followfork = 1]    \* Mutant: -p -p forgotten
prefix(c) ==
    [c EXCEPT !.pfx = c.outfname # "none" /\ c.followfork < 2 /\ (c.followfork = 1 \/ c.nprocs > 1)]

EndOfOptions(root, known, attached) ==
    /\ cl.pc = "options" /\ attached \in 0..cl.tcbs
    /\ IF excluded(cl, root, known) THEN Refuse
       ELSE LET start == [cl EXCEPT !.followfork = followfork_of(cl), !.pc = "run", !.nprocs = attached]
            IN  cl' = prefix(handlers(interaction(redirect(start))))

-----------------------------------------------------------------------------
CommandLineInit == \E prog \in BOOLEAN : cl = [NoOptions EXCEPT !.pc = "options", !.argv = prog]

CommandLineNext ==
    \/ \E o \in {"c", "C"} : StatsOption(o)
    \/ \E o \in {"D", "F", "f", "q", "u"} : FlagOption(o)
    \/ \E name \in OutNames : OutputOption(name)
    \/ \E n \in {0, 1, 2, 3, 4, 5} : InterruptOption(n)
    \/ \E pid \in Targets : process_opt_p_list(pid)
    \/ \E root, known \in BOOLEAN, attached \in 0..MaxGiven : EndOfOptions(root, known, attached)

-----------------------------------------------------------------------------
(* Whatever the options and their order, a run that starts has a command   *)
(* or processes and not both, one kind of statistics, and own files for    *)
(* its tasks exactly when they were asked for with a FILE to name them     *)
(* after: otherwise newoutf and printleader would print nowhere.           *)
OptionsCoherent ==
    cl.pc = "run" =>
        /\ cl.argv # (cl.tcbs > 0)
        /\ cl.D => cl.argv
        /\ ~({"c", "C"} \subseteq cl.seen)
        /\ cl.shared # (cl.followfork >= 2)
        /\ ~cl.shared => cl.outfname = "file" /\ cl.ffs >= 2 /\ cl.cflag = "none"

(* Lines of different tasks in one log can be told apart: when the log is  *)
(* shared and there can be a second task, the lines of an output file      *)
(* carry the pid (on standard error printleader adds it by itself).        *)
SharedLinesLabelled ==
    cl.pc = "run" /\ cl.shared /\ (cl.ffs > 0 \/ cl.optF \/ cl.nprocs > 1) =>
        cl.pfx \/ cl.outfname = "none"

(* -I decides how the tracer is interrupted; without it the table in       *)
(* init's comment ("Default interactive setting") does.  -qq is obeyed,    *)
(* but for a command traced into a file.                                   *)
InterruptAsAsked ==
    cl.pc = "run" =>
        /\ cl.lastI # 0 => cl.opt_intr = cl.lastI
        /\ cl.lastI = 0 => cl.opt_intr = IF cl.argv /\ cl.outfname # "none"
                                         THEN INTR_NEVER ELSE INTR_WHILE_WAIT
        /\ ~(cl.caught /\ cl.ignored)
        /\ cl.qs >= 2 /\ (~cl.argv \/ cl.outfname = "none") => cl.qflag >= 2
=============================================================================
