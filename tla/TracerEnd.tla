----------------------------- MODULE TracerEnd -----------------------------
(***************************************************************************)
(* The log written through a pipe (-o '|command': strace_popen), and how   *)
(* alice-strace ends (main): the pipe is closed, its reader waited for,    *)
(* and the end of the traced command passed on as the tracer's own.  The   *)
(* trace loop is kept to what matters here: it reaps the traced command    *)
(* and the reader, in whichever order they end.                            *)
(***************************************************************************)
EXTENDS Naturals, FiniteSets, Bitwise

CONSTANTS MaxLines      \* bound: lines of the log before the last

ASSUME TracerEndAssumption == MaxLines \in Nat

VARIABLE finish
(* reader and cmd: "none", "runs", "zombie", "gone"; cmd also "forked",    *)
(* before it has closed the log, and "closed", before it executes.  pc is  *)
(* the tracer: "popen", "fork", "startup", "attach" (with -D), "trace",    *)
(* "main", "wait", "return", "end".  daemon: -D, where the process that    *)
(* starts, and makes the reader, becomes the command; its child mid forks  *)
(* the tracer.  writers: who has the write end open.  popen_pid: whether   *)
(* it is set.  Not in the code: early, the reader ended by itself;         *)
(* refused, the attach of -D failed.                                       *)

NoFinish == [pc |-> "none", cmd |-> "none", reader |-> "none"]

SIGNALS   == {2, 9}                 \* SIGINT and SIGKILL
blocked_set == {2}                  \* with -I 2, the default without -o, or of -p
Endings   == [how : {"exited"}, n : {0, 1, 255}] \cup [how : {"killed"}, n : SIGNALS]
Unended   == [how |-> "none", n |-> 0]

(* pipe and vfork; the write end is closed on exec.  The child, which      *)
(* closes its copy of it, executes the shell.                              *)
strace_popen ==
    /\ finish.pc = "popen"
    /\ finish' = [finish EXCEPT !.pc = "fork", !.reader = "runs", !.popen_pid = TRUE,
                                !.writers = {"tracer"}]

(* The pipe, or a file: startup_child forks the command, or with -D the    *)
(* process between.                                                        *)
startup_child_forks ==
    /\ finish.pc = "fork"
    /\ finish' = [finish EXCEPT !.pc = "startup", !.cmd = "forked",
                                !.writers = IF @ = {} THEN @ ELSE IF finish.daemon THEN {"cmd", "mid"}
                                            ELSE @ \cup {"cmd"}]

(* exec_or_die closes the log (fd_to_close) before anything else; only     *)
(* then does it stop for startup_child, which waits for that.              *)
fd_to_close(f) == f.writers \ {"cmd"}
exec_or_die_closes ==
    /\ finish.cmd = "forked"
    /\ finish' = [finish EXCEPT !.cmd = "closed", !.pc = IF finish.daemon THEN @ ELSE "trace",
                                !.writers = fd_to_close(finish)]

(* execv, which closes the write end in any case (set_cloexec_flag); with  *)
(* -D, after a child was waited for, mid or the reader.                    *)
set_cloexec_flag(f) == f.writers \ {"cmd"}
exec_or_die_execv ==
    /\ finish.cmd = "closed"
    /\ \/ /\ IF finish.daemon THEN finish.released ELSE finish.pc = "trace"
          /\ finish' = [finish EXCEPT !.cmd = "runs", !.writers = set_cloexec_flag(finish)]
       \/ /\ finish.daemon /\ finish.reader = "zombie"
          /\ finish' = [finish EXCEPT !.cmd = "runs", !.writers = set_cloexec_flag(finish), !.reader = "gone"]

(* startup_attach with -D: mid forks the tracer, which attaches and then   *)
(* kills mid.  If it cannot attach it has nothing to trace, and mid stays. *)
end_attach_forks ==
    /\ finish.pc = "startup" /\ finish.daemon
    /\ finish' = [finish EXCEPT !.pc = "attach", !.writers = IF "mid" \in @ THEN @ \cup {"tracer"} ELSE @]
end_attach_daemon ==
    /\ finish.pc = "attach"
    /\ \/ /\ finish.cmd # "zombie"
          /\ finish' = [finish EXCEPT !.pc = "trace", !.released = TRUE, !.writers = @ \ {"mid"}]
       \/ finish' = [finish EXCEPT !.pc = "main", !.refused = TRUE]

(* A line of the log.  With no reader left it is lost: SIGPIPE is ignored  *)
(* or only interrupts.                                                     *)
Wrote(f) == IF f.reader = "runs" /\ f.written <= MaxLines THEN [f EXCEPT !.written = @ + 1] ELSE f
PrintLine ==
    /\ finish.pc = "trace" /\ finish.cmd = "runs" /\ finish.written < MaxLines
    /\ finish' = Wrote(finish)

(* External: the command and the reader. *)
CommandEnds(e) ==
    /\ finish.cmd \in {"closed", "runs"}
    /\ finish' = [finish EXCEPT !.cmd = "zombie", !.ended = e, !.writers = @ \ {"cmd"}]
ReaderReads ==
    /\ finish.reader = "runs" /\ finish.read < finish.written
    /\ finish' = [finish EXCEPT !.read = @ + 1]
ReaderSeesEnd ==
    /\ finish.reader = "runs" /\ finish.read = finish.written /\ finish.writers = {}
    /\ finish' = [finish EXCEPT !.reader = "zombie"]
ReaderQuits ==
    /\ finish.reader = "runs" /\ ~finish.early
    /\ finish' = [finish EXCEPT !.reader = "zombie", !.early = TRUE]

-----------------------------------------------------------------------------
(* trace: the status of the reader is swallowed.  With -D the reader is no *)
(* child of the tracer.                                                    *)
trace_popen ==
    /\ finish.pc = "trace" /\ ~finish.daemon /\ finish.reader = "zombie"
    /\ finish' = [finish EXCEPT !.reader = "gone", !.popen_pid = FALSE]

(* That of the command ends the loop, after a last line.  With -D          *)
(* strace_child is 0, and its end is not taken down.                       *)
trace_exit_code(e) == IF e.how = "killed" THEN 256 | e.n ELSE e.n
trace_command ==
    /\ finish.pc = "trace" /\ finish.cmd = "zombie"
    /\ finish' = [Wrote(finish) EXCEPT !.pc = "main", !.cmd = "gone",
                                       !.exit_code = IF finish.daemon THEN @ ELSE trace_exit_code(finish.ended)]

(* A signal ends the loop: cleanup sends it on to the command and lets it  *)
(* go, which may live on.                                                  *)
trace_interrupted ==
    /\ finish.pc = "trace" /\ finish.interactive /\ finish.cmd \in {"forked", "closed", "runs"}
    /\ finish' = [finish EXCEPT !.pc = "main"]

(* main closes the log, and waits for the reader unless trace has seen its *)
(* end.  With -D the wait fails at once: the reader is no child.           *)
main_closes_late ==                        \* Mutant: the log is closed by the exit
    /\ finish.pc = "main"
    /\ finish' = [finish EXCEPT !.pc = IF finish.popen_pid THEN "wait" ELSE "return"]
main_closes ==
    /\ finish.pc = "main"
    /\ finish' = [finish EXCEPT !.writers = @ \ {"tracer"},
                                !.pc = IF finish.popen_pid THEN "wait" ELSE "return"]
main_reaps ==
    /\ finish.pc = "wait"
    /\ \/ /\ ~finish.daemon /\ finish.reader = "zombie"
          /\ finish' = [finish EXCEPT !.reader = "gone", !.pc = "return"]
       \/ finish.daemon /\ finish' = [finish EXCEPT !.pc = "return"]

(* The end: the same signal, if it is not blocked, as it is after the last *)
(* wait of an interactive tracer; else an exit status.                     *)
main_result_low(code, interactive) ==                                 \* Mutant
    IF code >= 255 THEN [how |-> "killed", n |-> code % 256] ELSE [how |-> "exited", n |-> code]
main_result(code, interactive) ==
    IF code > 255
    THEN IF interactive /\ (code % 256) \in blocked_set THEN [how |-> "exited", n |-> 128 + (code % 256)]
         ELSE [how |-> "killed", n |-> code % 256]
    ELSE [how |-> "exited", n |-> code]
main_returns ==
    /\ finish.pc = "return"
    /\ finish' = [finish EXCEPT !.pc = "end", !.result = main_result(finish.exit_code, finish.interactive)]

FinishInit ==
    \E pc \in {"popen", "fork"}, interactive, daemon \in BOOLEAN :
        finish = [pc |-> pc, reader |-> "none", cmd |-> "none", writers |-> {}, popen_pid |-> FALSE,
                  written |-> 0, read |-> 0, early |-> FALSE, interactive |-> interactive,
                  daemon |-> daemon, released |-> FALSE, refused |-> FALSE,
                  ended |-> Unended, exit_code |-> 0, result |-> Unended]

FinishNext ==
    \/ strace_popen
    \/ startup_child_forks
    \/ exec_or_die_closes
    \/ exec_or_die_execv
    \/ end_attach_forks
    \/ end_attach_daemon
    \/ PrintLine
    \/ \E e \in Endings : CommandEnds(e)
    \/ ReaderReads
    \/ ReaderSeesEnd
    \/ ReaderQuits
    \/ trace_popen
    \/ trace_command
    \/ trace_interrupted
    \/ main_closes
    \/ main_reaps
    \/ main_returns

FinishSpec == FinishInit /\ [][FinishNext]_finish

-----------------------------------------------------------------------------
(* alice-strace ends only after the process its log is piped into, which   *)
(* has then read every line, unless it ended by itself; with -D it does    *)
(* not wait.  In both modes that process can come to the end of the log:   *)
(* nobody else keeps the pipe open, not even a command that is let go and  *)
(* lives on, save one that is about to close it.  Only a process between,  *)
(* left behind when the attach of -D is refused, does.                     *)
PipeDrained ==
    /\ finish.pc = "end" /\ ~finish.daemon =>
          /\ finish.reader \in {"none", "gone"}
          /\ ~finish.early => finish.read = finish.written
    /\ finish.pc = "wait" /\ ~finish.daemon => finish.reader # "gone"
    /\ finish.pc \in {"wait", "return", "end"} =>
          /\ "tracer" \notin finish.writers
          /\ "mid" \in finish.writers => finish.refused
          /\ "cmd" \in finish.writers => finish.daemon /\ finish.cmd = "forked"

(* The command's end is passed on: its exit status whatever it is, or the  *)
(* same signal.  An interactive tracer has SIGINT and the like blocked     *)
(* then, and exits with 128 and the signal instead.  If it was interrupted *)
(* itself it exits with 0, as it does with -D, where the command is the    *)
(* process that was started and its end needs no passing on.               *)
EndPassedOn ==
    finish.pc = "end" =>
        IF finish.cmd # "gone" \/ finish.daemon THEN finish.result = [how |-> "exited", n |-> 0]
        ELSE IF finish.interactive /\ finish.ended.how = "killed" /\ finish.ended.n \in blocked_set
        THEN finish.result = [how |-> "exited", n |-> 128 + finish.ended.n]
        ELSE finish.result = finish.ended

(* The end of the command reaches whoever waits for the tracer, after the  *)
(* whole log has reached the process it is piped into (without -D; with it *)
(* the log can still be read to its end).                                  *)
EndSound == PipeDrained /\ EndPassedOn
=============================================================================
