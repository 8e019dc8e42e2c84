----------------------------- MODULE TraceLine -----------------------------
(***************************************************************************)
(* The files alice-strace writes for one traced task: the log, the stack   *)
(* traces and the byte dump, as trace_syscall_entering and                 *)
(* trace_syscall_exiting (syscall.c) write them call by call, and how      *)
(* get_micro_ops and parse_line (_aliceparsesyscalls.py) read them back.   *)
(*                                                                         *)
(* Every row of the tables of Syscalls is a call the task may make, and    *)
(* every text a decoder can print for it is one choice of c.               *)
(***************************************************************************)
EXTENDS Syscalls

CONSTANTS MaxCalls,      \* bound: calls in a behaviour that makes several
          Several        \* the names such a behaviour draws its calls from

ASSUME TraceLineAssumption == MaxCalls \in Nat /\ Several \subseteq DOMAIN sysent[1]

VARIABLES
    pers,       \* 1, 2, 3: personality 0, 1, 2
    opt,        \* the options given to alice-strace
    hide,       \* hide_log_until_execve
    at,         \* "user", "kernel" (TCB_INSYSCALL), "exiting", "dead"; "aborted" is the tracer
    cur,        \* the call in progress: its name, its text, TCB_FILTERED
    calls,      \* how many calls were made
    log,        \* the lines of the log
    stackinfo,  \* the lines of the stack trace file: the call each belongs to
    dump        \* the chunks of the byte dump: the call, the field that is its length

vars == <<pers, opt, hide, at, cur, calls, log, stackinfo, dump>>

(* alice-record runs alice-strace -k -s 0 -ff -tt: every call is traced.   *)
AliceOptions == [trace |-> TRUE, raw |-> FALSE, stats |-> FALSE, z |-> FALSE, T |-> FALSE,
                 s0 |-> TRUE]
Options == {AliceOptions} \cup
    {[AliceOptions EXCEPT !.trace = FALSE], [AliceOptions EXCEPT !.raw = TRUE],
     [AliceOptions EXCEPT !.stats = TRUE], [AliceOptions EXCEPT !.z = TRUE],
     [AliceOptions EXCEPT !.T = TRUE], [AliceOptions EXCEPT !.s0 = FALSE]}

Idle == [name |-> "none", c |-> <<>>, filtered |-> FALSE]

-----------------------------------------------------------------------------
(* The calls.  A number beyond the table, or of a row without a decoder,   *)
(* is printed as syscall_N with its raw arguments.                         *)

undefined_scno_name == "syscall_N"
MAX_ARGS == 6

(* The texts printed for a call, of which some only under -s 0. *)
Calls(name) ==
    IF name = undefined_scno_name THEN printargs(MAX_ARGS)
    ELSE LET all == sysent[pers][name]
         IN  {c \in all : IF opt.s0 THEN c.s0 \/ \A d \in all : ~d.s0 ELSE ~c.s0}
(* Bound: of the x32 table only the rows that differ from the x86_64 ones. *)
Rows  == {n \in DOMAIN sysent[pers] :
             pers = 3 /\ n \in DOMAIN sysent[1] => sysent[3][n] # sysent[1][n]}
Names == IF calls = 0 /\ opt = AliceOptions
         THEN Rows \cup {undefined_scno_name}
         ELSE (Several \cap DOMAIN sysent[pers]) \cup IF hide THEN {"execve"} ELSE {}

Raw(name) == opt.raw \/ name = undefined_scno_name
ExitCalls == {"_exit", "exit_group"}

(* The calls whose stack trace is left empty to save time. *)
without_stacktrace ==
    {"fstat", "mmap", "munmap", "gettid", "close", "lseek", "rt_sigprocmask",
     "gettimeofday", "stat", "mprotect", undefined_scno_name}

(* Mutant: nothing at all is written for those calls. *)
output_stacktrace_skips(name) ==
    IF name \in without_stacktrace THEN stackinfo
    ELSE Append(stackinfo, [call |-> calls + 1, frames |-> TRUE])
output_stacktrace(name) ==
    Append(stackinfo, [call |-> calls + 1, frames |-> name \notin without_stacktrace])

-----------------------------------------------------------------------------
(* Lines.  end is "open" until the newline; kind tells the lines about     *)
(* calls from those about the task.                                        *)

(* Mutant: the new line starts in the middle of the open one. *)
printleader_runs_on(lines) == lines
(* A line still open is closed before a new one starts. *)
printleader(lines) ==
    IF lines # <<>> /\ Last(lines).end = "open"
    THEN [lines EXCEPT ![Len(lines)].end = "unfinished"]
    ELSE lines

Line(kind, name, text, tail, end) ==
    [kind |-> kind, name |-> name, call |-> calls + 1, text |-> text, tail |-> tail, end |-> end]

(* What is printed on entry: the decoder's text, or the raw arguments. *)
EntryTexts(name, c) ==
    IF opt.raw /\ name \notin ExitCalls
    THEN UNION {{r.in : r \in printargs(n)} : n \in 0..MAX_ARGS}
    ELSE {c.in}

(* The text that explains a result. *)
explanation_bare(c) == c.aux     \* Mutant: without its parentheses
explanation(c) == IF c.aux # <<>> THEN <<"(">> \o c.aux \o <<")">> ELSE <<>>

(* What follows ")": the result, or the error; then what explains it.  how *)
(* is "value", "errno" or "restart" (an error that restarts the call).     *)
Result(c, how) ==
    LET failed == <<"=", IF how = "restart" THEN "?" ELSE "-1", "E", "(", "v", ")">>
        shown  == CASE c.none -> <<"=", "?">>
                    [] ~c.none /\ c.err -> failed
                    [] ~c.none /\ ~c.err -> <<"=", "v">>
        raw    == IF c.err THEN <<"=", "-1", "(", "v", ")">> ELSE <<"=", "v">>
    IN  (IF Raw(cur.name) THEN raw ELSE shown \o explanation(c))
        \o IF opt.T THEN <<"<time>">> ELSE <<>>
Outcomes(c) == IF c.err THEN {"errno", "restart"} ELSE {"value"}

-----------------------------------------------------------------------------
(* trace_syscall_entering.                                                 *)

(* Bound: one call of any name, or several of those in Several. *)
MayEnter == /\ at = "user" /\ calls < MaxCalls
            /\ log # <<>> => log[1].name \in Several \cup {"execve"}

(* Filtered out by -e trace or by a path: nothing is printed. *)
EnterFiltered(name, c) ==
    /\ ~opt.trace
    /\ hide' = (hide /\ name # "execve")
    /\ cur' = [name |-> name, c |-> c, filtered |-> TRUE]
    /\ at' = "kernel"
    /\ UNCHANGED <<pers, opt, calls, log, stackinfo, dump>>

(* Only counted (-c), or before the first execve of the command. *)
EnterSilent(name, c) ==
    /\ opt.trace /\ (opt.stats \/ (hide /\ name # "execve"))
    /\ hide' = (hide /\ name # "execve")
    /\ cur' = [name |-> name, c |-> c, filtered |-> FALSE]
    /\ at' = "kernel"
    /\ UNCHANGED <<pers, opt, calls, log, stackinfo, dump>>

(* Printed.  The stack trace is written before the arguments; the decoder  *)
(* of a write also copies the bytes.  sys_exit finishes its line at once.  *)
EnterPrinted(name, c) ==
    LET decoded == ~Raw(name) \/ name \in ExitCalls
        exits   == name \in ExitCalls
    IN  /\ opt.trace /\ ~opt.stats /\ (hide => name = "execve")
        /\ decoded => c.dump # "abort"
        /\ hide' = FALSE
        /\ cur' = [name |-> name, c |-> c, filtered |-> FALSE]
        /\ stackinfo' = output_stacktrace(name)
        /\ \E text \in EntryTexts(name, c) :
              log' = Append(printleader(log),
                            Line("call", name, text, IF exits THEN <<"=", "?">> ELSE <<>>,
                                 IF exits THEN "ended" ELSE "open"))
        /\ dump' = IF decoded /\ c.dump # "none"
                   THEN Append(dump, [call |-> calls + 1, length |-> c.dump]) ELSE dump
        /\ at' = IF exits THEN "exiting" ELSE "kernel"
        /\ UNCHANGED <<pers, opt, calls>>

(* dump_bytes asserts that the buffer can be read: the tracer is killed,   *)
(* and the line it was printing, not yet flushed, is lost.                 *)
EnterAborts(name, c) ==
    /\ opt.trace /\ ~opt.stats /\ (hide => name = "execve") /\ ~Raw(name)
    /\ c.dump = "abort"
    /\ at' = "aborted"
    /\ log' = printleader(log)
    /\ UNCHANGED <<pers, opt, hide, cur, calls, stackinfo, dump>>

(* The registers of a task that is being killed cannot be read: the line   *)
(* is begun, whatever the options, with the name if it is known, and the   *)
(* task is not resumed.                                                    *)
EnterUnavailable(name) ==
    /\ MayEnter
    /\ log' = Append(printleader(log), Line("call", name, <<>>, <<>>, "open"))
    /\ cur' = [Idle EXCEPT !.name = name]
    /\ at' = "exiting"
    /\ UNCHANGED <<pers, opt, hide, calls, stackinfo, dump>>

-----------------------------------------------------------------------------
(* trace_syscall_exiting.                                                  *)

Return ==
    /\ cur' = Idle
    /\ calls' = calls + 1

(* Nothing is printed of a call that was not printed when it was entered.  *)
(* -z drops the end of a failed call, and leaves its line open.            *)
ExitQuiet ==
    /\ at = "kernel" /\ cur.name \notin ExitCalls
    /\ cur.filtered \/ hide \/ opt.stats \/ (opt.z /\ cur.c.err /\ ~Raw(cur.name))
    /\ at' = "user"
    /\ Return
    /\ UNCHANGED <<pers, opt, hide, log, stackinfo, dump>>

(* The rest of the text, the result, the newline. *)
ExitPrinted(how) ==
    /\ at = "kernel"
    /\ ~cur.filtered /\ ~hide /\ ~opt.stats /\ ~(opt.z /\ cur.c.err /\ ~Raw(cur.name))
    /\ how \in Outcomes(cur.c)
    /\ LET end == Len(log)
           out == IF Raw(cur.name) THEN <<>> ELSE cur.c.out
       IN  log' = [log EXCEPT ![end].text = @ \o out,
                              ![end].tail = Result(cur.c, how),
                              ![end].end  = "ended"]
    /\ at' = "user"
    /\ Return
    /\ UNCHANGED <<pers, opt, hide, stackinfo, dump>>

(* The registers cannot be read.  Whether the call was filtered or hidden  *)
(* is not looked at: the end of a line appears even when nothing was       *)
(* printed on entry.                                                       *)
ExitUnavailable ==
    /\ at = "kernel"
    /\ log' = IF opt.stats THEN log
              ELSE IF log # <<>> /\ Last(log).end = "open"
              THEN [log EXCEPT ![Len(log)].tail = <<"=", "?", "<unavailable>">>,
                               ![Len(log)].end = "ended"]
              ELSE Append(log, Line("rest", cur.name, <<>>, <<"=", "?", "<unavailable>">>, "ended"))
    /\ at' = "exiting"
    /\ Return
    /\ UNCHANGED <<pers, opt, hide, stackinfo, dump>>

(* The task is gone: a line says how, the open one is closed first. *)
Dies(kind) ==
    /\ at \in {"user", "kernel", "exiting"}
    /\ kind = "exited" => at = "exiting"
    /\ log' = IF opt.stats THEN log
              ELSE Append(printleader(log), Line(kind, "none", <<>>, <<>>, "ended"))
    /\ at' = "dead"
    /\ UNCHANGED <<pers, opt, hide, cur, calls, stackinfo, dump>>

-----------------------------------------------------------------------------
Init ==
    /\ pers \in 1..3
    /\ opt \in Options
    /\ hide \in BOOLEAN
    /\ hide => opt = AliceOptions
    /\ at = "user" /\ cur = Idle /\ calls = 0
    /\ log = <<>> /\ stackinfo = <<>> /\ dump = <<>>

Next ==
    \/ /\ MayEnter
       /\ \E name \in Names : \E c \in Calls(name) :
             \/ EnterFiltered(name, c)
             \/ EnterSilent(name, c)
             \/ EnterPrinted(name, c)
             \/ EnterAborts(name, c)
    \/ \E name \in Several \cup {"????"} : EnterUnavailable(name)
    \/ ExitQuiet
    \/ \E how \in {"value", "errno", "restart"} : ExitPrinted(how)
    \/ ExitUnavailable
    \/ \E kind \in {"killed", "exited"} : Dies(kind)

Spec == Init /\ [][Next]_vars

-----------------------------------------------------------------------------
(* Reading the files back.                                                 *)

(* The regular expression of parse_line: a name, "(", the arguments, ")",  *)
(* "=", a number or "?", and at most one text in parentheses that has no   *)
(* parentheses inside, after an error name or on its own.                  *)
Matches(l) ==
    LET rest == SubSeq(l.tail, 3, Len(l.tail))
        from == IF rest # <<>> /\ rest[1] = "E" THEN 2 ELSE 1
    IN  /\ l.kind = "call" /\ l.end = "ended"
        /\ l.tail[2] \in {"v", "-1", "?"}
        /\ \/ rest = <<>>
           \/ /\ Len(rest) >= from + 1
              /\ rest[from] = "(" /\ Last(rest) = ")"
              /\ \A i \in from + 1..Len(rest) - 1 : rest[i] \notin {"(", ")"}

(* The lines that may fail to match; parse_line raises an exception for    *)
(* any other.  An open line is closed, or continued, before it is read.    *)
innocent_line(l) ==
    \/ l.kind = "exited"
    \/ l.end \in {"unfinished", "open"}
    \/ l.tail # <<>> /\ Last(l.tail) = "<unavailable>"
parse_line_raises(l) == ~Matches(l) /\ ~innocent_line(l)

equivalent_syscall(name) ==
    CASE name = "pwrite64" -> "pwrite" [] name = "ftruncate64" -> "ftruncate"
      [] name = "_llseek" -> "lseek" [] OTHER -> name

Parsed == SelectSeq(log, Matches)

(* get_micro_ops: the chunks of the byte dump taken for the k-th parsed    *)
(* line begin after what the write lines before it claim: their last       *)
(* field, the one before it for pwrite, whatever the result.               *)
dumped_syscalls == {"write", "writev", "pwrite", "pwritev"}
write_size(l) ==
    LET n == FieldCount(l.text)
    IN  Field(l.text, IF equivalent_syscall(l.name) = "pwrite" THEN n - 1 ELSE n)
ClaimedBefore(k) ==
    LET before == SubSeq(Parsed, 1, k - 1)
        writes == SelectSeq(before, LAMBDA l : equivalent_syscall(l.name) \in dumped_syscalls)
    IN  [i \in 1..Len(writes) |-> [call |-> writes[i].call, length |-> write_size(writes[i])]]

(* The fields __get_micro_op reads of a line, by the position it reads     *)
(* them at (from 1).  Of open, the name first and the flags after it.      *)
Reads == [
    open |-> <<"path", "flags">>, openat |-> <<"AT_FDCWD", "path", "flags">>,
    write |-> <<"fd", "any", "size">>, pwrite |-> <<"fd", "any", "size", "offset">>,
    writev |-> <<"fd", "any", "any", "total">>,
    pwritev |-> <<"fd", "any", "any", "offset", "total">>,
    close |-> <<"fd">>, link |-> <<"path", "path2">>, rename |-> <<"path", "path2">>,
    symlink |-> <<"path", "path2">>, unlink |-> <<"path">>, lseek |-> <<"fd">>,
    truncate |-> <<"path", "length">>, ftruncate |-> <<"fd", "length">>,
    fallocate |-> <<"fd", "mode", "offset", "length">>, fsync |-> <<"fd">>,
    fdatasync |-> <<"fd">>, mkdir |-> <<"path", "mode">>, rmdir |-> <<"path">>,
    chdir |-> <<"path">>, fchdir |-> <<"fd">>, clone |-> <<"any", "=">>,
    fcntl |-> <<"fd", "cmd">>, mmap |-> <<"addr", "len", "any", "any", "fd", "offset">>,
    munmap |-> <<"addr", "len">>, msync |-> <<"addr", "len", "any">>, dup |-> <<"fd">>,
    dup2 |-> <<"fd">>, dup3 |-> <<"fd">>, fchmod |-> <<"fd">>, fchown |-> <<"fd">>,
    chmod |-> <<"path">>, chown |-> <<"path">>, ioctl |-> <<"fd">>,
    mremap |-> <<"addr", "len">>]

-----------------------------------------------------------------------------
TypeOK ==
    /\ pers \in 1..3 /\ opt \in Options /\ hide \in BOOLEAN /\ calls \in 0..MaxCalls
    /\ at \in {"user", "kernel", "exiting", "dead", "aborted"}
    /\ \A i \in 1..Len(log) :
          /\ log[i].kind \in {"call", "rest", "killed", "exited"}
          /\ log[i].end \in {"open", "ended", "unfinished"}
          /\ log[i].end = "open" => i = Len(log)
    /\ \A i \in 1..Len(stackinfo) : stackinfo[i].call \in 1..MaxCalls
    /\ \A i \in 1..Len(dump) : dump[i].call \in 1..MaxCalls

(* The calls with a text in which a bracket stays open or a separator is   *)
(* missing or doubled; of every other call the text is a list of arguments *)
(* whatever was printed on entry and on exit, failed reads included.       *)
IllFormed ==
    {"poll", "ppoll", "ioctl", "select", "pselect6", "oldselect", "connect", "bind",
     "accept", "accept4", "getsockname", "getpeername", "sendto", "recvfrom", "sendmsg",
     "recvmsg", "sendmmsg", "recvmmsg", "clone", "execve", "sysinfo", "_sysctl",
     "io_getevents", "migrate_pages"}
ArgumentsWellFormed ==
    \A i \in 1..Len(log) :
        Matches(log[i]) /\ log[i].name \notin IllFormed =>
            /\ WellFormed(log[i].text)
            /\ WellFormed(SubSeq(log[i].tail, 3, Len(log[i].tail)))

(* parse_line accepts every line alice-strace writes under the options of  *)
(* alice-record, except that of a task killed by a signal ("+++ killed by" *)
(* is not among its innocent lines), and a failed sgetmask, whose result   *)
(* has an error and an explanation.                                        *)
ParserAccepts ==
    opt = AliceOptions =>
        \A i \in 1..Len(log) :
            parse_line_raises(log[i]) => log[i].kind = "killed" \/ log[i].name = "sgetmask"

(* Every field ALICE reads by its position has the argument it takes it    *)
(* for, although it splits at every comma, those inside brackets included. *)
FieldsWhereRead ==
    opt = AliceOptions =>
        \A i \in 1..Len(log) :
            LET l == log[i]
                n == equivalent_syscall(l.name)
            IN  Matches(l) /\ n \in DOMAIN Reads
                /\ (n = "openat" => Head(l.text) = "AT_FDCWD") =>
                    /\ FieldCount(l.text) >= Len(Reads[n])
                    /\ \A k \in 1..Len(Reads[n]) :
                          Reads[n][k] = "any" \/ Head(Field(l.text, k)) = Reads[n][k]

(* The offset in the byte dump that get_micro_ops works out for a write is *)
(* where its bytes are: the writes it has counted before are the writes    *)
(* that were dumped before.  Only -e raw (which dumps nothing), -z (which  *)
(* drops lines) and -T (whose lines do not match) break this.              *)
DumpAligned ==
    \A k \in 1..Len(Parsed) :
        equivalent_syscall(Parsed[k].name) \in dumped_syscalls /\ ~opt.raw /\ ~opt.z /\ ~opt.T =>
            LET before == SelectSeq(dump, LAMBDA d : d.call < Parsed[k].call)
            IN  ClaimedBefore(k) = [i \in 1..Len(before) |-> [before[i] EXCEPT !.length = <<@>>]]

(* The k-th stack trace that get_micro_ops reads is that of the k-th line  *)
(* it parses.                                                              *)
StackAligned ==
    \A k \in 1..Len(Parsed) : ~opt.z /\ ~opt.T =>
        k <= Len(stackinfo) /\ stackinfo[k].call = Parsed[k].call

(* A line has its arguments in brackets that match, the parser accepts it  *)
(* and finds in it the fields it reads, for every call of the three tables *)
(* and every outcome of printing it.                                       *)
LinesReadBack == TypeOK /\ ArgumentsWellFormed /\ ParserAccepts /\ FieldsWhereRead

(* Line, bytes and stack trace of a call are found together again,         *)
(* although they are in three files and only counted.                      *)
FilesAligned == DumpAligned /\ StackAligned
=============================================================================
